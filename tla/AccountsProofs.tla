--------------------------- MODULE AccountsProofs ---------------------------
(***************************************************************************)
(* That accounts made by invitation have an invite of their own, that an   *)
(* invite that was settled stays so, that an administrator remains, and    *)
(* that the audit log tells what happened: for any invites, addresses,     *)
(* users, page size and concurrent requests.                               *)
(***************************************************************************)
EXTENDS
    SignupInvites, Administration, AuditTrail,
    FiniteSetTheorems, SequenceTheorems, TLAPS

Active(c) == signup[c] # NotSigningUp

\* What a registration remembers.
SignupSteps ==
    {"submit", "reserve", "validate", "expire", "email", "create", "accept", "compensate", "release"}
Attempt == [at : SignupSteps, invite : Invite, email : Email, id : Nat, now : Nat, until : Nat]

InviteTypes ==
    /\ invites \in [Invite -> InviteRow \cup {None}]
    /\ signup \in [Call -> Attempt \cup {NotSigningUp}]
    /\ accounts \in SUBSET [id : Nat, email : Email]
    /\ inviteClock \in Nat /\ signups \in Nat

\* Registrations are numbered as they begin; accounts and invites bear no later number.
Numbered ==
    /\ \A c \in Call : Active(c) => signup[c].id \in 1..signups /\ signup[c].now <= inviteClock
    /\ \A c, d \in Call : Active(c) /\ Active(d) /\ c # d => signup[c].id # signup[d].id
    /\ \A a \in accounts : a.id \in 1..signups

\* A settled row is not reserved, an accepted one names its account, no two the same.
Accepted(i) == invites[i] # None /\ invites[i].acceptedBy # None
RowsSettled ==
    /\ \A i \in Invite : invites[i] # None =>
         /\ invites[i].status # "pending" => invites[i].reservation = None
         /\ (invites[i].status = "accepted") = (invites[i].acceptedBy # None)
         /\ invites[i].acceptedBy # None => invites[i].acceptedBy \in 1..signups
    /\ \A i, j \in Invite :
         Accepted(i) /\ Accepted(j) /\ invites[i].acceptedBy = invites[j].acceptedBy => i = j

\* What a registration counts on at its step.
HasInvite(c) == InviteOf(c) # None
NotAcceptedYet(c) == signup[c].at \in {"submit", "reserve", "email", "create", "accept"} =>
    \A i \in Invite : invites[i] # None => invites[i].acceptedBy # signup[c].id
NoAccountYet(c) == signup[c].at \in {"submit", "reserve", "validate", "expire", "email", "create"} =>
    \A a \in accounts : a.id # signup[c].id
GivenUp(c) == signup[c].at = "release" =>
    \A a \in accounts : a.id = signup[c].id => a.id \in orphans
Reserved(c) == Reserving(c) /\ InviteOf(c).status = "pending" =>
        InviteOf(c).reservation = signup[c].id /\ InviteOf(c).reservedUntil = signup[c].until
AttemptsHold == \A c \in Call : Active(c) =>
    HasInvite(c) /\ NotAcceptedYet(c) /\ NoAccountYet(c) /\ GivenUp(c) /\ Reserved(c)

\* Every account is left to the administrator, being made, or named by an invite.
AccountedFor(a) ==
    \/ a.id \in orphans
    \/ \E c \in Call : Active(c) /\ signup[c].id = a.id
    \/ \E i \in Invite : invites[i] # None /\ invites[i].acceptedBy = a.id
AccountsAccounted == \A a \in accounts : AccountedFor(a)

SignupInv ==
    /\ InviteTypes /\ Numbered /\ RowsSettled /\ AttemptsHold
    /\ AccountsAccounted /\ OneSignupAtATime

-----------------------------------------------------------------------------
(*********************** what one registration can move ********************)

\* A row is new, or was pending; it is reserved anew only when it may be, and
\* accepted only for the registration id.
RowMoves(id, i) ==
    /\ invites'[i] \in InviteRow
    /\ invites'[i].status # "pending" => invites'[i].reservation = None
    /\ (invites'[i].status = "accepted") = (invites'[i].acceptedBy # None)
    /\ invites'[i].acceptedBy \in {None, id}
    /\ invites[i] # None =>
         /\ invites[i].status = "pending"
         /\ invites'[i].status = "pending" =>
              \/ invites[i].reservation \in {None, id}
              \/ invites[i].reservedUntil <= inviteClock

RowsMove(id) ==
    /\ invites' \in [Invite -> InviteRow \cup {None}]
    /\ \A i \in Invite : invites'[i] = invites[i] \/ RowMoves(id, i)
    /\ \A i, j \in Invite : invites'[i] # invites[i] /\ invites'[j] # invites[j] => i = j
    /\ \A i, j \in Invite :
         invites'[i] # invites[i] /\ invites'[i] # None /\ invites'[i].acceptedBy # None
             /\ invites[j] # None => invites[j].acceptedBy # invites'[i].acceptedBy

\* No account but that of the registration id appears; nothing counted goes back.
AccountsMove(id) ==
    /\ accounts' \in SUBSET [id : Nat, email : Email]
    /\ \A a \in accounts' : a \in accounts \/ a.id = id
    /\ orphans \subseteq orphans'
    /\ inviteClock' \in Nat /\ inviteClock <= inviteClock'
    /\ signups' \in Nat /\ signups <= signups'

\* The registrations that are not numbered id stay as they are.
OthersWait(id) == \A d \in Call : Active(d) /\ signup[d].id # id => signup'[d] = signup[d]

Effect(id) ==
    /\ id \in 1..signups' \cup {None}
    /\ RowsMove(id) /\ AccountsMove(id) /\ OthersWait(id)
    /\ signup' \in [Call -> Attempt \cup {NotSigningUp}]

LEMMA Nulls == None \notin Nat /\ None \notin InviteRow /\ \A i, j \in Nat : None \notin i..j
BY NoneAssumption, RowAssumption

\* A registration is active exactly when it remembers something.
LEMMA ActiveMeans ==
    ASSUME InviteTypes, NEW c \in Call
    PROVE  /\ Active(c) <=> signup[c] \in Attempt
           /\ Active(c) <=> signup[c].at \in SignupSteps
           /\ Active(c) => signup[c].invite \in Invite /\ signup[c].email \in Email
                             /\ signup[c].id \in Nat /\ signup[c].now \in Nat /\ signup[c].until \in Nat
<1>1. NotSigningUp.at = "idle" /\ "idle" \notin SignupSteps
  BY DEF NotSigningUp, SignupSteps
<1>2. \A s \in Attempt : s.at \in SignupSteps
  BY DEF Attempt
<1>3. signup[c] \in Attempt \/ signup[c] = NotSigningUp
  BY DEF InviteTypes
<1>4. Active(c) <=> signup[c] \in Attempt
  BY <1>1, <1>2, <1>3 DEF Active
<1>5. Active(c) <=> signup[c].at \in SignupSteps
  BY <1>1, <1>2, <1>3, <1>4 DEF Active
<1> QED
  BY <1>4, <1>5 DEF Attempt

LEMMA RowMeans ==
    ASSUME InviteTypes, NEW i \in Invite, invites[i] # None
    PROVE  invites[i] \in InviteRow
BY DEF InviteTypes

\* A registration that is not active reserves nothing.
LEMMA NotSigningUpAtRest ==
    /\ \A c \in Call : Reserving(c) => Active(c)
    /\ \A c \in Call : Reserving(c)' => Active(c)'
BY DEF Reserving, Active, NotSigningUp

\* What a step leaves of the rows.
LEMMA RowsStaySettled ==
    ASSUME SignupInv, NEW id, Effect(id)
    PROVE  RowsSettled'
<1> USE Nulls
<1>1. ASSUME NEW i \in Invite, invites'[i] # None
      PROVE  /\ invites'[i].status # "pending" => invites'[i].reservation = None
             /\ (invites'[i].status = "accepted") = (invites'[i].acceptedBy # None)
             /\ invites'[i].acceptedBy # None => invites'[i].acceptedBy \in 1..signups'
  <2>1. CASE invites'[i] = invites[i]
    <3>1. invites[i].acceptedBy # None => invites[i].acceptedBy \in 1..signups
      BY <1>1, <2>1 DEF SignupInv, RowsSettled
    <3>2. invites'[i].acceptedBy # None => invites'[i].acceptedBy \in 1..signups'
      BY <3>1, <2>1 DEF SignupInv, Effect, AccountsMove, InviteTypes
    <3> QED
      BY <1>1, <2>1, <3>2 DEF SignupInv, RowsSettled
  <2>2. CASE RowMoves(id, i)
    BY <2>2 DEF RowMoves, Effect
  <2> QED
    BY <2>1, <2>2 DEF Effect, RowsMove
<1>2. ASSUME NEW i \in Invite, NEW j \in Invite, Accepted(i)', Accepted(j)',
             invites'[i].acceptedBy = invites'[j].acceptedBy
      PROVE  i = j
  <2>1. CASE invites'[i] = invites[i] /\ invites'[j] = invites[j]
    BY <1>2, <2>1 DEF SignupInv, RowsSettled, Accepted
  <2>2. CASE invites'[i] # invites[i] /\ invites'[j] # invites[j]
    BY <2>2 DEF Effect, RowsMove
  <2>3. CASE invites'[i] # invites[i] /\ invites'[j] = invites[j]
    BY <1>2, <2>3 DEF Effect, RowsMove, Accepted
  <2>4. CASE invites'[i] = invites[i] /\ invites'[j] # invites[j]
    BY <1>2, <2>4 DEF Effect, RowsMove, Accepted
  <2> QED
    BY <2>1, <2>2, <2>3, <2>4
<1> QED
  BY <1>1, <1>2 DEF RowsSettled

\* What a registration counts on is not taken from it by another one.
LEMMA OthersHold ==
    ASSUME SignupInv, NEW id, Effect(id), NEW d \in Call, Active(d), signup[d].id # id
    PROVE  /\ signup'[d] = signup[d]
           /\ (HasInvite(d) /\ NotAcceptedYet(d) /\ NoAccountYet(d) /\ GivenUp(d) /\ Reserved(d))'
           /\ Reserving(d)' => Reserving(d)
<1> USE Nulls
<1>1. signup'[d] = signup[d]
  BY DEF Effect, OthersWait
<1>2. /\ signup[d] \in Attempt /\ signup[d].invite \in Invite
      /\ signup[d].id \in Nat /\ signup[d].until \in Nat
  BY ActiveMeans DEF SignupInv
<1>3. HasInvite(d) /\ NotAcceptedYet(d) /\ NoAccountYet(d) /\ GivenUp(d) /\ Reserved(d)
  BY DEF SignupInv, AttemptsHold
<1>4. \A i \in Invite : invites'[i] = invites[i] \/ RowMoves(id, i)
  BY DEF Effect, RowsMove
<1>5. HasInvite(d)'
  BY <1>1, <1>2, <1>3, <1>4 DEF HasInvite, InviteOf, RowMoves
<1>6. NotAcceptedYet(d)'
  BY <1>1, <1>2, <1>3, <1>4 DEF NotAcceptedYet, RowMoves
<1>7. NoAccountYet(d)'
  BY <1>1, <1>3 DEF NoAccountYet, Effect, AccountsMove
<1>8. GivenUp(d)'
  BY <1>1, <1>3 DEF GivenUp, Effect, AccountsMove
<1>9. Reserving(d)' => Reserving(d)
  <2>1. inviteClock \in Nat /\ inviteClock' \in Nat /\ inviteClock <= inviteClock'
    BY DEF Effect, AccountsMove, SignupInv, InviteTypes
  <2>2. signup[d].until > inviteClock' => signup[d].until > inviteClock
    BY <2>1, <1>2
  <2> QED
    BY <2>2, <1>1 DEF Reserving
<1>10. Reserved(d)'
  <2> DEFINE i == signup[d].invite
  <2> SUFFICES ASSUME Reserving(d)', invites'[i].status = "pending"
      PROVE  invites'[i].reservation = signup[d].id /\ invites'[i].reservedUntil = signup[d].until
    BY <1>1 DEF Reserved, InviteOf
  <2>1. CASE invites'[i] = invites[i]
    BY <1>3, <1>9, <2>1 DEF Reserved, InviteOf
  <2>2. CASE RowMoves(id, i)
    <3>1. invites[i] # None
      BY <1>3 DEF HasInvite, InviteOf
    <3>2. invites[i].status = "pending"
      BY <2>2, <3>1 DEF RowMoves
    <3>3. invites[i].reservation = signup[d].id /\ invites[i].reservedUntil = signup[d].until
      BY <1>3, <1>9, <3>2 DEF Reserved, InviteOf
    <3>4. invites[i].reservedUntil > inviteClock
      BY <1>9, <3>3 DEF Reserving
    <3>5. invites[i].reservation \in {None, id} \/ invites[i].reservedUntil <= inviteClock
      BY <2>2, <3>1 DEF RowMoves
    <3>6. ~(invites[i].reservedUntil <= inviteClock)
      BY <3>3, <3>4, <1>2 DEF SignupInv, InviteTypes
    <3> QED
      BY <3>3, <3>5, <3>6, <1>2
  <2> QED
    BY <2>1, <2>2, <1>2, <1>4
<1> QED
  BY <1>1, <1>5, <1>6, <1>7, <1>8, <1>9, <1>10

\* An account that another registration made stays accounted for.
LEMMA OthersAccounted ==
    ASSUME SignupInv, NEW id, Effect(id), NEW a \in accounts', a.id # id
    PROVE  AccountedFor(a)' /\ a \in accounts
<1> USE Nulls
<1>1. a \in accounts /\ AccountedFor(a)
  BY DEF Effect, AccountsMove, SignupInv, AccountsAccounted
<1>2. CASE a.id \in orphans
  BY <1>1, <1>2 DEF AccountedFor, Effect, AccountsMove
<1>3. CASE \E c \in Call : Active(c) /\ signup[c].id = a.id
  <2>1. PICK c \in Call : Active(c) /\ signup[c].id = a.id
    BY <1>3
  <2>2. signup'[c] = signup[c]
    BY <2>1 DEF Effect, OthersWait
  <2>3. Active(c)' /\ signup'[c].id = a.id
    BY <2>1, <2>2 DEF Active
  <2> QED
    BY <1>1, <2>3 DEF AccountedFor
<1>4. CASE \E i \in Invite : invites[i] # None /\ invites[i].acceptedBy = a.id
  <2>1. PICK i \in Invite : invites[i] # None /\ invites[i].acceptedBy = a.id
    BY <1>4
  <2>2. a.id \in Nat
    BY <1>1 DEF SignupInv, InviteTypes
  <2>3. invites[i].status = "accepted"
    BY <2>1, <2>2 DEF SignupInv, RowsSettled
  <2>4. invites'[i] = invites[i]
    BY <2>1, <2>3 DEF Effect, RowsMove, RowMoves
  <2> QED
    BY <1>1, <2>1, <2>4 DEF AccountedFor
<1> QED
  BY <1>1, <1>2, <1>3, <1>4 DEF AccountedFor

\* A step of nobody's registration keeps the invariant.
LEMMA QuietStep ==
    ASSUME SignupInv, Effect(None), signup' = signup
    PROVE  SignupInv'
<1> USE Nulls
<1>1. ASSUME NEW d \in Call, Active(d)'
      PROVE  Active(d) /\ signup[d].id # None /\ signup[d].id \in 1..signups
  BY <1>1 DEF Active, SignupInv, Numbered
<1>2. InviteTypes'
  BY DEF InviteTypes, Effect, RowsMove, AccountsMove
<1>3. Numbered'
  <2>1. \A d \in Call : Active(d)' => signup'[d].id \in 1..signups' /\ signup'[d].now <= inviteClock'
    <3> SUFFICES ASSUME NEW d \in Call, Active(d)'
        PROVE  signup[d].id \in 1..signups' /\ signup[d].now <= inviteClock'
      OBVIOUS
    <3>1. signup[d].id \in 1..signups /\ signup[d].now <= inviteClock /\ signup[d].now \in Nat
      BY <1>1, ActiveMeans DEF SignupInv, Numbered
    <3> QED
      BY <3>1 DEF SignupInv, InviteTypes, Effect, AccountsMove
  <2>2. \A c, d \in Call : Active(c)' /\ Active(d)' /\ c # d => signup'[c].id # signup'[d].id
    BY <1>1 DEF SignupInv, Numbered
  <2>3. \A a \in accounts' : a.id \in 1..signups'
    <3> SUFFICES ASSUME NEW a \in accounts' PROVE a.id \in 1..signups'
      OBVIOUS
    <3>1. a.id # None
      BY DEF Effect, AccountsMove
    <3>2. a.id \in 1..signups
      BY <3>1 DEF SignupInv, Numbered, Effect, AccountsMove
    <3> QED
      BY <3>2 DEF SignupInv, InviteTypes, Effect, AccountsMove
  <2> QED
    BY <2>1, <2>2, <2>3 DEF Numbered
<1>4. RowsSettled'
  BY RowsStaySettled
<1>5. AttemptsHold'
  <2> SUFFICES ASSUME NEW d \in Call, Active(d)'
      PROVE  (HasInvite(d) /\ NotAcceptedYet(d) /\ NoAccountYet(d) /\ GivenUp(d) /\ Reserved(d))'
    BY DEF AttemptsHold
  <2> QED
    BY <1>1, OthersHold
<1>6. AccountsAccounted'
  <2> SUFFICES ASSUME NEW a \in accounts' PROVE AccountedFor(a)'
    BY DEF AccountsAccounted
  <2>1. a.id # None
    BY DEF Effect, AccountsMove
  <2> QED
    BY <2>1, OthersAccounted
<1>7. OneSignupAtATime'
  <2> SUFFICES ASSUME NEW c \in Call, NEW d \in Call, c # d, Reserving(c)', Reserving(d)'
      PROVE  signup'[c].invite # signup'[d].invite
    BY DEF OneSignupAtATime
  <2>1. Active(c) /\ Active(d)
    BY NotSigningUpAtRest DEF Active
  <2>2. Reserving(c) /\ Reserving(d)
    BY <1>1, <2>1, OthersHold DEF Active
  <2> QED
    BY <2>2 DEF SignupInv, OneSignupAtATime
<1> QED
  BY <1>2, <1>3, <1>4, <1>5, <1>6, <1>7 DEF SignupInv

\* A step of the registration c keeps the invariant, when c finds what it counts on.
LEMMA SignupStep ==
    ASSUME SignupInv, NEW c \in Call, NEW id \in Nat, Effect(id),
           \A d \in Call \ {c} : signup'[d] = signup[d],
           Active(c) => signup[c].id = id,
           ~Active(c) => id \notin 1..signups,
           Active(c)' =>
             /\ signup'[c].id = id
             /\ signup'[c].now <= inviteClock'
             /\ (HasInvite(c) /\ NotAcceptedYet(c) /\ NoAccountYet(c) /\ GivenUp(c) /\ Reserved(c))',
           \A a \in accounts' : a.id = id => AccountedFor(a)',
           Reserving(c)' =>
             \A d \in Call \ {c} : Reserving(d) => signup'[c].invite # signup[d].invite
    PROVE  SignupInv'
<1> USE Nulls
<1>1. ASSUME NEW d \in Call, Active(d)', d # c
      PROVE  Active(d) /\ signup[d].id # id /\ signup[d].id \in 1..signups
  BY <1>1 DEF Active, SignupInv, Numbered
<1>2. InviteTypes'
  BY DEF InviteTypes, Effect, RowsMove, AccountsMove
<1>3. id \in 1..signups'
  BY DEF Effect
<1>4. Numbered'
  <2>1. ASSUME NEW d \in Call, Active(d)'
        PROVE  signup'[d].id \in 1..signups' /\ signup'[d].now <= inviteClock'
    <3>1. CASE d = c
      BY <2>1, <3>1, <1>3
    <3>2. CASE d # c
      <4>1. signup[d].id \in 1..signups /\ signup[d].now <= inviteClock /\ signup[d].now \in Nat
        BY <2>1, <3>2, <1>1, ActiveMeans DEF SignupInv, Numbered
      <4> QED
        BY <3>2, <4>1 DEF SignupInv, InviteTypes, Effect, AccountsMove
    <3> QED
      BY <3>1, <3>2
  <2>2. ASSUME NEW d \in Call, NEW e \in Call, Active(d)', Active(e)', d # e
        PROVE  signup'[d].id # signup'[e].id
    <3>1. CASE d = c
      BY <2>2, <3>1, <1>1
    <3>2. CASE e = c
      BY <2>2, <3>2, <1>1
    <3>3. CASE d # c /\ e # c
      BY <2>2, <3>3, <1>1 DEF SignupInv, Numbered
    <3> QED
      BY <3>1, <3>2, <3>3
  <2>3. ASSUME NEW a \in accounts' PROVE a.id \in 1..signups'
    <3>1. CASE a.id = id
      BY <3>1, <1>3
    <3>2. CASE a.id # id
      <4>1. a.id \in 1..signups
        BY <3>2 DEF SignupInv, Numbered, Effect, AccountsMove
      <4> QED
        BY <4>1 DEF SignupInv, InviteTypes, Effect, AccountsMove
    <3> QED
      BY <3>1, <3>2
  <2> QED
    BY <2>1, <2>2, <2>3 DEF Numbered
<1>5. RowsSettled'
  BY RowsStaySettled
<1>6. AttemptsHold'
  <2> SUFFICES ASSUME NEW d \in Call, Active(d)'
      PROVE  (HasInvite(d) /\ NotAcceptedYet(d) /\ NoAccountYet(d) /\ GivenUp(d) /\ Reserved(d))'
    BY DEF AttemptsHold
  <2>1. CASE d = c
    BY <2>1
  <2>2. CASE d # c
    BY <2>2, <1>1, OthersHold
  <2> QED
    BY <2>1, <2>2
<1>7. AccountsAccounted'
  BY OthersAccounted DEF AccountsAccounted
<1>8. OneSignupAtATime'
  <2> SUFFICES ASSUME NEW d \in Call, NEW e \in Call, d # e, Reserving(d)', Reserving(e)'
      PROVE  signup'[d].invite # signup'[e].invite
    BY DEF OneSignupAtATime
  <2>1. Active(d)' /\ Active(e)'
    BY NotSigningUpAtRest
  <2>2. \A x \in {d, e} : x # c => Reserving(x) /\ signup'[x].invite = signup[x].invite
    BY <1>1, <2>1, OthersHold
  <2>3. CASE d = c
    BY <2>2, <2>3
  <2>4. CASE e = c
    BY <2>2, <2>4
  <2>5. CASE d # c /\ e # c
    BY <2>2, <2>5 DEF SignupInv, OneSignupAtATime
  <2> QED
    BY <2>3, <2>4, <2>5
<1> QED
  BY <1>2, <1>4, <1>5, <1>6, <1>7, <1>8 DEF SignupInv

-----------------------------------------------------------------------------
(************************* the steps of a registration *********************)

LEMMA Stepping ==
    ASSUME InviteTypes, NEW c \in Call, Active(c), NEW step \in SignupSteps, StepTo(c, step)
    PROVE  /\ signup' \in [Call -> Attempt \cup {NotSigningUp}]
           /\ \A d \in Call \ {c} : signup'[d] = signup[d]
           /\ signup'[c].at = step /\ signup'[c].invite = signup[c].invite
           /\ signup'[c].email = signup[c].email /\ signup'[c].id = signup[c].id
           /\ signup'[c].now = signup[c].now /\ signup'[c].until = signup[c].until
<1> DEFINE m == [signup[c] EXCEPT !.at = step]
<1>1. signup' = [signup EXCEPT ![c] = m]
  BY DEF StepTo
<1>2. /\ m \in Attempt /\ m.at = step
      /\ m.invite = signup[c].invite /\ m.email = signup[c].email /\ m.id = signup[c].id
      /\ m.now = signup[c].now /\ m.until = signup[c].until
  BY ActiveMeans DEF Attempt
<1> HIDE DEF m
<1> QED
  BY <1>1, <1>2 DEF InviteTypes

LEMMA Ending ==
    ASSUME InviteTypes, NEW c \in Call, EndSignup(c)
    PROVE  /\ signup' \in [Call -> Attempt \cup {NotSigningUp}]
           /\ \A d \in Call \ {c} : signup'[d] = signup[d]
           /\ ~Active(c)'
           /\ ~Reserving(c)'
<1>1. /\ signup' \in [Call -> Attempt \cup {NotSigningUp}]
      /\ \A d \in Call \ {c} : signup'[d] = signup[d]
      /\ signup'[c] = NotSigningUp
  BY DEF InviteTypes, EndSignup
<1> QED
  BY <1>1, NotSigningUpAtRest DEF Active

\* A step of c alone is a step of nobody else.
LEMMA OnlyOne ==
    ASSUME SignupInv, NEW c \in Call, Active(c), \A d \in Call \ {c} : signup'[d] = signup[d]
    PROVE  OthersWait(signup[c].id) /\ signup[c].id \in 1..signups /\ signup[c].id \in Nat
BY ActiveMeans DEF OthersWait, SignupInv, Numbered

LEMMA RowsStay ==
    ASSUME SignupInv, NEW id, UNCHANGED invites
    PROVE  RowsMove(id)
BY DEF RowsMove, SignupInv, InviteTypes

LEMMA AccountsStay ==
    ASSUME SignupInv, NEW id, UNCHANGED <<accounts, inviteClock, signups>>, orphans \subseteq orphans'
    PROVE  AccountsMove(id)
BY DEF AccountsMove, SignupInv, InviteTypes

\* One row changes, as a row may.
LEMMA OneRowMoves ==
    ASSUME SignupInv, NEW id, NEW i \in Invite, NEW row, invites' = [invites EXCEPT ![i] = row],
           RowMoves(id, i),
           row.acceptedBy # None =>
               \A j \in Invite : invites[j] # None => invites[j].acceptedBy # row.acceptedBy
    PROVE  RowsMove(id) /\ invites'[i] = row /\ \A j \in Invite \ {i} : invites'[j] = invites[j]
<1>1. invites'[i] = row /\ \A j \in Invite \ {i} : invites'[j] = invites[j]
  BY DEF SignupInv, InviteTypes
<1>2. row \in InviteRow
  BY <1>1 DEF RowMoves
<1>3. invites' \in [Invite -> InviteRow \cup {None}]
  BY <1>2 DEF SignupInv, InviteTypes
<1> QED
  BY <1>1, <1>3 DEF RowsMove

\* A row that no longer is reserved.
LEMMA UnreservedRow ==
    ASSUME NEW row \in InviteRow, NEW status \in {"pending", "accepted", "revoked", "expired"}
    PROVE  /\ Unreserved(row, status) \in InviteRow
           /\ Unreserved(row, status).status = status
           /\ Unreserved(row, status).reservation = None
           /\ Unreserved(row, status).acceptedBy = row.acceptedBy
BY DEF Unreserved, InviteRow

\* A pending row of a registration at work.
LEMMA PendingRow ==
    ASSUME SignupInv, NEW i \in Invite, invites[i] # None, invites[i].status = "pending"
    PROVE  invites[i] \in InviteRow /\ invites[i].acceptedBy = None
BY RowMeans DEF SignupInv, RowsSettled

LEMMA AtWork ==
    ASSUME SignupInv, NEW c \in Call, NEW step \in SignupSteps, SigningUpAt(c, step)
    PROVE  /\ Active(c) /\ signup[c] \in Attempt /\ signup[c].invite \in Invite
           /\ signup[c].id \in 1..signups /\ signup[c].id \in Nat /\ signup[c].until \in Nat
           /\ signup[c].now \in Nat /\ signup[c].now <= inviteClock
           /\ invites[signup[c].invite] # None
           /\ HasInvite(c) /\ NotAcceptedYet(c) /\ NoAccountYet(c) /\ GivenUp(c) /\ Reserved(c)
<1>1. Active(c)
  BY ActiveMeans DEF SignupInv, SigningUpAt
<1> QED
  BY <1>1, ActiveMeans DEF SignupInv, Numbered, AttemptsHold, HasInvite, InviteOf

LEMMA CreateInviteKeeps ==
    ASSUME SignupInv, NEW i \in Invite, createInvite(i)
    PROVE  SignupInv'
<1>1. PICK e \in InviteAddress, ttl \in InviteDays : invites' = [invites EXCEPT ![i] = NewInvite(e, ttl)]
  BY DEF createInvite
<1>2. /\ NewInvite(e, ttl) \in InviteRow /\ NewInvite(e, ttl).reservation = None
      /\ NewInvite(e, ttl).acceptedBy = None /\ NewInvite(e, ttl).status = "pending"
  BY InviteAssumption DEF NewInvite, InviteRow, InviteDays, SignupInv, InviteTypes
<1>3. invites[i] = None /\ invites'[i] = NewInvite(e, ttl)
  BY <1>1 DEF createInvite, SignupInv, InviteTypes
<1>4. RowMoves(None, i)
  BY <1>2, <1>3 DEF RowMoves
<1>5. RowsMove(None)
  BY <1>1, <1>2, <1>4, OneRowMoves
<1>6. Effect(None) /\ signup' = signup
  BY <1>5, AccountsStay DEF createInvite, Effect, OthersWait, SignupInv, InviteTypes
<1> QED
  BY <1>6, QuietStep

LEMMA RevokeInviteKeeps ==
    ASSUME SignupInv, NEW i \in Invite, revokeInvite(i)
    PROVE  SignupInv'
<1> DEFINE row == Unreserved(invites[i], "revoked")
<1>1. invites[i] \in InviteRow /\ invites[i].acceptedBy = None /\ invites[i].status = "pending"
  BY PendingRow DEF revokeInvite
<1>2. row \in InviteRow /\ row.status = "revoked" /\ row.reservation = None /\ row.acceptedBy = None
  BY <1>1, UnreservedRow
<1>3. invites' = [invites EXCEPT ![i] = row]
  BY DEF revokeInvite
<1> HIDE DEF row
<1>4. invites'[i] = row
  BY <1>3 DEF SignupInv, InviteTypes
<1>5. RowMoves(None, i)
  BY <1>1, <1>2, <1>4 DEF RowMoves
<1>6. RowsMove(None)
  BY <1>2, <1>3, <1>5, OneRowMoves
<1>7. Effect(None) /\ signup' = signup
  BY <1>6, AccountsStay DEF revokeInvite, Effect, OthersWait, SignupInv, InviteTypes
<1> QED
  BY <1>7, QuietStep

LEMMA InviteTickKeeps ==
    ASSUME SignupInv, InviteTick
    PROVE  SignupInv'
<1>1. inviteClock \in Nat /\ inviteClock' = inviteClock + 1
  BY DEF InviteTick, SignupInv, InviteTypes
<1>2. AccountsMove(None)
  BY <1>1 DEF InviteTick, AccountsMove, SignupInv, InviteTypes
<1>3. Effect(None) /\ signup' = signup
  BY <1>2, RowsStay DEF InviteTick, Effect, OthersWait, SignupInv, InviteTypes
<1> QED
  BY <1>3, QuietStep

\* A registration goes to a step that finds what it counts on.
LEMMA StepKeeps ==
    ASSUME SignupInv, NEW c \in Call, NEW now \in SignupSteps, NEW step \in SignupSteps,
           SigningUpAt(c, now), StepTo(c, step),
           RowsMove(signup[c].id), AccountsMove(signup[c].id),
           (NotAcceptedYet(c) /\ NoAccountYet(c) /\ GivenUp(c) /\ Reserved(c))',
           Reserving(c)' => Reserving(c)
    PROVE  SignupInv'
<1> DEFINE id == signup[c].id
<1>1. /\ Active(c) /\ id \in 1..signups /\ id \in Nat /\ signup[c].invite \in Invite
      /\ signup[c].now \in Nat /\ signup[c].now <= inviteClock
      /\ invites[signup[c].invite] # None
  BY AtWork
<1>2. /\ signup' \in [Call -> Attempt \cup {NotSigningUp}]
      /\ \A d \in Call \ {c} : signup'[d] = signup[d]
      /\ signup'[c].at = step /\ signup'[c].invite = signup[c].invite
      /\ signup'[c].id = id /\ signup'[c].now = signup[c].now
  BY <1>1, Stepping DEF SignupInv
<1>3. id \in 1..signups'
  BY <1>1 DEF AccountsMove, SignupInv, InviteTypes
<1>4. Effect(id)
  BY <1>1, <1>2, <1>3, OnlyOne DEF Effect
<1>5. signup'[c].now <= inviteClock'
  BY <1>1, <1>2 DEF AccountsMove, SignupInv, InviteTypes
<1>6. HasInvite(c)'
  BY <1>1, <1>2, Nulls DEF HasInvite, InviteOf, RowsMove, RowMoves
<1>7. ASSUME Active(c)', NEW a \in accounts', a.id = id PROVE AccountedFor(a)'
  BY <1>2, <1>7 DEF AccountedFor
<1>8. Active(c)'
  BY <1>2 DEF Active, NotSigningUp, SignupSteps
<1>9. Reserving(c)' => \A d \in Call \ {c} : Reserving(d) => signup'[c].invite # signup[d].invite
  BY <1>2 DEF SignupInv, OneSignupAtATime
<1> HIDE DEF id
<1> QED
  BY <1>1, <1>2, <1>4, <1>5, <1>6, <1>7, <1>8, <1>9, SignupStep DEF id

\* A registration ends; what it made is accounted for.
LEMMA EndKeeps ==
    ASSUME SignupInv, NEW c \in Call, Active(c), EndSignup(c),
           RowsMove(signup[c].id), AccountsMove(signup[c].id),
           \A a \in accounts' : a.id = signup[c].id => AccountedFor(a)'
    PROVE  SignupInv'
<1> DEFINE id == signup[c].id
<1>1. id \in 1..signups /\ id \in Nat
  BY ActiveMeans DEF SignupInv, Numbered
<1>2. /\ signup' \in [Call -> Attempt \cup {NotSigningUp}]
      /\ \A d \in Call \ {c} : signup'[d] = signup[d]
      /\ ~Active(c)' /\ ~Reserving(c)'
  BY Ending DEF SignupInv
<1>3. id \in 1..signups'
  BY <1>1 DEF AccountsMove, SignupInv, InviteTypes
<1>4. Effect(id)
  BY <1>1, <1>2, <1>3, OnlyOne DEF Effect
<1> QED
  BY <1>1, <1>2, <1>4, SignupStep

LEMMA PreviewInviteKeeps ==
    ASSUME SignupInv, NEW c \in Call, PreviewInvite(c)
    PROVE  SignupInv'
<1> DEFINE id == signups + 1
<1>1. PICK i \in Invite, e \in Email :
         /\ invites[i] # None
         /\ effectiveSignupInviteStatus(invites[i], inviteClock) = "pending"
         /\ signups' = id
         /\ signup' = [signup EXCEPT ![c] =
                [at |-> "submit", invite |-> i, email |-> e, id |-> signups', now |-> 0, until |-> 0]]
  BY DEF PreviewInvite
<1> DEFINE m == [at |-> "submit", invite |-> i, email |-> e, id |-> id, now |-> 0, until |-> 0]
<1>2. /\ UNCHANGED <<invites, accounts, orphans, inviteClock>> /\ ~Active(c)
      /\ signups \in Nat /\ inviteClock \in Nat /\ id \in Nat /\ signups' = id
      /\ id \in 1..signups' /\ id \notin 1..signups
  BY <1>1 DEF PreviewInvite, Active, SignupInv, InviteTypes
<1>3. /\ m \in Attempt /\ m.at = "submit" /\ m.invite = i /\ m.id = id
      /\ m.now = 0
  BY <1>2 DEF Attempt, SignupSteps
<1>4. signup' = [signup EXCEPT ![c] = m]
  BY <1>1
<1> HIDE DEF m
<1>5. signup'[c] = m /\ \A d \in Call \ {c} : signup'[d] = signup[d]
  BY <1>4 DEF SignupInv, InviteTypes
<1>6. signup' \in [Call -> Attempt \cup {NotSigningUp}]
  BY <1>3, <1>4 DEF SignupInv, InviteTypes
<1>7. OthersWait(id)
  BY <1>2, <1>5 DEF OthersWait
<1>8. AccountsMove(id)
  BY <1>2 DEF AccountsMove, SignupInv, InviteTypes
<1>9. Effect(id)
  BY <1>2, <1>6, <1>7, <1>8, RowsStay DEF Effect
<1>10. \A a \in accounts : a.id # id
  BY <1>2 DEF SignupInv, Numbered
<1>11. \A j \in Invite : invites[j] # None => invites[j].acceptedBy # id
  BY <1>2, Nulls DEF SignupInv, RowsSettled
<1>12. ~Reserving(c)'
  BY <1>3, <1>5 DEF Reserving
<1>13. HasInvite(c)'
  BY <1>1, <1>2, <1>3, <1>5 DEF HasInvite, InviteOf
<1>14. NotAcceptedYet(c)'
  BY <1>2, <1>3, <1>5, <1>11 DEF NotAcceptedYet
<1>15. NoAccountYet(c)'
  BY <1>2, <1>3, <1>5, <1>10 DEF NoAccountYet
<1>16. GivenUp(c)' /\ Reserved(c)'
  BY <1>3, <1>5, <1>12 DEF GivenUp, Reserved
<1> HIDE DEF id
<1> QED
  BY <1>2, <1>3, <1>5, <1>9, <1>10, <1>12, <1>13, <1>14, <1>15, <1>16, SignupStep

LEMMA SubmitKeeps ==
    ASSUME SignupInv, NEW c \in Call, Submit(c)
    PROVE  SignupInv'
<1> DEFINE id == signup[c].id
           m == [signup[c] EXCEPT !.at = "reserve", !.now = inviteClock]
<1>1. SigningUpAt(c, "submit") /\ UNCHANGED <<invites, accounts, orphans, inviteClock, signups>>
  BY DEF Submit
<1>2. /\ Active(c) /\ id \in 1..signups /\ id \in Nat
      /\ signup[c] \in Attempt
      /\ HasInvite(c) /\ NotAcceptedYet(c) /\ NoAccountYet(c)
  BY <1>1, AtWork DEF SignupSteps
<1>3. /\ m \in Attempt /\ m.at = "reserve" /\ m.id = id /\ m.invite = signup[c].invite
      /\ m.now = inviteClock
  BY <1>2 DEF Attempt, SignupSteps, SignupInv, InviteTypes
<1>4. signup' = [signup EXCEPT ![c] = m]
  BY DEF Submit
<1> HIDE DEF m
<1>5. signup'[c] = m /\ \A d \in Call \ {c} : signup'[d] = signup[d]
  BY <1>4 DEF SignupInv, InviteTypes
<1>6. signup' \in [Call -> Attempt \cup {NotSigningUp}]
  BY <1>3, <1>4 DEF SignupInv, InviteTypes
<1>7. Effect(id)
  BY <1>1, <1>2, <1>5, <1>6, OnlyOne, RowsStay, AccountsStay DEF Effect
<1>8. ~Reserving(c)'
  BY <1>3, <1>5 DEF Reserving
<1>9. HasInvite(c)' /\ NotAcceptedYet(c)' /\ NoAccountYet(c)'
  BY <1>1, <1>2, <1>3, <1>5 DEF HasInvite, InviteOf, NotAcceptedYet, NoAccountYet, SigningUpAt
<1>10. GivenUp(c)' /\ Reserved(c)'
  BY <1>3, <1>5, <1>8 DEF GivenUp, Reserved
<1>11. \A a \in accounts' : a.id # id
  BY <1>1, <1>2 DEF NoAccountYet, SigningUpAt
<1>12. signup'[c].now <= inviteClock'
  BY <1>1, <1>3, <1>5 DEF SignupInv, InviteTypes
<1> HIDE DEF id
<1> QED
  BY <1>2, <1>3, <1>5, <1>7, <1>8, <1>9, <1>10, <1>11, <1>12, SignupStep DEF id

\* What StepKeeps asks of c when neither rows nor accounts change.
LEMMA ReadOnlyStepKeeps ==
    ASSUME SignupInv, NEW c \in Call, NEW now \in SignupSteps, NEW step \in SignupSteps,
           SigningUpAt(c, now), StepTo(c, step),
           UNCHANGED <<invites, accounts, orphans, inviteClock, signups>>,
           now \in {"reserve", "email"},
           step \in {"validate", "expire", "create", "release"},
           step = "create" => now = "email"
    PROVE  SignupInv'
<1>1. /\ Active(c) /\ NotAcceptedYet(c) /\ NoAccountYet(c) /\ Reserved(c)
  BY AtWork
<1>2. /\ signup'[c].at = step /\ signup'[c].invite = signup[c].invite
      /\ signup'[c].id = signup[c].id /\ signup'[c].until = signup[c].until
      /\ signup[c].at = now
  BY <1>1, Stepping DEF SignupInv, SigningUpAt
<1>3. RowsMove(signup[c].id) /\ AccountsMove(signup[c].id)
  BY RowsStay, AccountsStay
<1>4. Reserving(c)' => Reserving(c)
  BY <1>2 DEF Reserving
<1>5. NotAcceptedYet(c)' /\ NoAccountYet(c)'
  BY <1>1, <1>2 DEF NotAcceptedYet, NoAccountYet
<1>6. GivenUp(c)'
  BY <1>1, <1>2 DEF NoAccountYet, GivenUp
<1>7. Reserved(c)'
  BY <1>1, <1>2, <1>4 DEF Reserved, InviteOf
<1> QED
  BY <1>3, <1>4, <1>5, <1>6, <1>7, StepKeeps

LEMMA ValidateKeeps ==
    ASSUME SignupInv, NEW c \in Call, validateSignupInvite(c)
    PROVE  SignupInv'
<1>1. SigningUpAt(c, "validate") /\ UNCHANGED <<invites, accounts, orphans, inviteClock, signups>>
  BY DEF validateSignupInvite
<1>2. Active(c) /\ NoAccountYet(c) /\ signup[c].at = "validate"
  BY <1>1, AtWork DEF SignupSteps, SigningUpAt
<1>3. \A a \in accounts' : a.id # signup[c].id
  BY <1>1, <1>2 DEF NoAccountYet
<1>4. RowsMove(signup[c].id) /\ AccountsMove(signup[c].id)
  BY <1>1, RowsStay, AccountsStay
<1>5. CASE EndSignup(c)
  BY <1>2, <1>3, <1>4, <1>5, EndKeeps
<1>6. CASE StepTo(c, "expire")
  <2>1. /\ signup'[c].at = "expire" /\ signup'[c].id = signup[c].id
    BY <1>2, <1>6, Stepping DEF SignupInv, SignupSteps
  <2>2. (NotAcceptedYet(c) /\ NoAccountYet(c) /\ GivenUp(c) /\ Reserved(c))' /\ ~Reserving(c)'
    BY <1>3, <2>1 DEF NotAcceptedYet, NoAccountYet, GivenUp, Reserved, Reserving
  <2> QED
    BY <1>1, <1>4, <1>6, <2>2, StepKeeps DEF SignupSteps
<1> QED
  BY <1>5, <1>6 DEF validateSignupInvite

LEMMA EmailExistsKeeps ==
    ASSUME SignupInv, NEW c \in Call, emailExists(c)
    PROVE  SignupInv'
<1>1. /\ SigningUpAt(c, "email") /\ UNCHANGED <<invites, accounts, orphans, inviteClock, signups>>
      /\ StepTo(c, "release") \/ StepTo(c, "create")
  BY DEF emailExists
<1> QED
  BY <1>1, ReadOnlyStepKeeps DEF SignupSteps

LEMMA CreateAccountKeeps ==
    ASSUME SignupInv, NEW c \in Call, CreateAccount(c)
    PROVE  SignupInv'
<1> DEFINE id == signup[c].id
<1>1. SigningUpAt(c, "create") /\ UNCHANGED <<invites, inviteClock, signups>>
  BY DEF CreateAccount
<1>2. /\ Active(c) /\ NotAcceptedYet(c) /\ NoAccountYet(c) /\ Reserved(c) /\ signup[c].at = "create"
      /\ id \in Nat /\ signup[c].email \in Email
  BY <1>1, AtWork, ActiveMeans DEF SignupSteps, SigningUpAt, SignupInv
<1>3. \A a \in accounts : a.id # id
  BY <1>2 DEF NoAccountYet
<1>4. RowsMove(id)
  BY <1>1, RowsStay
<1>5. CASE StepTo(c, "release") /\ UNCHANGED <<accounts, orphans>>
  <2>1. signup'[c].at = "release" /\ signup'[c].id = id
    BY <1>2, <1>5, Stepping DEF SignupInv, SignupSteps
  <2>2. (NotAcceptedYet(c) /\ NoAccountYet(c) /\ GivenUp(c) /\ Reserved(c))' /\ ~Reserving(c)'
    BY <1>3, <1>5, <2>1 DEF NotAcceptedYet, NoAccountYet, GivenUp, Reserved, Reserving
  <2> QED
    BY <1>1, <1>4, <1>5, <2>2, StepKeeps, AccountsStay DEF SignupSteps
<1> DEFINE made == [id |-> id, email |-> signup[c].email]
<1>6. ASSUME accounts' = accounts \cup {made}, orphans \subseteq orphans'
      PROVE  AccountsMove(id)
  BY <1>1, <1>2, <1>6 DEF AccountsMove, SignupInv, InviteTypes
<1>7. CASE accounts' = accounts \cup {made} /\ StepTo(c, "accept") /\ UNCHANGED orphans
  <2>1. /\ signup'[c].at = "accept" /\ signup'[c].invite = signup[c].invite
        /\ signup'[c].id = id /\ signup'[c].until = signup[c].until
    BY <1>2, <1>7, Stepping DEF SignupInv, SignupSteps
  <2>2. Reserving(c)' => Reserving(c)
    BY <1>1, <1>2, <2>1 DEF Reserving
  <2>3. NotAcceptedYet(c)' /\ NoAccountYet(c)' /\ GivenUp(c)'
    BY <1>1, <1>2, <2>1 DEF NotAcceptedYet, NoAccountYet, GivenUp
  <2>4. Reserved(c)'
    BY <1>1, <1>2, <2>1, <2>2 DEF Reserved, InviteOf
  <2>5. AccountsMove(id)
    BY <1>6, <1>7
  <2> QED
    BY <1>1, <1>4, <1>7, <2>2, <2>3, <2>4, <2>5, StepKeeps DEF SignupSteps
<1>8. CASE accounts' = accounts \cup {made} /\ StepTo(c, "release") /\ orphans' = orphans \cup {id}
  <2>1. signup'[c].at = "release" /\ signup'[c].id = id
    BY <1>2, <1>8, Stepping DEF SignupInv, SignupSteps
  <2>2. (NotAcceptedYet(c) /\ NoAccountYet(c) /\ GivenUp(c) /\ Reserved(c))' /\ ~Reserving(c)'
    BY <1>8, <2>1 DEF NotAcceptedYet, NoAccountYet, GivenUp, Reserved, Reserving
  <2>3. AccountsMove(id)
    BY <1>6, <1>8
  <2> QED
    BY <1>1, <1>4, <1>8, <2>2, <2>3, StepKeeps DEF SignupSteps
<1> QED
  BY <1>5, <1>7, <1>8 DEF CreateAccount

LEMMA CompensateKeeps ==
    ASSUME SignupInv, NEW c \in Call, deleteCompensatingAccount(c)
    PROVE  SignupInv'
<1> DEFINE id == signup[c].id
<1>1. /\ SigningUpAt(c, "compensate") /\ UNCHANGED <<invites, inviteClock, signups>>
      /\ StepTo(c, "release")
  BY DEF deleteCompensatingAccount
<1>2. Active(c)
  BY <1>1, AtWork DEF SignupSteps
<1>3. signup'[c].at = "release" /\ signup'[c].id = id
  BY <1>1, <1>2, Stepping DEF SignupInv, SignupSteps
<1>4. (NotAcceptedYet(c) /\ NoAccountYet(c) /\ Reserved(c))' /\ ~Reserving(c)'
  BY <1>3 DEF NotAcceptedYet, NoAccountYet, Reserved, Reserving
<1>5. \/ accounts' = AccountsWithout(id) /\ UNCHANGED orphans
      \/ orphans' = orphans \cup {id} /\ UNCHANGED accounts
  BY DEF deleteCompensatingAccount
<1>6. accounts' \subseteq accounts /\ orphans \subseteq orphans'
  BY <1>5 DEF AccountsWithout
<1>7. AccountsMove(id)
  BY <1>1, <1>6 DEF AccountsMove, SignupInv, InviteTypes
<1>8. GivenUp(c)'
  BY <1>3, <1>5 DEF GivenUp, AccountsWithout
<1> QED
  BY <1>1, <1>4, <1>7, <1>8, StepKeeps, RowsStay DEF SignupSteps

LEMMA SignupCrashKeeps ==
    ASSUME SignupInv, NEW c \in Call, SignupCrash(c)
    PROVE  SignupInv'
<1> DEFINE id == signup[c].id
<1>1. /\ Active(c) /\ EndSignup(c) /\ UNCHANGED <<invites, accounts, inviteClock, signups>>
      /\ orphans \subseteq orphans'
      /\ signup[c].at \in {"accept", "compensate"} => id \in orphans'
  BY DEF SignupCrash, Active
<1>2. NoAccountYet(c) /\ GivenUp(c) /\ signup[c].at \in SignupSteps
  BY <1>1, ActiveMeans DEF SignupInv, AttemptsHold
<1>3. \A a \in accounts' : a.id = id => a.id \in orphans'
  BY <1>1, <1>2 DEF NoAccountYet, GivenUp, SignupSteps
<1>4. \A a \in accounts' : a.id = id => AccountedFor(a)'
  BY <1>3 DEF AccountedFor
<1> QED
  BY <1>1, <1>4, EndKeeps, RowsStay, AccountsStay

\* The reservation: nobody else is within one of the same invite.
LEMMA ReserveKeeps ==
    ASSUME SignupInv, NEW c \in Call, reserveByToken(c)
    PROVE  SignupInv'
<1> DEFINE id == signup[c].id
           i == signup[c].invite
           until == signup[c].now + ReservationTTL
           row == [invites[i] EXCEPT !.reservation = id, !.reservedUntil = until]
           m == [signup[c] EXCEPT !.at = "email", !.until = until]
<1>1. SigningUpAt(c, "reserve") /\ UNCHANGED <<accounts, orphans, inviteClock, signups>>
  BY DEF reserveByToken
<1>2. /\ Active(c) /\ id \in 1..signups /\ id \in Nat /\ i \in Invite
      /\ signup[c] \in Attempt /\ signup[c].at = "reserve"
      /\ signup[c].now \in Nat /\ signup[c].now <= inviteClock
      /\ invites[i] # None /\ NotAcceptedYet(c) /\ NoAccountYet(c)
  BY <1>1, AtWork DEF SignupSteps, SigningUpAt
<1>3. CASE StepTo(c, "validate") /\ UNCHANGED invites
  BY <1>1, <1>3, ReadOnlyStepKeeps DEF SignupSteps
<1>4. CASE /\ Reservable(InviteOf(c), signup[c].email, signup[c].now)
           /\ invites' = [invites EXCEPT ![i].reservation = id, ![i].reservedUntil = until]
           /\ signup' = [signup EXCEPT ![c].at = "email", ![c].until = until]
  <2>1. /\ invites[i].status = "pending"
        /\ invites[i].reservation = None \/ invites[i].reservedUntil <= signup[c].now
    BY <1>4 DEF Reservable, InviteOf
  <2>2. invites[i] \in InviteRow /\ invites[i].acceptedBy = None
    BY <1>2, <2>1, PendingRow
  <2>3. until \in Nat /\ inviteClock \in Nat /\ invites[i].reservedUntil \in Nat
    BY <1>2, <2>2, InviteAssumption DEF SignupInv, InviteTypes, InviteRow
  <2>4. /\ row \in InviteRow /\ row.status = "pending" /\ row.reservation = id
        /\ row.reservedUntil = until /\ row.acceptedBy = None
    BY <1>2, <2>1, <2>2, <2>3 DEF InviteRow
  <2>5. /\ m \in Attempt /\ m.at = "email" /\ m.invite = i /\ m.id = id
        /\ m.now = signup[c].now /\ m.until = until
    BY <1>2, <2>3 DEF Attempt, SignupSteps
  <2>6. invites' = [invites EXCEPT ![i] = row] /\ signup' = [signup EXCEPT ![c] = m]
    BY <1>4
  <2> HIDE DEF row, m, until
  <2>7. invites'[i] = row
    BY <1>2, <2>6 DEF SignupInv, InviteTypes
  <2>8. signup'[c] = m /\ \A d \in Call \ {c} : signup'[d] = signup[d]
    BY <2>6 DEF SignupInv, InviteTypes
  <2>9. signup' \in [Call -> Attempt \cup {NotSigningUp}]
    BY <2>5, <2>6 DEF SignupInv, InviteTypes
  <2>10. invites[i].reservation \in {None, id} \/ invites[i].reservedUntil <= inviteClock
    BY <1>2, <2>1, <2>3
  <2>11. RowMoves(id, i)
    BY <2>1, <2>4, <2>7, <2>10, Nulls DEF RowMoves
  <2>12. RowsMove(id)
    BY <1>2, <2>4, <2>6, <2>11, OneRowMoves
  <2>13. Effect(id)
    BY <1>1, <1>2, <2>8, <2>9, <2>12, OnlyOne, AccountsStay DEF Effect
  <2>14. ASSUME NEW d \in Call \ {c}, Reserving(d), signup[d].invite = i
         PROVE  FALSE
    <3>1. Active(d) /\ signup[d].id \in Nat /\ signup[d].until \in Nat /\ Reserved(d)
      BY <2>14, NotSigningUpAtRest, ActiveMeans DEF SignupInv, AttemptsHold
    <3>2. invites[i].reservation = signup[d].id /\ invites[i].reservedUntil = signup[d].until
      BY <2>1, <2>14, <3>1 DEF Reserved, InviteOf
    <3>3. invites[i].reservation # None
      BY <3>1, <3>2, Nulls
    <3>4. signup[d].until > inviteClock
      BY <2>14 DEF Reserving
    <3> QED
      BY <1>2, <2>1, <2>3, <3>2, <3>3, <3>4
  <2>15. HasInvite(c)'
    BY <2>4, <2>5, <2>7, <2>8, Nulls DEF HasInvite, InviteOf
  <2>16. NotAcceptedYet(c)'
    <3> SUFFICES ASSUME NEW j \in Invite, invites'[j] # None PROVE invites'[j].acceptedBy # id
      BY <2>5, <2>8 DEF NotAcceptedYet
    <3>1. CASE j = i
      BY <1>2, <2>4, <2>7, <3>1, Nulls
    <3>2. CASE j # i
      BY <1>2, <2>6, <3>2 DEF SignupInv, InviteTypes, NotAcceptedYet
    <3> QED
      BY <3>1, <3>2
  <2>17. NoAccountYet(c)' /\ GivenUp(c)' /\ Reserved(c)'
    BY <1>1, <1>2, <2>4, <2>5, <2>7, <2>8 DEF NoAccountYet, GivenUp, Reserved, InviteOf
  <2>18. \A a \in accounts' : a.id # id
    BY <1>1, <1>2 DEF NoAccountYet
  <2>19. signup'[c].now <= inviteClock' /\ signup'[c].id = id
    BY <1>1, <1>2, <2>5, <2>8
  <2>20. \A d \in Call \ {c} : Reserving(d) => signup'[c].invite # signup[d].invite
    BY <2>5, <2>8, <2>14
  <2> HIDE DEF id, i
  <2> QED
    BY <1>2, <2>8, <2>13, <2>15, <2>16, <2>17, <2>18, <2>19, <2>20, SignupStep DEF id
<1> QED
  BY <1>3, <1>4 DEF reserveByToken

LEMMA MarkExpiredKeeps ==
    ASSUME SignupInv, NEW c \in Call, markExpired(c)
    PROVE  SignupInv'
<1> DEFINE id == signup[c].id
           i == signup[c].invite
           row == Unreserved(invites[i], "expired")
<1>1. /\ SigningUpAt(c, "expire") /\ EndSignup(c) /\ UNCHANGED <<accounts, orphans, inviteClock, signups>>
      /\ invites' = IF invites[i].status # "pending" THEN invites ELSE [invites EXCEPT ![i] = row]
  BY DEF markExpired, InviteOf
<1>2. /\ Active(c) /\ i \in Invite /\ signup[c].at = "expire" /\ invites[i] # None /\ NoAccountYet(c)
  BY <1>1, AtWork DEF SignupSteps, SigningUpAt
<1>3. \A a \in accounts' : a.id # id
  BY <1>1, <1>2 DEF NoAccountYet
<1>4. RowsMove(id)
  <2>1. CASE invites[i].status # "pending"
    BY <1>1, <2>1, RowsStay
  <2>2. CASE invites[i].status = "pending"
    <3>1. invites[i] \in InviteRow /\ invites[i].acceptedBy = None
      BY <1>2, <2>2, PendingRow
    <3>2. row \in InviteRow /\ row.status = "expired" /\ row.reservation = None /\ row.acceptedBy = None
      BY <3>1, UnreservedRow
    <3>3. invites' = [invites EXCEPT ![i] = row]
      BY <1>1, <2>2
    <3> HIDE DEF row
    <3>4. invites'[i] = row
      BY <1>2, <3>3 DEF SignupInv, InviteTypes
    <3>5. RowMoves(id, i)
      BY <2>2, <3>2, <3>4 DEF RowMoves
    <3> QED
      BY <1>2, <3>2, <3>3, <3>5, OneRowMoves
  <2> QED
    BY <2>1, <2>2
<1> QED
  BY <1>1, <1>2, <1>3, <1>4, EndKeeps, AccountsStay

\* The acceptance names the account, and no other row named it.
LEMMA AcceptInviteKeeps ==
    ASSUME SignupInv, NEW c \in Call, acceptInvite(c)
    PROVE  SignupInv'
<1> DEFINE id == signup[c].id
           i == signup[c].invite
           row == [Unreserved(invites[i], "accepted") EXCEPT !.acceptedBy = id]
<1>1. SigningUpAt(c, "accept") /\ UNCHANGED <<accounts, orphans, inviteClock, signups>>
  BY DEF acceptInvite
<1>2. /\ Active(c) /\ id \in 1..signups /\ id \in Nat /\ i \in Invite
      /\ signup[c].at = "accept" /\ invites[i] # None /\ NotAcceptedYet(c)
  BY <1>1, AtWork DEF SignupSteps, SigningUpAt
<1>3. AccountsMove(id)
  BY <1>1, AccountsStay
<1>4. ASSUME StepTo(c, "compensate"), RowsMove(id)
      PROVE  SignupInv'
  <2>1. signup'[c].at = "compensate"
    BY <1>2, <1>4, Stepping DEF SignupInv, SignupSteps
  <2>2. (NotAcceptedYet(c) /\ NoAccountYet(c) /\ GivenUp(c) /\ Reserved(c))' /\ ~Reserving(c)'
    BY <2>1 DEF NotAcceptedYet, NoAccountYet, GivenUp, Reserved, Reserving
  <2> QED
    BY <1>1, <1>3, <1>4, <2>2, StepKeeps DEF SignupSteps
<1>5. CASE StepTo(c, "compensate") /\ UNCHANGED invites
  BY <1>4, <1>5, RowsStay
<1>6. CASE /\ Acceptable(c) /\ invites' = [invites EXCEPT ![i] = row]
           /\ EndSignup(c) \/ StepTo(c, "compensate")
  <2>1. invites[i].reservation = id /\ invites[i].status = "pending"
    BY <1>6 DEF Acceptable, InviteOf
  <2>2. invites[i] \in InviteRow
    BY <1>2, <2>1, PendingRow
  <2>3. /\ Unreserved(invites[i], "accepted") \in InviteRow
        /\ Unreserved(invites[i], "accepted").status = "accepted"
        /\ Unreserved(invites[i], "accepted").reservation = None
    BY <2>2, UnreservedRow
  <2>4. row \in InviteRow /\ row.status = "accepted" /\ row.reservation = None /\ row.acceptedBy = id
    BY <1>2, <2>3 DEF InviteRow
  <2>5. invites' = [invites EXCEPT ![i] = row]
    BY <1>6
  <2> HIDE DEF row
  <2>6. invites'[i] = row
    BY <1>2, <2>5 DEF SignupInv, InviteTypes
  <2>7. RowMoves(id, i)
    BY <1>2, <2>1, <2>4, <2>6, Nulls DEF RowMoves
  <2>8. RowsMove(id)
    <3>1. \A j \in Invite : invites[j] # None => invites[j].acceptedBy # row.acceptedBy
      BY <1>2, <2>4 DEF NotAcceptedYet
    <3> QED
      BY <1>2, <2>5, <2>7, <3>1, OneRowMoves
  <2>9. \A a \in accounts' : a.id = id => AccountedFor(a)'
    BY <1>2, <2>4, <2>6, Nulls DEF AccountedFor
  <2> QED
    BY <1>2, <1>3, <1>4, <1>6, <2>8, <2>9, EndKeeps
<1>7. \/ StepTo(c, "compensate") /\ UNCHANGED invites
      \/ /\ Acceptable(c) /\ invites' = [invites EXCEPT ![i] = row]
         /\ EndSignup(c) \/ StepTo(c, "compensate")
  BY DEF acceptInvite, InviteOf
<1> QED
  BY <1>5, <1>6, <1>7

LEMMA ReleaseKeeps ==
    ASSUME SignupInv, NEW c \in Call, releaseReservation(c)
    PROVE  SignupInv'
<1> DEFINE id == signup[c].id
           i == signup[c].invite
           row == Unreserved(invites[i], "pending")
<1>1. /\ SigningUpAt(c, "release") /\ EndSignup(c) /\ UNCHANGED <<accounts, orphans, inviteClock, signups>>
      /\ \/ UNCHANGED invites
         \/ /\ invites[i].reservation = id /\ invites[i].status = "pending"
            /\ invites' = [invites EXCEPT ![i] = row]
  BY DEF releaseReservation, InviteOf
<1>2. /\ Active(c) /\ i \in Invite /\ signup[c].at = "release" /\ invites[i] # None /\ GivenUp(c)
  BY <1>1, AtWork DEF SignupSteps, SigningUpAt
<1>3. \A a \in accounts' : a.id = id => AccountedFor(a)'
  BY <1>1, <1>2 DEF GivenUp, AccountedFor
<1>4. RowsMove(id)
  <2>1. CASE UNCHANGED invites
    BY <2>1, RowsStay
  <2>2. CASE /\ invites[i].reservation = id /\ invites[i].status = "pending"
             /\ invites' = [invites EXCEPT ![i] = row]
    <3>1. invites[i] \in InviteRow /\ invites[i].acceptedBy = None
      BY <1>2, <2>2, PendingRow
    <3>2. row \in InviteRow /\ row.status = "pending" /\ row.reservation = None /\ row.acceptedBy = None
      BY <3>1, UnreservedRow
    <3>3. invites' = [invites EXCEPT ![i] = row]
      BY <2>2
    <3> HIDE DEF row
    <3>4. invites'[i] = row
      BY <1>2, <3>3 DEF SignupInv, InviteTypes
    <3>5. RowMoves(id, i)
      BY <2>2, <3>2, <3>4 DEF RowMoves
    <3> QED
      BY <1>2, <3>2, <3>3, <3>5, OneRowMoves
  <2> QED
    BY <1>1, <2>1, <2>2
<1> QED
  BY <1>1, <1>2, <1>3, <1>4, EndKeeps, AccountsStay

-----------------------------------------------------------------------------
(*********************** invites and their accounts ************************)

LEMMA SignupInit == InvitesInit => SignupInv
<1> SUFFICES ASSUME InvitesInit PROVE SignupInv
  OBVIOUS
<1>1. \A c \in Call : ~Active(c)
  BY DEF InvitesInit, Active
<1>2. InviteTypes
  BY DEF InvitesInit, InviteTypes
<1>3. Numbered /\ RowsSettled /\ AttemptsHold /\ AccountsAccounted
  BY <1>1 DEF InvitesInit, Numbered, RowsSettled, AttemptsHold, AccountsAccounted, Accepted
<1>4. OneSignupAtATime
  BY <1>1, NotSigningUpAtRest DEF OneSignupAtATime
<1> QED
  BY <1>2, <1>3, <1>4 DEF SignupInv

LEMMA SignupNext == SignupInv /\ [InvitesNext]_inviteVars => SignupInv'
<1> SUFFICES ASSUME SignupInv, [InvitesNext]_inviteVars PROVE SignupInv'
  OBVIOUS
<1>1. ASSUME NEW i \in Invite, createInvite(i) PROVE SignupInv'
  BY <1>1, CreateInviteKeeps
<1>2. ASSUME NEW i \in Invite, revokeInvite(i) PROVE SignupInv'
  BY <1>2, RevokeInviteKeeps
<1>3. ASSUME NEW c \in Call, PreviewInvite(c) PROVE SignupInv'
  BY <1>3, PreviewInviteKeeps
<1>4. ASSUME NEW c \in Call, Submit(c) PROVE SignupInv'
  BY <1>4, SubmitKeeps
<1>5. ASSUME NEW c \in Call, reserveByToken(c) PROVE SignupInv'
  BY <1>5, ReserveKeeps
<1>6. ASSUME NEW c \in Call, validateSignupInvite(c) PROVE SignupInv'
  BY <1>6, ValidateKeeps
<1>7. ASSUME NEW c \in Call, markExpired(c) PROVE SignupInv'
  BY <1>7, MarkExpiredKeeps
<1>8. ASSUME NEW c \in Call, emailExists(c) PROVE SignupInv'
  BY <1>8, EmailExistsKeeps
<1>9. ASSUME NEW c \in Call, CreateAccount(c) PROVE SignupInv'
  BY <1>9, CreateAccountKeeps
<1>10. ASSUME NEW c \in Call, acceptInvite(c) PROVE SignupInv'
  BY <1>10, AcceptInviteKeeps
<1>11. ASSUME NEW c \in Call, deleteCompensatingAccount(c) PROVE SignupInv'
  BY <1>11, CompensateKeeps
<1>12. ASSUME NEW c \in Call, releaseReservation(c) PROVE SignupInv'
  BY <1>12, ReleaseKeeps
<1>13. ASSUME NEW c \in Call, SignupCrash(c) PROVE SignupInv'
  BY <1>13, SignupCrashKeeps
<1>14. CASE InviteTick
  BY <1>14, InviteTickKeeps
<1>15. CASE UNCHANGED inviteVars
  <2>1. UNCHANGED <<invites, accounts, signup, orphans, inviteClock, signups>>
    BY <1>15 DEF inviteVars
  <2>2. Effect(None)
    BY <2>1, RowsStay, AccountsStay DEF Effect, OthersWait, SignupInv, InviteTypes
  <2> QED
    BY <2>1, <2>2, QuietStep
<1> QED
  BY <1>1, <1>2, <1>3, <1>4, <1>5, <1>6, <1>7, <1>8, <1>9, <1>10, <1>11, <1>12, <1>13, <1>14, <1>15
     DEF InvitesNext

LEMMA SignupInvariant == InvitesSpec => []SignupInv
BY SignupInit, SignupNext, PTL DEF InvitesSpec

LEMMA SignupInvSays == SignupInv => InvitesAccountForSignups
<1> SUFFICES ASSUME SignupInv PROVE AccountsHaveInvites
  BY DEF InvitesAccountForSignups, SignupInv
<1> SUFFICES ASSUME NEW a \in accounts, NEW i \in Invite, invites[i] # None, invites[i].acceptedBy = a.id
    PROVE  Cardinality({j \in Invite : invites[j] # None /\ invites[j].acceptedBy = a.id}) = 1
  BY DEF SignupInv, AccountsAccounted, AccountedFor, AccountsHaveInvites, Active
<1>1. a.id \in Nat /\ a.id # None
  BY Nulls DEF SignupInv, InviteTypes
<1>2. {j \in Invite : invites[j] # None /\ invites[j].acceptedBy = a.id} = {i}
  BY <1>1 DEF SignupInv, RowsSettled, Accepted
<1> QED
  BY <1>2, FS_Singleton

(* Every account has one invite of its own, is still being registered or   *)
(* was left to the administrator, and no two registrations work on one     *)
(* invite within their reservations: for any number of invites, addresses  *)
(* and registrations (reserveByToken, markAcceptedReservation and the      *)
(* compensation of auth-request.service.ts).                               *)
THEOREM AccountsComeFromInvites == InvitesSpec => []InvitesAccountForSignups
BY SignupInvariant, SignupInvSays, PTL

(* An invite that was accepted, revoked or marked expired is never written *)
(* again, by whichever registration or administrator: every update of      *)
(* signup-invite.repository.ts asks for a pending row.                     *)
THEOREM SettledInvitesStay == InvitesSpec => FinalInvitesStay
<1> DEFINE Settled(i) == invites[i] # None /\ invites[i].status # "pending"
           Stays == \A i \in Invite : Settled(i) => invites'[i] = invites[i]
<1>1. ASSUME NEW i \in Invite, NEW j \in Invite, NEW row, SignupInv, ~Settled(j), Settled(i),
             invites' = [invites EXCEPT ![j] = row]
      PROVE  invites'[i] = invites[i]
  BY <1>1 DEF SignupInv, InviteTypes
<1>2. SignupInv /\ [InvitesNext]_inviteVars => [Stays]_inviteVars
  <2> SUFFICES ASSUME SignupInv, InvitesNext, NEW i \in Invite, Settled(i) PROVE invites'[i] = invites[i]
    BY DEF inviteVars
  <2> HIDE DEF Settled
  <2>1. ASSUME NEW j \in Invite, createInvite(j) PROVE invites'[i] = invites[i]
    <3>1. ~Settled(j) /\ \E row : invites' = [invites EXCEPT ![j] = row]
      BY <2>1 DEF createInvite, Settled
    <3> QED
      BY <3>1, <1>1
  <2>2. ASSUME NEW j \in Invite, revokeInvite(j) PROVE invites'[i] = invites[i]
    <3>1. ~Settled(j) /\ invites' = [invites EXCEPT ![j] = Unreserved(invites[j], "revoked")]
      BY <2>2 DEF revokeInvite, Settled
    <3> QED
      BY <3>1, <1>1
  <2>3. ASSUME NEW c \in Call, reserveByToken(c) PROVE invites'[i] = invites[i]
    <3>1. CASE UNCHANGED invites
      BY <3>1
    <3>2. CASE invites' # invites
      <4> DEFINE j == signup[c].invite
                 row == [invites[j] EXCEPT !.reservation = signup[c].id,
                                           !.reservedUntil = signup[c].now + ReservationTTL]
      <4>1. j \in Invite
        BY <2>3, AtWork DEF reserveByToken, SignupSteps
      <4>2. invites[j].status = "pending" /\ invites' = [invites EXCEPT ![j] = row]
        BY <2>3, <3>2 DEF reserveByToken, Reservable, InviteOf
      <4> HIDE DEF row
      <4> QED
        BY <4>1, <4>2, <1>1 DEF Settled
    <3> QED
      BY <3>1, <3>2
  <2>4. ASSUME NEW c \in Call, markExpired(c) PROVE invites'[i] = invites[i]
    <3>1. signup[c].invite \in Invite
      BY <2>4, AtWork DEF markExpired, SignupSteps
    <3>2. \/ UNCHANGED invites
          \/ /\ invites[signup[c].invite].status = "pending"
             /\ \E row : invites' = [invites EXCEPT ![signup[c].invite] = row]
      BY <2>4 DEF markExpired, InviteOf
    <3> QED
      BY <3>1, <3>2, <1>1 DEF Settled
  <2>5. ASSUME NEW c \in Call, acceptInvite(c) PROVE invites'[i] = invites[i]
    <3>1. signup[c].invite \in Invite
      BY <2>5, AtWork DEF acceptInvite, SignupSteps
    <3>2. \/ UNCHANGED invites
          \/ /\ invites[signup[c].invite].status = "pending"
             /\ \E row : invites' = [invites EXCEPT ![signup[c].invite] = row]
      BY <2>5 DEF acceptInvite, Acceptable, InviteOf
    <3> QED
      BY <3>1, <3>2, <1>1 DEF Settled
  <2>6. ASSUME NEW c \in Call, releaseReservation(c) PROVE invites'[i] = invites[i]
    <3>1. signup[c].invite \in Invite
      BY <2>6, AtWork DEF releaseReservation, SignupSteps
    <3>2. \/ UNCHANGED invites
          \/ /\ invites[signup[c].invite].status = "pending"
             /\ \E row : invites' = [invites EXCEPT ![signup[c].invite] = row]
      BY <2>6 DEF releaseReservation, InviteOf
    <3> QED
      BY <3>1, <3>2, <1>1 DEF Settled
  <2>7. ASSUME NEW c \in Call,
               \/ PreviewInvite(c) \/ Submit(c) \/ validateSignupInvite(c) \/ emailExists(c)
               \/ CreateAccount(c) \/ deleteCompensatingAccount(c) \/ SignupCrash(c)
        PROVE  invites'[i] = invites[i]
    BY <2>7 DEF PreviewInvite, Submit, validateSignupInvite, emailExists, CreateAccount,
                deleteCompensatingAccount, SignupCrash
  <2>8. CASE InviteTick
    BY <2>8 DEF InviteTick
  <2> QED
    BY <2>1, <2>2, <2>3, <2>4, <2>5, <2>6, <2>7, <2>8 DEF InvitesNext
<1>3. FinalInvitesStay <=> [][Stays]_inviteVars
  BY DEF FinalInvitesStay
<1> HIDE DEF Stays
<1> QED
  BY <1>2, <1>3, SignupInvariant, PTL DEF InvitesSpec

-----------------------------------------------------------------------------
(**************************** administrators *******************************)

\* The requests, by what they are for.
Seen == {"no", "yes", "stale"}
ChangeSteps == {"role", "count", "ban", "reserve", "write"}
Assigning == [at : {"assign"}, user : User, seen : Seen]
Deleting == [at : {"others", "batch"}, user : User, seen : Seen]
Changing == [at : ChangeSteps, actor : User, user : User, role : {None, "admin", "user"},
             ban : {None, TRUE}, until : Nat \cup {None}, seen : Seen]
AdminRequest == Assigning \cup Deleting \cup Changing

AdminTypes ==
    /\ users \in [User -> AccountRow \cup {None}]
    /\ adminOp \in [Call -> AdminRequest \cup {NoRequest}]
    /\ adminClock \in Nat /\ adminOps \in Nat
    /\ \A u \in Accounts : users[u].born <= adminOps

\* A demotion or a ban is written only after a policy has looked.
Checked(c) == adminOp[c].role = "user" \/ adminOp[c].ban = TRUE
Looked(c) ==
    /\ adminOp[c].at \in {"count", "reserve"} => adminOp[c].seen # "no"
    /\ adminOp[c].at = "write" /\ Checked(c) => adminOp[c].seen # "no"
PoliciesLook == \A c \in Call : Looked(c)

\* An account whose role is being assigned is not being deleted.
DeletionsWait == \A c, d \in Call :
    adminOp[c].at = "assign" /\ adminOp[d].at \in {"others", "batch"} => adminOp[c].user # adminOp[d].user

\* With no ban that ends, those that count as administrators are these.
BansLast == \A u \in Accounts : users[u].banExpires = None
PlainAdmins == {u \in User : users[u] # None /\ users[u].role = "admin" /\ ~users[u].banned}

\* What the policy saw still holds: the write leaves an administrator.
Harmless(c) == adminOp[c].at = "write" /\ Checked(c) /\ adminOp[c].seen = "yes"
        /\ adminOp[c].user \in PlainAdmins =>
    PlainAdmins \ {adminOp[c].user} # {}

\* Before the first administrator there are only users, and the oldest of them
\* is being assigned its role.
OldestIsAssigned == \E c \in Call :
    adminOp[c].at = "assign" /\ adminOp[c].user \in Accounts /\ Oldest(adminOp[c].user)
NewDeployment ==
    /\ \A u \in Accounts : users[u].role = "user" /\ ~users[u].banned
    /\ \A c \in Call : adminOp[c].at \notin ChangeSteps
    /\ Accounts # {} => OldestIsAssigned

AdminInv ==
    /\ AdminTypes /\ PoliciesLook /\ DeletionsWait
    /\ ~unprotected => BansLast /\ \A c \in Call : Harmless(c)
    /\ ~unprotected /\ ~unassigned /\ PlainAdmins = {} => NewDeployment

LEMMA AdminNulls == None \notin AccountRow /\ None \notin Nat /\ None # TRUE /\ None # FALSE /\ None \notin Call
BY NoneAssumption, AccountAssumption

LEMMA AccountFields ==
    ASSUME AdminTypes, NEW u \in Accounts
    PROVE  /\ u \in User /\ users[u] \in AccountRow /\ users[u] # None
           /\ users[u].role \in {"admin", "user"} /\ users[u].banned \in BOOLEAN
           /\ users[u].banExpires \in Nat \cup {None} /\ users[u].born \in 0..adminOps
BY DEF AdminTypes, Accounts, AccountRow

LEMMA RequestShapes ==
    ASSUME AdminTypes, NEW c \in Call
    PROVE  /\ adminOp[c] = NoRequest <=> adminOp[c].at = "idle"
           /\ adminOp[c].at = "assign" => adminOp[c] \in Assigning
           /\ adminOp[c].at \in {"others", "batch"} => adminOp[c] \in Deleting
           /\ adminOp[c].at \in ChangeSteps => adminOp[c] \in Changing
           /\ adminOp[c].at # "idle" => adminOp[c].user \in User /\ adminOp[c].seen \in Seen
<1>1. NoRequest.at = "idle"
  BY DEF NoRequest
<1>2. \A r \in Assigning : r.at = "assign" /\ r.user \in User /\ r.seen \in Seen
  BY DEF Assigning
<1>3. \A r \in Deleting : r.at \in {"others", "batch"} /\ r.user \in User /\ r.seen \in Seen
  BY DEF Deleting
<1>4. \A r \in Changing : r.at \in ChangeSteps /\ r.user \in User /\ r.seen \in Seen
  BY DEF Changing
<1>5. adminOp[c] \in Assigning \/ adminOp[c] \in Deleting \/ adminOp[c] \in Changing \/ adminOp[c] = NoRequest
  BY DEF AdminTypes, AdminRequest
<1> QED
  BY <1>1, <1>2, <1>3, <1>4, <1>5 DEF ChangeSteps

\* Bans last: both counts of the administrators are this one.
LEMMA AdminsArePlain ==
    /\ AdminTypes /\ BansLast => ActiveAdmins = PlainAdmins /\ CountedAdmins = PlainAdmins
    /\ AdminTypes' /\ BansLast' => ActiveAdmins' = PlainAdmins' /\ CountedAdmins' = PlainAdmins'
BY DEF ActiveAdmins, CountedAdmins, PlainAdmins, BansLast, Accounts, isEffectiveAdmin, isActiveBan,
       inactiveBanPredicate

\* A request goes on as it was, or with a policy that has gone stale.
GoesOn(d) ==
    /\ adminOp'[d].at = adminOp[d].at
    /\ adminOp[d].at # "idle" =>
         /\ adminOp'[d].user = adminOp[d].user
         /\ adminOp'[d].seen \in {adminOp[d].seen, "stale"}
    /\ adminOp[d].at \in ChangeSteps =>
         adminOp'[d].role = adminOp[d].role /\ adminOp'[d].ban = adminOp[d].ban
Frozen(d) == adminOp[d].at # "idle" => adminOp'[d].seen # "yes"

LEMMA Disturbance ==
    ASSUME AdminTypes, NEW c \in Call \cup {None}, NEW op \in [Call -> AdminRequest \cup {NoRequest}],
           \A d \in Call \ {c} : op[d] = adminOp[d], adminOp' = Disturbed(op, c)
    PROVE  /\ adminOp' \in [Call -> AdminRequest \cup {NoRequest}]
           /\ c \in Call => adminOp'[c] = op[c]
           /\ \A d \in Call \ {c} : GoesOn(d) /\ Frozen(d)
<1>1. c \in Call => adminOp'[c] = op[c]
  BY DEF Disturbed
<1>2. ASSUME NEW d \in Call \ {c}
      PROVE  adminOp'[d] \in AdminRequest \cup {NoRequest} /\ GoesOn(d) /\ Frozen(d)
  <2> DEFINE m == [adminOp[d] EXCEPT !.seen = "stale"]
  <2>1. adminOp'[d] = IF adminOp[d] # NoRequest /\ adminOp[d].seen = "yes" THEN m ELSE adminOp[d]
    BY DEF Disturbed
  <2>2. CASE adminOp[d] = NoRequest
    BY <2>1, <2>2, RequestShapes DEF GoesOn, Frozen, ChangeSteps
  <2>3. CASE adminOp[d] # NoRequest /\ adminOp[d].seen # "yes"
    BY <2>1, <2>3, RequestShapes DEF GoesOn, Frozen, AdminTypes
  <2>4. CASE adminOp[d] # NoRequest /\ adminOp[d].seen = "yes"
    <3>1. adminOp[d] \in Assigning \/ adminOp[d] \in Deleting \/ adminOp[d] \in Changing
      BY <2>4 DEF AdminTypes, AdminRequest
    <3>2. CASE adminOp[d] \in Assigning
      <4>1. m \in Assigning /\ m.at = adminOp[d].at /\ m.user = adminOp[d].user /\ m.seen = "stale"
        BY <3>2 DEF Assigning, Seen
      <4>2. adminOp[d].at = "assign"
        BY <3>2 DEF Assigning
      <4> QED
        BY <2>1, <2>4, <4>1, <4>2 DEF GoesOn, Frozen, AdminRequest, ChangeSteps
    <3>3. CASE adminOp[d] \in Deleting
      <4>1. m \in Deleting /\ m.at = adminOp[d].at /\ m.user = adminOp[d].user /\ m.seen = "stale"
        BY <3>3 DEF Deleting, Seen
      <4>2. adminOp[d].at \in {"others", "batch"}
        BY <3>3 DEF Deleting
      <4> QED
        BY <2>1, <2>4, <4>1, <4>2 DEF GoesOn, Frozen, AdminRequest, ChangeSteps
    <3>4. CASE adminOp[d] \in Changing
      <4>1. /\ m \in Changing /\ m.at = adminOp[d].at /\ m.user = adminOp[d].user /\ m.seen = "stale"
            /\ m.role = adminOp[d].role /\ m.ban = adminOp[d].ban
        BY <3>4 DEF Changing, Seen
      <4> QED
        BY <2>1, <2>4, <4>1 DEF GoesOn, Frozen, AdminRequest
    <3> QED
      BY <3>1, <3>2, <3>3, <3>4
  <2> QED
    BY <2>2, <2>3, <2>4
<1>3. adminOp' \in [Call -> AdminRequest \cup {NoRequest}]
  <2>1. \A d \in Call : adminOp'[d] \in AdminRequest \cup {NoRequest}
    BY <1>1, <1>2
  <2>2. adminOp' = [d \in Call |-> adminOp'[d]]
    BY DEF Disturbed
  <2> QED
    BY <2>1, <2>2
<1> QED
  BY <1>1, <1>2, <1>3

LEMMA Unmoved ==
    ASSUME NEW d \in Call, adminOp'[d] = adminOp[d]
    PROVE  GoesOn(d)
BY DEF GoesOn

\* What the policies of the other requests have done, they have done.
LEMMA RequestsGoOn ==
    ASSUME AdminInv, NEW c \in Call \cup {None}, \A d \in Call \ {c} : GoesOn(d),
           c \in Call =>
             /\ Looked(c)'
             /\ adminOp'[c].at = "assign" => \A d \in Call \ {c} :
                  adminOp[d].at \in {"others", "batch"} => adminOp'[c].user # adminOp[d].user
             /\ adminOp'[c].at \in {"others", "batch"} => \A d \in Call \ {c} :
                  adminOp[d].at = "assign" => adminOp'[c].user # adminOp[d].user
    PROVE  PoliciesLook' /\ DeletionsWait'
<1>1. ASSUME NEW d \in Call \ {c} PROVE Looked(d)'
  <2>1. Looked(d) /\ GoesOn(d)
    BY DEF AdminInv, PoliciesLook
  <2>2. adminOp[d].at = "write" /\ Checked(d)' => Checked(d)
    BY <2>1 DEF GoesOn, Checked, ChangeSteps
  <2> QED
    BY <2>1, <2>2 DEF Looked, GoesOn, ChangeSteps
<1>2. PoliciesLook'
  BY <1>1 DEF PoliciesLook
<1>3. ASSUME NEW d \in Call, NEW e \in Call,
             adminOp'[d].at = "assign", adminOp'[e].at \in {"others", "batch"}
      PROVE  adminOp'[d].user # adminOp'[e].user
  <2>1. CASE d = c
    BY <1>3, <2>1 DEF GoesOn
  <2>2. CASE e = c
    BY <1>3, <2>2 DEF GoesOn
  <2>3. CASE d # c /\ e # c
    BY <1>3, <2>3 DEF GoesOn, AdminInv, DeletionsWait
  <2> QED
    BY <2>1, <2>2, <2>3
<1> QED
  BY <1>2, <1>3 DEF DeletionsWait

\* A write that was harmless stays so while the administrators are the same,
\* and is no longer counted harmless when an account has changed.
LEMMA StaysHarmless ==
    ASSUME AdminInv, ~unprotected, NEW d \in Call, GoesOn(d),
           PlainAdmins' = PlainAdmins \/ Frozen(d)
    PROVE  Harmless(d)'
<1> SUFFICES ASSUME adminOp'[d].at = "write", Checked(d)', adminOp'[d].seen = "yes",
                    adminOp'[d].user \in PlainAdmins'
    PROVE  PlainAdmins' \ {adminOp'[d].user} # {}
  BY DEF Harmless
<1>1. /\ adminOp[d].at = "write" /\ Checked(d) /\ adminOp[d].seen = "yes" /\ ~Frozen(d)
      /\ adminOp'[d].user = adminOp[d].user
  BY DEF GoesOn, Checked, ChangeSteps, Frozen
<1> QED
  BY <1>1 DEF AdminInv, Harmless

\* A step that leaves the accounts alone and moves one request.
LEMMA RequestStep ==
    ASSUME AdminInv, NEW c \in Call, NEW m \in AdminRequest \cup {NoRequest},
           UNCHANGED <<users, unprotected, unassigned>>, adminClock' \in Nat,
           adminOps' \in Nat, adminOps <= adminOps', adminOp' = [adminOp EXCEPT ![c] = m],
           adminOp[c].at # "assign", m.at # "assign",
           m.at \in {"others", "batch"} =>
               \A d \in Call \ {c} : adminOp[d].at = "assign" => m.user # adminOp[d].user,
           Looked(c)',
           ~unprotected => Harmless(c)',
           ~unprotected /\ ~unassigned /\ PlainAdmins = {} => m.at \notin ChangeSteps
    PROVE  AdminInv'
<1>1. adminOp'[c] = m /\ \A d \in Call \ {c} : adminOp'[d] = adminOp[d] /\ GoesOn(d)
  BY Unmoved DEF AdminInv, AdminTypes
<1>2. AdminTypes'
  <2>1. adminOp' \in [Call -> AdminRequest \cup {NoRequest}]
    BY DEF AdminInv, AdminTypes
  <2>2. \A u \in Accounts' : users'[u].born <= adminOps'
    BY AccountFields DEF AdminInv, AdminTypes, Accounts
  <2> QED
    BY <2>1, <2>2 DEF AdminInv, AdminTypes
<1>3. PoliciesLook' /\ DeletionsWait'
  BY <1>1, RequestsGoOn
<1>4. PlainAdmins' = PlainAdmins /\ Accounts' = Accounts
  BY DEF PlainAdmins, Accounts
<1>5. ~unprotected' => BansLast' /\ \A d \in Call : Harmless(d)'
  <2>1. ~unprotected' => BansLast'
    BY <1>4 DEF AdminInv, BansLast
  <2> QED
    BY <1>1, <1>4, <2>1, StaysHarmless
<1>6. ASSUME ~unprotected, ~unassigned, PlainAdmins = {} PROVE NewDeployment'
  <2>1. NewDeployment /\ m.at \notin ChangeSteps
    BY <1>6 DEF AdminInv
  <2>2. OldestIsAssigned => OldestIsAssigned'
    <3> SUFFICES ASSUME NEW d \in Call, adminOp[d].at = "assign", adminOp[d].user \in Accounts,
                        Oldest(adminOp[d].user)
        PROVE  OldestIsAssigned'
      BY DEF OldestIsAssigned
    <3>1. d # c /\ adminOp'[d] = adminOp[d]
      BY <1>1
    <3> QED
      BY <1>4, <3>1 DEF OldestIsAssigned, Oldest
  <2> QED
    BY <1>1, <1>4, <2>1, <2>2 DEF NewDeployment
<1> QED
  BY <1>2, <1>3, <1>4, <1>5, <1>6 DEF AdminInv

\* Continue goes to a step with a policy that has looked.
LEMMA ContinueMeans ==
    ASSUME AdminTypes, NEW c \in Call, NEW step \in ChangeSteps, adminOp[c].at \in ChangeSteps,
           Continue(c, step)
    PROVE  \E m \in Changing :
             /\ adminOp' = [adminOp EXCEPT ![c] = m]
             /\ m.at = step /\ m.seen # "no" /\ m.user = adminOp[c].user
             /\ m.role = adminOp[c].role /\ m.ban = adminOp[c].ban
<1> DEFINE seen == IF adminOp[c].seen = "no" THEN "yes" ELSE adminOp[c].seen
           m == [adminOp[c] EXCEPT !.at = step, !.seen = seen]
<1>1. adminOp[c] \in Changing
  BY RequestShapes
<1>2. seen \in Seen /\ seen # "no"
  BY <1>1 DEF Changing, Seen
<1> HIDE DEF seen
<1>3. /\ m \in Changing /\ m.at = step /\ m.seen = seen /\ m.user = adminOp[c].user
      /\ m.role = adminOp[c].role /\ m.ban = adminOp[c].ban
  BY <1>1, <1>2 DEF Changing
<1>4. adminOp' = [adminOp EXCEPT ![c] = m]
  BY DEF Continue, seen
<1> HIDE DEF m
<1> QED
  BY <1>2, <1>3, <1>4

\* A policy looks on, or ends the request: it never writes.
LEMMA PolicyStep ==
    ASSUME AdminInv, NEW c \in Call, adminOp[c].at \in ChangeSteps,
           UNCHANGED <<users, unprotected, unassigned, adminClock, adminOps>>,
           NEW step \in ChangeSteps, EndRequest(c) \/ Continue(c, step),
           step = "write" /\ ~unprotected /\ Checked(c) /\ adminOp[c].user \in PlainAdmins =>
               EndRequest(c) \/ PlainAdmins \ {adminOp[c].user} # {}
    PROVE  AdminInv'
<1>1. /\ adminClock' \in Nat /\ adminOps' \in Nat /\ adminOps <= adminOps' /\ adminOp[c].at # "assign"
      /\ UNCHANGED <<users, unprotected, unassigned>>
  BY DEF AdminInv, AdminTypes, ChangeSteps
<1>2. ~(~unprotected /\ ~unassigned /\ PlainAdmins = {})
  BY DEF AdminInv, NewDeployment
<1>3. CASE EndRequest(c)
  <2>1. /\ adminOp' = [adminOp EXCEPT ![c] = NoRequest] /\ adminOp'[c] = NoRequest
        /\ NoRequest.at = "idle" /\ NoRequest.at # "assign"
      /\ NoRequest.at \notin {"others", "batch"} /\ NoRequest.at \notin ChangeSteps
      /\ NoRequest \in AdminRequest \cup {NoRequest}
    BY <1>3 DEF EndRequest, AdminInv, AdminTypes, NoRequest, ChangeSteps
  <2>2. Looked(c)' /\ Harmless(c)'
    BY <2>1 DEF Looked, Harmless
  <2> QED
    BY <1>1, <2>1, <2>2, RequestStep
<1>4. CASE Continue(c, step) /\ ~EndRequest(c)
  <2>1. PICK m \in Changing :
          /\ adminOp' = [adminOp EXCEPT ![c] = m]
          /\ m.at = step /\ m.seen # "no" /\ m.user = adminOp[c].user
          /\ m.role = adminOp[c].role /\ m.ban = adminOp[c].ban
    BY <1>4, ContinueMeans DEF AdminInv
  <2>2. adminOp'[c] = m
    BY <2>1 DEF AdminInv, AdminTypes
  <2>3. Looked(c)'
    BY <2>1, <2>2 DEF Looked
  <2>4. PlainAdmins' = PlainAdmins
    BY DEF PlainAdmins
  <2>5. Checked(c)' => Checked(c)
    BY <2>1, <2>2 DEF Checked
  <2>6. ~unprotected => Harmless(c)'
    BY <1>4, <2>1, <2>2, <2>4, <2>5 DEF Harmless
  <2>7. m \in AdminRequest \cup {NoRequest} /\ m.at # "assign" /\ m.at \notin {"others", "batch"}
    BY <2>1 DEF AdminRequest, ChangeSteps
  <2> QED
    BY <1>1, <1>2, <2>1, <2>3, <2>6, <2>7, RequestStep
<1> QED
  BY <1>3, <1>4

\* What a policy that does not apply has seen.
LEMMA PolicySees ==
    ASSUME AdminInv, ~unprotected
    PROVE  ActiveAdmins = PlainAdmins /\ CountedAdmins = PlainAdmins
BY AdminsArePlain DEF AdminInv

LEMMA SetRolePolicyKeeps ==
    ASSUME AdminInv, NEW c \in Call, enforceSetRolePolicy(c)
    PROVE  AdminInv'
<1>1. /\ adminOp[c].at \in ChangeSteps
      /\ UNCHANGED <<users, unprotected, unassigned, adminClock, adminOps>>
  BY DEF enforceSetRolePolicy, RequestAt, ChangeSteps
<1>2. AfterRole(c) \in ChangeSteps
  BY DEF AfterRole, ChangeSteps
<1>3. CASE ~PolicyApplies(adminOp[c].user) /\ Continue(c, AfterRole(c))
  BY <1>1, <1>2, <1>3, PolicySees, PolicyStep DEF PolicyApplies
<1>4. CASE EndRequest(c) \/ Continue(c, "count")
  <2>1. "count" \in ChangeSteps /\ "count" # "write"
    BY DEF ChangeSteps
  <2> QED
    BY <1>1, <1>4, <2>1, PolicyStep
<1> QED
  BY <1>3, <1>4 DEF enforceSetRolePolicy

LEMMA CountAdminsKeeps ==
    ASSUME AdminInv, NEW c \in Call, countAdmins(c)
    PROVE  AdminInv'
<1>1. /\ adminOp[c].at \in ChangeSteps
      /\ UNCHANGED <<users, unprotected, unassigned, adminClock, adminOps>>
  BY DEF countAdmins, RequestAt, ChangeSteps
<1>2. AfterRole(c) \in ChangeSteps
  BY DEF AfterRole, ChangeSteps
<1>3. CASE EndRequest(c)
  BY <1>1, <1>2, <1>3, PolicyStep
<1>4. CASE ~(Cardinality(CountedAdmins) <= 1) /\ Continue(c, AfterRole(c))
  <2>1. CountedAdmins \ {adminOp[c].user} # {}
    <3> SUFFICES ASSUME CountedAdmins \ {adminOp[c].user} = {} PROVE Cardinality(CountedAdmins) <= 1
      BY <1>4
    <3>1. CountedAdmins = {} \/ CountedAdmins = {adminOp[c].user}
      OBVIOUS
    <3>2. Cardinality({}) = 0 /\ Cardinality({adminOp[c].user}) = 1
      BY FS_EmptySet, FS_Singleton
    <3>3. Cardinality(CountedAdmins) \in {0, 1}
      BY <3>1, <3>2
    <3> QED
      BY <3>3
  <2>2. ~unprotected => PlainAdmins \ {adminOp[c].user} # {}
    BY <2>1, PolicySees
  <2> QED
    BY <1>1, <1>2, <1>4, <2>2, PolicyStep
<1> QED
  BY <1>3, <1>4 DEF countAdmins

LEMMA BanPolicyKeeps ==
    ASSUME AdminInv, NEW c \in Call, enforceBanUserPolicy(c)
    PROVE  AdminInv'
<1>1. /\ adminOp[c].at \in ChangeSteps
      /\ UNCHANGED <<users, unprotected, unassigned, adminClock, adminOps>>
  BY DEF enforceBanUserPolicy, RequestAt, ChangeSteps
<1>2. "write" \in ChangeSteps /\ "reserve" \in ChangeSteps /\ "reserve" # "write"
  BY DEF ChangeSteps
<1>3. CASE ~PolicyApplies(adminOp[c].user) /\ Continue(c, "write")
  BY <1>1, <1>2, <1>3, PolicySees, PolicyStep DEF PolicyApplies
<1>4. CASE EndRequest(c) \/ Continue(c, "reserve")
  BY <1>1, <1>2, <1>4, PolicyStep
<1> QED
  BY <1>3, <1>4 DEF enforceBanUserPolicy

LEMMA BeginMeans ==
    ASSUME AdminInv, NEW c \in Call, NEW m, BeginRequest(c, m)
    PROVE  /\ adminOp[c].at = "idle" /\ adminOp' = [adminOp EXCEPT ![c] = m] /\ adminOp'[c] = m
           /\ adminOps' = adminOps + 1 /\ adminOps' \in Nat /\ adminOps <= adminOps' /\ adminOps \in Nat
           /\ \A d \in Call \ {c} : adminOp'[d] = adminOp[d]
BY RequestShapes DEF BeginRequest, AdminInv, AdminTypes

LEMMA ChangeUserKeeps ==
    ASSUME AdminInv, NEW c \in Call, ChangeUser(c)
    PROVE  AdminInv'
<1> DEFINE Asks(actor, u, role, ban, until) ==
             BeginRequest(c, [at |-> IF role = "user" THEN "role" ELSE IF ban = TRUE THEN "ban" ELSE "write",
                              actor |-> actor, user |-> u, role |-> role, ban |-> ban, until |-> until,
                              seen |-> "no"])
<1>0. \E actor \in ActiveAdmins, u \in Accounts, role \in {None, "admin", "user"}, ban \in {None, TRUE} :
        \E until \in {None, adminClock + 1} : Asks(actor, u, role, ban, until)
  BY ZenonT(60) DEF ChangeUser
<1>1. PICK actor \in ActiveAdmins, u \in Accounts, role \in {None, "admin", "user"}, ban \in {None, TRUE},
           until \in {None, adminClock + 1} : Asks(actor, u, role, ban, until)
  <2> HIDE DEF Asks
  <2> QED
    BY <1>0
<1> DEFINE step == IF role = "user" THEN "role" ELSE IF ban = TRUE THEN "ban" ELSE "write"
           m == [at |-> step, actor |-> actor, user |-> u, role |-> role, ban |-> ban,
                 until |-> until, seen |-> "no"]
<1>2. UNCHANGED <<users, unprotected, unassigned, adminClock>>
  BY DEF ChangeUser
<1>3. actor \in User /\ u \in User /\ until \in Nat \cup {None} /\ step \in ChangeSteps
  BY DEF ActiveAdmins, Accounts, AdminInv, AdminTypes, ChangeSteps
<1>4. BeginRequest(c, m)
  BY <1>1
<1>5. step = "write" => role # "user" /\ ban # TRUE
  OBVIOUS
<1>6. step \in {"role", "ban", "write"}
  OBVIOUS
<1> HIDE DEF step
<1>7. /\ m \in Changing /\ m.at = step /\ m.seen = "no" /\ m.role = role /\ m.ban = ban
  BY <1>3 DEF Changing, Seen
<1> HIDE DEF m
<1>8. /\ adminOp[c].at # "assign" /\ adminOp' = [adminOp EXCEPT ![c] = m] /\ adminOp'[c] = m
      /\ adminOps' \in Nat /\ adminOps <= adminOps' /\ adminClock' \in Nat
  BY <1>2, <1>4, BeginMeans DEF AdminInv, AdminTypes
<1>9. Looked(c)' /\ Harmless(c)'
  BY <1>5, <1>6, <1>7, <1>8 DEF Looked, Harmless, Checked
<1>10. ~unprotected => PlainAdmins # {}
  BY <1>1, PolicySees
<1>11. m \in AdminRequest \cup {NoRequest} /\ m.at # "assign" /\ m.at \notin {"others", "batch"}
  BY <1>3, <1>6, <1>7 DEF AdminRequest
<1> QED
  BY <1>2, <1>8, <1>9, <1>10, <1>11, RequestStep

LEMMA DeleteOwnAccountKeeps ==
    ASSUME AdminInv, NEW c \in Call, deleteOwnAccount(c)
    PROVE  AdminInv'
<1>1. PICK u \in Accounts :
         /\ ~\E d \in Call : RequestAt(d, "assign") /\ adminOp[d].user = u
         /\ BeginRequest(c, [at |-> "others", user |-> u, seen |-> "no"])
  BY DEF deleteOwnAccount
<1> DEFINE m == [at |-> "others", user |-> u, seen |-> "no"]
<1>2. UNCHANGED <<users, unprotected, unassigned, adminClock>>
  BY DEF deleteOwnAccount
<1>3. m \in Deleting /\ m.at = "others" /\ m.user = u
  BY DEF Deleting, Seen, Accounts
<1>4. BeginRequest(c, m)
  BY <1>1
<1> HIDE DEF m
<1>5. /\ adminOp[c].at # "assign" /\ adminOp' = [adminOp EXCEPT ![c] = m] /\ adminOp'[c] = m
      /\ adminOps' \in Nat /\ adminOps <= adminOps' /\ adminClock' \in Nat
  BY <1>2, <1>4, BeginMeans DEF AdminInv, AdminTypes
<1>6. Looked(c)' /\ Harmless(c)'
  BY <1>3, <1>5 DEF Looked, Harmless
<1>7. m \in AdminRequest \cup {NoRequest} /\ m.at # "assign" /\ m.at \notin ChangeSteps
  BY <1>3 DEF AdminRequest, ChangeSteps
<1>8. \A d \in Call \ {c} : adminOp[d].at = "assign" => m.user # adminOp[d].user
  BY <1>1, <1>3 DEF RequestAt
<1> QED
  BY <1>2, <1>5, <1>6, <1>7, <1>8, RequestStep

LEMMA CheckOtherAdminsKeeps ==
    ASSUME AdminInv, NEW c \in Call, CheckOtherAdmins(c)
    PROVE  AdminInv'
<1>1. /\ adminOp[c].at = "others" /\ UNCHANGED <<users, unprotected, unassigned, adminClock, adminOps>>
      /\ adminClock' \in Nat /\ adminOps' \in Nat /\ adminOps <= adminOps'
  BY DEF CheckOtherAdmins, RequestAt, AdminInv, AdminTypes
<1>2. ASSUME NEW m \in Deleting \cup {NoRequest}, adminOp' = [adminOp EXCEPT ![c] = m],
             m \in Deleting => m.user = adminOp[c].user
      PROVE  AdminInv'
  <2>1. /\ m.at \in {"idle", "others", "batch"}
        /\ m.at \in {"others", "batch"} => m \in Deleting
    BY DEF Deleting, NoRequest
  <2>2. adminOp'[c] = m
    BY <1>2 DEF AdminInv, AdminTypes
  <2>3. Looked(c)' /\ Harmless(c)'
    BY <2>1, <2>2 DEF Looked, Harmless
  <2>4. m \in AdminRequest \cup {NoRequest} /\ m.at # "assign" /\ m.at \notin ChangeSteps
    BY <2>1 DEF AdminRequest, ChangeSteps
  <2>5. m.at \in {"others", "batch"} =>
            \A d \in Call \ {c} : adminOp[d].at = "assign" => m.user # adminOp[d].user
    BY <1>1, <1>2, <2>1 DEF AdminInv, DeletionsWait
  <2>6. adminOp[c].at # "assign"
    BY <1>1
  <2> QED
    BY <1>1, <1>2, <2>3, <2>4, <2>5, <2>6, RequestStep
<1> DEFINE m == [adminOp[c] EXCEPT !.at = "batch"]
<1>3. m \in Deleting /\ m.user = adminOp[c].user
  BY <1>1, RequestShapes DEF AdminInv, Deleting
<1>4. CASE EndRequest(c)
  <2>1. adminOp' = [adminOp EXCEPT ![c] = NoRequest] /\ NoRequest \notin Deleting
    BY <1>4 DEF EndRequest, NoRequest, Deleting
  <2> QED
    BY <2>1, <1>2
<1>5. CASE adminOp' = [adminOp EXCEPT ![c].at = "batch"]
  <2>1. adminOp' = [adminOp EXCEPT ![c] = m]
    BY <1>5
  <2> HIDE DEF m
  <2> QED
    BY <1>2, <1>3, <2>1
<1> QED
  BY <1>4, <1>5 DEF CheckOtherAdmins

\* A step that changes accounts: the policies of the other requests go stale.
LEMMA AccountStep ==
    ASSUME AdminInv, NEW c \in Call \cup {None},
           users' \in [User -> AccountRow \cup {None}], \A u \in Accounts' : users'[u].born <= adminOps,
           UNCHANGED <<unassigned, adminClock, adminOps>>,
           adminOp' \in [Call -> AdminRequest \cup {NoRequest}],
           \A d \in Call \ {c} : GoesOn(d) /\ Frozen(d),
           c \in Call => Looked(c)' /\ adminOp'[c].at \notin {"assign", "others", "batch"},
           ~unprotected' => ~unprotected /\ BansLast' /\ (c \in Call => Harmless(c)'),
           ~unprotected' /\ ~unassigned /\ PlainAdmins' = {} => NewDeployment'
    PROVE  AdminInv'
<1>1. AdminTypes'
  BY DEF AdminInv, AdminTypes
<1>2. PoliciesLook' /\ DeletionsWait'
  BY RequestsGoOn
<1>3. ASSUME ~unprotected', NEW d \in Call PROVE Harmless(d)'
  BY <1>3, StaysHarmless
<1> QED
  BY <1>1, <1>2, <1>3 DEF AdminInv

\* The request that changed the accounts is done.
LEMMA ChangeEnds ==
    ASSUME AdminInv, NEW c \in Call, EndChanging(c)
    PROVE  /\ adminOp' \in [Call -> AdminRequest \cup {NoRequest}]
           /\ \A d \in Call \ {c} : GoesOn(d) /\ Frozen(d)
           /\ adminOp'[c].at = "idle"
           /\ Looked(c)' /\ Harmless(c)'
<1> DEFINE op == [adminOp EXCEPT ![c] = NoRequest]
<1>1. op \in [Call -> AdminRequest \cup {NoRequest}] /\ op[c] = NoRequest
  BY DEF AdminInv, AdminTypes
<1>2. \A d \in Call \ {c} : op[d] = adminOp[d]
  BY DEF AdminInv, AdminTypes
<1>3. adminOp' = Disturbed(op, c)
  BY DEF EndChanging
<1> HIDE DEF op
<1>4. /\ adminOp' \in [Call -> AdminRequest \cup {NoRequest}]
      /\ adminOp'[c] = NoRequest
      /\ \A d \in Call \ {c} : GoesOn(d) /\ Frozen(d)
  BY <1>1, <1>2, <1>3, Disturbance DEF AdminInv
<1>5. adminOp'[c].at = "idle"
  BY <1>4 DEF NoRequest
<1> QED
  BY <1>4, <1>5 DEF Looked, Harmless

\* One account changes.
LEMMA OneAccount ==
    ASSUME AdminTypes, NEW u \in User, NEW row \in AccountRow \cup {None},
           users' = [users EXCEPT ![u] = row]
    PROVE  /\ users' \in [User -> AccountRow \cup {None}]
           /\ users'[u] = row /\ \A v \in User \ {u} : users'[v] = users[v]
           /\ Accounts' \ {u} = Accounts \ {u} /\ (u \in Accounts' <=> row # None)
           /\ PlainAdmins' \ {u} = PlainAdmins \ {u}
<1>1. /\ users' \in [User -> AccountRow \cup {None}]
      /\ users'[u] = row /\ \A v \in User \ {u} : users'[v] = users[v]
  BY DEF AdminTypes
<1> QED
  BY <1>1 DEF Accounts, PlainAdmins

\* An administrator that stays, or a ban that lasts.
LEMMA BansStay ==
    ASSUME AdminTypes, BansLast, NEW u \in User, NEW row \in AccountRow \cup {None},
           users' = [users EXCEPT ![u] = row], row # None => row.banExpires = None
    PROVE  BansLast'
<1>1. \A v \in Accounts' : v \in User /\ (v # u => v \in Accounts)
  BY OneAccount DEF Accounts
<1>2. \A v \in Accounts' \ {u} : users'[v] = users[v]
  BY <1>1, OneAccount
<1> QED
  BY <1>1, <1>2, OneAccount DEF BansLast

LEMMA AssignFirstAdminKeeps ==
    ASSUME AdminInv, NEW c \in Call, assignFirstAdminRole(c)
    PROVE  AdminInv'
<1> DEFINE u == adminOp[c].user
           row == [users[u] EXCEPT !.role = "admin"]
           First == u \in Accounts /\ Oldest(u) /\ ~\E v \in Accounts : isEffectiveAdmin(users[v])
<1>1. /\ adminOp[c].at = "assign" /\ EndChanging(c)
      /\ UNCHANGED <<unprotected, unassigned, adminClock, adminOps>>
      /\ users' = IF First THEN [users EXCEPT ![u] = row] ELSE users
  BY DEF assignFirstAdminRole, RequestAt
<1>2. /\ adminOp' \in [Call -> AdminRequest \cup {NoRequest}]
      /\ \A d \in Call \ {c} : GoesOn(d) /\ Frozen(d)
      /\ adminOp'[c].at \notin {"assign", "others", "batch"} \cup ChangeSteps
      /\ Looked(c)' /\ Harmless(c)'
  BY <1>1, ChangeEnds DEF ChangeSteps
<1> USE DEF AdminInv
<1>3. CASE First
  <2>1. u \in Accounts /\ u \in User /\ users[u] \in AccountRow /\ users[u].born <= adminOps
    BY <1>3, AccountFields DEF AdminTypes
  <2>2. /\ row \in AccountRow /\ row.role = "admin" /\ row.born = users[u].born
        /\ row.banExpires = users[u].banExpires
        /\ row.banned <=> users[u].banned
    BY <2>1 DEF AccountRow
  <2>3. users' = [users EXCEPT ![u] = row]
    BY <1>1, <1>3
  <2> HIDE DEF row, First
  <2>a. AdminTypes /\ row \in AccountRow \cup {None} /\ row # None
    BY <2>2, AdminNulls
  <2> HIDE DEF u
  <2>b. /\ users' \in [User -> AccountRow \cup {None}]
        /\ users'[u] = row /\ \A v \in User \ {u} : users'[v] = users[v]
        /\ Accounts' \ {u} = Accounts \ {u} /\ (u \in Accounts' <=> row # None)
        /\ PlainAdmins' \ {u} = PlainAdmins \ {u}
    BY <2>1, <2>3, <2>a, OneAccount
  <2>4. /\ users' \in [User -> AccountRow \cup {None}]
        /\ users'[u] = row /\ \A v \in User \ {u} : users'[v] = users[v]
        /\ Accounts' = Accounts
    BY <2>1, <2>a, <2>b
  <2>5. \A v \in Accounts' : users'[v].born <= adminOps
    BY <2>1, <2>2, <2>4 DEF AdminTypes, Accounts
  <2>6. ~unprotected => BansLast'
    <3> SUFFICES ASSUME ~unprotected PROVE BansLast'
      OBVIOUS
    <3>1. row.banExpires = None
      BY <2>1, <2>2 DEF BansLast
    <3> QED
      BY <2>1, <2>2, <2>3, <3>1, BansStay
  <2>7. ASSUME ~unprotected, ~unassigned PROVE PlainAdmins' # {}
    <3>1. CASE PlainAdmins = {}
      <4>1. ~users[u].banned
        BY <2>1, <2>7, <3>1 DEF NewDeployment
      <4>2. u \in PlainAdmins'
        BY <2>1, <2>2, <2>4, <4>1, AdminNulls DEF PlainAdmins
      <4> QED
        BY <4>2
    <3>2. CASE PlainAdmins # {}
      <4>1. PICK v \in PlainAdmins : TRUE
        BY <3>2
      <4>2. v # u
        BY <1>3, <2>1, <4>1 DEF First, PlainAdmins, isEffectiveAdmin
      <4> QED
        BY <2>b, <4>1, <4>2
    <3> QED
      BY <3>1, <3>2
  <2> QED
    BY <1>1, <1>2, <2>4, <2>5, <2>6, <2>7, AccountStep
<1>4. CASE ~First
  <2>1. users' = users
    BY <1>1, <1>4
  <2> HIDE DEF First
  <2>2. Accounts' = Accounts /\ PlainAdmins' = PlainAdmins /\ (BansLast => BansLast')
    BY <2>1 DEF Accounts, PlainAdmins, BansLast
  <2>3. users' \in [User -> AccountRow \cup {None}] /\ \A v \in Accounts' : users'[v].born <= adminOps
    BY <2>1, <2>2 DEF AdminTypes
  <2>4. ASSUME ~unprotected, ~unassigned, PlainAdmins = {} PROVE NewDeployment'
    <3>1. NewDeployment
      BY <2>4
    <3>2. Accounts # {} => OldestIsAssigned'
      <4> SUFFICES ASSUME Accounts # {} PROVE OldestIsAssigned'
        OBVIOUS
      <4>1. PICK w \in Call :
               adminOp[w].at = "assign" /\ adminOp[w].user \in Accounts /\ Oldest(adminOp[w].user)
        BY <3>1 DEF NewDeployment, OldestIsAssigned
      <4>2. w # c
        BY <1>4, <3>1, <4>1 DEF First, NewDeployment, isEffectiveAdmin
      <4>3. adminOp'[w].at = "assign" /\ adminOp'[w].user = adminOp[w].user
        BY <1>2, <4>1, <4>2 DEF GoesOn
      <4> QED
        BY <2>1, <2>2, <4>1, <4>3 DEF OldestIsAssigned, Oldest
    <3>3. \A d \in Call : adminOp'[d].at \notin ChangeSteps
      <4> QED
        BY <1>2, <3>1 DEF NewDeployment, GoesOn
    <3> QED
      BY <2>1, <2>2, <3>1, <3>2, <3>3 DEF NewDeployment
  <2> QED
    BY <1>1, <1>2, <2>2, <2>3, <2>4, AccountStep
<1> QED
  BY <1>3, <1>4

LEMMA ReserveAdminBanKeeps ==
    ASSUME AdminInv, NEW c \in Call, reserveAdminBan(c)
    PROVE  AdminInv'
<1> DEFINE u == adminOp[c].user
           row == [users[u] EXCEPT !.banned = TRUE]
           m == [adminOp[c] EXCEPT !.at = "write"]
           op == [adminOp EXCEPT ![c] = m]
<1>1. adminOp[c].at = "reserve" /\ UNCHANGED <<unprotected, unassigned, adminClock, adminOps>>
  BY DEF reserveAdminBan, RequestAt
<1>2. CASE EndRequest(c) /\ UNCHANGED users
  <2>1. adminOp[c].at \in ChangeSteps /\ "count" \in ChangeSteps /\ "count" # "write"
    BY <1>1 DEF ChangeSteps
  <2> QED
    BY <1>1, <1>2, <2>1, PolicyStep
<1>3. CASE /\ BanReserved(u) /\ users' = [users EXCEPT ![u] = row]
           /\ adminOp' = Disturbed(op, c)
  <2>1. adminOp[c] \in Changing /\ adminOp[c].seen # "no" /\ AdminTypes
    BY <1>1, RequestShapes DEF AdminInv, PoliciesLook, Looked, ChangeSteps
  <2>2. m \in Changing /\ m.at = "write" /\ m.seen = adminOp[c].seen /\ m.user = u
    BY <2>1 DEF Changing, ChangeSteps
  <2> HIDE DEF m
  <2>3. /\ op \in [Call -> AdminRequest \cup {NoRequest}] /\ op[c] = m
        /\ \A d \in Call \ {c} : op[d] = adminOp[d]
    BY <2>1, <2>2 DEF AdminTypes, AdminRequest
  <2> HIDE DEF op
  <2>4. /\ adminOp' \in [Call -> AdminRequest \cup {NoRequest}]
        /\ adminOp'[c] = m
        /\ \A d \in Call \ {c} : GoesOn(d) /\ Frozen(d)
    BY <1>3, <2>1, <2>3, Disturbance
  <2>5. u \in CountedAdmins /\ CountedAdmins \ {u} # {}
    BY <1>3 DEF BanReserved
  <2>6. u \in Accounts /\ u \in User /\ users[u] \in AccountRow /\ users[u].born <= adminOps
    BY <2>1, <2>5, AccountFields DEF CountedAdmins, AdminTypes
  <2>7. /\ row \in AccountRow /\ row.born = users[u].born /\ row.banExpires = users[u].banExpires
        /\ row.banned = TRUE
    BY <2>6 DEF AccountRow
  <2>8. users' = [users EXCEPT ![u] = row]
    BY <1>3
  <2>9. row \in AccountRow \cup {None} /\ row # None
    BY <2>7, AdminNulls
  <2> HIDE DEF row, u
  <2>10. /\ users' \in [User -> AccountRow \cup {None}]
         /\ users'[u] = row /\ \A v \in User \ {u} : users'[v] = users[v]
         /\ Accounts' \ {u} = Accounts \ {u} /\ (u \in Accounts' <=> row # None)
         /\ PlainAdmins' \ {u} = PlainAdmins \ {u}
    BY <2>1, <2>6, <2>8, <2>9, OneAccount
  <2>11. \A v \in Accounts' : users'[v].born <= adminOps
    BY <2>6, <2>7, <2>10, <2>1 DEF AdminTypes, Accounts
  <2>12. u \notin PlainAdmins'
    BY <2>7, <2>10 DEF PlainAdmins
  <2>13. ASSUME ~unprotected PROVE BansLast' /\ PlainAdmins' # {}
    <3>1. BansLast /\ CountedAdmins = PlainAdmins
      BY <2>13, PolicySees DEF AdminInv
    <3>2. row.banExpires = None
      BY <2>6, <2>7, <3>1 DEF BansLast
    <3> QED
      BY <2>1, <2>5, <2>6, <2>8, <2>9, <2>10, <3>1, <3>2, BansStay
  <2>14. Looked(c)'
    BY <2>1, <2>2, <2>4 DEF Looked
  <2>15. Harmless(c)'
    BY <2>2, <2>4, <2>12 DEF Harmless, u
  <2>16. adminOp'[c].at \notin {"assign", "others", "batch"}
    BY <2>2, <2>4
  <2> QED
    BY <1>1, <2>4, <2>10, <2>11, <2>13, <2>14, <2>15, <2>16, AccountStep
<1> QED
  BY <1>2, <1>3 DEF reserveAdminBan

LEMMA WriteUserKeeps ==
    ASSUME AdminInv, NEW c \in Call, WriteUser(c)
    PROVE  AdminInv'
<1> DEFINE r == adminOp[c]
           u == adminOp[c].user
           row == [users[u] EXCEPT !.role = IF r.role = None THEN users[u].role ELSE r.role,
                                   !.banned = IF r.ban = None THEN users[u].banned ELSE TRUE,
                                   !.banExpires = IF r.ban = None THEN users[u].banExpires ELSE r.until]
<1>1. /\ adminOp[c].at = "write" /\ EndChanging(c) /\ UNCHANGED <<unassigned, adminClock, adminOps>>
      /\ users' = IF users[u] = None THEN users ELSE [users EXCEPT ![u] = row]
  BY DEF WriteUser, RequestAt
<1>2. ~unprotected' => ~unprotected /\ ~(Checked(c) /\ r.seen = "stale") /\ (r.ban = TRUE => r.until = None)
  BY DEF WriteUser, Checked
<1>3. /\ adminOp' \in [Call -> AdminRequest \cup {NoRequest}]
      /\ \A d \in Call \ {c} : GoesOn(d) /\ Frozen(d)
      /\ adminOp'[c].at \notin {"assign", "others", "batch"}
      /\ Looked(c)' /\ Harmless(c)'
  BY <1>1, ChangeEnds
<1>4. r \in Changing /\ u \in User /\ AdminTypes /\ Looked(c) /\ (~unprotected => Harmless(c))
  BY <1>1, RequestShapes DEF AdminInv, PoliciesLook, ChangeSteps
<1>5. /\ r.role \in {None, "admin", "user"} /\ r.ban \in {None, TRUE} /\ r.seen \in Seen
      /\ r.until \in Nat \cup {None}
  BY <1>4 DEF Changing
<1>6. adminOp[c].at \in ChangeSteps
  BY <1>1 DEF ChangeSteps
<1>7. ~unprotected /\ ~unassigned => PlainAdmins # {}
  BY <1>6 DEF AdminInv, NewDeployment
<1>8. CASE users[u] = None
  <2>1. users' = users
    BY <1>1, <1>8
  <2>2. Accounts' = Accounts /\ PlainAdmins' = PlainAdmins /\ (BansLast => BansLast')
    BY <2>1 DEF Accounts, PlainAdmins, BansLast
  <2>3. users' \in [User -> AccountRow \cup {None}] /\ \A v \in Accounts' : users'[v].born <= adminOps
    BY <1>4, <2>1, <2>2 DEF AdminTypes
  <2>4. ~unprotected => BansLast
    BY DEF AdminInv
  <2> QED
    BY <1>1, <1>2, <1>3, <1>7, <2>2, <2>3, <2>4, AccountStep
<1>9. CASE users[u] # None
  <2>1. u \in Accounts /\ users[u] \in AccountRow /\ users[u].born <= adminOps
    BY <1>4, <1>9 DEF Accounts, AdminTypes
  <2>2. /\ row \in AccountRow /\ row.born = users[u].born
        /\ r.ban = None => row.banExpires = users[u].banExpires
        /\ r.ban # None => row.banExpires = r.until
    BY <1>5, <2>1 DEF AccountRow
  <2>3. r.role # "user" /\ r.ban # TRUE /\ users[u].role = "admin" /\ ~users[u].banned
            => row.role = "admin" /\ ~row.banned
    BY <1>5, <2>1 DEF AccountRow
  <2>4. users' = [users EXCEPT ![u] = row]
    BY <1>1, <1>9
  <2>5. row \in AccountRow \cup {None} /\ row # None
    BY <2>2, AdminNulls
  <2> HIDE DEF row, u, r
  <2>6. /\ users' \in [User -> AccountRow \cup {None}]
        /\ users'[u] = row /\ \A v \in User \ {u} : users'[v] = users[v]
        /\ Accounts' \ {u} = Accounts \ {u} /\ (u \in Accounts' <=> row # None)
        /\ PlainAdmins' \ {u} = PlainAdmins \ {u}
    BY <1>4, <2>4, <2>5, OneAccount
  <2>7. \A v \in Accounts' : users'[v].born <= adminOps
    BY <1>4, <2>1, <2>2, <2>6 DEF AdminTypes, Accounts
  <2>8. ASSUME ~unprotected' PROVE BansLast'
    <3>1. BansLast
      BY <1>2, <2>8 DEF AdminInv
    <3>2. row.banExpires = None
      BY <1>2, <1>5, <2>1, <2>2, <2>8, <3>1 DEF BansLast
    <3> QED
      BY <1>4, <2>4, <2>5, <3>1, <3>2, BansStay
  <2>9. ASSUME ~unprotected', ~unassigned PROVE PlainAdmins' # {}
    <3>1. PlainAdmins # {}
      BY <1>2, <1>7, <2>9
    <3>2. CASE Checked(c)
      <4>1. r.seen = "yes"
        BY <1>1, <1>2, <1>4, <1>5, <2>9, <3>2 DEF Looked, Seen, r
      <4>2. u \in PlainAdmins => PlainAdmins \ {u} # {}
        BY <1>1, <1>2, <1>4, <2>9, <3>2, <4>1 DEF Harmless, r, u
      <4> QED
        BY <2>6, <3>1, <4>2
    <3>3. CASE ~Checked(c)
      <4>1. r.role # "user" /\ r.ban # TRUE
        BY <3>3 DEF Checked, r
      <4>2. u \in PlainAdmins => u \in PlainAdmins'
        BY <1>4, <2>3, <2>5, <2>6, <4>1 DEF PlainAdmins
      <4> QED
        BY <2>6, <3>1, <4>2
    <3> QED
      BY <3>2, <3>3
  <2> QED
    BY <1>1, <1>2, <1>3, <2>6, <2>7, <2>8, <2>9, AccountStep
<1> QED
  BY <1>8, <1>9

LEMMA UnbanUserKeeps ==
    ASSUME AdminInv, unbanUser
    PROVE  AdminInv'
<1>1. PICK u \in Accounts :
         /\ ActiveAdmins # {} /\ users[u].banned
         /\ users' = [users EXCEPT ![u].banned = FALSE, ![u].banExpires = None]
         /\ adminOp' = Disturbed(adminOp, None)
         /\ UNCHANGED <<unprotected, unassigned, adminClock, adminOps>>
  BY DEF unbanUser
<1> DEFINE row == [users[u] EXCEPT !.banned = FALSE, !.banExpires = None]
<1>2. u \in User /\ users[u] \in AccountRow /\ users[u].born <= adminOps /\ AdminTypes
  BY AccountFields DEF AdminInv, AdminTypes
<1>3. row \in AccountRow /\ row.born = users[u].born /\ row.banExpires = None
  BY <1>2 DEF AccountRow
<1>4. users' = [users EXCEPT ![u] = row]
  BY <1>1
<1>5. row \in AccountRow \cup {None} /\ row # None
  BY <1>3, AdminNulls
<1> HIDE DEF row
<1>6. /\ users' \in [User -> AccountRow \cup {None}]
      /\ users'[u] = row /\ \A v \in User \ {u} : users'[v] = users[v]
      /\ Accounts' \ {u} = Accounts \ {u} /\ (u \in Accounts' <=> row # None)
      /\ PlainAdmins' \ {u} = PlainAdmins \ {u}
  BY <1>2, <1>4, <1>5, OneAccount
<1>7. \A v \in Accounts' : users'[v].born <= adminOps
  BY <1>2, <1>3, <1>6 DEF AdminTypes, Accounts
<1>8. /\ adminOp' \in [Call -> AdminRequest \cup {NoRequest}]
      /\ \A d \in Call \ {None} : GoesOn(d) /\ Frozen(d)
  <2>1. adminOp \in [Call -> AdminRequest \cup {NoRequest}]
    BY <1>2 DEF AdminTypes
  <2> QED
    BY <1>1, <1>2, <2>1, Disturbance
<1>9. ASSUME ~unprotected PROVE BansLast' /\ PlainAdmins' # {}
  <2>1. BansLast /\ PlainAdmins # {}
    BY <1>1, <1>9, PolicySees DEF AdminInv
  <2>2. u \notin PlainAdmins
    BY <1>1 DEF PlainAdmins
  <2> QED
    BY <1>2, <1>3, <1>4, <1>5, <1>6, <2>1, <2>2, BansStay
<1>10. None \notin Call
  BY AdminNulls
<1> QED
  BY <1>1, <1>6, <1>7, <1>8, <1>9, <1>10, AccountStep

LEMMA DeleteAccountDataKeeps ==
    ASSUME AdminInv, NEW c \in Call, deleteAccountData(c)
    PROVE  AdminInv'
<1> DEFINE u == adminOp[c].user
<1>1. /\ adminOp[c].at = "batch" /\ EndChanging(c)
      /\ UNCHANGED <<unprotected, unassigned, adminClock, adminOps>>
      /\ \/ users' = users
         \/ accountDeletionAllowed(u) /\ users' = [users EXCEPT ![u] = None]
  BY DEF deleteAccountData, RequestAt
<1>2. /\ adminOp' \in [Call -> AdminRequest \cup {NoRequest}]
      /\ \A d \in Call \ {c} : GoesOn(d) /\ Frozen(d)
      /\ adminOp'[c].at = "idle"
      /\ adminOp'[c].at \notin {"assign", "others", "batch"} \cup ChangeSteps
      /\ Looked(c)' /\ Harmless(c)'
  BY <1>1, ChangeEnds DEF ChangeSteps
<1>3. u \in User /\ AdminTypes
  BY <1>1, RequestShapes DEF AdminInv
<1>4. \A v \in Accounts' : v \in Accounts /\ users'[v] = users[v] /\ users'[v] # None
  BY <1>1, <1>3 DEF Accounts, AdminTypes
<1>5. users' \in [User -> AccountRow \cup {None}] /\ \A v \in Accounts' : users'[v].born <= adminOps
  BY <1>1, <1>3, <1>4 DEF AdminTypes
<1>6. \A v \in Accounts : v # u => v \in Accounts'
  BY <1>1, <1>3 DEF Accounts, AdminTypes
<1>7. BansLast => BansLast'
  BY <1>4 DEF BansLast
<1>8. ASSUME ~unprotected, PlainAdmins # {} PROVE PlainAdmins' # {}
  <2>1. CASE users' = users
    BY <1>8, <2>1 DEF PlainAdmins
  <2>2. CASE accountDeletionAllowed(u) /\ users' = [users EXCEPT ![u] = None]
    <3>1. CountedAdmins = PlainAdmins
      BY <1>8, PolicySees
    <3>2. PlainAdmins \ {u} # {}
      BY <1>8, <2>2, <3>1 DEF accountDeletionAllowed
    <3>3. PlainAdmins' \ {u} = PlainAdmins \ {u}
      BY <1>3, <2>2, OneAccount
    <3> QED
      BY <3>2, <3>3
  <2> QED
    BY <1>1, <2>1, <2>2
<1>9. ASSUME ~unprotected, ~unassigned, PlainAdmins = {} PROVE NewDeployment'
  <2>1. NewDeployment
    BY <1>9 DEF AdminInv
  <2>2. ASSUME Accounts' # {} PROVE OldestIsAssigned'
    <3>1. Accounts # {}
      BY <1>4, <2>2
    <3>2. PICK w \in Call :
             adminOp[w].at = "assign" /\ adminOp[w].user \in Accounts /\ Oldest(adminOp[w].user)
      BY <2>1, <3>1 DEF NewDeployment, OldestIsAssigned
    <3>3. w # c /\ adminOp[w].user # u
      BY <1>1, <3>2 DEF AdminInv, DeletionsWait
    <3>4. adminOp'[w].at = "assign" /\ adminOp'[w].user = adminOp[w].user
      BY <1>2, <3>2, <3>3 DEF GoesOn
    <3>5. adminOp[w].user \in Accounts'
      BY <1>6, <3>2, <3>3
    <3>6. Oldest(adminOp[w].user)'
      <4> SUFFICES ASSUME NEW v \in Accounts'
          PROVE  users'[adminOp'[w].user].born <= users'[v].born
        BY DEF Oldest
      <4> QED
        BY <1>4, <3>2, <3>4, <3>5 DEF Oldest
    <3> QED
      BY <3>4, <3>5, <3>6 DEF OldestIsAssigned
  <2>3. \A d \in Call : adminOp'[d].at \notin ChangeSteps
    BY <1>2, <2>1 DEF NewDeployment, GoesOn
  <2> QED
    BY <1>4, <2>1, <2>2, <2>3 DEF NewDeployment
<1>10. ~unprotected => BansLast
  BY DEF AdminInv
<1>11. ~unprotected /\ ~unassigned /\ PlainAdmins' = {} => NewDeployment'
  BY <1>8, <1>9
<1> QED
  BY <1>1, <1>2, <1>5, <1>7, <1>10, <1>11, AccountStep

LEMMA RegisterKeeps ==
    ASSUME AdminInv, NEW c \in Call, Register(c)
    PROVE  AdminInv'
<1>1. PICK u \in NewAccounts :
         /\ BeginRequest(c, [at |-> "assign", user |-> u, seen |-> "no"])
         /\ users' = [users EXCEPT ![u] = Account("user", adminOps')]
         /\ UNCHANGED <<unprotected, unassigned, adminClock>>
  BY DEF Register
<1> DEFINE m == [at |-> "assign", user |-> u, seen |-> "no"]
           row == Account("user", adminOps')
<1>2. /\ u \in User /\ u \notin Accounts /\ AdminTypes
      /\ \A d \in Call : adminOp[d].at # "idle" => adminOp[d].user # u
  BY RequestShapes DEF NewAccounts, AdminInv
<1>3. m \in Assigning /\ m.at = "assign" /\ m.user = u
  BY <1>2 DEF Assigning, Seen
<1>4. BeginRequest(c, m)
  BY <1>1
<1> HIDE DEF m
<1>5. /\ adminOp' = [adminOp EXCEPT ![c] = m] /\ adminOp'[c] = m
      /\ adminOps' = adminOps + 1 /\ adminOps' \in Nat /\ adminOps <= adminOps' /\ adminOps \in Nat
      /\ \A d \in Call \ {c} : adminOp'[d] = adminOp[d]
      /\ adminOp[c].at = "idle"
  BY <1>4, BeginMeans
<1>6. /\ row \in AccountRow /\ row.role = "user" /\ ~row.banned /\ row.banExpires = None
      /\ row.born = adminOps'
  BY <1>5 DEF Account, AccountRow
<1>7. users' = [users EXCEPT ![u] = row] /\ row \in AccountRow \cup {None} /\ row # None
  BY <1>1, <1>6, AdminNulls
<1> HIDE DEF row
<1>8. /\ users' \in [User -> AccountRow \cup {None}]
      /\ users'[u] = row /\ \A v \in User \ {u} : users'[v] = users[v]
      /\ Accounts' \ {u} = Accounts \ {u} /\ (u \in Accounts' <=> row # None)
      /\ PlainAdmins' \ {u} = PlainAdmins \ {u}
  BY <1>2, <1>7, OneAccount
<1>9. Accounts' = Accounts \cup {u} /\ \A v \in Accounts : users'[v] = users[v]
  BY <1>2, <1>7, <1>8 DEF Accounts
<1>10. PlainAdmins' = PlainAdmins
  BY <1>2, <1>6, <1>8 DEF PlainAdmins, Accounts
<1>11. AdminTypes'
  <2>1. adminOp' \in [Call -> AdminRequest \cup {NoRequest}]
    BY <1>2, <1>3, <1>5 DEF AdminTypes, AdminRequest
  <2>2. \A v \in Accounts : v \in User /\ users[v].born \in Nat /\ users[v].born <= adminOps
    BY <1>2, AccountFields DEF AdminTypes
  <2>3. \A v \in Accounts' : users'[v].born <= adminOps'
    BY <1>5, <1>6, <1>8, <1>9, <2>2
  <2> QED
    BY <1>1, <1>2, <1>5, <1>8, <2>1, <2>3 DEF AdminTypes
<1>12. PoliciesLook' /\ DeletionsWait'
  <2>1. \A d \in Call \ {c} : GoesOn(d)
    BY <1>5, Unmoved
  <2>2. Looked(c)'
    BY <1>3, <1>5 DEF Looked
  <2>3. /\ adminOp'[c].at = "assign"
        /\ \A d \in Call \ {c} : adminOp[d].at \in {"others", "batch"} => adminOp'[c].user # adminOp[d].user
    BY <1>2, <1>3, <1>5
  <2> QED
    BY <2>1, <2>2, <2>3, RequestsGoOn
<1>13. ASSUME ~unprotected PROVE BansLast' /\ \A d \in Call : Harmless(d)'
  <2>1. BansLast'
    BY <1>2, <1>6, <1>7, <1>13, BansStay DEF AdminInv
  <2>2. Harmless(c)'
    BY <1>3, <1>5 DEF Harmless
  <2>3. \A d \in Call \ {c} : Harmless(d)'
    BY <1>5, <1>10, <1>13, Unmoved, StaysHarmless
  <2> QED
    BY <2>1, <2>2, <2>3
<1>14. ASSUME ~unprotected, ~unassigned, PlainAdmins = {} PROVE NewDeployment'
  <2>1. NewDeployment
    BY <1>14 DEF AdminInv
  <2>2. \A v \in Accounts' : users'[v].role = "user" /\ ~users'[v].banned
    BY <1>6, <1>8, <1>9, <2>1 DEF NewDeployment
  <2>3. \A d \in Call : adminOp'[d].at \notin ChangeSteps
    BY <1>3, <1>5, <2>1 DEF NewDeployment, ChangeSteps
  <2>4. OldestIsAssigned'
    <3>1. CASE Accounts = {}
      <4>1. Oldest(u)'
        BY <1>5, <1>6, <1>8, <1>9, <3>1 DEF Oldest
      <4> QED
        BY <1>3, <1>5, <1>9, <4>1 DEF OldestIsAssigned
    <3>2. CASE Accounts # {}
      <4>1. PICK w \in Call :
               adminOp[w].at = "assign" /\ adminOp[w].user \in Accounts /\ Oldest(adminOp[w].user)
        BY <2>1, <3>2 DEF NewDeployment, OldestIsAssigned
      <4>2. w # c /\ adminOp'[w] = adminOp[w]
        BY <1>5, <4>1
      <4>3. Oldest(adminOp[w].user)'
        <5> SUFFICES ASSUME NEW v \in Accounts'
            PROVE  users'[adminOp'[w].user].born <= users'[v].born
          BY DEF Oldest
        <5>1. CASE v \in Accounts
          BY <1>9, <4>1, <4>2, <5>1 DEF Oldest
        <5>2. CASE v = u
          <6>1. users[adminOp[w].user].born \in 0..adminOps
            BY <1>2, <4>1, AccountFields
          <6> QED
            BY <1>5, <1>6, <1>8, <1>9, <4>1, <4>2, <5>2, <6>1
        <5> QED
          BY <1>9, <5>1, <5>2
      <4> QED
        BY <1>9, <4>1, <4>2, <4>3 DEF OldestIsAssigned
    <3> QED
      BY <3>1, <3>2
  <2> QED
    BY <2>2, <2>3, <2>4 DEF NewDeployment
<1> QED
  BY <1>1, <1>10, <1>11, <1>12, <1>13, <1>14 DEF AdminInv

LEMMA RegistrationCrashKeeps ==
    ASSUME AdminInv, NEW c \in Call, RegistrationCrash(c)
    PROVE  AdminInv'
<1>1. /\ adminOp' = [adminOp EXCEPT ![c] = NoRequest] /\ unassigned' = TRUE
      /\ UNCHANGED <<users, unprotected, adminClock, adminOps>>
  BY DEF RegistrationCrash, EndRequest
<1>2. adminOp'[c].at = "idle" /\ \A d \in Call \ {c} : adminOp'[d] = adminOp[d]
  BY <1>1 DEF AdminInv, AdminTypes, NoRequest
<1>3. Accounts' = Accounts /\ PlainAdmins' = PlainAdmins
  BY <1>1 DEF Accounts, PlainAdmins
<1>4. AdminTypes'
  BY <1>1, <1>3 DEF AdminInv, AdminTypes
<1>5. Looked(c)' /\ Harmless(c)'
  BY <1>2 DEF Looked, Harmless
<1>6. PoliciesLook' /\ DeletionsWait'
  BY <1>2, <1>5, Unmoved, RequestsGoOn
<1>7. ASSUME ~unprotected PROVE BansLast' /\ \A d \in Call : Harmless(d)'
  <2>1. BansLast'
    BY <1>1, <1>3, <1>7 DEF AdminInv, BansLast
  <2> QED
    BY <1>2, <1>3, <1>5, <1>7, <2>1, Unmoved, StaysHarmless
<1> QED
  BY <1>1, <1>4, <1>6, <1>7 DEF AdminInv

\* Time passes, or nothing happens.
LEMMA AdminQuietStep ==
    ASSUME AdminInv, UNCHANGED <<users, adminOp, unprotected, unassigned, adminOps>>, adminClock' \in Nat
    PROVE  AdminInv'
<1>1. Accounts' = Accounts /\ PlainAdmins' = PlainAdmins
  BY DEF Accounts, PlainAdmins
<1>2. AdminTypes'
  BY <1>1 DEF AdminInv, AdminTypes
<1>3. None \notin Call /\ \A d \in Call : GoesOn(d)
  BY AdminNulls, Unmoved
<1>4. PoliciesLook' /\ DeletionsWait'
  BY <1>3, RequestsGoOn
<1>5. ASSUME ~unprotected PROVE BansLast' /\ \A d \in Call : Harmless(d)'
  BY <1>1, <1>3, <1>5, StaysHarmless DEF AdminInv, BansLast
<1>6. NewDeployment => NewDeployment'
  BY <1>1 DEF NewDeployment, OldestIsAssigned, Oldest
<1> QED
  BY <1>1, <1>2, <1>4, <1>5, <1>6 DEF AdminInv

LEMMA AdministrationInitially == AdministrationInit => AdminInv
<1> SUFFICES ASSUME AdministrationInit PROVE AdminInv
  OBVIOUS
<1>1. \A u \in User : users[u] = None \/ users[u] = Account("admin", 0)
  BY DEF AdministrationInit
<1>2. /\ Account("admin", 0) \in AccountRow /\ Account("admin", 0).born = 0
      /\ Account("admin", 0).banExpires = None /\ Account("admin", 0).role = "admin"
      /\ ~Account("admin", 0).banned
  BY DEF Account, AccountRow
<1>3. \A u \in Accounts : u \in User /\ users[u] = Account("admin", 0)
  BY <1>1 DEF Accounts
<1>4. users \in [User -> AccountRow \cup {None}]
  <2>1. users = [u \in User |-> users[u]]
    BY DEF AdministrationInit
  <2> QED
    BY <1>1, <1>2, <2>1
<1>5. \A c \in Call : adminOp[c] = NoRequest /\ adminOp[c].at = "idle"
  BY DEF AdministrationInit, NoRequest
<1>6. AdminTypes
  BY <1>2, <1>3, <1>4 DEF AdministrationInit, AdminTypes
<1>7. PoliciesLook /\ DeletionsWait /\ \A c \in Call : Harmless(c)
  BY <1>5 DEF PoliciesLook, DeletionsWait, Looked, Harmless
<1>8. BansLast
  BY <1>2, <1>3 DEF BansLast
<1>9. PlainAdmins = {} => NewDeployment
  <2> SUFFICES ASSUME PlainAdmins = {} PROVE NewDeployment
    OBVIOUS
  <2>1. Accounts = {}
    BY <1>2, <1>3 DEF PlainAdmins, Accounts
  <2> QED
    BY <1>5, <2>1 DEF NewDeployment, ChangeSteps
<1> QED
  BY <1>6, <1>7, <1>8, <1>9 DEF AdminInv

LEMMA AdministrationSteps == AdminInv /\ [AdministrationNext]_adminVars => AdminInv'
<1> SUFFICES ASSUME AdminInv, [AdministrationNext]_adminVars PROVE AdminInv'
  OBVIOUS
<1>1. ASSUME NEW c \in Call, Register(c) PROVE AdminInv'
  BY <1>1, RegisterKeeps
<1>2. ASSUME NEW c \in Call, assignFirstAdminRole(c) PROVE AdminInv'
  BY <1>2, AssignFirstAdminKeeps
<1>3. ASSUME NEW c \in Call, RegistrationCrash(c) PROVE AdminInv'
  BY <1>3, RegistrationCrashKeeps
<1>4. ASSUME NEW c \in Call, ChangeUser(c) PROVE AdminInv'
  BY <1>4, ChangeUserKeeps
<1>5. ASSUME NEW c \in Call, enforceSetRolePolicy(c) PROVE AdminInv'
  BY <1>5, SetRolePolicyKeeps
<1>6. ASSUME NEW c \in Call, countAdmins(c) PROVE AdminInv'
  BY <1>6, CountAdminsKeeps
<1>7. ASSUME NEW c \in Call, enforceBanUserPolicy(c) PROVE AdminInv'
  BY <1>7, BanPolicyKeeps
<1>8. ASSUME NEW c \in Call, reserveAdminBan(c) PROVE AdminInv'
  BY <1>8, ReserveAdminBanKeeps
<1>9. ASSUME NEW c \in Call, WriteUser(c) PROVE AdminInv'
  BY <1>9, WriteUserKeeps
<1>10. ASSUME NEW c \in Call, deleteOwnAccount(c) PROVE AdminInv'
  BY <1>10, DeleteOwnAccountKeeps
<1>11. ASSUME NEW c \in Call, CheckOtherAdmins(c) PROVE AdminInv'
  BY <1>11, CheckOtherAdminsKeeps
<1>12. ASSUME NEW c \in Call, deleteAccountData(c) PROVE AdminInv'
  BY <1>12, DeleteAccountDataKeeps
<1>13. CASE unbanUser
  BY <1>13, UnbanUserKeeps
<1>14. CASE AdminTick
  BY <1>14, AdminQuietStep DEF AdminTick, AdminInv, AdminTypes
<1>15. CASE UNCHANGED adminVars
  BY <1>15, AdminQuietStep DEF adminVars, AdminInv, AdminTypes
<1> QED
  BY <1>1, <1>2, <1>3, <1>4, <1>5, <1>6, <1>7, <1>8, <1>9, <1>10, <1>11, <1>12, <1>13, <1>14, <1>15
     DEF AdministrationNext

LEMMA AdministrationInvariant == AdministrationSpec => []AdminInv
BY AdministrationInitially, AdministrationSteps, PTL DEF AdministrationSpec

LEMMA AdminInvSays == AdminInv => AnAdminRemains
<1> SUFFICES ASSUME AdminInv, Accounts # {}, NoRegistration, ~unassigned, ~unprotected
    PROVE  ActiveAdmins # {}
  BY DEF AnAdminRemains
<1>1. PlainAdmins # {}
  BY DEF AdminInv, NewDeployment, OldestIsAssigned, NoRegistration, RequestAt
<1> QED
  BY <1>1, PolicySees

(* An active administrator remains, once the first registration has ended, *)
(* unless a registration crashed between the account and its role, the     *)
(* library wrote on accounts that had changed since its policy looked, or  *)
(* a ban has an expiry: for any users and any number of concurrent         *)
(* demotions, bans, registrations and deletions (libroo-admin-auth-plugin  *)
(* and account-deletion.repository).                                       *)
THEOREM AdministratorRemains == AdministrationSpec => []AnAdminRemains
BY AdministrationInvariant, AdminInvSays, PTL

-----------------------------------------------------------------------------
(***************************** the audit log *******************************)

\* What a request is, and what the log page is.
AuditTypes ==
    /\ persons \in [Person -> PersonRecord]
    /\ hooked \in [Call -> HookedRecord \cup {None}]
    /\ log \in Seq(AuditRecord)
    /\ auditPage \in AuditAddress
    /\ auditShown.total \in Nat
    /\ auditShown = [entries |-> auditShown.entries, total |-> auditShown.total, fresh |-> auditShown.fresh]

\* Only a request to a public path is sent without a session; one of a session is about its account.
SentBy(r) ==
    /\ r.by = None <=> r.path \in PublicPath
    /\ r.path \in SessionPath => r.by = r.target

\* The hooks before take down the account that sends, while its session is there.
TakenDown(r) == r.step # "sent" =>
    /\ r.session \in {None, r.by}
    /\ r.path \in SessionPath \cup (AdminPath \ {"set-user-password"}) => r.actor = r.session
    /\ r.path = "set-user-password" => r.actor = None
    /\ r.mailTo \in {None, r.target}

\* Before the endpoint, what was taken down of the account is what it was before the request, unless it was crossed.
AsFound(r, status) ==
    /\ r.step \in {"sent", "policy"} => r.was = None
    /\ r.step \in {"policy", "library"} /\ ~r.crossed => r.previous = IF r.was = None THEN status ELSE r.was

\* After it, the same, and a request that succeeded was one of its sender, and did what it was to do.
Settled(r) == r.step \in {"after", "persist"} =>
    /\ ~r.crossed => r.previous = r.was
    /\ r.ok => r.by = None \/ r.session = r.by
    /\ r.ok /\ r.path \in {"ban-user", "update-user"} => r.result.banned
    /\ r.ok /\ r.path = "verify-totp" => r.result.totp

EntriesRight(s) == \A i \in DOMAIN s : NamesTheActor(s[i]) /\ TellsTheChange(s[i])

RequestHolds(r, status) ==
    SentBy(r) /\ TakenDown(r) /\ AsFound(r, status) /\ Settled(r) /\ EntriesRight(r.entries)

StatusIn(rows, p) == [role |-> rows[p].role, banned |-> rows[p].banned, totp |-> rows[p].totp]
RequestsHold == \A c \in Call : hooked[c] # None => RequestHolds(hooked[c], StatusIn(persons, hooked[c].target))

\* A change that is not logged yet has an entry to come.
Owed(r) ==
    \/ r.step = "after" /\ Recorded(r, r.ok)
    \/ r.step = "persist" /\ r.entries # <<>>
EntriesOwed == \A c \in unlogged : c \in Call /\ hooked[c] # None /\ Owed(hooked[c])

MailsRight == \A m \in mails : m.to = m.about

PageRight ==
    /\ auditRequest \in {None, auditPage}
    /\ auditRequest = None => auditPage.page <= AuditPages(auditShown.total)
    /\ auditRequest = None /\ auditShown.fresh =>
         auditShown.entries = PageAt(Matching(auditPage.category), auditPage.page)

AuditInv ==
    /\ AuditTypes /\ RequestsHold /\ EntriesRight(log)
    /\ EntriesOwed /\ MailsRight /\ PageRight

-----------------------------------------------------------------------------
\* The elements at some positions of a sequence, in order, are elements of it.
LEMMA InOrderElements ==
    ASSUME NEW S, NEW s \in Seq(S), NEW P \in SUBSET DOMAIN s
    PROVE  /\ InOrder(s, P) \in Seq(S)
           /\ \A n \in DOMAIN InOrder(s, P) : \E i \in P : InOrder(s, P)[n] = s[i]
<1> DEFINE upTo(i) == {j \in P : j <= i}
           rank == [i \in P |-> Cardinality(upTo(i))]
           size == Cardinality(P)
<1>1. DOMAIN s = 1 .. Len(s) /\ Len(s) \in Nat
  OBVIOUS
<1>2. IsFiniteSet(P) /\ size \in Nat
  <2>1. IsFiniteSet(1 .. Len(s))
    BY <1>1, FS_Interval
  <2> QED
    BY <2>1, <1>1, FS_Subset, FS_CardinalityType
<1>3. \A i \in P : IsFiniteSet(upTo(i)) /\ Cardinality(upTo(i)) \in 1 .. size
  <2> SUFFICES ASSUME NEW i \in P PROVE IsFiniteSet(upTo(i)) /\ Cardinality(upTo(i)) \in 1 .. size
    OBVIOUS
  <2>1. upTo(i) \in SUBSET P /\ i \in upTo(i)
    BY <1>1
  <2>2. IsFiniteSet(upTo(i)) /\ Cardinality(upTo(i)) <= size
    BY <2>1, <1>2, FS_Subset
  <2>3. Cardinality(upTo(i)) \in Nat /\ Cardinality(upTo(i)) # 0
    BY <2>1, <2>2, FS_CardinalityType, FS_EmptySet
  <2> QED
    BY <2>2, <2>3, <1>2
<1>4. \A i, j \in P : i < j => Cardinality(upTo(i)) < Cardinality(upTo(j))
  <2> SUFFICES ASSUME NEW i \in P, NEW j \in P, i < j PROVE Cardinality(upTo(i)) < Cardinality(upTo(j))
    OBVIOUS
  <2>1. upTo(i) \in SUBSET upTo(j) /\ j \in upTo(j) /\ j \notin upTo(i)
    BY <1>1
  <2>2. Cardinality(upTo(i)) <= Cardinality(upTo(j)) /\ Cardinality(upTo(i)) # Cardinality(upTo(j))
    BY <2>1, <1>3, FS_Subset
  <2> HIDE DEF upTo
  <2>3. Cardinality(upTo(i)) \in Int /\ Cardinality(upTo(j)) \in Int
    BY <1>2, <1>3
  <2> QED
    BY <2>2, <2>3
<1>5. rank \in Injection(P, 1 .. size)
  <2>1. rank \in [P -> 1 .. size]
    BY <1>3
  <2>2. ASSUME NEW i \in P, NEW j \in P, rank[i] = rank[j] PROVE i = j
    <3>1. Cardinality(upTo(i)) = Cardinality(upTo(j))
      BY <2>2
    <3> HIDE DEF upTo
    <3> DEFINE n == Cardinality(upTo(i))
    <3>a. n \in Int
      BY <1>2, <1>3
    <3>b. i < j => n < n
      BY <3>1, <1>4
    <3>c. j < i => n < n
      BY <3>1, <1>4
    <3> HIDE DEF n
    <3>2. ~(i < j) /\ ~(j < i)
      BY <3>a, <3>b, <3>c
    <3> QED
      BY <3>2, <1>1
  <2> QED
    BY <2>1, <2>2 DEF Injection, IsInjective
<1>6. rank \in Surjection(P, 1 .. size)
  <2>1. IsFiniteSet(1 .. size) /\ Cardinality(1 .. size) = size
    BY <1>2, FS_Interval
  <2> QED
    BY <2>1, <1>5, FS_Injection
<1>7. \A n \in 1 .. size : \E i \in P : Cardinality(upTo(i)) = n
  BY <1>6 DEF Surjection
<1>8. InOrder(s, P) = [n \in 1 .. size |-> s[CHOOSE i \in P : Cardinality(upTo(i)) = n]]
  BY DEF InOrder
<1> DEFINE at(n) == CHOOSE i \in P : Cardinality(upTo(i)) = n
<1>9. \A n \in 1 .. size : at(n) \in P
  BY <1>7
<1>10. InOrder(s, P) = [n \in 1 .. size |-> s[at(n)]]
  BY <1>8
<1> HIDE DEF at, rank, size
<1>11. \A n \in 1 .. size : s[at(n)] \in S
  BY <1>9, <1>1
<1>12. InOrder(s, P) \in [1 .. size -> S]
  BY <1>10, <1>11
<1> QED
  BY <1>2, <1>9, <1>10, <1>12
-----------------------------------------------------------------------------
\* A request that moves while the accounts stay.
LEMMA OneRequestMoves ==
    ASSUME NEW c \in Call, RequestsHold, persons' = persons,
           \A d \in Call \ {c} : hooked'[d] = hooked[d],
           hooked'[c] # None => RequestHolds(hooked'[c], StatusIn(persons, hooked'[c].target))
    PROVE  RequestsHold'
BY DEF RequestsHold

LEMMA NewRequest ==
    ASSUME AuditInv, NEW c \in Call, sendRequest(c)
    PROVE  AuditTypes' /\ RequestsHold' /\ EntriesOwed'
<1>0. Administrator \subseteq Person /\ None \notin Person
  BY AuditAssumption, HookedAssumption
<1>1. PICK path \in AdminPath \cup SessionPath \cup PublicPath, target \in Person,
           by \in Person \cup {None} :
        /\ hooked' = [hooked EXCEPT ![c] = Hooked(path, by, target)]
        /\ by = None <=> path \in PublicPath
        /\ path \in SessionPath => by = target
  BY <1>0 DEF sendRequest, AdminPath, SessionPath, PublicPath
<1> DEFINE r == Hooked(path, by, target)
<1>2. r \in HookedRecord
  <2>1. <<>> \in Seq(AuditRecord)
    OBVIOUS
  <2> QED
    BY <2>1 DEF Hooked, HookedRecord
<1>3. r.step = "sent" /\ r.path = path /\ r.by = by /\ r.target = target /\ r.entries = <<>> /\ r.was = None
  BY DEF Hooked
<1> HIDE DEF r
<1>4. /\ hooked' \in [Call -> HookedRecord \cup {None}]
      /\ hooked'[c] = r
      /\ \A d \in Call \ {c} : hooked'[d] = hooked[d]
  BY <1>1, <1>2 DEF AuditInv, AuditTypes, r
<1>5. \A status : RequestHolds(r, status)
  BY <1>1, <1>3 DEF RequestHolds, SentBy, TakenDown, AsFound, Settled, EntriesRight
<1>6. RequestsHold'
  BY <1>4, <1>5, OneRequestMoves DEF AuditInv, sendRequest
<1>7. EntriesOwed'
  <2>1. \A d \in unlogged : d # c
    BY DEF AuditInv, EntriesOwed, sendRequest
  <2> QED
    BY <2>1, <1>4 DEF AuditInv, EntriesOwed, sendRequest
<1> QED
  BY <1>4, <1>6, <1>7 DEF AuditInv, AuditTypes, sendRequest, auditClient

\* Who has the session of a request is the one that sent it, or nobody.
LEMMA SessionIsOfSender ==
    ASSUME AuditTypes, NEW c \in Call, hooked[c] # None
    PROVE  SessionUser(c) \in {None, hooked[c].by} /\ SessionUser(c) \in Person \cup {None}
BY DEF SessionUser, AuditTypes, HookedRecord

LEMMA StatusIsOne ==
    ASSUME AuditTypes, NEW p \in Person
    PROVE  Status(p) = StatusIn(persons, p) /\ Status(p) \in StatusRecord
BY DEF Status, StatusIn, AuditTypes, PersonRecord, StatusRecord

LEMMA AfterHooksBefore ==
    ASSUME AuditInv, NEW c \in Call, HooksBefore(c)
    PROVE  AuditTypes' /\ RequestsHold' /\ EntriesOwed'
<1> DEFINE r == hooked[c]
           addressee == IF ~isSecurityNotificationPath(r.path) THEN None
                        ELSE IF r.path = "set-user-password" THEN r.target ELSE SessionUser(c)
           next == IF r.path \in {"ban-user", "update-user"} THEN "policy" ELSE "library"
           m == [r EXCEPT !.session = SessionUser(c), !.actor = ActorBefore(c), !.previous = Status(r.target),
                          !.mailTo = addressee, !.step = next]
<1>1. r \in HookedRecord /\ r # None /\ r.step = "sent" /\ hooked[c] # None /\ SentBy(r) /\ EntriesRight(r.entries)
  BY DEF AuditInv, AuditTypes, AtStep, HooksBefore, RequestsHold, RequestHolds
<1>2. SessionUser(c) \in {None, r.by} /\ SessionUser(c) \in Person \cup {None}
  BY <1>1, SessionIsOfSender DEF AuditInv
<1>3. ActorBefore(c) \in Person \cup {None}
  BY <1>1, <1>2 DEF ActorBefore, HookedRecord
<1>4. r.target \in Person /\ Status(r.target) \in StatusRecord /\ Status(r.target) = StatusIn(persons, r.target)
  BY <1>1, StatusIsOne DEF HookedRecord, AuditInv
<1>a. addressee \in Person \cup {None} /\ next \in {"policy", "library"}
  BY <1>2, <1>4
<1>7. hooked' = [hooked EXCEPT ![c] = m]
  BY <1>1 DEF HooksBefore, AuditInv, AuditTypes, HookedRecord
<1>b. /\ addressee = None \/ isSecurityNotificationPath(r.path)
      /\ addressee \in {None, SessionUser(c), r.target}
      /\ r.path = "set-user-password" => addressee = r.target \/ addressee = None
  OBVIOUS
<1> HIDE DEF addressee, next
<1>5. m \in HookedRecord
  BY <1>1, <1>2, <1>3, <1>4, <1>a DEF HookedRecord
<1>6. /\ m.path = r.path /\ m.by = r.by /\ m.target = r.target /\ m.session = SessionUser(c)
      /\ m.actor = ActorBefore(c) /\ m.previous = Status(r.target)
      /\ m.mailTo = addressee
      /\ m.step \in {"policy", "library"} /\ m.entries = r.entries
      /\ m.was = r.was /\ m.crossed = r.crossed
  BY <1>1, <1>a DEF HookedRecord
<1>8. r.was = None
  BY <1>1 DEF AuditInv, RequestsHold, RequestHolds, AsFound
<1> HIDE DEF m
<1>9. /\ hooked' \in [Call -> HookedRecord \cup {None}]
      /\ hooked'[c] = m
      /\ \A d \in Call \ {c} : hooked'[d] = hooked[d]
  BY <1>5, <1>7 DEF AuditInv, AuditTypes
<1>10. SentBy(m) /\ EntriesRight(m.entries) /\ Settled(m)
  BY <1>1, <1>6 DEF SentBy, Settled
<1>11. TakenDown(m)
  <2>1. r.path \in SessionPath \cup (AdminPath \ {"set-user-password"}) => ActorBefore(c) = SessionUser(c)
    BY DEF ActorBefore, isAuditedAdminMutationPath, isAuditedAuthPath, SessionPath, AdminPath
  <2>2. r.path = "set-user-password" => ActorBefore(c) = None
    BY DEF ActorBefore, isAuditedAdminMutationPath, isAuditedAuthPath, SessionPath, AdminPath, PublicPath
  <2>3. addressee \in {None, r.target}
    BY <1>1, <1>2, <1>b DEF SentBy, isSecurityNotificationPath, SessionPath
  <2> QED
    BY <1>2, <1>6, <2>1, <2>2, <2>3 DEF TakenDown
<1>12. AsFound(m, StatusIn(persons, r.target))
  BY <1>4, <1>6, <1>8 DEF AsFound
<1>13. RequestsHold'
  BY <1>6, <1>9, <1>10, <1>11, <1>12, OneRequestMoves DEF AuditInv, RequestHolds, HooksBefore
<1>14. EntriesOwed'
  <2>1. \A d \in unlogged : d # c
    BY <1>1 DEF AuditInv, EntriesOwed, Owed
  <2> QED
    BY <2>1, <1>9 DEF AuditInv, EntriesOwed, HooksBefore
<1> QED
  BY <1>9, <1>13, <1>14 DEF AuditInv, AuditTypes, HooksBefore, auditClient

\* What a request is crossed by: its mark is set if the account was its own, and the hooks before had run.
LEMMA CrossedHolds ==
    ASSUME AuditTypes, RequestsHold, NEW d \in Call, hooked[d] # None, NEW target \in Person,
           NEW status, hooked[d].target # target => status = StatusIn(persons, hooked[d].target)
    PROVE  /\ Crossed(d, target) \in HookedRecord
           /\ RequestHolds(Crossed(d, target), status)
           /\ Crossed(d, target).target = hooked[d].target
           /\ Owed(hooked[d]) => Owed(Crossed(d, target))
<1> DEFINE r == hooked[d]
           b == r.crossed \/ (r.target = target /\ r.step # "sent")
           m == [r EXCEPT !.crossed = b]
<1>1. r \in HookedRecord /\ RequestHolds(r, StatusIn(persons, r.target))
  BY DEF AuditTypes, RequestsHold
<1>2. b \in BOOLEAN
  BY <1>1 DEF HookedRecord
<1>3. b \/ r.step = "sent" \/ status = StatusIn(persons, r.target)
  OBVIOUS
<1>4. Crossed(d, target) = m
  BY <1>1 DEF Crossed, HookedRecord
<1>5. b = FALSE => r.crossed = FALSE
  BY <1>1 DEF HookedRecord
<1> HIDE DEF b
<1>6. m \in HookedRecord
  BY <1>1, <1>2 DEF HookedRecord
<1>7. /\ m.path = r.path /\ m.by = r.by /\ m.target = r.target /\ m.step = r.step /\ m.session = r.session
      /\ m.actor = r.actor /\ m.mailTo = r.mailTo /\ m.previous = r.previous /\ m.was = r.was
      /\ m.result = r.result /\ m.ok = r.ok /\ m.crossed = b /\ m.entries = r.entries
  BY <1>1 DEF HookedRecord
<1>8. m.crossed = TRUE \/ m.crossed = FALSE
  BY <1>2, <1>7
<1> HIDE DEF m, r
<1>9. SentBy(m) /\ EntriesRight(m.entries)
  BY <1>1, <1>7 DEF RequestHolds, SentBy
<1>10. TakenDown(m)
  BY <1>1, <1>7 DEF RequestHolds, TakenDown
<1>11. AsFound(m, status)
  BY <1>1, <1>3, <1>5, <1>7, <1>8 DEF RequestHolds, AsFound
<1>12. Settled(m)
  BY <1>1, <1>5, <1>7, <1>8 DEF RequestHolds, Settled
<1>13. Owed(r) => Owed(m)
  BY <1>7 DEF Owed, Recorded
<1> QED
  BY <1>4, <1>6, <1>7, <1>9, <1>10, <1>11, <1>12, <1>13 DEF RequestHolds, r

\* A request that changes an account, and crosses the others.
LEMMA RequestChanges ==
    ASSUME AuditTypes, RequestsHold, NEW c \in Call, NEW target \in Person, NEW m,
           persons' \in [Person -> PersonRecord],
           \A p \in Person \ {target} : persons'[p] = persons[p],
           hooked' = [d \in Call |-> IF d = c THEN m ELSE Crossed(d, target)],
           m \in HookedRecord, RequestHolds(m, StatusIn(persons', m.target))
    PROVE  /\ hooked' \in [Call -> HookedRecord \cup {None}]
           /\ RequestsHold'
           /\ \A d \in Call \ {c} : hooked[d] # None /\ Owed(hooked[d]) => hooked'[d] # None /\ Owed(hooked'[d])
<1>1. \A p \in Person \ {target} : StatusIn(persons', p) = StatusIn(persons, p)
  BY DEF StatusIn
<1>2. ASSUME NEW d \in Call \ {c}, hooked[d] # None
      PROVE  /\ Crossed(d, target) \in HookedRecord
             /\ RequestHolds(Crossed(d, target), StatusIn(persons', Crossed(d, target).target))
             /\ Owed(hooked[d]) => Owed(Crossed(d, target))
  <2>1. hooked[d].target \in Person
    BY <1>2 DEF AuditTypes, HookedRecord
  <2> DEFINE status == StatusIn(persons', hooked[d].target)
  <2>2. hooked[d].target # target => status = StatusIn(persons, hooked[d].target)
    BY <1>1, <2>1
  <2> HIDE DEF status
  <2>3. /\ Crossed(d, target) \in HookedRecord
        /\ RequestHolds(Crossed(d, target), status)
        /\ Crossed(d, target).target = hooked[d].target
        /\ Owed(hooked[d]) => Owed(Crossed(d, target))
    BY <1>2, <2>2, CrossedHolds
  <2> QED
    BY <2>3 DEF status
<1>3. \A d \in Call \ {c} : hooked[d] = None => hooked'[d] = None
  BY DEF Crossed
<1>4. \A d \in Call \ {c} : hooked[d] # None => hooked'[d] = Crossed(d, target)
  OBVIOUS
<1>5. hooked'[c] = m
  OBVIOUS
<1>6. \A d \in Call : hooked'[d] \in HookedRecord \cup {None}
  BY <1>2, <1>3, <1>4, <1>5
<1>7. RequestsHold'
  BY <1>2, <1>3, <1>4, <1>5 DEF RequestsHold
<1>8. ASSUME NEW d \in Call \ {c}, hooked[d] # None, Owed(hooked[d])
      PROVE  hooked'[d] # None /\ Owed(hooked'[d])
  BY <1>2, <1>4, <1>8, HookedAssumption
<1> QED
  BY <1>6, <1>7, <1>8

LEMMA AfterReserveBan ==
    ASSUME AuditInv, NEW c \in Call, ReserveBan(c)
    PROVE  AuditTypes' /\ RequestsHold' /\ EntriesOwed'
<1> DEFINE r == hooked[c]
           target == r.target
           go == [r EXCEPT !.step = "library"]
           reserved == [r EXCEPT !.step = "library", !.was = Status(target)]
           ban == [persons EXCEPT ![target].banned = TRUE]
<1>1. /\ r \in HookedRecord /\ r # None /\ hooked[c] # None /\ r.step = "policy"
      /\ RequestHolds(r, StatusIn(persons, target)) /\ target \in Person
  BY DEF AuditInv, AuditTypes, HookedRecord, AtStep, ReserveBan, RequestsHold
<1>2. \A d \in unlogged : d # c
  BY <1>1 DEF AuditInv, EntriesOwed, Owed
<1>3. UNCHANGED <<log, mails, unlogged, auditPage, auditRequest, auditShown>>
  BY DEF ReserveBan, auditClient
<1>4. \/ hooked' = [hooked EXCEPT ![c] = go] /\ persons' = persons
      \/ /\ hooked' = [d \in Call |-> IF d = c THEN reserved ELSE Crossed(d, target)]
         /\ persons' = ban
      \/ hooked' = [hooked EXCEPT ![c] = None] /\ persons' = persons
  <2>1. hooked' = [hooked EXCEPT ![c].step = "library"] => hooked' = [hooked EXCEPT ![c] = go]
    BY DEF AuditInv, AuditTypes
  <2> QED
    BY <2>1 DEF ReserveBan
<1>5. Status(target) \in StatusRecord /\ Status(target) = StatusIn(persons, target)
  BY <1>1, StatusIsOne DEF AuditInv
<1>6. \A s \in {go, reserved} :
        /\ s \in HookedRecord
        /\ s.path = r.path /\ s.by = r.by /\ s.target = r.target /\ s.step = "library" /\ s.session = r.session
        /\ s.actor = r.actor /\ s.mailTo = r.mailTo /\ s.previous = r.previous
        /\ s.crossed = r.crossed /\ s.entries = r.entries
  BY <1>1, <1>5 DEF HookedRecord
<1>7. go.was = r.was /\ reserved.was = StatusIn(persons, target)
  BY <1>1, <1>5 DEF HookedRecord
<1> HIDE DEF go, reserved
<1>8. \A s \in {go, reserved} : SentBy(s) /\ TakenDown(s) /\ Settled(s) /\ EntriesRight(s.entries)
  BY <1>1, <1>6 DEF RequestHolds, SentBy, TakenDown, Settled
<1>9. CASE hooked' = [hooked EXCEPT ![c] = go] /\ persons' = persons
  <2>1. AsFound(go, StatusIn(persons, target))
    BY <1>1, <1>6, <1>7 DEF RequestHolds, AsFound
  <2>2. /\ hooked' \in [Call -> HookedRecord \cup {None}]
        /\ hooked'[c] = go
        /\ \A d \in Call \ {c} : hooked'[d] = hooked[d]
    BY <1>6, <1>9 DEF AuditInv, AuditTypes
  <2>3. RequestsHold'
    BY <1>6, <1>8, <1>9, <2>1, <2>2, OneRequestMoves DEF AuditInv, RequestHolds
  <2>4. EntriesOwed'
    BY <1>2, <1>3, <2>2 DEF AuditInv, EntriesOwed
  <2> QED
    BY <1>3, <1>9, <2>2, <2>3, <2>4 DEF AuditInv, AuditTypes
<1>10. CASE /\ hooked' = [d \in Call |-> IF d = c THEN reserved ELSE Crossed(d, target)]
            /\ persons' = ban
  <2>1. persons' \in [Person -> PersonRecord] /\ \A p \in Person \ {target} : persons'[p] = persons[p]
    BY <1>1, <1>10 DEF AuditInv, AuditTypes, PersonRecord
  <2>2. \A status : AsFound(reserved, status)
    <3>1. reserved.was # None
      BY <1>5, <1>7, HookedAssumption
    <3>2. ~r.crossed => r.previous = StatusIn(persons, target)
      BY <1>1 DEF RequestHolds, AsFound
    <3> QED
      BY <1>1, <1>6, <1>7, <3>1, <3>2 DEF AsFound
  <2>3. RequestHolds(reserved, StatusIn(persons', reserved.target))
    BY <1>8, <2>2 DEF RequestHolds
  <2>4. /\ hooked' \in [Call -> HookedRecord \cup {None}]
        /\ RequestsHold'
        /\ \A d \in Call \ {c} : hooked[d] # None /\ Owed(hooked[d]) => hooked'[d] # None /\ Owed(hooked'[d])
    BY <1>1, <1>6, <1>10, <2>1, <2>3, RequestChanges DEF AuditInv
  <2>5. EntriesOwed'
    BY <1>2, <1>3, <2>4 DEF AuditInv, EntriesOwed
  <2> QED
    BY <1>3, <2>1, <2>4, <2>5 DEF AuditInv, AuditTypes
<1>11. CASE hooked' = [hooked EXCEPT ![c] = None] /\ persons' = persons
  <2>1. /\ hooked' \in [Call -> HookedRecord \cup {None}]
        /\ hooked'[c] = None
        /\ \A d \in Call \ {c} : hooked'[d] = hooked[d]
    BY <1>11 DEF AuditInv, AuditTypes
  <2>2. RequestsHold'
    BY <1>11, <2>1, OneRequestMoves DEF AuditInv
  <2>3. EntriesOwed'
    BY <1>2, <1>3, <2>1 DEF AuditInv, EntriesOwed
  <2> QED
    BY <1>3, <1>11, <2>1, <2>2, <2>3 DEF AuditInv, AuditTypes
<1> QED
  BY <1>4, <1>9, <1>10, <1>11

\* What a request makes of an account is an account; a ban bans, and a second factor that was verified is there.
LEMMA ResultIsOne ==
    ASSUME NEW r \in HookedRecord, NEW p \in PersonRecord
    PROVE  /\ Result(r, p) \in PersonRecord
           /\ r.path \in {"ban-user", "update-user"} => Result(r, p).banned
           /\ r.path = "verify-totp" => Result(r, p).totp
<1>1. CASE r.path = "set-role"
  BY <1>1 DEF Result, PersonRecord
<1>2. CASE r.path = "ban-user"
  BY <1>2 DEF Result, PersonRecord
<1>3. CASE r.path = "unban-user"
  BY <1>3 DEF Result, PersonRecord
<1>4. CASE r.path = "update-user"
  BY <1>4 DEF Result, PersonRecord
<1>5. CASE r.path = "revoke-sessions"
  BY <1>5 DEF Result, PersonRecord
<1>6. CASE r.path = "verify-totp"
  BY <1>6 DEF Result, PersonRecord
<1>7. CASE r.path = "two-factor/disable"
  BY <1>7 DEF Result, PersonRecord
<1>8. CASE r.path \in {"sign-up", "verify-backup-code"}
  BY <1>8 DEF Result, PersonRecord
<1>9. CASE r.path \notin {"set-role", "ban-user", "unban-user", "update-user", "revoke-sessions", "verify-totp",
                          "two-factor/disable", "sign-up", "verify-backup-code"}
  BY <1>9 DEF Result, PersonRecord
<1> QED
  BY <1>1, <1>2, <1>3, <1>4, <1>5, <1>6, <1>7, <1>8, <1>9

Ended(r, ok, result, was) == [r EXCEPT !.ok = ok, !.step = "after", !.result = result, !.was = was]

LEMMA EndpointRecord ==
    ASSUME NEW r \in HookedRecord, NEW ok \in BOOLEAN, NEW result \in PersonRecord, NEW was \in StatusRecord \cup {None},
           NEW m, m = Ended(r, ok, result, was)
    PROVE  /\ m \in HookedRecord
           /\ m.path = r.path /\ m.by = r.by /\ m.target = r.target /\ m.step = "after" /\ m.session = r.session
           /\ m.actor = r.actor /\ m.mailTo = r.mailTo /\ m.previous = r.previous /\ m.was = was
           /\ m.crossed = r.crossed /\ m.entries = r.entries /\ m.ok = ok /\ m.result = result
<1> DEFINE q == [r EXCEPT !.ok = ok]
<1>1. q \in HookedRecord
  BY DEF HookedRecord, Ended
<1>2. m = [q EXCEPT !.step = "after", !.result = result, !.was = was]
  BY DEF HookedRecord, Ended
<1>3. /\ m.path = r.path /\ m.by = r.by /\ m.target = r.target /\ m.step = "after" /\ m.session = r.session
      /\ m.actor = r.actor /\ m.mailTo = r.mailTo /\ m.previous = r.previous /\ m.was = was
      /\ m.crossed = r.crossed /\ m.entries = r.entries /\ m.result = result
  BY DEF HookedRecord, Ended
<1>4. m.ok = ok
  BY DEF HookedRecord, Ended
<1> HIDE DEF q
<1>5. m \in HookedRecord
  BY <1>1, <1>2 DEF HookedRecord
<1> QED
  BY <1>3, <1>4, <1>5

LEMMA AfterEndpoint ==
    ASSUME AuditInv, NEW c \in Call, Endpoint(c)
    PROVE  AuditTypes' /\ RequestsHold' /\ EntriesOwed'
<1> DEFINE r == hooked[c]
           target == r.target
           before == IF r.was = None THEN Status(target) ELSE r.was
<1>1. /\ r \in HookedRecord /\ r # None /\ hooked[c] # None /\ r.step = "library"
      /\ RequestHolds(r, StatusIn(persons, target)) /\ target \in Person
  BY DEF AuditInv, AuditTypes, HookedRecord, AtStep, Endpoint, RequestsHold
<1>2. \A d \in unlogged : d # c
  BY <1>1 DEF AuditInv, EntriesOwed, Owed
<1>3. PICK ok \in {FALSE, Allowed(c)} :
        LET changes == ok /\ Result(r, persons[target]) # persons[target] IN
        /\ persons' = IF ok THEN [persons EXCEPT ![target] = Result(r, @)] ELSE persons
        /\ hooked' = [d \in Call |->
             IF d = c THEN [r EXCEPT !.ok = ok, !.step = "after", !.result = persons'[target],
                                     !.was = IF @ = None THEN Status(target) ELSE @]
             ELSE IF changes THEN Crossed(d, target) ELSE hooked[d]]
        /\ unlogged' = IF Recorded(r, ok) THEN unlogged \cup {c} ELSE unlogged
  BY DEF Endpoint
<1> DEFINE m == [r EXCEPT !.ok = ok, !.step = "after", !.result = persons'[target],
                          !.was = IF @ = None THEN Status(target) ELSE @]
<1>4. UNCHANGED <<log, mails, auditPage, auditRequest, auditShown>>
  BY DEF Endpoint, auditClient
<1>5. ok \in BOOLEAN /\ (ok => Allowed(c))
  BY <1>3 DEF Allowed
<1>6. Status(target) \in StatusRecord /\ Status(target) = StatusIn(persons, target)
  BY <1>1, StatusIsOne DEF AuditInv
<1>7. before \in StatusRecord \cup {None}
  BY <1>1, <1>6 DEF HookedRecord
<1>8. ~r.crossed => r.previous = before
  BY <1>1, <1>6 DEF RequestHolds, AsFound
<1>9. /\ Result(r, persons[target]) \in PersonRecord
      /\ r.path \in {"ban-user", "update-user"} => Result(r, persons[target]).banned
      /\ r.path = "verify-totp" => Result(r, persons[target]).totp
  BY <1>1, ResultIsOne DEF AuditInv, AuditTypes
<1>10. persons \in [Person -> PersonRecord] /\ persons' \in [Person -> PersonRecord]
  BY <1>1, <1>3, <1>9 DEF AuditInv, AuditTypes
<1>11. \A p \in Person \ {target} : persons'[p] = persons[p]
  BY <1>1, <1>3, <1>10
<1>12. ok => persons'[target] = Result(r, persons[target])
  BY <1>1, <1>3, <1>10
<1>13. ok \in BOOLEAN
  BY <1>5
<1>14. persons'[target] \in PersonRecord
  BY <1>1, <1>10
<1> HIDE DEF before
<1>15. /\ m \in HookedRecord
       /\ m.path = r.path /\ m.by = r.by /\ m.target = target /\ m.step = "after" /\ m.session = r.session
       /\ m.actor = r.actor /\ m.mailTo = r.mailTo /\ m.previous = r.previous /\ m.was = before
       /\ m.crossed = r.crossed /\ m.entries = r.entries /\ m.ok = ok /\ m.result = persons'[target]
  <2> DEFINE now == persons'[target]
  <2>1. m = Ended(r, ok, now, before)
    BY <1>1 DEF HookedRecord, before, Ended
  <2>2. now \in PersonRecord
    BY <1>14
  <2>3. r \in HookedRecord
    BY <1>1
  <2> HIDE DEF now, m, r, target
  <2>4. /\ m \in HookedRecord
        /\ m.path = r.path /\ m.by = r.by /\ m.target = r.target /\ m.step = "after" /\ m.session = r.session
        /\ m.actor = r.actor /\ m.mailTo = r.mailTo /\ m.previous = r.previous /\ m.was = before
        /\ m.crossed = r.crossed /\ m.entries = r.entries /\ m.ok = ok /\ m.result = now
    BY <1>7, <1>13, <2>1, <2>2, <2>3, EndpointRecord
  <2> QED
    BY <2>4 DEF now, target
<1>16. m \in HookedRecord /\ m.target = target /\ m.ok = ok
  BY <1>15
<1> HIDE DEF m
<1>17. SentBy(m) /\ TakenDown(m) /\ EntriesRight(m.entries) /\ \A status : AsFound(m, status)
  BY <1>1, <1>15 DEF RequestHolds, SentBy, TakenDown, AsFound
<1>18. Settled(m)
  <2>1. ok => r.by = None \/ r.session = r.by
    BY <1>1, <1>5 DEF RequestHolds, TakenDown, Allowed
  <2> QED
    BY <1>8, <1>9, <1>12, <1>15, <2>1 DEF Settled
<1>19. RequestHolds(m, StatusIn(persons', m.target))
  BY <1>17, <1>18 DEF RequestHolds
<1>20. Recorded(r, ok) => Owed(m)
  BY <1>15 DEF Owed, Recorded
<1>21. unlogged' \subseteq unlogged \cup {c} /\ (c \in unlogged' => Recorded(r, ok))
  BY <1>2, <1>3
<1>22. hooked'[c] = m
  BY <1>3 DEF m
<1> DEFINE changes == ok /\ Result(r, persons[target]) # persons[target]
<1>23. /\ hooked' \in [Call -> HookedRecord \cup {None}]
       /\ RequestsHold'
       /\ \A d \in Call \ {c} : hooked[d] # None /\ Owed(hooked[d]) => hooked'[d] # None /\ Owed(hooked'[d])
  <2>1. CASE changes
    <3>1. hooked' = [d \in Call |-> IF d = c THEN m ELSE Crossed(d, target)]
      BY <1>3, <2>1 DEF m
    <3> HIDE DEF changes
    <3> QED
      BY <1>1, <1>10, <1>11, <1>15, <1>19, <3>1, RequestChanges DEF AuditInv
  <2>2. CASE ~changes
    <3>1. hooked' = [d \in Call |-> IF d = c THEN m ELSE hooked[d]]
      BY <1>3, <2>2 DEF m
    <3>2. persons' = persons
      <4>1. ok => [persons EXCEPT ![target] = Result(r, @)] = persons
        BY <1>1, <1>10, <2>2
      <4> QED
        BY <1>3, <4>1
    <3> HIDE DEF changes
    <3>3. /\ hooked' \in [Call -> HookedRecord \cup {None}]
          /\ hooked'[c] = m
          /\ \A d \in Call \ {c} : hooked'[d] = hooked[d]
      BY <1>15, <3>1 DEF AuditInv, AuditTypes
    <3>4. RequestsHold'
      BY <1>19, <3>2, <3>3, OneRequestMoves DEF AuditInv
    <3> QED
      BY <3>3, <3>4
  <2> QED
    BY <2>1, <2>2
<1>24. EntriesOwed'
  <2>1. m # None
    BY <1>15, HookedAssumption
  <2>2. \A d \in unlogged' : d # c => d \in Call /\ hooked'[d] # None /\ Owed(hooked'[d])
    BY <1>21, <1>23 DEF AuditInv, EntriesOwed
  <2>3. c \in unlogged' => hooked'[c] # None /\ Owed(hooked'[c])
    BY <1>20, <1>21, <1>22, <2>1
  <2> QED
    BY <2>2, <2>3 DEF EntriesOwed
<1> QED
  BY <1>4, <1>10, <1>23, <1>24 DEF AuditInv, AuditTypes

Entry(e) == e \in AuditRecord /\ NamesTheActor(e) /\ TellsTheChange(e)

LEMMA EntryIsRight ==
    ASSUME NEW r \in HookedRecord, Settled(r), r.step = "after", NEW action \in AuditAction,
           NEW actor \in Person \cup {None}, NEW target \in Person \cup {None},
           r.by # None => actor = r.by,
           action = "user.banned" => r.result.banned,
           action = "verify-totp" => ~r.previous.totp /\ r.result.totp
    PROVE  Entry(AuditEntry(r, action, actor, target))
<1> DEFINE e == AuditEntry(r, action, actor, target)
<1>2. e \in AuditRecord
  BY DEF AuditEntry, AuditRecord, HookedRecord
<1>3. /\ e.by = r.by /\ e.actor = actor /\ e.action = action /\ e.was = r.was /\ e.previous = r.previous
      /\ e.next = r.result
  BY DEF AuditEntry
<1>4. e.crossed = r.crossed
  BY DEF AuditEntry
<1>5. ~r.crossed => r.previous = r.was
  BY DEF Settled
<1> HIDE DEF e
<1>6. NamesTheActor(e)
  BY <1>3 DEF NamesTheActor
<1>7. TellsTheChange(e)
  BY <1>3, <1>4, <1>5 DEF TellsTheChange
<1> QED
  BY <1>2, <1>6, <1>7 DEF Entry, e

\* One entry or two are a sequence of right ones.
LEMMA EntriesOfRight ==
    ASSUME NEW e, NEW f, Entry(e), Entry(f)
    PROVE  /\ <<e>> \in Seq(AuditRecord) /\ EntriesRight(<<e>>) /\ <<e>> # <<>>
           /\ <<e, f>> \in Seq(AuditRecord) /\ EntriesRight(<<e, f>>) /\ <<e, f>> # <<>>
<1>1. <<e>> \in Seq(AuditRecord) /\ <<e, f>> \in Seq(AuditRecord) /\ <<e>> # <<>> /\ <<e, f>> # <<>>
  BY DEF Entry
<1>2. EntriesRight(<<e>>)
  BY DEF Entry, EntriesRight
<1>3. EntriesRight(<<e, f>>)
  BY DEF Entry, EntriesRight
<1> QED
  BY <1>1, <1>2, <1>3

LEMMA NoEntries == <<>> \in Seq(AuditRecord) /\ EntriesRight(<<>>)
BY DEF EntriesRight

LEMMA AdminEntriesRight ==
    ASSUME AuditTypes, RequestsHold, NEW c \in Call, hooked[c] # None, hooked[c].step = "after",
           hooked[c].path \in AdminPath
    PROVE  /\ AdminEntries(c) \in Seq(AuditRecord) /\ EntriesRight(AdminEntries(c))
           /\ hooked[c].ok /\ isAuditedAdminMutationPath(hooked[c].path) => AdminEntries(c) # <<>>
<1> DEFINE r == hooked[c]
           entry(action) == AuditEntry(r, action, r.actor, r.target)
<1>1. r \in HookedRecord /\ SentBy(r) /\ TakenDown(r) /\ Settled(r)
  BY DEF AuditTypes, RequestsHold, RequestHolds
<1>2. r.by # None
  BY <1>1 DEF SentBy, AdminPath, PublicPath
<1>3. r.path = "set-user-password" => r.actor = None
  BY <1>1 DEF TakenDown
<1>4. r.ok /\ r.path # "set-user-password" => r.actor = r.by
  BY <1>1, <1>2 DEF TakenDown, Settled
<1>5. r.actor # None => r.path # "set-user-password"
  BY <1>3
<1>6. r.actor \in Person \cup {None} /\ r.target \in Person \cup {None}
  BY <1>1 DEF HookedRecord
<1>7. ASSUME r.ok, r.actor # None PROVE Entry(entry("user.role_changed")) /\ Entry(entry("user.unbanned"))
  <2>1. r.by # None => r.actor = r.by
    BY <1>4, <1>5, <1>7
  <2>2. r \in HookedRecord /\ Settled(r) /\ r.step = "after" /\ r.actor \in Person \cup {None}
        /\ r.target \in Person \cup {None}
    BY <1>1, <1>6
  <2> HIDE DEF r
  <2>3. \A action \in {"user.role_changed", "user.unbanned"} : Entry(AuditEntry(r, action, r.actor, r.target))
    BY <2>1, <2>2, EntryIsRight DEF AuditAction
  <2> QED
    BY <2>3
<1>8. ASSUME r.ok, r.actor # None, r.path \in {"ban-user", "update-user"} PROVE Entry(entry("user.banned"))
  <2>1. r.by # None => r.actor = r.by
    BY <1>4, <1>5, <1>8
  <2>2. r \in HookedRecord /\ Settled(r) /\ r.step = "after" /\ r.actor \in Person \cup {None}
        /\ r.target \in Person \cup {None}
    BY <1>1, <1>6
  <2>3. r.result.banned
    BY <1>1, <1>8 DEF Settled
  <2> HIDE DEF r
  <2>4. Entry(AuditEntry(r, "user.banned", r.actor, r.target))
    BY <2>1, <2>2, <2>3, EntryIsRight DEF AuditAction
  <2> QED
    BY <2>4
<1>9. AdminEntries(c) = IF ~r.ok \/ r.actor = None THEN <<>>
        ELSE CASE r.path = "set-role" -> <<entry("user.role_changed")>>
               [] r.path = "ban-user" -> <<entry("user.banned")>>
               [] r.path = "unban-user" -> <<entry("user.unbanned")>>
               [] r.path = "update-user" -> <<entry("user.role_changed"), entry("user.banned")>>
               [] OTHER -> <<>>
  BY DEF AdminEntries
<1> HIDE DEF entry, r
<1>10. CASE ~r.ok \/ r.actor = None
  <2>1. AdminEntries(c) = <<>>
    BY <1>9, <1>10
  <2>2. r.ok => r.path = "set-user-password"
    BY <1>2, <1>4, <1>10
  <2> QED
    BY <2>1, <2>2, NoEntries DEF r, isAuditedAdminMutationPath
<1>11. CASE r.ok /\ r.actor # None
  <2>1. CASE r.path = "set-role"
    BY <1>7, <1>9, <1>11, <2>1, EntriesOfRight
  <2>2. CASE r.path = "ban-user"
    <3>1. AdminEntries(c) = <<entry("user.banned")>>
      BY <1>9, <1>11, <2>2
    <3> QED
      BY <1>8, <1>11, <2>2, <3>1, EntriesOfRight
  <2>3. CASE r.path = "unban-user"
    <3>1. AdminEntries(c) = <<entry("user.unbanned")>>
      BY <1>9, <1>11, <2>3
    <3> QED
      BY <1>7, <1>11, <3>1, EntriesOfRight
  <2>4. CASE r.path = "update-user"
    <3>1. AdminEntries(c) = <<entry("user.role_changed"), entry("user.banned")>>
      BY <1>9, <1>11, <2>4
    <3> QED
      BY <1>7, <1>8, <1>11, <2>4, <3>1, EntriesOfRight
  <2> QED
    BY <1>5, <1>11, <2>1, <2>2, <2>3, <2>4 DEF AdminPath, r
<1> QED
  BY <1>1, <1>10, <1>11 DEF HookedRecord

LEMMA AuthEntriesRight ==
    ASSUME AuditTypes, RequestsHold, NEW c \in Call, hooked[c] # None, hooked[c].step = "after",
           isAuditedAuthPath(hooked[c].path)
    PROVE  /\ AuthEntries(c) \in Seq(AuditRecord) /\ EntriesRight(AuthEntries(c))
           /\ (hooked[c].ok <=> hooked[c].path # "sign-in") =>
                AuthEntries(c) # <<>> \/ hooked[c].path = "verify-totp"
<1> DEFINE r == hooked[c]
           entry(actor, target) == AuditEntry(r, r.path, actor, target)
           public == r.path \in {"sign-in", "request-password-reset", "sign-up", "verify-backup-code", "reset-password"}
           nothing == r.ok = (r.path = "sign-in")
           without == r.path = "verify-totp" /\ (r.actor = None \/ r.previous.totp)
<1>1. r \in HookedRecord /\ SentBy(r) /\ TakenDown(r) /\ Settled(r) /\ r.step = "after"
  BY DEF AuditTypes, RequestsHold, RequestHolds
<1>2. r.path \in AuditAction /\ r.path \in SessionPath \cup PublicPath /\ r.path # "user.banned"
  BY DEF AuditAction, isAuditedAuthPath, SessionPath, PublicPath
<1>3. r.actor \in Person \cup {None} /\ r.target \in Person \cup {None} /\ None \in Person \cup {None}
  BY <1>1 DEF HookedRecord
<1>4. ActorAfter(c) \in Person \cup {None}
  BY <1>3, SessionIsOfSender DEF ActorAfter
<1>5. nothing \/ (r.path = "sign-in") = ~r.ok
  BY <1>1 DEF HookedRecord
<1>6. ASSUME NEW actor \in Person \cup {None}, NEW target \in Person \cup {None}, r.by = None, r.path # "verify-totp"
      PROVE  Entry(entry(actor, target))
  <2>1. r \in HookedRecord /\ Settled(r) /\ r.step = "after" /\ r.path \in AuditAction /\ r.path # "user.banned"
    BY <1>1, <1>2
  <2> HIDE DEF r
  <2>2. Entry(AuditEntry(r, r.path, actor, target))
    BY <1>6, <2>1, EntryIsRight
  <2> QED
    BY <2>2
<1>7. ASSUME r.ok, ~without PROVE Entry(entry(ActorAfter(c), ActorAfter(c)))
  <2>1. r.by # None => ActorAfter(c) = r.by
    <3>1. SUFFICES ASSUME r.by # None PROVE ActorAfter(c) = r.by
      OBVIOUS
    <3>2. r.path \in SessionPath
      BY <1>1, <1>2, <3>1 DEF SentBy
    <3>3. r.actor = r.session /\ r.session = r.by
      BY <1>1, <1>7, <3>1, <3>2 DEF TakenDown, Settled
    <3> QED
      BY <3>1, <3>3 DEF ActorAfter
  <2>2. r \in HookedRecord /\ Settled(r) /\ r.step = "after" /\ r.path \in AuditAction /\ r.path # "user.banned"
    BY <1>1, <1>2
  <2>3. r.path = "verify-totp" => r.result.totp
    BY <1>1, <1>7 DEF Settled
  <2>4. r.path = "verify-totp" => ~r.previous.totp
    BY <1>7
  <2> HIDE DEF r, without
  <2>5. Entry(AuditEntry(r, r.path, ActorAfter(c), ActorAfter(c)))
    BY <1>4, <2>1, <2>2, <2>3, <2>4, EntryIsRight
  <2> QED
    BY <2>5
<1>8. public => r.by = None /\ r.path # "verify-totp"
  BY <1>1 DEF SentBy, PublicPath
<1>9. AuthEntries(c) =
        IF nothing THEN <<>>
        ELSE CASE r.path \in {"sign-in", "request-password-reset"} -> <<entry(None, r.target)>>
               [] r.path \in {"sign-up", "verify-backup-code"} -> <<entry(r.target, r.target)>>
               [] r.path = "reset-password" -> <<entry(None, None)>>
               [] OTHER -> SessionEntries(c)
  BY DEF AuthEntries
<1>10. SessionEntries(c) = IF without THEN <<>> ELSE <<entry(ActorAfter(c), ActorAfter(c))>>
  BY DEF SessionEntries
<1>11. (r.ok <=> r.path # "sign-in") => ~nothing
  BY <1>1 DEF HookedRecord
<1>12. without => r.path = "verify-totp"
  OBVIOUS
<1>13. ~nothing /\ r.path # "sign-in" => r.ok
  BY <1>5
<1> HIDE DEF entry, r, nothing, without
<1> DEFINE right(s) == s \in Seq(AuditRecord) /\ EntriesRight(s)
<1>14. CASE nothing
  BY <1>9, <1>11, <1>14, NoEntries DEF r
<1>15. CASE ~nothing /\ public
  <2>1. \E actor, target \in Person \cup {None} : AuthEntries(c) = <<entry(actor, target)>>
    BY <1>3, <1>9, <1>15
  <2>2. PICK actor \in Person \cup {None}, target \in Person \cup {None} : AuthEntries(c) = <<entry(actor, target)>>
    BY <2>1
  <2>3. Entry(entry(actor, target))
    BY <1>6, <1>8, <1>15
  <2> QED
    BY <2>2, <2>3, EntriesOfRight
<1>16. CASE ~nothing /\ ~public
  <2>1. AuthEntries(c) = SessionEntries(c)
    BY <1>9, <1>16
  <2>2. CASE without
    BY <1>10, <1>12, <2>1, <2>2, NoEntries DEF r
  <2>3. CASE ~without
    <3>1. AuthEntries(c) = <<entry(ActorAfter(c), ActorAfter(c))>>
      BY <1>10, <2>1, <2>3
    <3>2. Entry(entry(ActorAfter(c), ActorAfter(c)))
      BY <1>7, <1>13, <1>16, <2>3
    <3> QED
      BY <3>1, <3>2, EntriesOfRight
  <2> QED
    BY <2>2, <2>3
<1> QED
  BY <1>14, <1>15, <1>16

LEMMA AfterBuildEntries ==
    ASSUME AuditInv, NEW c \in Call, buildEntries(c)
    PROVE  AuditTypes' /\ RequestsHold' /\ EntriesOwed'
<1> DEFINE r == hooked[c]
           entries == IF isAuditedAuthPath(r.path) THEN AuthEntries(c) ELSE AdminEntries(c)
           m == [r EXCEPT !.entries = entries, !.step = "persist"]
<1>1. /\ r \in HookedRecord /\ r # None /\ hooked[c] # None /\ r.step = "after"
      /\ RequestHolds(r, StatusIn(persons, r.target))
  BY DEF AuditInv, AuditTypes, AtStep, buildEntries, RequestsHold
<1>2. entries \in Seq(AuditRecord) /\ EntriesRight(entries)
  <2>1. CASE isAuditedAuthPath(r.path)
    BY <1>1, <2>1, AuthEntriesRight DEF AuditInv
  <2>2. CASE ~isAuditedAuthPath(r.path)
    <3>1. r.path \in AdminPath
      BY <1>1, <2>2 DEF HookedRecord, isAuditedAuthPath
    <3> QED
      BY <1>1, <2>2, <3>1, AdminEntriesRight DEF AuditInv
  <2> QED
    BY <2>1, <2>2
<1>3. c \in unlogged => entries # <<>> \/ r.path = "verify-totp"
  <2> SUFFICES ASSUME c \in unlogged PROVE entries # <<>> \/ r.path = "verify-totp"
    OBVIOUS
  <2>1. Recorded(r, r.ok)
    BY <1>1 DEF AuditInv, EntriesOwed, Owed
  <2>2. CASE isAuditedAuthPath(r.path)
    <3>1. r.path \notin AdminPath
      BY <2>2 DEF isAuditedAuthPath, SessionPath, PublicPath, AdminPath
    <3>2. r.ok <=> r.path # "sign-in"
      BY <2>1, <3>1 DEF Recorded, isAuditedAdminMutationPath
    <3> QED
      BY <1>1, <2>2, <3>2, AuthEntriesRight DEF AuditInv
  <2>3. CASE ~isAuditedAuthPath(r.path)
    <3>1. r.ok /\ isAuditedAdminMutationPath(r.path) /\ r.path \in AdminPath
      BY <2>1, <2>3 DEF Recorded, isAuditedAdminMutationPath
    <3> QED
      BY <1>1, <2>3, <3>1, AdminEntriesRight DEF AuditInv
  <2> QED
    BY <2>2, <2>3
<1>4. /\ hooked' = [hooked EXCEPT ![c] = m]
      /\ unlogged' = IF entries = <<>> /\ r.path = "verify-totp" THEN unlogged \ {c} ELSE unlogged
      /\ UNCHANGED <<persons, log, mails, auditPage, auditRequest, auditShown>>
  BY DEF buildEntries, AuditInv, AuditTypes, auditClient
<1> HIDE DEF entries
<1>5. m \in HookedRecord
  BY <1>1, <1>2 DEF HookedRecord
<1>6. /\ m.path = r.path /\ m.by = r.by /\ m.target = r.target /\ m.step = "persist" /\ m.session = r.session
      /\ m.actor = r.actor /\ m.mailTo = r.mailTo /\ m.previous = r.previous /\ m.was = r.was
      /\ m.crossed = r.crossed /\ m.entries = entries /\ m.ok = r.ok /\ m.result = r.result
  BY <1>1 DEF HookedRecord
<1> HIDE DEF m
<1>7. SentBy(m) /\ TakenDown(m) /\ AsFound(m, StatusIn(persons, m.target)) /\ Settled(m) /\ EntriesRight(m.entries)
  <2>1. SentBy(m)
    BY <1>1, <1>6 DEF RequestHolds, SentBy
  <2>2. TakenDown(m)
    BY <1>1, <1>6 DEF RequestHolds, TakenDown
  <2>3. Settled(m)
    BY <1>1, <1>6 DEF RequestHolds, Settled
  <2> QED
    BY <1>2, <1>6, <2>1, <2>2, <2>3 DEF AsFound
<1>8. /\ hooked' \in [Call -> HookedRecord \cup {None}]
      /\ hooked'[c] = m
      /\ \A d \in Call \ {c} : hooked'[d] = hooked[d]
  BY <1>4, <1>5 DEF AuditInv, AuditTypes
<1>9. RequestsHold'
  BY <1>4, <1>7, <1>8, OneRequestMoves DEF AuditInv, RequestHolds
<1>10. EntriesOwed'
  <2>1. c \in unlogged' => entries # <<>> /\ m # None
    BY <1>3, <1>4, <1>5, HookedAssumption
  <2>2. unlogged' \subseteq unlogged
    BY <1>4
  <2> QED
    BY <1>6, <1>8, <2>1, <2>2 DEF AuditInv, EntriesOwed, Owed
<1> QED
  BY <1>4, <1>8, <1>9, <1>10 DEF AuditInv, AuditTypes

\* An answer that is marked as outdated keeps the rest.
LEMMA StaleTypes ==
    ASSUME AuditTypes, auditShown' = [auditShown EXCEPT !.fresh = FALSE]
    PROVE  /\ auditShown' = [entries |-> auditShown.entries, total |-> auditShown.total, fresh |-> FALSE]
           /\ auditShown'.total = auditShown.total /\ auditShown'.fresh = FALSE
           /\ auditShown'.entries = auditShown.entries
<1>1. auditShown = [entries |-> auditShown.entries, total |-> auditShown.total, fresh |-> auditShown.fresh]
  BY DEF AuditTypes
<1> DEFINE e == auditShown.entries  t == auditShown.total  f == auditShown.fresh
<1>2. auditShown = [entries |-> e, total |-> t, fresh |-> f]
  BY <1>1
<1> HIDE DEF e, t, f
<1>3. auditShown' = [entries |-> e, total |-> t, fresh |-> FALSE]
  BY <1>2
<1> QED
  BY <1>3 DEF e, t

LEMMA RightHeadAndTail ==
    ASSUME NEW s \in Seq(AuditRecord), EntriesRight(s), s # <<>>
    PROVE  /\ Head(s) \in AuditRecord /\ Tail(s) \in Seq(AuditRecord) /\ EntriesRight(Tail(s))
           /\ EntriesRight(<<Head(s)>>)
<1>1. Len(s) \in Nat /\ Len(s) > 0 /\ DOMAIN s = 1 .. Len(s)
  OBVIOUS
<1>2. Head(s) = s[1] /\ Head(s) \in AuditRecord
  OBVIOUS
<1>3. Tail(s) \in Seq(AuditRecord) /\ DOMAIN Tail(s) = 1 .. Len(s) - 1 /\ \A i \in 1 .. Len(s) - 1 : Tail(s)[i] = s[i + 1]
  OBVIOUS
<1>4. \A i \in 1 .. Len(s) - 1 : i + 1 \in 1 .. Len(s)
  BY <1>1
<1>5. EntriesRight(Tail(s))
  BY <1>1, <1>3, <1>4 DEF EntriesRight
<1>6. EntriesRight(<<Head(s)>>)
  BY <1>1, <1>2 DEF EntriesRight
<1> QED
  BY <1>2, <1>3, <1>5, <1>6

LEMMA RightOnTop ==
    ASSUME NEW s \in Seq(AuditRecord), NEW e \in AuditRecord, EntriesRight(s), EntriesRight(<<e>>)
    PROVE  <<e>> \o s \in Seq(AuditRecord) /\ EntriesRight(<<e>> \o s)
<1>1. <<e>> \in Seq(AuditRecord) /\ Len(<<e>>) = 1 /\ <<e>>[1] = e
  OBVIOUS
<1>2. /\ <<e>> \o s \in Seq(AuditRecord)
      /\ Len(<<e>> \o s) = 1 + Len(s)
      /\ \A i \in 1 .. Len(<<e>> \o s) : (<<e>> \o s)[i] = IF i <= 1 THEN <<e>>[i] ELSE s[i - 1]
  BY <1>1, ConcatProperties
<1>3. NamesTheActor(e) /\ TellsTheChange(e)
  BY <1>1 DEF EntriesRight
<1> DEFINE t == <<e>> \o s
<1>4. DOMAIN t = 1 .. Len(t) /\ Len(s) \in Nat /\ DOMAIN s = 1 .. Len(s)
  BY <1>2
<1>5. ASSUME NEW i \in DOMAIN t PROVE NamesTheActor(t[i]) /\ TellsTheChange(t[i])
  <2>1. CASE i = 1
    BY <1>1, <1>2, <1>3, <1>4, <2>1
  <2>2. CASE i # 1
    <3>1. i - 1 \in DOMAIN s /\ t[i] = s[i - 1]
      BY <1>2, <1>4, <2>2
    <3> QED
      BY <3>1 DEF EntriesRight
  <2> QED
    BY <2>1, <2>2
<1> QED
  BY <1>2, <1>5 DEF EntriesRight

LEMMA AfterPersist ==
    ASSUME AuditInv, NEW c \in Call, persistAuditEntry(c)
    PROVE  AuditTypes' /\ RequestsHold' /\ EntriesOwed' /\ EntriesRight(log)'
<1> DEFINE r == hooked[c]
           m == [r EXCEPT !.entries = Tail(@)]
<1>1. /\ r \in HookedRecord /\ r # None /\ hooked[c] # None /\ r.step = "persist" /\ r.entries # <<>>
      /\ RequestHolds(r, StatusIn(persons, r.target)) /\ r.entries \in Seq(AuditRecord)
  BY DEF AuditInv, AuditTypes, AtStep, persistAuditEntry, RequestsHold, HookedRecord
<1>2. /\ Head(r.entries) \in AuditRecord /\ Tail(r.entries) \in Seq(AuditRecord) /\ EntriesRight(Tail(r.entries))
      /\ EntriesRight(<<Head(r.entries)>>)
  BY <1>1, RightHeadAndTail DEF RequestHolds
<1>3. /\ hooked' = [hooked EXCEPT ![c] = m]
      /\ unlogged' = unlogged \ {c}
      /\ UNCHANGED <<persons, mails, auditPage>>
      /\ log' \in {log, <<Head(r.entries)>> \o log}
      /\ auditShown' = [auditShown EXCEPT !.fresh = FALSE] \/ auditShown' = auditShown
  BY DEF persistAuditEntry, AuditInv, AuditTypes
<1>4. m \in HookedRecord
  BY <1>1, <1>2 DEF HookedRecord
<1>5. /\ m.path = r.path /\ m.by = r.by /\ m.target = r.target /\ m.step = "persist" /\ m.session = r.session
      /\ m.actor = r.actor /\ m.mailTo = r.mailTo /\ m.previous = r.previous /\ m.was = r.was
      /\ m.crossed = r.crossed /\ m.entries = Tail(r.entries) /\ m.ok = r.ok /\ m.result = r.result
  BY <1>1 DEF HookedRecord
<1> HIDE DEF m
<1>6. SentBy(m) /\ TakenDown(m) /\ AsFound(m, StatusIn(persons, m.target)) /\ Settled(m) /\ EntriesRight(m.entries)
  <2>1. SentBy(m)
    BY <1>1, <1>5 DEF RequestHolds, SentBy
  <2>2. TakenDown(m)
    BY <1>1, <1>5 DEF RequestHolds, TakenDown
  <2>3. Settled(m)
    BY <1>1, <1>5 DEF RequestHolds, Settled
  <2> QED
    BY <1>2, <1>5, <2>1, <2>2, <2>3 DEF AsFound
<1>7. /\ hooked' \in [Call -> HookedRecord \cup {None}]
      /\ hooked'[c] = m
      /\ \A d \in Call \ {c} : hooked'[d] = hooked[d]
  BY <1>3, <1>4 DEF AuditInv, AuditTypes
<1>8. RequestsHold'
  BY <1>3, <1>6, <1>7, OneRequestMoves DEF AuditInv, RequestHolds
<1>9. EntriesOwed'
  BY <1>3, <1>7 DEF AuditInv, EntriesOwed
<1>10. log' \in Seq(AuditRecord) /\ EntriesRight(log)'
  BY <1>2, <1>3, RightOnTop DEF AuditInv, AuditTypes
<1>11. /\ auditShown'.total \in Nat
       /\ auditShown' = [entries |-> auditShown'.entries, total |-> auditShown'.total, fresh |-> auditShown'.fresh]
  BY <1>3, StaleTypes DEF AuditInv, AuditTypes
<1> QED
  BY <1>3, <1>7, <1>8, <1>9, <1>10, <1>11 DEF AuditInv, AuditTypes

LEMMA AfterNotify ==
    ASSUME AuditInv, NEW c \in Call, notifySecurityChange(c)
    PROVE  AuditTypes' /\ RequestsHold' /\ EntriesOwed' /\ MailsRight'
<1> DEFINE r == hooked[c]
<1>1. /\ r \in HookedRecord /\ r # None /\ hooked[c] # None /\ r.step = "persist" /\ r.entries = <<>>
      /\ RequestHolds(r, StatusIn(persons, r.target))
  BY DEF AuditInv, AuditTypes, AtStep, notifySecurityChange, RequestsHold
<1>2. /\ hooked' = [hooked EXCEPT ![c] = None]
      /\ UNCHANGED <<persons, log, unlogged, auditPage, auditRequest, auditShown>>
  BY DEF notifySecurityChange, auditClient
<1>3. mails' \subseteq mails \cup IF r.mailTo # None THEN {[path |-> r.path, to |-> r.mailTo, about |-> r.target]} ELSE {}
  BY DEF notifySecurityChange
<1>4. r.mailTo \in {None, r.target}
  BY <1>1 DEF RequestHolds, TakenDown
<1>5. MailsRight'
  <2> SUFFICES ASSUME NEW m \in mails' PROVE m.to = m.about
    BY DEF MailsRight
  <2>1. m \in mails \/ (r.mailTo # None /\ m = [path |-> r.path, to |-> r.mailTo, about |-> r.target])
    BY <1>3
  <2> QED
    BY <1>4, <2>1 DEF AuditInv, MailsRight
<1>6. /\ hooked' \in [Call -> HookedRecord \cup {None}]
      /\ hooked'[c] = None
      /\ \A d \in Call \ {c} : hooked'[d] = hooked[d]
  BY <1>2 DEF AuditInv, AuditTypes
<1>7. RequestsHold'
  BY <1>2, <1>6, OneRequestMoves DEF AuditInv
<1>8. c \notin unlogged
  BY <1>1 DEF AuditInv, EntriesOwed, Owed
<1>9. EntriesOwed'
  BY <1>2, <1>6, <1>8 DEF AuditInv, EntriesOwed
<1> QED
  BY <1>2, <1>5, <1>6, <1>7, <1>9 DEF AuditInv, AuditTypes

\* The account hooks and the log page do not meet but in the log.
LEMMA PageUndisturbed ==
    ASSUME PageRight, UNCHANGED <<log, auditPage, auditRequest, auditShown>>
    PROVE  PageRight'
BY DEF PageRight, PageAt, Matching, AuditPages

LEMMA PageOutdated ==
    ASSUME AuditTypes, PageRight, auditShown' = [auditShown EXCEPT !.fresh = FALSE], UNCHANGED <<auditPage, auditRequest>>
    PROVE  PageRight'
BY StaleTypes DEF PageRight, AuditPages

LEMMA AfterDeletion ==
    ASSUME AuditInv, deleteOlderThan
    PROVE  AuditInv'
<1>1. PICK category \in {"admin", "auth"}, kept \in 0 .. Len(log) :
        log' = WithoutExpired(category, kept)
  BY DEF deleteOlderThan
<1>2. /\ UNCHANGED <<persons, hooked, mails, unlogged, auditPage, auditRequest>>
      /\ auditShown' = [auditShown EXCEPT !.fresh = FALSE]
  BY DEF deleteOlderThan
<1> DEFINE P == {i \in DOMAIN log : i <= kept \/ log[i].category # category}
<1>3. log' = InOrder(log, P)
  BY <1>1 DEF WithoutExpired
<1>4. P \in SUBSET DOMAIN log /\ log \in Seq(AuditRecord)
  BY DEF AuditInv, AuditTypes
<1> HIDE DEF P
<1>5. /\ InOrder(log, P) \in Seq(AuditRecord)
      /\ \A n \in DOMAIN InOrder(log, P) : \E i \in P : InOrder(log, P)[n] = log[i]
  BY <1>4, InOrderElements
<1>6. log' \in Seq(AuditRecord) /\ EntriesRight(log)'
  BY <1>3, <1>4, <1>5 DEF AuditInv, EntriesRight
<1>7. AuditTypes'
  BY <1>2, <1>6, StaleTypes DEF AuditInv, AuditTypes
<1>8. RequestsHold' /\ EntriesOwed' /\ MailsRight'
  BY <1>2 DEF AuditInv, RequestsHold, EntriesOwed, MailsRight
<1>9. PageRight'
  BY <1>2, PageOutdated DEF AuditInv
<1> QED
  BY <1>6, <1>7, <1>8, <1>9 DEF AuditInv

LEMMA PagesAreCounted ==
    ASSUME NEW total \in Nat
    PROVE  AuditPages(total) \in Nat
BY AuditAssumption DEF AuditPages

LEMMA AfterAnswer ==
    ASSUME AuditInv, NEW answer, AnswerShown(answer), UNCHANGED auditServer,
           answer = [entries |-> answer.entries, total |-> answer.total, fresh |-> answer.fresh],
           answer.total \in Nat,
           answer.fresh => answer.entries = PageAt(Matching(auditPage.category), auditPage.page)
    PROVE  AuditInv'
<1> DEFINE last == AuditPages(answer.total)
<1>1. auditShown' = answer /\ UNCHANGED <<persons, hooked, log, mails, unlogged>>
  BY DEF AnswerShown, auditServer
<1>2. auditPage \in AuditAddress /\ last \in Nat
  BY PagesAreCounted DEF AuditInv, AuditTypes
<1>3. AuditPages(auditShown'.total) = last
  BY <1>1
<1>4. RequestsHold' /\ EntriesOwed' /\ MailsRight' /\ EntriesRight(log)'
  BY <1>1 DEF AuditInv, RequestsHold, EntriesOwed, MailsRight
<1>5. CASE auditPage.page > last
  <2>1. /\ auditPage' = [page |-> last, category |-> auditPage.category]
        /\ auditRequest' = [page |-> last, category |-> auditPage.category]
    BY <1>5 DEF AnswerShown, Visit
  <2>2. auditPage' \in AuditAddress
    BY <1>2, <2>1 DEF AuditAddress
  <2>4. AuditTypes'
    BY <1>1, <2>2 DEF AuditInv, AuditTypes
  <2>5. auditRequest' = auditPage' /\ auditPage' # None
    BY <2>1, <2>2, AuditAssumption
  <2>6. PageRight'
    BY <2>5 DEF PageRight
  <2> QED
    BY <1>4, <2>4, <2>6 DEF AuditInv
<1>6. CASE ~(auditPage.page > last)
  <2>1. auditRequest' = None /\ auditPage' = auditPage /\ auditPage.page <= last
    BY <1>2, <1>6 DEF AnswerShown, AuditAddress
  <2>2. AuditTypes'
    BY <1>1, <2>1 DEF AuditInv, AuditTypes
  <2>3. PageAt(Matching(auditPage.category), auditPage.page)' = PageAt(Matching(auditPage.category), auditPage.page)
    BY <1>1, <2>1 DEF PageAt, Matching
  <2>4. PageRight'
    BY <1>1, <1>3, <2>1, <2>3 DEF PageRight
  <2> QED
    BY <1>4, <2>2, <2>4 DEF AuditInv
<1> QED
  BY <1>5, <1>6

LEMMA AfterShowAuditPage ==
    ASSUME AuditInv, showAuditPage
    PROVE  AuditInv'
<1>1. PICK category \in {None, "admin", "auth"}, page \in 1 .. AuditPages(auditShown.total) :
        Visit(page, category)
  BY DEF showAuditPage
<1>2. page \in Nat
  BY <1>1, PagesAreCounted DEF AuditInv, AuditTypes
<1>3. UNCHANGED <<persons, hooked, log, mails, unlogged, auditShown>>
  BY DEF showAuditPage, auditServer
<1>4. auditPage' \in AuditAddress /\ auditRequest' = auditPage' /\ auditPage' # None
  BY <1>1, <1>2, AuditAssumption DEF Visit, AuditAddress
<1>5. AuditTypes'
  BY <1>3, <1>4 DEF AuditInv, AuditTypes
<1>6. PageRight'
  BY <1>4 DEF PageRight
<1> QED
  BY <1>3, <1>5, <1>6 DEF AuditInv, RequestsHold, EntriesOwed, MailsRight

LEMMA AfterListAuditEntries ==
    ASSUME AuditInv, listAuditEntries
    PROVE  AuditInv'
<1> DEFINE found == Matching(auditRequest.category)
           answer == [entries |-> PageAt(found, auditRequest.page), total |-> Len(found), fresh |-> TRUE]
<1>1. AnswerShown(answer) /\ UNCHANGED auditServer
  BY DEF listAuditEntries
<1>2. auditRequest = auditPage
  BY DEF listAuditEntries, AuditInv, PageRight
<1>3. answer.entries = PageAt(Matching(auditPage.category), auditPage.page)
  BY <1>2
<1>4. Len(found) \in Nat
  OBVIOUS
<1>5. answer.total \in Nat /\ answer = [entries |-> answer.entries, total |-> answer.total, fresh |-> answer.fresh]
  BY <1>4
<1> HIDE DEF answer
<1> QED
  BY <1>1, <1>3, <1>5, AfterAnswer

LEMMA AfterAuditFetchFails ==
    ASSUME AuditInv, AuditFetchFails
    PROVE  AuditInv'
<1> DEFINE answer == [entries |-> <<>>, total |-> 0, fresh |-> FALSE]
<1>1. AnswerShown(answer) /\ UNCHANGED auditServer
  BY DEF AuditFetchFails
<1>2. /\ answer.total \in Nat /\ answer = [entries |-> answer.entries, total |-> answer.total, fresh |-> answer.fresh]
      /\ ~answer.fresh
  OBVIOUS
<1> HIDE DEF answer
<1> QED
  BY <1>1, <1>2, AfterAnswer

-----------------------------------------------------------------------------
LEMMA AuditBegins == AuditInit => AuditInv
<1> SUFFICES ASSUME AuditInit PROVE AuditInv
  OBVIOUS
<1> DEFINE p == CHOOSE q \in Administrator : TRUE
           old(path) == [Hooked(path, p, p) EXCEPT !.previous = Status(p), !.was = Status(p), !.result = persons[p]]
<1>1. p \in Administrator /\ p \in Person
  BY AuditAssumption
<1>2. persons \in [Person -> PersonRecord]
  BY DEF AuditInit, PersonRecord
<1>3. persons[p] \in PersonRecord /\ Status(p) \in StatusRecord
  BY <1>1, <1>2 DEF Status, PersonRecord, StatusRecord
<1>4. Earlier("change-password", "change-password") = AuditEntry(old("change-password"), "change-password", p, p)
  BY DEF Earlier
<1>5. Earlier("set-role", "user.role_changed") = AuditEntry(old("set-role"), "user.role_changed", p, p)
  BY DEF Earlier
<1> HIDE DEF p
<1>6. ASSUME NEW path \in {"change-password", "set-role"}, NEW action \in {"change-password", "user.role_changed"}
      PROVE  Entry(AuditEntry(old(path), action, p, p))
  <2> DEFINE r == old(path)  e == AuditEntry(r, action, p, p)
  <2>1. /\ r.path = path /\ r.by = p /\ r.previous = Status(p) /\ r.was = Status(p) /\ r.result = persons[p]
        /\ r.crossed = FALSE
    BY DEF Hooked
  <2> HIDE DEF r
  <2>2. /\ e.by = p /\ e.actor = p /\ e.action = action /\ e.previous = Status(p) /\ e.was = Status(p)
        /\ e.next = persons[p] /\ e.crossed = FALSE
    BY <2>1 DEF AuditEntry
  <2>3. e \in AuditRecord
    BY <1>1, <1>3, <2>1 DEF AuditEntry, AuditRecord, AuditAction, AdminPath, SessionPath
  <2> HIDE DEF e
  <2>4. NamesTheActor(e) /\ TellsTheChange(e)
    BY <2>2 DEF NamesTheActor, TellsTheChange
  <2> QED
    BY <2>3, <2>4 DEF Entry, e, r
<1> DEFINE first == Earlier("change-password", "change-password")
           second == Earlier("set-role", "user.role_changed")
<1>7. Entry(first) /\ Entry(second)
  BY <1>4, <1>5, <1>6
<1>8. log = <<first, second>>
  BY DEF AuditInit
<1> HIDE DEF first, second
<1>9. log \in Seq(AuditRecord) /\ EntriesRight(log) /\ Len(log) = 2
  BY <1>7, <1>8, EntriesOfRight
<1>10. /\ auditPage = [page |-> AuditPages(Len(log)), category |-> None]
       /\ auditShown = [entries |-> PageAt(log, auditPage.page), total |-> Len(log), fresh |-> TRUE]
       /\ auditRequest = None
  BY DEF AuditInit
<1>11. AuditTypes
  <2>1. auditPage \in AuditAddress
    BY <1>9, <1>10, PagesAreCounted DEF AuditAddress
  <2>2. auditShown.total \in Nat
    BY <1>9, <1>10
  <2>3. auditShown = [entries |-> auditShown.entries, total |-> auditShown.total, fresh |-> auditShown.fresh]
    BY <1>10
  <2>4. hooked \in [Call -> HookedRecord \cup {None}]
    BY DEF AuditInit
  <2> QED
    BY <1>2, <1>9, <2>1, <2>2, <2>3, <2>4 DEF AuditTypes
<1>12. RequestsHold /\ EntriesOwed /\ MailsRight
  BY DEF AuditInit, RequestsHold, EntriesOwed, MailsRight
<1>13. PageRight
  <2>1. AuditPages(Len(log)) \in Nat
    BY <1>9, PagesAreCounted
  <2>2. auditPage.page = AuditPages(auditShown.total) /\ auditPage.page \in Nat
    BY <1>10, <2>1
  <2>3. auditShown.entries = PageAt(Matching(auditPage.category), auditPage.page)
    BY <1>10 DEF Matching
  <2> QED
    BY <1>10, <2>2, <2>3 DEF PageRight
<1> QED
  BY <1>9, <1>11, <1>12, <1>13 DEF AuditInv

LEMMA AuditMoves == AuditInv /\ [AuditNext]_auditVars => AuditInv'
<1> SUFFICES ASSUME AuditInv, [AuditNext]_auditVars PROVE AuditInv'
  OBVIOUS
<1>1. ASSUME NEW c \in Call, sendRequest(c) \/ HooksBefore(c) \/ ReserveBan(c) \/ Endpoint(c) \/ buildEntries(c)
      PROVE  AuditInv'
  <2>1. AuditTypes' /\ RequestsHold' /\ EntriesOwed'
    BY <1>1, NewRequest, AfterHooksBefore, AfterReserveBan, AfterEndpoint, AfterBuildEntries
  <2>2. UNCHANGED <<log, mails, auditPage, auditRequest, auditShown>>
    BY <1>1 DEF sendRequest, HooksBefore, ReserveBan, Endpoint, buildEntries, auditClient
  <2>3. PageRight' /\ MailsRight' /\ EntriesRight(log)'
    BY <2>2, PageUndisturbed DEF AuditInv, MailsRight
  <2> QED
    BY <2>1, <2>3 DEF AuditInv
<1>2. ASSUME NEW c \in Call, persistAuditEntry(c) PROVE AuditInv'
  <2>1. AuditTypes' /\ RequestsHold' /\ EntriesOwed' /\ EntriesRight(log)'
    BY <1>2, AfterPersist
  <2>2. UNCHANGED <<mails, auditPage, auditRequest>>
    BY <1>2 DEF persistAuditEntry
  <2>3. \/ auditShown' = [auditShown EXCEPT !.fresh = FALSE]
        \/ UNCHANGED <<log, auditShown>>
    BY <1>2 DEF persistAuditEntry
  <2>4. PageRight'
    BY <2>2, <2>3, PageUndisturbed, PageOutdated DEF AuditInv
  <2>5. MailsRight'
    BY <2>2 DEF AuditInv, MailsRight
  <2> QED
    BY <2>1, <2>4, <2>5 DEF AuditInv
<1>3. ASSUME NEW c \in Call, notifySecurityChange(c) PROVE AuditInv'
  <2>1. AuditTypes' /\ RequestsHold' /\ EntriesOwed' /\ MailsRight'
    BY <1>3, AfterNotify
  <2>2. UNCHANGED <<log, auditPage, auditRequest, auditShown>>
    BY <1>3 DEF notifySecurityChange, auditClient
  <2>3. PageRight' /\ EntriesRight(log)'
    BY <2>2, PageUndisturbed DEF AuditInv
  <2> QED
    BY <2>1, <2>3 DEF AuditInv
<1>4. CASE UNCHANGED auditVars
  <2>1. UNCHANGED <<persons, hooked, log, mails, unlogged, auditPage, auditRequest, auditShown>>
    BY <1>4 DEF auditVars, auditServer, auditClient
  <2>2. PageRight'
    BY <2>1, PageUndisturbed DEF AuditInv
  <2> QED
    BY <2>1, <2>2 DEF AuditInv, AuditTypes, RequestsHold, EntriesOwed, MailsRight
<1> QED
  BY <1>1, <1>2, <1>3, <1>4, AfterDeletion, AfterShowAuditPage, AfterListAuditEntries, AfterAuditFetchFails
     DEF AuditNext

\* The log tells what happened, for any accounts, concurrent requests and page size: an entry names the one whose
\* session sent the request and what the request changed, unless another crossed it; a mail goes to the account it is
\* about; and the page shown is one of the log.
THEOREM AuditIsTrue == AuditSpec => []AuditTellsWhatHappened
<1>1. AuditInv => AuditTellsWhatHappened
  BY DEF AuditInv, EntriesRight, EntriesOwed, MailsRight, PageRight, AuditTellsWhatHappened
<1> QED
  BY <1>1, AuditBegins, AuditMoves, PTL DEF AuditSpec
=============================================================================
