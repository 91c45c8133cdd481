--------------------------- MODULE BackOfficeProofs ---------------------------
(***************************************************************************)
(* What the parts of the back office promise, for any number of requests,  *)
(* sessions, rows and clerks: accounts and invitations, the catalogue, the *)
(* numbers of sales, price quotes, the list pages and the migrations.  The *)
(* parts share nothing, so each has an invariant of its own, and the back  *)
(* office is, at the end, all of them side by side.                        *)
(***************************************************************************)
EXTENDS BackOffice, BrowserProofs, FiniteSetTheorems

-----------------------------------------------------------------------------
(* Accounts.  That an organization founded through the API never has       *)
(* members or invitations of another role than OWNER and SELLER is not     *)
(* inductive by itself: a request that gives a role away has looked at the *)
(* rights of its user in an earlier step, so the invariant also says what  *)
(* every request under way may be about.                                   *)
UserOK == user \in [Emails -> [known : BOOLEAN, password : {"none", "own", "random"}, verified : BOOLEAN]]

RoleOK ==
    /\ role \in [Orgs -> [Emails -> Roles \cup {"none"}]]
    /\ \A o \in Orgs \ Seeded : \A e \in Emails : role[o][e] \in {"OWNER", "SELLER", "none"}

Invitation == [status : {"none", "PENDING", "ACCEPTED", "CANCELLED"}, org : Orgs \cup {NoOrg},
               email : Emails \cup {NoEmail}, role : Roles, expired : BOOLEAN]

InviteOK ==
    /\ invite \in [Invites -> Invitation]
    /\ \A i \in Invites :
          /\ invite[i].org \in Orgs \ Seeded => invite[i].role = "SELLER"
          /\ invite[i].status = "PENDING" => invite[i].org \in Orgs /\ invite[i].email \in Emails

(* A request that gives away a role its user names is about an             *)
(* organization of Seeded; every other one gives OWNER or SELLER.          *)
RequestOK(q) ==
    /\ q \in Requests
    /\ q.op \notin {"none", "createOrg", "cancel"} => q.org \in Orgs /\ q.email \in Emails
    /\ q.op = "createOrg" => q.org \in Orgs
    /\ q.op \in {"invited", "invite", "inviteSeller", "createSeller", "cancel"} => q.inv \in Invites
    /\ q.op \in {"updateRole", "add", "invite"} => q.org \in Seeded
    /\ q.op \in {"inviteSeller", "createSeller"} => q.role = "SELLER"
    /\ q.op = "invited" /\ q.org \notin Seeded => q.role = "SELLER"

Session == [pc : {"out", "choosing", "in"}, email : Emails \cup {NoEmail}, org : Orgs \cup {NoOrg}, role : Roles,
            req : Requests]

SessionOK ==
    /\ session \in [Sessions -> Session]
    /\ \A s \in Sessions : RequestOK(session[s].req) /\ (session[s].pc # "out" => session[s].email \in Emails)

BootOK == boot \in {"user", "organization", "membership", "done"} /\ (boot # "done" => OwnerEmail \in Emails)

AccountsInv == UserOK /\ exists \subseteq Orgs /\ RoleOK /\ InviteOK /\ SessionOK /\ BootOK

-----------------------------------------------------------------------------
(* What the inductive invariant is for.                                    *)
LEMMA InvImplies == AccountsInv => AccountsTypeOK /\ FoundedHaveNoAdmins
BY AccountsAssumption
   DEF AccountsInv, AccountsTypeOK, FoundedHaveNoAdmins, UserOK, RoleOK, InviteOK, SessionOK, BootOK, Session, Invitation

(* The empty request is one.                                               *)
LEMMA NoAskOK == RequestOK(NoAsk)
BY DEF RequestOK, NoAsk, Requests, Roles

(* Storing tokens, closing a request and beginning one keep the sessions.  *)
LEMMA SignInKeeps ==
    ASSUME SessionOK, NEW s \in Sessions, NEW e \in Emails, NEW o \in Orgs, NEW r \in Roles, SignIn(s, e, o, r)
    PROVE  SessionOK'
<1>1. NoAsk \in Requests BY NoAskOK DEF RequestOK
<1>2. session' \in [Sessions -> Session] BY <1>1 DEF SessionOK, SignIn, Session
<1>3. \A t \in Sessions : session'[t] = IF t = s THEN [pc |-> "in", email |-> e, org |-> o, role |-> r, req |-> NoAsk] ELSE session[t]
  BY DEF SessionOK, SignIn
<1>4. QED BY <1>2, <1>3, NoAskOK DEF SessionOK

LEMMA AsksKeeps ==
    ASSUME SessionOK, NEW s \in Sessions, NEW q, RequestOK(q), Asks(s, q)
    PROVE  SessionOK'
<1> DEFINE c == session[s]
           d == [c EXCEPT !.req = q]
<1>1. d \in Session /\ d.req = q /\ d.pc = c.pc /\ d.email = c.email
  BY DEF SessionOK, Session, RequestOK
<1>2. session' = [session EXCEPT ![s] = d]
  BY DEF SessionOK, Session, Asks
<1> HIDE DEF d
<1>3. QED BY <1>1, <1>2 DEF SessionOK

LEMMA ClosesKeeps ==
    ASSUME SessionOK, NEW s \in Sessions, Closes(s)
    PROVE  SessionOK'
BY AsksKeeps, NoAskOK DEF Closes, Asks

(* Whoever manages a founded organization is its OWNER, and OWNER is none  *)
(* of the roles that may give roles away.                                  *)
LEMMA OnlySeeded ==
    ASSUME RoleOK, SessionOK, NEW s \in Sessions, NEW o \in Orgs, NEW op \in {"updateRole", "add", "invite"}, Permitted(s, op, o)
    PROVE  o \in Seeded
<1>1. session[s].email \in Emails BY DEF Permitted, Authentic, SessionOK
<1>2. role[o][session[s].email] \in {"ADMIN", "MANAGER"} BY DEF Permitted, ServiceRoles, Managers
<1>3. QED BY <1>1, <1>2 DEF RoleOK

(* A user who is not known is made known, one who is stays as it is.       *)
LEMMA MadeKnown ==
    ASSUME UserOK, NEW e \in Emails, NEW password \in {"own", "random"}, NEW verified \in BOOLEAN,
           user' = [user EXCEPT ![e] = IF @.known THEN @ ELSE [known |-> TRUE, password |-> password, verified |-> verified]]
    PROVE  UserOK'
<1> DEFINE new == IF user[e].known THEN user[e] ELSE [known |-> TRUE, password |-> password, verified |-> verified]
<1>1. new \in [known : BOOLEAN, password : {"none", "own", "random"}, verified : BOOLEAN] BY DEF UserOK
<1>2. user' = [user EXCEPT ![e] = new] BY DEF UserOK
<1> HIDE DEF new
<1>3. QED BY <1>1, <1>2 DEF UserOK

(* Writing one role keeps the table if it is one the organization may have.*)
LEMMA RoleKeeps ==
    ASSUME RoleOK, NEW o \in Orgs, NEW e \in Emails, NEW r \in Roles \cup {"none"},
           o \notin Seeded => r \in {"OWNER", "SELLER", "none"}, role' = [role EXCEPT ![o][e] = r]
    PROVE  RoleOK'
BY DEF RoleOK

(* Whatever an invitation becomes, it is pending no more.                  *)
LEMMA AcceptKeeps ==
    ASSUME InviteOK, NEW i \in Invites, NEW status \in {"ACCEPTED", "CANCELLED"},
           invite' = [invite EXCEPT ![i].status = status]
    PROVE  InviteOK'
<1> DEFINE c == invite[i]
           d == [c EXCEPT !.status = status]
<1>1. d \in Invitation /\ d.org = c.org /\ d.email = c.email /\ d.role = c.role
  BY DEF InviteOK, Invitation
<1>2. invite' = [invite EXCEPT ![i] = d] BY DEF InviteOK, Invitation
<1> HIDE DEF d
<1>3. QED BY <1>1, <1>2 DEF InviteOK

-----------------------------------------------------------------------------
(* The initial states.                                                     *)
LEMMA AccountsInitInv == AccountsInit => AccountsInv
<1> SUFFICES ASSUME AccountsInit PROVE AccountsInv OBVIOUS
<1>1. UserOK BY DEF AccountsInit, UserOK, Stranger
<1>2. RoleOK /\ exists \subseteq Orgs BY AccountsAssumption DEF AccountsInit, RoleOK, Member
<1>3. InviteOK
  BY AccountsAssumption DEF AccountsInit, InviteOK, Invitation, NoInvitation, Roles
<1>4. SessionOK
  <2>1. SignedOut \in Session /\ SignedOut.req = NoAsk /\ SignedOut.pc = "out"
    BY NoAskOK DEF SignedOut, Session, RequestOK, Roles
  <2>2. QED BY <2>1, NoAskOK DEF AccountsInit, SessionOK
<1>5. BootOK BY DEF AccountsInit, BootOK
<1>6. QED BY <1>1, <1>2, <1>3, <1>4, <1>5 DEF AccountsInv

-----------------------------------------------------------------------------
(* Signing in, by whatever way.                                            *)
LEMMA SignInSteps ==
    ASSUME AccountsInv, NEW s \in Sessions, SignInStep(s)
    PROVE  AccountsInv'
<1> DEFINE q == session[s].req
<1> USE DEF AccountsInv
<1>0. /\ RequestOK(q) /\ session[s].role \in Roles /\ q.role \in Roles
      /\ session[s].pc # "out" => session[s].email \in Emails
  BY DEF SessionOK, Session, RequestOK, Requests
<1>1. CASE RegisterCheck(s)
  <2>1. PICK e \in Emails, o \in Orgs \ Seeded : Asks(s, [NoAsk EXCEPT !.op = "register", !.email = e, !.org = o])
    BY <1>1 DEF RegisterCheck
  <2>2. RequestOK([NoAsk EXCEPT !.op = "register", !.email = e, !.org = o])
    BY DEF RequestOK, NoAsk, Requests, Roles
  <2>3. SessionOK' BY <2>1, <2>2, AsksKeeps
  <2>4. QED BY <1>1, <2>3 DEF RegisterCheck, UserOK, RoleOK, InviteOK, BootOK
<1>2. CASE Register(s)
  <2>1. q.email \in Emails /\ q.org \in Orgs BY <1>0, <1>2 DEF RequestOK, Register
  <2>2. CASE Closes(s) /\ UNCHANGED <<user, exists, role>>
    <3>1. SessionOK' BY <2>2, ClosesKeeps
    <3>2. QED BY <1>2, <2>2, <3>1 DEF Register, UserOK, RoleOK, InviteOK, BootOK
  <2>3. CASE /\ user' = [user EXCEPT ![q.email] = [known |-> TRUE, password |-> "own", verified |-> FALSE]]
             /\ exists' = exists \cup {q.org}
             /\ role' = [role EXCEPT ![q.org][q.email] = "OWNER"]
             /\ SignIn(s, q.email, q.org, "OWNER")
    <3>1. SessionOK' BY <2>1, <2>3, SignInKeeps DEF Roles
    <3>2. RoleOK' BY <2>1, <2>3, RoleKeeps DEF Roles
    <3>3. UserOK' BY <2>3 DEF UserOK
    <3>4. QED BY <1>2, <2>1, <2>3, <3>1, <3>2, <3>3 DEF Register, InviteOK, BootOK
  <2>4. QED BY <1>2, <2>2, <2>3 DEF Register
<1>3. CASE InvitedCheck(s)
  <2>1. PICK i \in Invites :
          /\ invite[i].status = "PENDING"
          /\ Asks(s, [op |-> "invited", org |-> invite[i].org, email |-> invite[i].email, role |-> invite[i].role, inv |-> i,
                      seen |-> FALSE])
    BY <1>3 DEF InvitedCheck
  <2>2. RequestOK([op |-> "invited", org |-> invite[i].org, email |-> invite[i].email, role |-> invite[i].role, inv |-> i,
                   seen |-> FALSE])
    BY <2>1 DEF RequestOK, Requests, InviteOK, Invitation
  <2>3. SessionOK' BY <2>1, <2>2, AsksKeeps
  <2>4. QED BY <1>3, <2>3 DEF InvitedCheck, UserOK, RoleOK, InviteOK, BootOK
<1>4. CASE RegisterInvited(s)
  <2>1. q.email \in Emails /\ q.org \in Orgs /\ q.inv \in Invites /\ (q.org \notin Seeded => q.role = "SELLER")
    BY <1>0, <1>4 DEF RequestOK, RegisterInvited
  <2>2. CASE Closes(s) /\ UNCHANGED <<user, role, invite>>
    <3>1. SessionOK' BY <2>2, ClosesKeeps
    <3>2. QED BY <1>4, <2>2, <3>1 DEF RegisterInvited, UserOK, RoleOK, InviteOK, BootOK
  <2>3. CASE /\ user' = [user EXCEPT ![q.email] = [known |-> TRUE, password |-> "own", verified |-> TRUE]]
             /\ role' = [role EXCEPT ![q.org][q.email] = IF Member(q.email, q.org) THEN @ ELSE q.role]
             /\ invite' = [invite EXCEPT ![q.inv].status = "ACCEPTED"]
             /\ SignIn(s, q.email, q.org, q.role)
    <3>1. SessionOK' BY <1>0, <2>1, <2>3, SignInKeeps
    <3>2. RoleOK'
      <4> DEFINE r == IF Member(q.email, q.org) THEN role[q.org][q.email] ELSE q.role
      <4>1. r \in Roles \cup {"none"} /\ (q.org \notin Seeded => r \in {"OWNER", "SELLER", "none"})
        BY <1>0, <2>1 DEF RoleOK
      <4>2. role' = [role EXCEPT ![q.org][q.email] = r] BY <2>1, <2>3 DEF RoleOK
      <4> HIDE DEF r
      <4>3. QED BY <2>1, <4>1, <4>2, RoleKeeps
    <3>3. UserOK' BY <2>3 DEF UserOK
    <3>4. InviteOK' BY <1>4, <2>1, <2>3, AcceptKeeps
    <3>5. QED BY <1>4, <3>1, <3>2, <3>3, <3>4 DEF RegisterInvited, BootOK
  <2>4. QED BY <1>4, <2>2, <2>3 DEF RegisterInvited
<1>5. CASE DevLogin(s)
  <2> DEFINE r == IF role[DevOrg][DevEmail] = "none" THEN "OWNER" ELSE role[DevOrg][DevEmail]
  <2>1. DevEmail \in Emails /\ DevOrg \in Orgs BY <1>5, AccountsAssumption DEF DevLogin
  <2>2. r \in Roles /\ (DevOrg \notin Seeded => r \in {"OWNER", "SELLER", "none"}) BY <2>1 DEF RoleOK, Roles
  <2>3. role' = [role EXCEPT ![DevOrg][DevEmail] = r] BY <1>5, <2>1 DEF RoleOK, DevLogin
  <2>4. role'[DevOrg][DevEmail] = r BY <2>1, <2>3 DEF RoleOK
  <2> HIDE DEF r
  <2>5. SessionOK' BY <1>5, <2>1, <2>2, <2>4, SignInKeeps DEF DevLogin
  <2>6. RoleOK' BY <2>1, <2>2, <2>3, RoleKeeps
  <2>7. UserOK' BY <1>5, <2>1 DEF DevLogin, UserOK
  <2>8. QED BY <1>5, <2>1, <2>5, <2>6, <2>7 DEF DevLogin, InviteOK, BootOK
<1>6. CASE Login(s) \/ SelectOrganization(s) \/ RefreshToken(s) \/ Logout(s)
  <2>1. UNCHANGED <<user, exists, role, invite, boot>>
    BY <1>6 DEF Login, SelectOrganization, RefreshToken, Logout
  <2>2. \/ \E e \in Emails, o \in Orgs : Member(e, o) /\ SignIn(s, e, o, role[o][e])
        \/ \E e \in Emails : session' = [session EXCEPT ![s].pc = "choosing", ![s].email = e]
        \/ session' = [session EXCEPT ![s] = SignedOut]
    BY <1>0, <1>6 DEF Login, SelectOrganization, RefreshToken, Logout, MemberOf
  <2>3. SessionOK'
    <3>1. CASE \E e \in Emails, o \in Orgs : Member(e, o) /\ SignIn(s, e, o, role[o][e])
      <4>1. PICK e \in Emails, o \in Orgs : Member(e, o) /\ SignIn(s, e, o, role[o][e]) BY <3>1
      <4>2. role[o][e] \in Roles BY <4>1 DEF RoleOK, Member
      <4>3. QED BY <4>1, <4>2, SignInKeeps
    <3>2. CASE \E e \in Emails : session' = [session EXCEPT ![s].pc = "choosing", ![s].email = e]
      <4>1. PICK e \in Emails : session' = [session EXCEPT ![s].pc = "choosing", ![s].email = e] BY <3>2
      <4> DEFINE c == session[s]
                 d == [c EXCEPT !.pc = "choosing", !.email = e]
      <4>2. d \in Session /\ d.req = c.req /\ d.email = e BY DEF SessionOK, Session
      <4>3. session' = [session EXCEPT ![s] = d] BY <4>1 DEF SessionOK, Session
      <4> HIDE DEF d
      <4>4. QED BY <4>2, <4>3 DEF SessionOK
    <3>3. CASE session' = [session EXCEPT ![s] = SignedOut]
      <4>1. SignedOut \in Session /\ SignedOut.req = NoAsk /\ SignedOut.pc = "out"
        BY NoAskOK DEF SignedOut, Session, RequestOK, Roles
      <4>2. QED BY <3>3, <4>1, NoAskOK DEF SessionOK
    <3>4. QED BY <2>2, <3>1, <3>2, <3>3
  <2>4. QED BY <2>1, <2>3 DEF UserOK, RoleOK, InviteOK, BootOK
<1>7. QED BY <1>1, <1>2, <1>3, <1>4, <1>5, <1>6 DEF SignInStep

-----------------------------------------------------------------------------
(* Organizations and their members.                                        *)
LEMMA MemberSteps ==
    ASSUME AccountsInv, NEW s \in Sessions, MemberStep(s)
    PROVE  AccountsInv'
<1> DEFINE q == session[s].req
<1> USE DEF AccountsInv
<1>0. /\ RequestOK(q) /\ q.role \in Roles /\ (session[s].pc # "out" => session[s].email \in Emails)
  BY DEF SessionOK, RequestOK, Requests
<1>1. CASE AutoPromote(s)
  <2> DEFINE e == session[s].email
             c == session[s]
             d == [c EXCEPT !.role = "OWNER"]
  <2>1. e \in Emails BY <1>0, <1>1 DEF AutoPromote
  <2>2. role' = [o \in Orgs |-> IF Member(e, o) THEN [role[o] EXCEPT ![e] = "OWNER"] ELSE role[o]]
    BY <1>1 DEF AutoPromote
  <2>3. RoleOK' BY <2>1, <2>2 DEF RoleOK, Roles
  <2>4. d \in Session /\ d.req = c.req /\ d.pc = c.pc /\ d.email = c.email BY DEF SessionOK, Session, Roles
  <2>5. session' = [session EXCEPT ![s] = d] BY <1>1 DEF AutoPromote, SessionOK, Session
  <2> HIDE DEF d
  <2>6. SessionOK' BY <2>4, <2>5 DEF SessionOK
  <2>7. QED BY <1>1, <2>3, <2>6 DEF AutoPromote, UserOK, InviteOK, BootOK
<1>2. CASE CreateOrgCheck(s)
  <2>1. PICK o \in Orgs : Asks(s, [NoAsk EXCEPT !.op = "createOrg", !.org = o]) BY <1>2 DEF CreateOrgCheck
  <2>2. RequestOK([NoAsk EXCEPT !.op = "createOrg", !.org = o]) BY DEF RequestOK, NoAsk, Requests, Roles
  <2>3. SessionOK' BY <2>1, <2>2, AsksKeeps
  <2>4. QED BY <1>2, <2>3 DEF CreateOrgCheck, UserOK, RoleOK, InviteOK, BootOK
<1>3. CASE CreateOrg(s)
  <2>1. q.org \in Orgs BY <1>0, <1>3 DEF RequestOK, CreateOrg
  <2>2. SessionOK' BY <1>3, ClosesKeeps DEF CreateOrg
  <2>3. RoleOK' /\ exists' \subseteq Orgs BY <1>3, <2>1 DEF CreateOrg, RoleOK, Roles
  <2>4. QED BY <1>3, <2>2, <2>3 DEF CreateOrg, UserOK, InviteOK, BootOK
<1>4. CASE MemberCheck(s)
  <2>1. PICK op \in {"updateRole", "remove"}, o \in Orgs, e \in Emails, r \in GivenRoles :
          /\ Permitted(s, op, o) /\ (op = "remove" => r = "SELLER")
          /\ Asks(s, [NoAsk EXCEPT !.op = op, !.org = o, !.email = e, !.role = r])
    BY <1>4 DEF MemberCheck
  <2>2. op = "updateRole" => o \in Seeded BY <2>1, OnlySeeded
  <2>3. RequestOK([NoAsk EXCEPT !.op = op, !.org = o, !.email = e, !.role = r])
    BY <2>1, <2>2, AccountsAssumption DEF RequestOK, NoAsk, Requests, Roles
  <2>4. SessionOK' BY <2>1, <2>3, AsksKeeps
  <2>5. QED BY <1>4, <2>4 DEF MemberCheck, UserOK, RoleOK, InviteOK, BootOK
<1>5. CASE UpdateMemberRole(s) \/ RemoveMember(s) \/ AddMember(s)
  <2>1. q.org \in Orgs /\ q.email \in Emails
    BY <1>0, <1>5 DEF RequestOK, UpdateMemberRole, RemoveMember, AddMember
  <2>2. SessionOK' BY <1>5, ClosesKeeps DEF UpdateMemberRole, RemoveMember, AddMember
  <2>3. RoleOK'
    <3>1. CASE UpdateMemberRole(s)
      <4>1. q.org \in Seeded BY <1>0, <3>1 DEF RequestOK, UpdateMemberRole
      <4>2. QED BY <1>0, <2>1, <3>1, <4>1 DEF RoleOK, UpdateMemberRole
    <3>2. CASE RemoveMember(s) BY <2>1, <3>2, RoleKeeps DEF RemoveMember
    <3>3. CASE AddMember(s)
      <4>1. q.org \in Seeded BY <1>0, <3>3 DEF RequestOK, AddMember
      <4>2. QED BY <1>0, <2>1, <3>3, <4>1 DEF RoleOK, AddMember
    <3>4. QED BY <1>5, <3>1, <3>2, <3>3
  <2>4. QED BY <1>5, <2>2, <2>3 DEF UpdateMemberRole, RemoveMember, AddMember, UserOK, InviteOK, BootOK
<1>6. CASE AddMemberCheck(s)
  <2>1. PICK o \in Orgs, e \in Emails, r \in GivenRoles :
          Permitted(s, "add", o) /\ Asks(s, [NoAsk EXCEPT !.op = "add", !.org = o, !.email = e, !.role = r])
    BY <1>6 DEF AddMemberCheck
  <2>2. o \in Seeded BY <2>1, OnlySeeded
  <2>3. RequestOK([NoAsk EXCEPT !.op = "add", !.org = o, !.email = e, !.role = r])
    BY <2>2, AccountsAssumption DEF RequestOK, NoAsk, Requests, Roles
  <2>4. SessionOK' BY <2>1, <2>3, AsksKeeps
  <2>5. QED BY <1>6, <2>4 DEF AddMemberCheck, UserOK, RoleOK, InviteOK, BootOK
<1>7. QED BY <1>1, <1>2, <1>3, <1>4, <1>5, <1>6 DEF MemberStep

-----------------------------------------------------------------------------
(* Invitations.                                                            *)
LEMMA NewInvitationKeeps ==
    ASSUME InviteOK, NEW q \in Requests, q.inv \in Invites, q.org \in Orgs, q.email \in Emails,
           q.org \notin Seeded => q.role = "SELLER", NewInvitation(q)
    PROVE  InviteOK'
BY DEF InviteOK, Invitation, Requests, NewInvitation

LEMMA InviteSteps ==
    ASSUME AccountsInv, NEW s \in Sessions, InviteStep(s)
    PROVE  AccountsInv'
<1> DEFINE q == session[s].req
<1> USE DEF AccountsInv
<1>0. RequestOK(q) /\ q \in Requests BY DEF SessionOK, RequestOK
<1>1. CASE InviteCheck(s)
  <2>1. PICK op \in {"invite", "inviteSeller", "createSeller"}, o \in Orgs, e \in Emails, r \in GivenRoles, i \in Invites :
          /\ Permitted(s, op, o) /\ (op # "invite" => r = "SELLER")
          /\ Asks(s, [op |-> op, org |-> o, email |-> e, role |-> r, inv |-> i, seen |-> user[e].known])
    BY <1>1 DEF InviteCheck
  <2>2. op = "invite" => o \in Seeded BY <2>1, OnlySeeded
  <2>3. user[e].known \in BOOLEAN BY DEF UserOK
  <2>4. RequestOK([op |-> op, org |-> o, email |-> e, role |-> r, inv |-> i, seen |-> user[e].known])
    BY <2>1, <2>2, <2>3, AccountsAssumption DEF RequestOK, Requests, Roles
  <2>5. SessionOK' BY <2>1, <2>4, AsksKeeps
  <2>6. QED BY <1>1, <2>5 DEF InviteCheck, UserOK, RoleOK, InviteOK, BootOK
<1>2. CASE InviteUser(s) \/ CreateSeller(s)
  <2>1. /\ q.inv \in Invites /\ q.org \in Orgs /\ q.email \in Emails /\ (q.org \notin Seeded => q.role = "SELLER")
    BY <1>0, <1>2 DEF RequestOK, InviteUser, CreateSeller
  <2>2. SessionOK' BY <1>2, ClosesKeeps DEF InviteUser, CreateSeller
  <2>3. InviteOK'
    <3>1. NewInvitation(q) \/ UNCHANGED invite BY <1>2 DEF InviteUser, CreateSeller
    <3>2. QED BY <1>0, <2>1, <3>1, NewInvitationKeeps DEF InviteOK
  <2>4. RoleOK' BY <1>2, <2>1 DEF InviteUser, CreateSeller, RoleOK, Roles
  <2>5. UserOK'
    <3>1. \/ UNCHANGED user
          \/ user' = [user EXCEPT ![q.email] = IF @.known THEN @ ELSE [known |-> TRUE, password |-> "random", verified |-> FALSE]]
      BY <1>2 DEF InviteUser, CreateSeller
    <3>2. QED BY <2>1, <3>1, MadeKnown DEF UserOK
  <2>6. QED BY <1>2, <2>2, <2>3, <2>4, <2>5 DEF InviteUser, CreateSeller, BootOK
<1>3. CASE CancelCheck(s)
  <2>1. PICK i \in Invites : Asks(s, [NoAsk EXCEPT !.op = "cancel", !.inv = i]) BY <1>3 DEF CancelCheck
  <2>2. RequestOK([NoAsk EXCEPT !.op = "cancel", !.inv = i]) BY DEF RequestOK, NoAsk, Requests, Roles
  <2>3. SessionOK' BY <2>1, <2>2, AsksKeeps
  <2>4. QED BY <1>3, <2>3 DEF CancelCheck, UserOK, RoleOK, InviteOK, BootOK
<1>4. CASE CancelInvitation(s)
  <2>1. q.inv \in Invites BY <1>0, <1>4 DEF RequestOK, CancelInvitation
  <2>2. SessionOK' BY <1>4, ClosesKeeps DEF CancelInvitation
  <2>3. \/ invite' = [invite EXCEPT ![q.inv].status = "CANCELLED"]
        \/ invite' = [invite EXCEPT ![q.inv].status = @]
    BY <1>4 DEF CancelInvitation
  <2>4. CASE invite' = [invite EXCEPT ![q.inv].status = @]
    <3>1. invite' = invite BY <2>1, <2>4 DEF InviteOK, Invitation
    <3>2. QED BY <1>4, <2>2, <3>1 DEF CancelInvitation, UserOK, RoleOK, InviteOK, BootOK
  <2>5. CASE invite' = [invite EXCEPT ![q.inv].status = "CANCELLED"]
    <3>1. InviteOK' BY <2>1, <2>5, AcceptKeeps
    <3>2. QED BY <1>4, <2>2, <3>1 DEF CancelInvitation, UserOK, RoleOK, BootOK
  <2>6. QED BY <2>3, <2>4, <2>5
<1>5. QED BY <1>1, <1>2, <1>3, <1>4 DEF InviteStep

-----------------------------------------------------------------------------
(* Every step of the specification.                                        *)
LEMMA AccountsStepInv == AccountsInv /\ [AccountsNext /\ UNCHANGED calm]_<<accountVars, calm>> => AccountsInv'
<1> SUFFICES ASSUME AccountsInv, [AccountsNext /\ UNCHANGED calm]_<<accountVars, calm>> PROVE AccountsInv'
  OBVIOUS
<1>1. CASE UNCHANGED accountVars
  BY <1>1 DEF accountVars, AccountsInv, UserOK, RoleOK, InviteOK, SessionOK, BootOK
<1>2. ASSUME NEW s \in Sessions, RequestFails(s) PROVE AccountsInv'
  <2>1. SessionOK' BY <1>2, ClosesKeeps DEF AccountsInv, RequestFails
  <2>2. QED BY <1>2, <2>1 DEF RequestFails, AccountsInv, UserOK, RoleOK, InviteOK, BootOK
<1>3. ASSUME NEW i \in Invites, InvitationExpires(i) PROVE AccountsInv'
  <2> DEFINE c == invite[i]
             d == [c EXCEPT !.expired = TRUE]
  <2>1. d \in Invitation /\ d.org = c.org /\ d.email = c.email /\ d.role = c.role /\ d.status = c.status
    BY DEF AccountsInv, InviteOK, Invitation
  <2>2. invite' = [invite EXCEPT ![i] = d] BY <1>3 DEF AccountsInv, InviteOK, Invitation, InvitationExpires
  <2> HIDE DEF d
  <2>3. InviteOK' BY <2>1, <2>2 DEF AccountsInv, InviteOK
  <2>4. QED BY <1>3, <2>3 DEF InvitationExpires, AccountsInv, UserOK, RoleOK, SessionOK, BootOK
<1>4. CASE SeedUser \/ SeedOrganization \/ SeedMembership \/ SeedFails
  <2>1. BootOK' BY <1>4 DEF AccountsInv, BootOK, BootGoes, SeedUser, SeedOrganization, SeedMembership, SeedFails
  <2>2. SessionOK' /\ InviteOK'
    BY <1>4 DEF AccountsInv, SessionOK, InviteOK, SeedUser, SeedOrganization, SeedMembership, SeedFails
  <2>3. UserOK'
    <3>1. CASE SeedUser
      <4>1. OwnerEmail \in Emails BY <3>1 DEF SeedUser, AccountsInv, BootOK
      <4>2. QED BY <3>1, <4>1, MadeKnown DEF SeedUser, AccountsInv
    <3>2. QED BY <1>4, <3>1 DEF AccountsInv, UserOK, SeedOrganization, SeedMembership, SeedFails
  <2>4. RoleOK' /\ exists' \subseteq Orgs
    BY <1>4, AccountsAssumption
       DEF AccountsInv, BootOK, RoleOK, Roles, SeedUser, SeedOrganization, SeedMembership, SeedFails
  <2>5. QED BY <2>1, <2>2, <2>3, <2>4 DEF AccountsInv
<1>5. QED
  BY <1>1, <1>2, <1>3, <1>4, SignInSteps, MemberSteps, InviteSteps DEF AccountsNext, accountVars

(* The inductive invariant holds of every behaviour of Accounts.           *)
THEOREM AccountsInvariant == AccountsSpec => []AccountsInv
<1>1. QED BY AccountsInitInv, AccountsStepInv, PTL DEF AccountsSpec

(* For any users, organizations, invitations and sessions, however their   *)
(* requests interleave and fail: users, memberships, invitations, tokens   *)
(* and requests under way keep their types.                                *)
THEOREM AccountsTypeCorrect == AccountsSpec => []AccountsTypeOK
<1>1. QED BY AccountsInvariant, InvImplies, PTL

(* For any users, organizations, invitations and sessions: nobody but      *)
(* OWNER and SELLER is ever a member of, or invited to, an organization    *)
(* that was founded through the API.                                       *)
THEOREM FoundedNeverHaveAdmins == AccountsSpec => []FoundedHaveNoAdmins
<1>1. QED BY AccountsInvariant, InvImplies, PTL

-----------------------------------------------------------------------------
(* Who is known, who administers.  What a handler looked up is used when   *)
(* it writes; in between others write too.  Known users stay known, rows   *)
(* of invitations keep their addressee, organizations stay -- and in calm  *)
(* weather, where no other request is under way, the administrator who     *)
(* demotes or removes a member is still one.                               *)
PeopleOK ==
    /\ \A e \in Emails : user[e].password = "own" => user[e].known
    /\ \A o \in Orgs : \A e \in Emails : role[o][e] # "none" => user[e].known
    /\ \A i \in Invites : invite[i].status # "none" => invite[i].email \in Emails
    /\ \A i \in Invites : invite[i].status = "ACCEPTED" =>
          user[invite[i].email].verified /\ user[invite[i].email].password = "own"
    /\ boot \in {"organization", "membership"} => user[OwnerEmail].known

OrgsOK ==
    /\ Seeded \subseteq exists
    /\ \A o \in Orgs \ exists : \A e \in Emails : role[o][e] = "none"
    /\ \A i \in Invites : invite[i].status # "none" => invite[i].org \in exists
    /\ boot = "membership" => OwnerOrg \in exists

OnePerStatus ==
    \A i, j \in Invites :
        invite[i].status # "none" /\ invite[j].status = invite[i].status /\ invite[j].org = invite[i].org
        /\ invite[j].email = invite[i].email => i = j

AboutOrg == {"invited", "invite", "inviteSeller", "createSeller", "add", "updateRole", "remove"}

Founded(s) ==
    /\ session[s].pc = "in" => user[session[s].email].known
    /\ session[s].req.op = "createOrg" => session[s].pc = "in"
    /\ session[s].req.op = "add" => user[session[s].req.email].known
    /\ session[s].req.op \in AboutOrg => session[s].req.org \in exists
    /\ session[s].req.op = "cancel" => invite[session[s].req.inv].status # "none"
    /\ session[s].req.op = "invited" =>
          /\ invite[session[s].req.inv].status # "none" /\ invite[session[s].req.inv].org = session[s].req.org
          /\ invite[session[s].req.inv].email = session[s].req.email

(* The request of an administrator, in calm weather.                       *)
StillAdmin(s) ==
    session[s].req.op \in {"updateRole", "remove"} =>
        /\ session[s].pc = "in" /\ session[s].req.email # session[s].email
        /\ Administers(session[s].req.org, session[s].email)

CalmAccounts ==
    calm => /\ \A s, t \in Sessions : InFlight(s) /\ InFlight(t) => s = t
            /\ \A s \in Sessions : StillAdmin(s)

PeopleInv ==
    /\ AccountsInv /\ PeopleOK /\ OrgsOK /\ OnePerStatus /\ SomebodyAdministers
    /\ \A s \in Sessions : Founded(s)
    /\ CalmAccounts

Proven == [known |-> TRUE, password |-> "own", verified |-> TRUE]

(* What a step does to users, organizations and members ...                *)
Grows ==
    /\ exists \subseteq exists'
    /\ \A e \in Emails : user[e].known => user'[e] \in {user[e], Proven}
    /\ \A e \in Emails : user'[e] = user[e] \/ user'[e].known
    /\ \A o \in Orgs : \A e \in Emails : role[o][e] = "none" /\ role'[o][e] # "none" => user'[e].known /\ o \in exists'
    /\ boot' \in {"organization", "membership"} => boot' = boot \/ user'[OwnerEmail].known
    /\ boot' = "membership" => boot' = boot \/ OwnerOrg \in exists'

(* ... and to invitations.                                                 *)
Evolves ==
    \/ UNCHANGED invite
    \/ \E i \in Invites :
          /\ \A j \in Invites \ {i} : invite'[j] = invite[j]
          /\ invite'[i].status # "none" /\ invite'[i].email \in Emails /\ invite'[i].org \in exists
          /\ invite[i].status # "none" => invite'[i].org = invite[i].org /\ invite'[i].email = invite[i].email
          /\ \/ invite'[i].status = invite[i].status
             \/ \A j \in Invites \ {i} : ~(/\ invite[j].status = invite'[i].status /\ invite[j].org = invite'[i].org
                                           /\ invite[j].email = invite'[i].email)
          /\ invite'[i].status = "ACCEPTED" /\ invite[i].status # "ACCEPTED" => user'[invite'[i].email] = Proven

LEMMA PeopleKept ==
    ASSUME PeopleInv, AccountsInv', Grows, Evolves
    PROVE  PeopleOK' /\ OrgsOK' /\ OnePerStatus'
  <1>1. \A i \in Invites : invite[i].status # "none" =>
           /\ invite'[i].status # "none" /\ invite'[i].org = invite[i].org /\ invite'[i].email = invite[i].email
    BY DEF Evolves
  <1>2. \A i \in Invites : invite'[i].status # "none" => invite'[i].email \in Emails /\ invite'[i].org \in exists
    BY DEF Evolves, PeopleInv, PeopleOK, OrgsOK
  <1>3. OnePerStatus'
    BY DEF Evolves, PeopleInv, OnePerStatus
  <1>4. \A e \in Emails : (user[e].known => user'[e].known) /\ (user'[e].password = "own" => user'[e].known)
    BY DEF Grows, PeopleInv, PeopleOK, Proven
  <1>5. \A i \in Invites : invite'[i].status = "ACCEPTED" => user'[invite'[i].email].verified /\ user'[invite'[i].email].password = "own"
    <2> SUFFICES ASSUME NEW i \in Invites, invite'[i].status = "ACCEPTED"
                 PROVE  user'[invite'[i].email].verified /\ user'[invite'[i].email].password = "own"
      OBVIOUS
    <2>1. CASE invite[i].status = "ACCEPTED"
      <3>1. invite'[i].email = invite[i].email /\ invite[i].email \in Emails
        BY <1>1, <2>1 DEF PeopleInv, PeopleOK
      <3>2. user[invite[i].email].verified /\ user[invite[i].email].password = "own" /\ user[invite[i].email].known
        BY <2>1, <3>1 DEF PeopleInv, PeopleOK
      <3>3. user'[invite[i].email] \in {user[invite[i].email], Proven}
        BY <3>1, <3>2 DEF Grows
      <3> QED
        BY <3>1, <3>2, <3>3 DEF Proven
    <2>2. CASE invite[i].status # "ACCEPTED"
      BY <2>2 DEF Evolves, Proven
    <2> QED
      BY <2>1, <2>2
  <1>6. PeopleOK'
    <2>1. \A o \in Orgs : \A e \in Emails : role'[o][e] # "none" => user'[e].known
      BY <1>4 DEF Grows, PeopleInv, PeopleOK
    <2>2. boot' \in {"organization", "membership"} => user'[OwnerEmail].known
      <3>1. boot' \in {"organization", "membership"} => OwnerEmail \in Emails
        BY DEF AccountsInv, BootOK
      <3> QED
        BY <1>4, <3>1 DEF Grows, PeopleInv, PeopleOK
    <2> QED
      BY <1>2, <1>4, <1>5, <2>1, <2>2 DEF PeopleOK
  <1>7. OrgsOK'
    <2>1. \A o \in Orgs \ exists' : \A e \in Emails : role'[o][e] = "none"
      BY DEF Grows, PeopleInv, OrgsOK
    <2>2. Seeded \subseteq exists' /\ (\A i \in Invites : invite'[i].status # "none" => invite'[i].org \in exists')
          /\ (boot' = "membership" => OwnerOrg \in exists')
      BY <1>2 DEF Grows, PeopleInv, OrgsOK
    <2> QED
      BY <2>1, <2>2 DEF OrgsOK
  <1> QED
    BY <1>3, <1>6, <1>7

(* A session whose request and user are as they were.                      *)
LEMMA FoundedStays ==
    ASSUME PeopleInv, Grows, Evolves, NEW s \in Sessions, Founded(s),
           session'[s].req \in {session[s].req, NoAsk},
           session'[s].pc = session[s].pc /\ session'[s].email = session[s].email
    PROVE  Founded(s)'
  <1> PICK c, d : c = session[s] /\ d = session'[s]
    OBVIOUS
  <1>1. \A e \in Emails : user[e].known => user'[e].known
    BY DEF Grows, Proven
  <1>2. \A i \in Invites : invite[i].status # "none" =>
           /\ invite'[i].status # "none" /\ invite'[i].org = invite[i].org /\ invite'[i].email = invite[i].email
    BY DEF Evolves
  <1>3. RequestOK(c.req) /\ (c.pc # "out" => c.email \in Emails)
    BY DEF PeopleInv, AccountsInv, SessionOK
  <1>4. NoAsk.op = "none" /\ exists \subseteq exists'
    BY DEF NoAsk, Grows
  <1> QED
    BY <1>1, <1>2, <1>3, <1>4 DEF Founded, AboutOrg, RequestOK

LEMMA FoundedSignIn ==
    ASSUME SessionOK, NEW s \in Sessions, NEW e, NEW o, NEW r, SignIn(s, e, o, r), user'[e].known
    PROVE  Founded(s)'
  <1>1. session'[s] = [pc |-> "in", email |-> e, org |-> o, role |-> r, req |-> NoAsk]
    BY DEF SignIn, SessionOK
  <1>2. session'[s].pc = "in" /\ session'[s].email = e /\ session'[s].req.op = "none"
    BY <1>1 DEF NoAsk
  <1> QED
    BY <1>2 DEF Founded, AboutOrg

(* What a handler looks up before it asks for a write.                     *)
Sound(q) ==
    /\ q.op = "add" => user[q.email].known
    /\ q.op \in AboutOrg => q.org \in exists
    /\ q.op = "cancel" => invite[q.inv].status # "none"
    /\ q.op = "invited" => invite[q.inv].status # "none" /\ invite[q.inv].org = q.org /\ invite[q.inv].email = q.email

LEMMA FoundedAsks ==
    ASSUME SessionOK, NEW s \in Sessions, NEW q, Founded(s), Asks(s, q), Sound(q), UNCHANGED <<user, exists, invite>>,
           q.op = "createOrg" => session[s].pc = "in"
    PROVE  Founded(s)'
  <1>1. session'[s] = [session[s] EXCEPT !.req = q] /\ session[s] \in Session
    BY DEF Asks, SessionOK
  <1>2. session'[s].pc = session[s].pc /\ session'[s].email = session[s].email /\ session'[s].req = q
    BY <1>1 DEF Session
  <1> QED
    BY <1>2 DEF Founded, Sound

LEMMA OthersKeep ==
    ASSUME SessionOK, NEW s \in Sessions,
           SignInStep(s) \/ MemberStep(s) \/ InviteStep(s) \/ RequestFails(s)
    PROVE  \A t \in Sessions \ {s} : session'[t] = session[t]
  <1>1. session' = [session EXCEPT ![s] = session'[s]]
    <2>1. (\E e, o, r : SignIn(s, e, o, r)) \/ Closes(s) \/ (\E q : Asks(s, q)) \/ SelectOrganization(s) \/ Logout(s) \/ Login(s)
            \/ AutoPromote(s)
      BY DEF SignInStep, MemberStep, InviteStep, RequestFails, RegisterCheck, Register, InvitedCheck, RegisterInvited, DevLogin,
             RefreshToken, CreateOrgCheck, CreateOrg, MemberCheck, UpdateMemberRole, RemoveMember, AddMemberCheck, AddMember,
             InviteCheck, InviteUser, CreateSeller, CancelCheck, CancelInvitation
    <2> QED
      BY <2>1 DEF SessionOK, SignIn, Closes, Asks, SelectOrganization, Logout, Login, AutoPromote
  <1> QED
    BY <1>1 DEF SessionOK

(* A step that writes nothing but tokens and requests.                     *)
LEMMA QuietGrows ==
    ASSUME UNCHANGED <<user, exists, role, invite, boot>>
    PROVE  Grows /\ Evolves
BY DEF Grows, Evolves

LEMMA SignInMoves ==
    ASSUME PeopleInv, NEW s \in Sessions, SignInStep(s)
    PROVE  Grows /\ Evolves /\ Founded(s)'
  <1> DEFINE q == session[s].req
  <1>0. /\ AccountsInv /\ UserOK /\ RoleOK /\ InviteOK /\ SessionOK /\ Founded(s) /\ PeopleOK /\ OrgsOK
        /\ RequestOK(q) /\ (session[s].pc # "out" => session[s].email \in Emails)
    BY DEF PeopleInv, AccountsInv, SessionOK
  <1>1. CASE RegisterCheck(s)
    <2>1. PICK e \in Emails, o \in Orgs \ Seeded : Asks(s, [NoAsk EXCEPT !.op = "register", !.email = e, !.org = o])
      BY <1>1 DEF RegisterCheck
    <2>2. PICK a : a = [NoAsk EXCEPT !.op = "register", !.email = e, !.org = o]
      OBVIOUS
    <2>3. a.op = "register"
      BY <2>2 DEF NoAsk
    <2>4. Sound(a) /\ UNCHANGED <<user, exists, role, invite, boot>>
      BY <1>1, <2>3 DEF Sound, AboutOrg, RegisterCheck
    <2> QED
      BY <1>0, <2>1, <2>2, <2>3, <2>4, QuietGrows, FoundedAsks
  <1>2. CASE Register(s)
    <2>1. q.email \in Emails /\ q.org \in Orgs
      BY <1>0, <1>2 DEF RequestOK, Register
    <2>2. CASE Closes(s) /\ UNCHANGED <<user, exists, role>>
      <3>1. Grows /\ Evolves
        BY <1>2, <2>2, QuietGrows DEF Register
      <3>2. NoAsk.op = "none" /\ Asks(s, NoAsk)
        BY <2>2 DEF NoAsk, Closes, Asks
      <3>3. Sound(NoAsk)
        BY <3>2 DEF Sound, AboutOrg
      <3> QED
        BY <1>0, <1>2, <2>2, <3>1, <3>2, <3>3, FoundedAsks DEF Register
    <2>3. CASE /\ ~user[q.email].known
               /\ user' = [user EXCEPT ![q.email] = [known |-> TRUE, password |-> "own", verified |-> FALSE]]
               /\ exists' = exists \cup {q.org}
               /\ role' = [role EXCEPT ![q.org][q.email] = "OWNER"]
               /\ SignIn(s, q.email, q.org, "OWNER")
      <3>1. \A e \in Emails : user'[e] = IF e = q.email THEN [known |-> TRUE, password |-> "own", verified |-> FALSE] ELSE user[e]
        BY <1>0, <2>3 DEF UserOK
      <3>2. \A p \in Orgs : \A f \in Emails : role'[p][f] = IF p = q.org /\ f = q.email THEN "OWNER" ELSE role[p][f]
        BY <1>0, <2>1, <2>3 DEF RoleOK
      <3>3. Grows
        BY <1>2, <2>1, <2>3, <3>1, <3>2 DEF Grows, Register
      <3>4. Evolves
        BY <1>2 DEF Evolves, Register
      <3> QED
        BY <1>0, <2>1, <2>3, <3>1, <3>3, <3>4, FoundedSignIn
    <2> QED
      BY <1>2, <2>2, <2>3 DEF Register
  <1>3. CASE InvitedCheck(s)
    <2>1. PICK i \in Invites :
            /\ invite[i].status = "PENDING"
            /\ Asks(s, [op |-> "invited", org |-> invite[i].org, email |-> invite[i].email, role |-> invite[i].role, inv |-> i,
                        seen |-> FALSE])
      BY <1>3 DEF InvitedCheck
    <2>2. PICK a : a = [op |-> "invited", org |-> invite[i].org, email |-> invite[i].email, role |-> invite[i].role, inv |-> i,
                        seen |-> FALSE]
      OBVIOUS
    <2>3. Sound(a) /\ a.op = "invited"
      BY <1>0, <2>1, <2>2 DEF Sound, OrgsOK
    <2> QED
      BY <1>0, <1>3, <2>1, <2>2, <2>3, QuietGrows, FoundedAsks DEF InvitedCheck
  <1>4. CASE RegisterInvited(s)
    <2>1. /\ q.email \in Emails /\ q.org \in Orgs /\ q.inv \in Invites /\ q.org \in exists
          /\ invite[q.inv].status # "none" /\ invite[q.inv].org = q.org /\ invite[q.inv].email = q.email
      BY <1>0, <1>4 DEF RequestOK, RegisterInvited, Founded, AboutOrg
    <2>2. CASE Closes(s) /\ UNCHANGED <<user, role, invite>>
      <3>1. Grows /\ Evolves
        BY <1>4, <2>2, QuietGrows DEF RegisterInvited
      <3>2. NoAsk.op = "none" /\ Asks(s, NoAsk)
        BY <2>2 DEF NoAsk, Closes, Asks
      <3>3. Sound(NoAsk)
        BY <3>2 DEF Sound, AboutOrg
      <3> QED
        BY <1>0, <1>4, <2>2, <3>1, <3>2, <3>3, FoundedAsks DEF RegisterInvited
    <2>3. CASE /\ ~StatusTaken(q.inv, "ACCEPTED")
               /\ user' = [user EXCEPT ![q.email] = [known |-> TRUE, password |-> "own", verified |-> TRUE]]
               /\ role' = [role EXCEPT ![q.org][q.email] = IF Member(q.email, q.org) THEN @ ELSE q.role]
               /\ invite' = [invite EXCEPT ![q.inv].status = "ACCEPTED"]
               /\ SignIn(s, q.email, q.org, q.role)
      <3>1. \A e \in Emails : user'[e] = IF e = q.email THEN Proven ELSE user[e]
        BY <1>0, <2>3 DEF UserOK, Proven
      <3>2. PICK r : r = IF Member(q.email, q.org) THEN role[q.org][q.email] ELSE q.role
        OBVIOUS
      <3>3. role' = [role EXCEPT ![q.org][q.email] = r]
        BY <1>0, <2>1, <2>3, <3>2 DEF RoleOK
      <3>4. \A p \in Orgs : \A f \in Emails : role'[p][f] = IF p = q.org /\ f = q.email THEN r ELSE role[p][f]
        BY <1>0, <2>1, <3>3 DEF RoleOK
      <3>5. Grows
        BY <1>4, <2>1, <3>1, <3>4 DEF Grows, RegisterInvited, Proven
      <3>6. PICK c, d : c = invite[q.inv] /\ d = invite'[q.inv]
        OBVIOUS
      <3>7. /\ \A j \in Invites \ {q.inv} : invite'[j] = invite[j]
            /\ d.status = "ACCEPTED" /\ d.org = c.org /\ d.email = c.email
        BY <1>0, <2>1, <2>3, <3>6 DEF InviteOK, Invitation
      <3>8. \A j \in Invites \ {q.inv} : ~(invite[j].status = d.status /\ invite[j].org = d.org /\ invite[j].email = d.email)
        BY <2>3, <3>6, <3>7 DEF StatusTaken
      <3>9. Evolves
        BY <1>0, <2>1, <3>1, <3>6, <3>7, <3>8 DEF Evolves, OrgsOK
      <3> QED
        BY <1>0, <2>1, <2>3, <3>1, <3>5, <3>9, FoundedSignIn DEF Proven
    <2> QED
      BY <1>4, <2>2, <2>3 DEF RegisterInvited
  <1>5. CASE DevLogin(s)
    <2>1. DevEmail \in Emails /\ DevOrg \in Orgs
      BY <1>5, AccountsAssumption DEF DevLogin
    <2>2. PICK r : r = IF role[DevOrg][DevEmail] = "none" THEN "OWNER" ELSE role[DevOrg][DevEmail]
      OBVIOUS
    <2>3. role' = [role EXCEPT ![DevOrg][DevEmail] = r]
      BY <1>0, <1>5, <2>1, <2>2 DEF RoleOK, DevLogin
    <2>4. \A p \in Orgs : \A f \in Emails : role'[p][f] = IF p = DevOrg /\ f = DevEmail THEN r ELSE role[p][f]
      BY <1>0, <2>1, <2>3 DEF RoleOK
    <2>5. \A e \in Emails : user'[e] = IF e = DevEmail /\ ~user[e].known
                                        THEN [known |-> TRUE, password |-> "own", verified |-> FALSE] ELSE user[e]
      BY <1>0, <1>5, <2>1 DEF UserOK, DevLogin
    <2>6. exists' = exists \cup {DevOrg} /\ UNCHANGED <<invite, boot>>
      BY <1>5 DEF DevLogin
    <2>7. Grows
      BY <2>1, <2>4, <2>5, <2>6 DEF Grows
    <2>8. Evolves
      BY <2>6 DEF Evolves
    <2> QED
      BY <1>0, <1>5, <2>1, <2>5, <2>7, <2>8, FoundedSignIn DEF DevLogin
  <1>6. CASE Login(s) \/ SelectOrganization(s) \/ RefreshToken(s) \/ Logout(s)
    <2>1. UNCHANGED <<user, exists, role, invite, boot>>
      BY <1>6 DEF Login, SelectOrganization, RefreshToken, Logout
    <2>2. \/ \E e \in Emails, o \in Orgs : Member(e, o) /\ SignIn(s, e, o, role[o][e])
          \/ session[s].req = NoAsk /\ \E e \in Emails : session' = [session EXCEPT ![s].pc = "choosing", ![s].email = e]
          \/ session' = [session EXCEPT ![s] = SignedOut]
      BY <1>0, <1>6 DEF Login, SelectOrganization, RefreshToken, Logout, MemberOf, InFlight
    <2>3. CASE \E e \in Emails, o \in Orgs : Member(e, o) /\ SignIn(s, e, o, role[o][e])
      <3>1. PICK e \in Emails, o \in Orgs : Member(e, o) /\ SignIn(s, e, o, role[o][e])
        BY <2>3
      <3>2. user'[e].known
        BY <1>0, <2>1, <3>1 DEF PeopleOK, Member
      <3> QED
        BY <1>0, <2>1, <3>1, <3>2, FoundedSignIn, QuietGrows
    <2>4. CASE ~\E e \in Emails, o \in Orgs : Member(e, o) /\ SignIn(s, e, o, role[o][e])
      <3>1. session[s] \in Session /\ NoAsk.op = "none" /\ SignedOut.pc = "out" /\ SignedOut.req = NoAsk
        BY <1>0 DEF SessionOK, NoAsk, SignedOut
      <3>2. PICK d : d = session'[s]
        OBVIOUS
      <3>3. d.pc # "in" /\ d.req = NoAsk
        BY <1>0, <2>2, <2>4, <3>1, <3>2 DEF SessionOK, Session
      <3> QED
        BY <2>1, <3>1, <3>2, <3>3, QuietGrows DEF Founded, AboutOrg
    <2> QED
      BY <2>3, <2>4
  <1> QED
    BY <1>1, <1>2, <1>3, <1>4, <1>5, <1>6 DEF SignInStep

(* Closing a request.                                                      *)
LEMMA FoundedCloses ==
    ASSUME PeopleInv, Grows, Evolves, NEW s \in Sessions, Closes(s)
    PROVE  Founded(s)'
  <1>1. SessionOK /\ Founded(s) /\ session[s] \in Session
    BY DEF PeopleInv, AccountsInv, SessionOK
  <1>2. session'[s] = [session[s] EXCEPT !.req = NoAsk]
    BY <1>1 DEF Closes, SessionOK
  <1>3. session'[s].pc = session[s].pc /\ session'[s].email = session[s].email /\ session'[s].req = NoAsk
    BY <1>1, <1>2 DEF Session
  <1> QED
    BY <1>1, <1>3, FoundedStays

LEMMA MemberMoves ==
    ASSUME PeopleInv, NEW s \in Sessions, MemberStep(s)
    PROVE  Grows /\ Evolves /\ Founded(s)'
  <1> DEFINE q == session[s].req
  <1>0. /\ AccountsInv /\ UserOK /\ RoleOK /\ InviteOK /\ SessionOK /\ Founded(s) /\ PeopleOK /\ OrgsOK
        /\ RequestOK(q) /\ (session[s].pc # "out" => session[s].email \in Emails)
    BY DEF PeopleInv, AccountsInv, SessionOK
  <1>1. CASE AutoPromote(s)
    <2>1. PICK e : e = session[s].email
      OBVIOUS
    <2>2. e \in Emails /\ UNCHANGED <<user, exists, invite, boot>>
      BY <1>0, <1>1, <2>1 DEF AutoPromote
    <2>3. role' = [o \in Orgs |-> IF Member(e, o) THEN [role[o] EXCEPT ![e] = "OWNER"] ELSE role[o]]
      BY <1>1, <2>1 DEF AutoPromote
    <2>4. \A o \in Orgs : \A f \in Emails : role'[o][f] = IF f = e /\ role[o][e] # "none" THEN "OWNER" ELSE role[o][f]
      BY <1>0, <2>2, <2>3 DEF RoleOK, Member
    <2>5. Grows /\ Evolves
      BY <2>2, <2>4 DEF Grows, Evolves
    <2>6. session' = [session EXCEPT ![s].role = "OWNER"] /\ session[s] \in Session
      BY <1>0, <1>1 DEF AutoPromote, SessionOK
    <2>7. session'[s].req = session[s].req /\ session'[s].pc = session[s].pc /\ session'[s].email = session[s].email
      BY <1>0, <2>6 DEF SessionOK, Session
    <2> QED
      BY <1>0, <2>5, <2>7, FoundedStays
  <1>2. CASE CreateOrgCheck(s)
    <2>1. PICK o \in Orgs \ (exists \cup Seeded) : Asks(s, [NoAsk EXCEPT !.op = "createOrg", !.org = o])
      BY <1>2 DEF CreateOrgCheck
    <2>2. PICK a : a = [NoAsk EXCEPT !.op = "createOrg", !.org = o]
      OBVIOUS
    <2>3. a.op = "createOrg"
      BY <2>2 DEF NoAsk
    <2>4. Sound(a) /\ session[s].pc = "in" /\ UNCHANGED <<user, exists, role, invite, boot>>
      BY <1>2, <2>3 DEF Sound, AboutOrg, CreateOrgCheck, Authentic
    <2> QED
      BY <1>0, <2>1, <2>2, <2>4, QuietGrows, FoundedAsks
  <1>3. CASE CreateOrg(s)
    <2>1. PICK o, e : o = q.org /\ e = session[s].email
      OBVIOUS
    <2>2. o \in Orgs /\ e \in Emails /\ user[e].known
      BY <1>0, <1>3, <2>1 DEF RequestOK, CreateOrg, Founded
    <2>3. UNCHANGED <<user, invite, boot>> /\ Closes(s)
      BY <1>3 DEF CreateOrg
    <2>4. CASE UNCHANGED <<exists, role>>
      BY <2>3, <2>4, QuietGrows, FoundedCloses
    <2>5. CASE exists' = exists \cup {o} /\ role' = [role EXCEPT ![o][e] = "OWNER"]
      <3>1. \A p \in Orgs : \A f \in Emails : role'[p][f] = IF p = o /\ f = e THEN "OWNER" ELSE role[p][f]
        BY <1>0, <2>2, <2>5 DEF RoleOK
      <3>2. Grows /\ Evolves
        BY <2>2, <2>3, <2>5, <3>1 DEF Grows, Evolves
      <3> QED
        BY <2>3, <3>2, FoundedCloses
    <2> QED
      BY <1>3, <2>1, <2>4, <2>5 DEF CreateOrg
  <1>4. CASE MemberCheck(s)
    <2>1. PICK op \in {"updateRole", "remove"}, o \in Orgs, e \in Emails, r \in GivenRoles :
            Member(e, o) /\ Asks(s, [NoAsk EXCEPT !.op = op, !.org = o, !.email = e, !.role = r])
      BY <1>4 DEF MemberCheck
    <2>2. PICK a : a = [NoAsk EXCEPT !.op = op, !.org = o, !.email = e, !.role = r]
      OBVIOUS
    <2>3. a.op = op /\ a.org = o
      BY <2>2 DEF NoAsk
    <2>4. o \in exists
      BY <1>0, <2>1 DEF OrgsOK, Member
    <2>5. Sound(a)
      BY <2>3, <2>4 DEF Sound
    <2>6. a.op # "createOrg" /\ UNCHANGED <<user, exists, role, invite, boot>>
      BY <1>4, <2>3 DEF MemberCheck
    <2> QED
      BY <1>0, <2>1, <2>2, <2>5, <2>6, QuietGrows, FoundedAsks
  <1>5. CASE AddMemberCheck(s)
    <2>1. PICK o \in Orgs, e \in Emails, r \in GivenRoles :
            /\ Permitted(s, "add", o) /\ user[e].known
            /\ Asks(s, [NoAsk EXCEPT !.op = "add", !.org = o, !.email = e, !.role = r])
      BY <1>5 DEF AddMemberCheck
    <2>2. PICK a : a = [NoAsk EXCEPT !.op = "add", !.org = o, !.email = e, !.role = r]
      OBVIOUS
    <2>3. a.op = "add" /\ a.org = o /\ a.email = e
      BY <2>2 DEF NoAsk
    <2>4. o \in exists
      BY <1>0, <2>1, OnlySeeded DEF OrgsOK
    <2>5. Sound(a)
      BY <2>1, <2>3, <2>4 DEF Sound
    <2>6. UNCHANGED <<user, exists, role, invite, boot>>
      BY <1>5 DEF AddMemberCheck
    <2> QED
      BY <1>0, <2>1, <2>2, <2>3, <2>5, <2>6, QuietGrows, FoundedAsks
  <1>6. CASE UpdateMemberRole(s) \/ RemoveMember(s) \/ AddMember(s)
    <2>1. PICK o, e, r : /\ o = q.org /\ e = q.email
                         /\ r = IF RemoveMember(s) THEN "none" ELSE IF UpdateMemberRole(s)
                                  THEN (IF role[o][e] = "none" THEN "none" ELSE q.role)
                                  ELSE (IF role[o][e] = "none" THEN q.role ELSE role[o][e])
      OBVIOUS
    <2>2. o \in Orgs /\ e \in Emails /\ o \in exists /\ (AddMember(s) => user[e].known)
      BY <1>0, <1>6, <2>1 DEF RequestOK, UpdateMemberRole, RemoveMember, AddMember, Founded, AboutOrg
    <2>3. UNCHANGED <<user, exists, invite, boot>> /\ Closes(s)
      BY <1>6 DEF UpdateMemberRole, RemoveMember, AddMember
    <2>4. q.op \in {"updateRole", "remove", "add"} /\ (RemoveMember(s) => q.op = "remove") /\ (UpdateMemberRole(s) => q.op = "updateRole")
            /\ (AddMember(s) => q.op = "add")
      BY <1>6 DEF UpdateMemberRole, RemoveMember, AddMember
    <2>5. role' = [role EXCEPT ![o][e] = r]
      <3>1. CASE RemoveMember(s)
        BY <2>1, <3>1 DEF RemoveMember
      <3>2. CASE UpdateMemberRole(s) /\ ~RemoveMember(s)
        BY <1>0, <2>1, <2>2, <3>2 DEF UpdateMemberRole, RoleOK
      <3>3. CASE AddMember(s) /\ ~RemoveMember(s) /\ ~UpdateMemberRole(s)
        BY <1>0, <2>1, <2>2, <3>3 DEF AddMember, RoleOK
      <3> QED
        BY <1>6, <3>1, <3>2, <3>3
    <2>6. \A p \in Orgs : \A f \in Emails : role'[p][f] = IF p = o /\ f = e THEN r ELSE role[p][f]
      BY <1>0, <2>2, <2>5 DEF RoleOK
    <2>7. role[o][e] = "none" /\ r # "none" => user[e].known
      BY <1>6, <2>1, <2>2
    <2>8. Grows /\ Evolves
      BY <2>2, <2>3, <2>6, <2>7 DEF Grows, Evolves
    <2> QED
      BY <2>3, <2>8, FoundedCloses
  <1> QED
    BY <1>1, <1>2, <1>3, <1>4, <1>5, <1>6 DEF MemberStep

LEMMA InviteMoves ==
    ASSUME PeopleInv, NEW s \in Sessions, InviteStep(s) \/ RequestFails(s)
    PROVE  Grows /\ Evolves /\ Founded(s)'
  <1> DEFINE q == session[s].req
  <1>0. /\ AccountsInv /\ UserOK /\ RoleOK /\ InviteOK /\ SessionOK /\ Founded(s) /\ PeopleOK /\ OrgsOK
        /\ RequestOK(q) /\ (session[s].pc # "out" => session[s].email \in Emails)
    BY DEF PeopleInv, AccountsInv, SessionOK
  <1>1. CASE InviteCheck(s)
    <2>1. PICK op \in {"invite", "inviteSeller", "createSeller"}, o \in Orgs, e \in Emails, r \in GivenRoles, i \in Invites :
            /\ Permitted(s, op, o)
            /\ Asks(s, [op |-> op, org |-> o, email |-> e, role |-> r, inv |-> i, seen |-> user[e].known])
      BY <1>1 DEF InviteCheck
    <2>2. PICK a : a = [op |-> op, org |-> o, email |-> e, role |-> r, inv |-> i, seen |-> user[e].known]
      OBVIOUS
    <2>3. session[s].email \in Emails /\ role[o][session[s].email] \in Operators
      BY <1>0, <2>1 DEF Permitted, Authentic, ServiceRoles, Managers, Operators
    <2>4. o \in exists
      BY <1>0, <2>3 DEF OrgsOK, Operators
    <2>5. Sound(a) /\ a.op # "createOrg"
      BY <2>2, <2>4 DEF Sound
    <2>6. UNCHANGED <<user, exists, role, invite, boot>>
      BY <1>1 DEF InviteCheck
    <2> QED
      BY <1>0, <2>1, <2>2, <2>5, <2>6, QuietGrows, FoundedAsks
  <1>2. CASE CancelCheck(s)
    <2>1. PICK i \in Invites : invite[i].status = "PENDING" /\ Asks(s, [NoAsk EXCEPT !.op = "cancel", !.inv = i])
      BY <1>2 DEF CancelCheck
    <2>2. PICK a : a = [NoAsk EXCEPT !.op = "cancel", !.inv = i]
      OBVIOUS
    <2>3. a.op = "cancel" /\ a.inv = i
      BY <2>2 DEF NoAsk
    <2>4. Sound(a)
      BY <2>1, <2>3 DEF Sound, AboutOrg
    <2>5. UNCHANGED <<user, exists, role, invite, boot>>
      BY <1>2 DEF CancelCheck
    <2> QED
      BY <1>0, <2>1, <2>2, <2>3, <2>4, <2>5, QuietGrows, FoundedAsks
  <1>3. CASE InviteUser(s) \/ CreateSeller(s)
    <2>1. PICK o, e, i : o = q.org /\ e = q.email /\ i = q.inv
      OBVIOUS
    <2>2. q.op \in {"invite", "inviteSeller", "createSeller"} /\ Closes(s) /\ UNCHANGED <<exists, boot>>
      BY <1>3 DEF InviteUser, CreateSeller
    <2>3. o \in Orgs /\ e \in Emails /\ o \in exists /\ i \in Invites
      BY <1>0, <2>1, <2>2 DEF RequestOK, Founded, AboutOrg
    <2>4. CASE UNCHANGED <<user, role, invite>>
      BY <2>2, <2>4, QuietGrows, FoundedCloses
    <2>5. CASE Insertable(q) /\ NewInvitation(q)
      <3>1. PICK d : d = [status |-> "PENDING", org |-> o, email |-> e, role |-> q.role, expired |-> FALSE]
        OBVIOUS
      <3>2. invite' = [invite EXCEPT ![i] = d] /\ d.status = "PENDING" /\ d.org = o /\ d.email = e
        BY <2>1, <2>5, <3>1 DEF NewInvitation
      <3>3. invite'[i] = d /\ \A j \in Invites \ {i} : invite'[j] = invite[j]
        BY <1>0, <2>3, <3>2 DEF InviteOK
      <3>4. invite[i].status = "none" /\ \A j \in Invites : ~(invite[j].status = "PENDING" /\ invite[j].org = o /\ invite[j].email = e)
        BY <2>1, <2>5 DEF Insertable, Pending
      <3>5. Evolves
        BY <2>3, <3>2, <3>3, <3>4 DEF Evolves
      <3>6. Grows
        <4>1. CASE UNCHANGED <<user, role>>
          BY <2>2, <4>1 DEF Grows
        <4>2. CASE /\ user' = [user EXCEPT ![q.email] =
                                 IF @.known THEN @ ELSE [known |-> TRUE, password |-> "random", verified |-> FALSE]]
                   /\ role' = [role EXCEPT ![q.org][q.email] = "SELLER"]
          <5>1. \A f \in Emails : user'[f] = IF f = e /\ ~user[f].known
                                             THEN [known |-> TRUE, password |-> "random", verified |-> FALSE] ELSE user[f]
            BY <1>0, <2>1, <2>3, <4>2 DEF UserOK
          <5>2. \A p \in Orgs : \A f \in Emails : role'[p][f] = IF p = o /\ f = e THEN "SELLER" ELSE role[p][f]
            BY <1>0, <2>1, <2>3, <4>2 DEF RoleOK
          <5> QED
            BY <2>2, <2>3, <5>1, <5>2 DEF Grows
        <4> QED
          BY <1>3, <2>4, <2>5, <4>1, <4>2 DEF InviteUser, CreateSeller
      <3> QED
        BY <2>2, <3>5, <3>6, FoundedCloses
    <2> QED
      BY <1>3, <2>4, <2>5 DEF InviteUser, CreateSeller
  <1>4. CASE CancelInvitation(s)
    <2>1. PICK i : i = q.inv
      OBVIOUS
    <2>2. i \in Invites /\ invite[i].status # "none" /\ Closes(s) /\ UNCHANGED <<user, exists, role, boot>>
      BY <1>0, <1>4, <2>1 DEF CancelInvitation, RequestOK, Founded
    <2>3. invite' = [invite EXCEPT ![i].status = IF StatusTaken(i, "CANCELLED") THEN @ ELSE "CANCELLED"]
      BY <1>4, <2>1 DEF CancelInvitation
    <2>4. CASE StatusTaken(i, "CANCELLED")
      <3>1. UNCHANGED invite
        BY <1>0, <2>2, <2>3, <2>4 DEF InviteOK, Invitation
      <3> QED
        BY <2>2, <3>1, QuietGrows, FoundedCloses
    <2>5. CASE ~StatusTaken(i, "CANCELLED")
      <3>1. PICK c, d : c = invite[i] /\ d = invite'[i]
        OBVIOUS
      <3>2. /\ \A j \in Invites \ {i} : invite'[j] = invite[j]
            /\ d.status = "CANCELLED" /\ d.org = c.org /\ d.email = c.email
        BY <1>0, <2>2, <2>3, <2>5, <3>1 DEF InviteOK, Invitation
      <3>3. c.status # "none" /\ c.org \in exists /\ c.email \in Emails
        BY <1>0, <2>2, <3>1 DEF OrgsOK, PeopleOK
      <3>4. \A j \in Invites \ {i} : ~(invite[j].status = d.status /\ invite[j].org = d.org /\ invite[j].email = d.email)
        BY <2>5, <3>1, <3>2 DEF StatusTaken
      <3>5. Evolves
        BY <2>2, <3>1, <3>2, <3>3, <3>4 DEF Evolves
      <3>6. Grows
        BY <2>2 DEF Grows
      <3> QED
        BY <2>2, <3>5, <3>6, FoundedCloses
    <2> QED
      BY <2>4, <2>5
  <1>5. CASE RequestFails(s)
    BY <1>5, QuietGrows, FoundedCloses DEF RequestFails
  <1> QED
    BY <1>1, <1>2, <1>3, <1>4, <1>5 DEF InviteStep

(* The clock and a starting server.                                        *)
LEMMA SystemMoves ==
    ASSUME PeopleInv, SeedUser \/ SeedOrganization \/ SeedMembership \/ SeedFails \/ \E i \in Invites : InvitationExpires(i)
    PROVE  Grows /\ Evolves /\ UNCHANGED session
  <1>0. UserOK /\ RoleOK /\ InviteOK /\ PeopleOK /\ OrgsOK /\ BootOK
    BY DEF PeopleInv, AccountsInv
  <1>1. CASE SeedUser
    <2>1. \A e \in Emails : user'[e] = IF e = OwnerEmail /\ ~user[e].known
                                      THEN [known |-> TRUE, password |-> "own", verified |-> TRUE] ELSE user[e]
      BY <1>0, <1>1 DEF SeedUser, UserOK
    <2>2. OwnerEmail \in Emails
      BY <1>0, <1>1 DEF SeedUser, BootOK
    <2>3. UNCHANGED <<exists, role, invite, session>> /\ boot' = "organization"
      BY <1>1 DEF SeedUser, BootGoes
    <2> QED
      BY <2>1, <2>2, <2>3 DEF Grows, Evolves, Proven
  <1>2. CASE SeedOrganization
    BY <1>2 DEF SeedOrganization, BootGoes, Grows, Evolves, PeopleInv, PeopleOK
  <1>3. CASE SeedMembership
    <2>1. OwnerOrg \in Orgs /\ OwnerEmail \in Emails /\ user[OwnerEmail].known /\ OwnerOrg \in exists
      BY <1>0, <1>3, AccountsAssumption DEF SeedMembership, BootOK, PeopleOK, OrgsOK
    <2>2. \A p \in Orgs : \A f \in Emails : role'[p][f] = IF p = OwnerOrg /\ f = OwnerEmail THEN "OWNER" ELSE role[p][f]
      BY <1>0, <1>3, <2>1 DEF SeedMembership, RoleOK
    <2>3. UNCHANGED <<user, exists, invite, session>> /\ boot' = "done"
      BY <1>3 DEF SeedMembership, BootGoes
    <2> QED
      BY <2>1, <2>2, <2>3 DEF Grows, Evolves
  <1>4. CASE SeedFails
    BY <1>4 DEF SeedFails, BootGoes, Grows, Evolves
  <1>5. CASE \E i \in Invites : InvitationExpires(i)
    <2>1. PICK i \in Invites : InvitationExpires(i)
      BY <1>5
    <2>2. PICK c, d : c = invite[i] /\ d = invite'[i]
      OBVIOUS
    <2>3. /\ \A j \in Invites \ {i} : invite'[j] = invite[j]
          /\ c.status = "PENDING" /\ d.status = "PENDING" /\ d.org = c.org /\ d.email = c.email
      BY <1>0, <2>1, <2>2 DEF InvitationExpires, InviteOK, Invitation
    <2>4. c.org \in exists /\ c.email \in Emails
      BY <1>0, <2>2, <2>3 DEF OrgsOK, PeopleOK
    <2>5. UNCHANGED <<user, exists, role, session, boot>>
      BY <2>1 DEF InvitationExpires
    <2> QED
      BY <2>2, <2>3, <2>4, <2>5 DEF Grows, Evolves
  <1> QED
    BY <1>1, <1>2, <1>3, <1>4, <1>5

(* Every organization there was keeps its administrators or gets one, and  *)
(* every new one has one.                                                  *)
Led(o) == \E e \in Emails : Administers(o, e)

LEMMA LedBy ==
    ASSUME RoleOK, NEW o \in Orgs, NEW e \in Emails, NEW r, role' = [role EXCEPT ![o][e] = r]
    PROVE  /\ \A p \in Orgs \ {o} : Led(p) => Led(p)'
           /\ r \in {"OWNER", "ADMIN"} => Led(o)'
           /\ r = role[o][e] \/ ~Administers(o, e) => (Led(o) => Led(o)')
           /\ \A f \in Emails \ {e} : Administers(o, f) => Led(o)'
  <1>1. \A p \in Orgs : \A f \in Emails : role'[p][f] = IF p = o /\ f = e THEN r ELSE role[p][f]
    BY DEF RoleOK
  <1> QED
    BY <1>1 DEF Led, Administers

(* In calm weather nobody else writes between the look and the write.      *)
LEMMA SignInLed ==
    ASSUME PeopleInv, NEW s \in Sessions, SignInStep(s)
    PROVE  \A o \in exists' : (o \in exists /\ Led(o)) \/ o \notin exists => Led(o)'
  <1> DEFINE q == session[s].req
  <1>0. /\ UserOK /\ RoleOK /\ SessionOK /\ OrgsOK /\ RequestOK(q) /\ exists \subseteq Orgs
    BY DEF PeopleInv, AccountsInv, SessionOK
  <1>1. CASE UNCHANGED <<exists, role>>
    BY <1>1 DEF Led, Administers
  <1>2. CASE Register(s) /\ ~UNCHANGED <<exists, role>>
    <2>1. q.email \in Emails /\ q.org \in Orgs
      BY <1>0, <1>2 DEF RequestOK, Register
    <2>2. exists' = exists \cup {q.org} /\ role' = [role EXCEPT ![q.org][q.email] = "OWNER"]
      BY <1>2 DEF Register
    <2> QED
      BY <1>0, <2>1, <2>2, LedBy
  <1>3. CASE RegisterInvited(s) /\ ~UNCHANGED <<exists, role>>
    <2>0. PICK o, e : o = q.org /\ e = q.email
      OBVIOUS
    <2>1. e \in Emails /\ o \in Orgs
      BY <1>0, <1>3, <2>0 DEF RequestOK, RegisterInvited
    <2>2. PICK r : r = IF Member(e, o) THEN role[o][e] ELSE q.role
      OBVIOUS
    <2>3. role' = [role EXCEPT ![o][e] = r] /\ UNCHANGED exists
      BY <1>0, <1>3, <2>0, <2>1, <2>2 DEF RoleOK, RegisterInvited
    <2>4. r = role[o][e] \/ ~Administers(o, e)
      BY <2>2 DEF Member, Administers
    <2> QED
      BY <1>0, <2>1, <2>3, <2>4, LedBy
  <1>4. CASE DevLogin(s)
    <2>1. DevEmail \in Emails /\ DevOrg \in Orgs
      BY <1>4, AccountsAssumption DEF DevLogin
    <2>2. PICK r : r = IF role[DevOrg][DevEmail] = "none" THEN "OWNER" ELSE role[DevOrg][DevEmail]
      OBVIOUS
    <2>3. role' = [role EXCEPT ![DevOrg][DevEmail] = r] /\ exists' = exists \cup {DevOrg}
      BY <1>0, <1>4, <2>1, <2>2 DEF RoleOK, DevLogin
    <2>4. r = role[DevOrg][DevEmail] \/ ~Administers(DevOrg, DevEmail)
      BY <2>2 DEF Administers
    <2>5. DevOrg \notin exists => r = "OWNER"
      BY <1>0, <2>1, <2>2 DEF OrgsOK
    <2> QED
      BY <1>0, <2>1, <2>3, <2>4, <2>5, LedBy
  <1> QED
    BY <1>1, <1>2, <1>3, <1>4 DEF SignInStep, RegisterCheck, InvitedCheck, Login, SelectOrganization, RefreshToken, Logout

LEMMA MemberLed ==
    ASSUME PeopleInv, calm, NEW s \in Sessions, MemberStep(s)
    PROVE  \A o \in exists' : (o \in exists /\ Led(o)) \/ o \notin exists => Led(o)'
  <1> DEFINE q == session[s].req
  <1>0. /\ UserOK /\ RoleOK /\ SessionOK /\ OrgsOK /\ RequestOK(q) /\ exists \subseteq Orgs /\ StillAdmin(s) /\ Founded(s)
        /\ (session[s].pc # "out" => session[s].email \in Emails)
    BY DEF PeopleInv, AccountsInv, SessionOK, CalmAccounts
  <1>1. CASE UNCHANGED <<exists, role>>
    BY <1>1 DEF Led, Administers
  <1>2. CASE AutoPromote(s)
    <2>1. PICK e : e = session[s].email
      OBVIOUS
    <2>2. e \in Emails /\ UNCHANGED exists
      BY <1>0, <1>2, <2>1 DEF AutoPromote
    <2>3. role' = [o \in Orgs |-> IF Member(e, o) THEN [role[o] EXCEPT ![e] = "OWNER"] ELSE role[o]]
      BY <1>2, <2>1 DEF AutoPromote
    <2>4. \A o \in Orgs : \A f \in Emails : role'[o][f] = IF f = e /\ role[o][e] # "none" THEN "OWNER" ELSE role[o][f]
      BY <1>0, <2>2, <2>3 DEF RoleOK, Member
    <2> QED
      BY <1>0, <2>2, <2>4 DEF Led, Administers
  <1>3. CASE CreateOrg(s) /\ ~UNCHANGED <<exists, role>>
    <2>1. PICK o, e : o = q.org /\ e = session[s].email
      OBVIOUS
    <2>2. o \in Orgs /\ e \in Emails
      BY <1>0, <1>3, <2>1 DEF RequestOK, CreateOrg, Founded
    <2>3. exists' = exists \cup {o} /\ role' = [role EXCEPT ![o][e] = "OWNER"]
      BY <1>3, <2>1 DEF CreateOrg
    <2> QED
      BY <1>0, <2>2, <2>3, LedBy
  <1>4. CASE UpdateMemberRole(s) \/ RemoveMember(s)
    <2>1. PICK o, e, f : o = q.org /\ e = q.email /\ f = session[s].email
      OBVIOUS
    <2>2. o \in Orgs /\ e \in Emails /\ f \in Emails \ {e} /\ Administers(o, f)
      BY <1>0, <1>4, <2>1 DEF RequestOK, UpdateMemberRole, RemoveMember, StillAdmin
    <2>3. PICK r : r = IF RemoveMember(s) THEN "none" ELSE IF role[o][e] = "none" THEN "none" ELSE q.role
      OBVIOUS
    <2>4. role' = [role EXCEPT ![o][e] = r]
      <3>1. CASE RemoveMember(s)
        BY <2>1, <2>3, <3>1 DEF RemoveMember
      <3>2. CASE UpdateMemberRole(s) /\ ~RemoveMember(s)
        BY <1>0, <2>1, <2>2, <2>3, <3>2 DEF UpdateMemberRole, RoleOK
      <3> QED
        BY <1>4, <3>1, <3>2
    <2>5. UNCHANGED exists
      BY <1>4 DEF UpdateMemberRole, RemoveMember
    <2> QED
      BY <1>0, <2>2, <2>4, <2>5, LedBy
  <1>5. CASE AddMember(s)
    <2>1. PICK o, e : o = q.org /\ e = q.email
      OBVIOUS
    <2>2. o \in Orgs /\ e \in Emails
      BY <1>0, <1>5, <2>1 DEF RequestOK, AddMember
    <2>3. PICK r : r = IF role[o][e] = "none" THEN q.role ELSE role[o][e]
      OBVIOUS
    <2>4. role' = [role EXCEPT ![o][e] = r] /\ UNCHANGED exists
      BY <1>0, <1>5, <2>1, <2>2, <2>3 DEF AddMember, RoleOK
    <2>5. r = role[o][e] \/ ~Administers(o, e)
      BY <2>3 DEF Administers
    <2> QED
      BY <1>0, <2>2, <2>4, <2>5, LedBy
  <1> QED
    BY <1>1, <1>2, <1>3, <1>4, <1>5 DEF MemberStep, CreateOrgCheck, MemberCheck, AddMemberCheck

LEMMA InviteLed ==
    ASSUME PeopleInv, NEW s \in Sessions, InviteStep(s) \/ RequestFails(s)
    PROVE  \A o \in exists' : (o \in exists /\ Led(o)) \/ o \notin exists => Led(o)'
  <1> DEFINE q == session[s].req
  <1>0. RoleOK /\ RequestOK(q) /\ exists \subseteq Orgs
    BY DEF PeopleInv, AccountsInv, SessionOK
  <1>1. CASE UNCHANGED <<exists, role>>
    BY <1>1 DEF Led, Administers
  <1>2. CASE CreateSeller(s) /\ ~UNCHANGED <<exists, role>>
    <2>1. PICK o, e : o = q.org /\ e = q.email
      OBVIOUS
    <2>2. o \in Orgs /\ e \in Emails
      BY <1>0, <1>2, <2>1 DEF RequestOK, CreateSeller
    <2>3. ~Member(e, o) /\ role' = [role EXCEPT ![o][e] = "SELLER"] /\ UNCHANGED exists
      BY <1>2, <2>1 DEF CreateSeller
    <2>4. ~Administers(o, e)
      BY <2>3 DEF Member, Administers
    <2> QED
      BY <1>0, <2>2, <2>3, <2>4, LedBy
  <1> QED
    BY <1>1, <1>2 DEF InviteStep, InviteCheck, InviteUser, CancelCheck, CancelInvitation, RequestFails

(* At most one request is under way in calm weather, and its user still    *)
(* administers what it wants to change.                                    *)
LEMMA CalmKept ==
    ASSUME PeopleInv, SessionOK', NEW s \in Sessions, SignInStep(s) \/ MemberStep(s) \/ InviteStep(s) \/ RequestFails(s),
           UNCHANGED calm
    PROVE  CalmAccounts'
  <1> SUFFICES ASSUME calm
               PROVE  /\ \A t, u \in Sessions : InFlight(t)' /\ InFlight(u)' => t = u
                      /\ \A t \in Sessions : StillAdmin(t)'
    BY DEF CalmAccounts
  <1>0. RoleOK /\ SessionOK /\ session[s] \in Session
    BY DEF PeopleInv, AccountsInv, SessionOK
  <1>1. \A t \in Sessions \ {s} : session'[t] = session[t]
    BY <1>0, OthersKeep
  <1>2. \A t, u \in Sessions : InFlight(t) /\ InFlight(u) => t = u
    BY DEF PeopleInv, CalmAccounts
  <1>3. NoAsk.op = "none"
    BY DEF NoAsk
  (* Either nothing was under way, or the request of s is done.            *)
  <1>4. ASSUME \A t \in Sessions : ~InFlight(t)
        PROVE  \A t \in Sessions \ {s} : ~InFlight(t)' /\ StillAdmin(t)'
    BY <1>1, <1>3, <1>4 DEF InFlight, StillAdmin
  <1>5. CASE session'[s].req = NoAsk /\ (InFlight(s) \/ UNCHANGED role)
    <2>1. ~InFlight(s)' /\ StillAdmin(s)'
      BY <1>3, <1>5 DEF InFlight, StillAdmin
    <2>2. \A t \in Sessions \ {s} : StillAdmin(t)'
      <3>1. CASE UNCHANGED role
        BY <1>1, <3>1 DEF StillAdmin, Administers, PeopleInv, CalmAccounts
      <3>2. CASE InFlight(s)
        BY <1>1, <1>2, <1>3, <3>2 DEF StillAdmin, InFlight
      <3> QED
        BY <1>5, <3>1, <3>2
    <2> QED
      BY <1>1, <1>2, <2>1, <2>2 DEF InFlight
  <1>6. ASSUME NEW q, Asks(s, q)
        PROVE  session'[s].req = q /\ session'[s].pc = session[s].pc /\ session'[s].email = session[s].email
    BY <1>0, <1>6 DEF Asks, SessionOK, Session
  <1>7. ASSUME NEW e, NEW o, NEW r, SignIn(s, e, o, r)
        PROVE  session'[s].req = NoAsk
    BY <1>0, <1>7 DEF SignIn, SessionOK
  <1>8. Closes(s) => session'[s].req = NoAsk
    BY <1>6 DEF Closes, Asks
  <1>9. CASE RegisterCheck(s) \/ InvitedCheck(s) \/ CreateOrgCheck(s) \/ AddMemberCheck(s) \/ InviteCheck(s) \/ CancelCheck(s)
    <2>1. \A t \in Sessions : ~InFlight(t)
      BY <1>9 DEF RegisterCheck, InvitedCheck, CreateOrgCheck, AddMemberCheck, InviteCheck, CancelCheck, Permitted, Authentic, MayStart
    <2>2. PICK q : Asks(s, q) /\ q.op \in {"register", "invited", "createOrg", "add", "invite", "inviteSeller", "createSeller", "cancel"}
      <3>1. CASE RegisterCheck(s)
        <4>1. PICK e \in Emails, o \in Orgs \ Seeded : Asks(s, [NoAsk EXCEPT !.op = "register", !.email = e, !.org = o])
          BY <3>1 DEF RegisterCheck
        <4>2. [NoAsk EXCEPT !.op = "register", !.email = e, !.org = o].op = "register"
          BY DEF NoAsk
        <4> QED
          BY <4>1, <4>2
      <3>2. CASE InvitedCheck(s)
        BY <3>2 DEF InvitedCheck
      <3>3. CASE CreateOrgCheck(s)
        <4>1. PICK o \in Orgs \ (exists \cup Seeded) : Asks(s, [NoAsk EXCEPT !.op = "createOrg", !.org = o])
          BY <3>3 DEF CreateOrgCheck
        <4>2. [NoAsk EXCEPT !.op = "createOrg", !.org = o].op = "createOrg"
          BY DEF NoAsk
        <4> QED
          BY <4>1, <4>2
      <3>4. CASE AddMemberCheck(s)
        <4>1. PICK o \in Orgs, e \in Emails, r \in GivenRoles : Asks(s, [NoAsk EXCEPT !.op = "add", !.org = o, !.email = e, !.role = r])
          BY <3>4 DEF AddMemberCheck
        <4>2. [NoAsk EXCEPT !.op = "add", !.org = o, !.email = e, !.role = r].op = "add"
          BY DEF NoAsk
        <4> QED
          BY <4>1, <4>2
      <3>5. CASE InviteCheck(s)
        BY <3>5 DEF InviteCheck
      <3>6. CASE CancelCheck(s)
        <4>1. PICK i \in Invites : Asks(s, [NoAsk EXCEPT !.op = "cancel", !.inv = i])
          BY <3>6 DEF CancelCheck
        <4>2. [NoAsk EXCEPT !.op = "cancel", !.inv = i].op = "cancel"
          BY DEF NoAsk
        <4> QED
          BY <4>1, <4>2
      <3> QED
        BY <1>9, <3>1, <3>2, <3>3, <3>4, <3>5, <3>6
    <2>3. session'[s].req.op \notin {"updateRole", "remove"}
      BY <1>6, <2>2
    <2> QED
      BY <1>4, <2>1, <2>3 DEF StillAdmin
  <1>10. CASE MemberCheck(s)
    <2>1. PICK op \in {"updateRole", "remove"}, o \in Orgs, e \in Emails, r \in GivenRoles :
            /\ Permitted(s, op, o) /\ NotSelf(s, e)
            /\ Asks(s, [NoAsk EXCEPT !.op = op, !.org = o, !.email = e, !.role = r])
      BY <1>10 DEF MemberCheck
    <2>2. PICK q : q = [NoAsk EXCEPT !.op = op, !.org = o, !.email = e, !.role = r]
      OBVIOUS
    <2>3. q.org = o /\ q.email = e
      BY <2>2 DEF NoAsk
    <2>4. session'[s].req = q /\ session'[s].pc = session[s].pc /\ session'[s].email = session[s].email
      BY <1>6, <2>1, <2>2
    <2>5. role[o][session[s].email] = "ADMIN" /\ session[s].pc = "in" /\ e # session[s].email
      BY <2>1 DEF Permitted, Authentic, ServiceRoles, NotSelf
    <2>6. UNCHANGED role /\ \A t \in Sessions : ~InFlight(t)
      BY <1>10, <2>1 DEF MemberCheck, Permitted, Authentic, MayStart
    <2>7. StillAdmin(s)'
      BY <2>3, <2>4, <2>5, <2>6 DEF StillAdmin, Administers
    <2> QED
      BY <1>4, <2>6, <2>7
  <1>11. CASE AutoPromote(s)
    <2>1. session'[s].req = session[s].req /\ \A t \in Sessions : ~InFlight(t)
      BY <1>0, <1>11 DEF AutoPromote, MayStart, SessionOK, Session
    <2>2. ~InFlight(s)' /\ StillAdmin(s)'
      BY <1>3, <2>1 DEF InFlight, StillAdmin
    <2> QED
      BY <1>4, <2>1, <2>2
  <1>12. CASE Register(s) \/ RegisterInvited(s) \/ CreateOrg(s) \/ UpdateMemberRole(s) \/ RemoveMember(s) \/ AddMember(s)
              \/ InviteUser(s) \/ CreateSeller(s) \/ CancelInvitation(s) \/ RequestFails(s)
    <2>1. session[s].req.op # "none"
      BY <1>12 DEF Register, RegisterInvited, CreateOrg, UpdateMemberRole, RemoveMember, AddMember, InviteUser, CreateSeller,
                   CancelInvitation, RequestFails
    <2>2. InFlight(s)
      BY <1>3, <2>1 DEF InFlight
    <2>3. session'[s].req = NoAsk
      BY <1>7, <1>8, <1>12 DEF Register, RegisterInvited, CreateOrg, UpdateMemberRole, RemoveMember, AddMember, InviteUser,
                   CreateSeller, CancelInvitation, RequestFails
    <2> QED
      BY <1>5, <2>2, <2>3
  <1>13. CASE DevLogin(s)
    <2>1. session'[s].req = NoAsk /\ \A t \in Sessions : ~InFlight(t)
      BY <1>7, <1>13 DEF DevLogin, MayStart
    <2>2. ~InFlight(s)' /\ StillAdmin(s)'
      BY <1>3, <2>1 DEF InFlight, StillAdmin
    <2> QED
      BY <1>4, <2>1, <2>2
  <1>14. CASE Login(s) \/ SelectOrganization(s) \/ RefreshToken(s) \/ Logout(s)
    <2>1. SignedOut.req = NoAsk
      BY DEF SignedOut
    <2>2. UNCHANGED role
      BY <1>14 DEF Login, SelectOrganization, RefreshToken, Logout
    <2>3. \/ \E e, o, r : SignIn(s, e, o, r)
          \/ session[s].req = NoAsk /\ \E e : session' = [session EXCEPT ![s].pc = "choosing", ![s].email = e]
          \/ session' = [session EXCEPT ![s] = SignedOut]
      BY <1>14 DEF Login, SelectOrganization, RefreshToken, Logout, InFlight
    <2>4. session'[s].req = NoAsk
      BY <1>0, <1>7, <2>1, <2>3 DEF SessionOK, Session
    <2> QED
      BY <1>5, <2>2, <2>4
  <1> QED
    BY <1>9, <1>10, <1>11, <1>12, <1>13, <1>14 DEF SignInStep, MemberStep, InviteStep

LEMMA PeopleInit == AccountsInit => PeopleInv
  <1> SUFFICES ASSUME AccountsInit
               PROVE  PeopleInv
    OBVIOUS
  <1>1. AccountsInv /\ RoleOK
    BY AccountsInitInv DEF AccountsInv
  <1>2. /\ exists = Seeded /\ session = [s \in Sessions |-> SignedOut] /\ invite = [i \in Invites |-> NoInvitation]
        /\ \A o \in Orgs : IF o \in Seeded THEN \E e \in Emails : Administers(o, e) ELSE \A e \in Emails : ~Member(e, o)
        /\ boot \in {"user", "done"}
    BY DEF AccountsInit
  <1>3. SignedOut.pc = "out" /\ SignedOut.req = NoAsk /\ NoAsk.op = "none" /\ NoInvitation.status = "none"
    BY DEF SignedOut, NoAsk, NoInvitation
  <1>4. PeopleOK
    <2>1. \A e \in Emails : user[e] = IF MemberOf(e) = {} THEN Stranger
                                     ELSE [known |-> TRUE, password |-> "own", verified |-> TRUE]
      BY DEF AccountsInit
    <2>2. \A o \in Orgs : \A e \in Emails : role[o][e] # "none" => MemberOf(e) # {}
      BY DEF MemberOf, Member
    <2> QED
      BY <1>2, <1>3, <2>1, <2>2 DEF PeopleOK, Stranger
  <1>5. OrgsOK /\ OnePerStatus
    BY <1>2, <1>3 DEF OrgsOK, OnePerStatus, Member
  <1>6. SomebodyAdministers
    BY <1>2, AccountsAssumption DEF SomebodyAdministers
  <1>7. CalmAccounts /\ \A s \in Sessions : Founded(s)
    BY <1>2, <1>3 DEF CalmAccounts, InFlight, StillAdmin, Founded, AboutOrg
  <1> QED
    BY <1>1, <1>4, <1>5, <1>6, <1>7 DEF PeopleInv

LEMMA PeopleStep == PeopleInv /\ [AccountsNext /\ UNCHANGED calm]_<<accountVars, calm>> => PeopleInv'
  <1> SUFFICES ASSUME PeopleInv, [AccountsNext /\ UNCHANGED calm]_<<accountVars, calm>>
               PROVE  PeopleInv'
    OBVIOUS
  <1>1. AccountsInv /\ AccountsInv' /\ SessionOK /\ SessionOK' /\ RoleOK /\ OrgsOK /\ exists \subseteq Orgs /\ UNCHANGED calm
    BY AccountsStepInv DEF PeopleInv, AccountsInv
  <1>2. ASSUME NEW s \in Sessions, SignInStep(s) \/ MemberStep(s) \/ InviteStep(s) \/ RequestFails(s)
        PROVE  PeopleInv'
    <2>1. Grows /\ Evolves /\ Founded(s)'
      BY <1>2, SignInMoves, MemberMoves, InviteMoves
    <2>2. PeopleOK' /\ OrgsOK' /\ OnePerStatus'
      BY <1>1, <2>1, PeopleKept
    <2>3. ASSUME NEW t \in Sessions \ {s}
          PROVE  Founded(t)'
      <3>1. session'[t] = session[t] /\ Founded(t)
        BY <1>1, <1>2, OthersKeep DEF PeopleInv
      <3> QED
        BY <2>1, <3>1, FoundedStays
    <2>4. CalmAccounts'
      BY <1>1, <1>2, CalmKept
    <2>5. SomebodyAdministers'
      <3> SUFFICES ASSUME calm
                   PROVE  \A o \in exists' : Led(o)' \/ (o = OwnerOrg /\ boot' = "membership")
        BY <1>1 DEF SomebodyAdministers, Led, Administers
      <3>1. \A o \in exists' : (o \in exists /\ Led(o)) \/ o \notin exists => Led(o)'
        BY <1>2, SignInLed, MemberLed, InviteLed
      <3>2. \A o \in exists : Led(o) \/ (o = OwnerOrg /\ boot = "membership")
        BY DEF PeopleInv, SomebodyAdministers, Led
      <3>3. UNCHANGED boot
        BY <1>2 DEF SignInStep, MemberStep, InviteStep, RequestFails, RegisterCheck, Register, InvitedCheck, RegisterInvited,
                    DevLogin, Login, SelectOrganization, RefreshToken, Logout, AutoPromote, CreateOrgCheck, CreateOrg, MemberCheck,
                    UpdateMemberRole, RemoveMember, AddMemberCheck, AddMember, InviteCheck, InviteUser, CreateSeller, CancelCheck,
                    CancelInvitation
      <3> QED
        BY <3>1, <3>2, <3>3
    <2> QED
      BY <1>1, <2>1, <2>2, <2>3, <2>4, <2>5 DEF PeopleInv
  <1>3. CASE SeedUser \/ SeedOrganization \/ SeedMembership \/ SeedFails \/ \E i \in Invites : InvitationExpires(i)
    <2>1. Grows /\ Evolves /\ UNCHANGED session
      BY <1>3, SystemMoves
    <2>2. PeopleOK' /\ OrgsOK' /\ OnePerStatus'
      BY <1>1, <2>1, PeopleKept
    <2>3. \A t \in Sessions : Founded(t)'
      BY <2>1, FoundedStays DEF PeopleInv
    <2>4. \A o \in Orgs : \A e \in Emails : Administers(o, e) => Administers(o, e)'
      <3>1. CASE UNCHANGED role
        BY <3>1 DEF Administers
      <3>2. CASE SeedMembership
        <4>1. OwnerOrg \in Orgs /\ role' = [role EXCEPT ![OwnerOrg][OwnerEmail] = "OWNER"]
          BY <3>2, AccountsAssumption DEF SeedMembership
        <4> QED
          BY <1>1, <4>1 DEF RoleOK, Administers
      <3> QED
        BY <1>3, <3>1, <3>2 DEF SeedUser, SeedOrganization, SeedFails, InvitationExpires
    <2>5. CalmAccounts'
      <3>1. \A t \in Sessions : session[t].req.op \in {"updateRole", "remove"} =>
               session[t].req.org \in Orgs /\ (session[t].pc # "out" => session[t].email \in Emails)
        BY <1>1 DEF SessionOK, RequestOK
      <3>2. calm => \A t \in Sessions : StillAdmin(t)'
        BY <2>1, <2>4, <3>1 DEF PeopleInv, CalmAccounts, StillAdmin
      <3> QED
        BY <1>1, <2>1, <3>2 DEF PeopleInv, CalmAccounts, InFlight
    <2>6. SomebodyAdministers'
      <3> SUFFICES ASSUME calm, NEW o \in exists', ~(o = OwnerOrg /\ boot' = "membership")
                   PROVE  (\E e \in Emails : Administers(o, e))'
        BY <1>1 DEF SomebodyAdministers
      <3>1. o \in exists /\ o \in Orgs
        BY <1>1, <1>3 DEF SeedUser, SeedOrganization, SeedMembership, SeedFails, InvitationExpires, BootGoes
      <3>2. CASE \E e \in Emails : Administers(o, e)
        BY <2>4, <3>1, <3>2
      <3>3. CASE o = OwnerOrg /\ boot = "membership"
        <4>1. SeedMembership
          BY <1>3, <3>3 DEF SeedUser, SeedOrganization, SeedFails, InvitationExpires
        <4>2. OwnerEmail \in Emails /\ role' = [role EXCEPT ![OwnerOrg][OwnerEmail] = "OWNER"]
          BY <1>1, <4>1 DEF SeedMembership, AccountsInv, BootOK
        <4> QED
          BY <1>1, <3>1, <3>3, <4>2 DEF RoleOK, Administers
      <3> QED
        BY <3>1, <3>2, <3>3 DEF PeopleInv, SomebodyAdministers
    <2> QED
      BY <1>1, <2>2, <2>3, <2>5, <2>6 DEF PeopleInv
  <1>4. CASE UNCHANGED <<accountVars, calm>>
    <2>1. Grows /\ Evolves /\ UNCHANGED session
      BY <1>4, QuietGrows DEF accountVars
    <2>2. PeopleOK' /\ OrgsOK' /\ OnePerStatus'
      BY <1>1, <2>1, PeopleKept
    <2>3. \A t \in Sessions : Founded(t)'
      BY <2>1, FoundedStays DEF PeopleInv
    <2>4. CalmAccounts' /\ SomebodyAdministers'
      BY <1>4 DEF accountVars, PeopleInv, CalmAccounts, InFlight, StillAdmin, Administers, SomebodyAdministers
    <2> QED
      BY <1>1, <2>2, <2>3, <2>4 DEF PeopleInv
  <1> QED
    BY <1>2, <1>3, <1>4 DEF AccountsNext

(* For any users, organizations, invitations and sessions, whatever order  *)
(* requests meet in and wherever one fails: an accepted invitation has     *)
(* made its addressee a user with a password of their own, an address has  *)
(* at most one invitation of each status in an organization, and whoever   *)
(* is signed in or a member is a known user.                               *)
THEOREM InvitationsAlwaysConsistent == AccountsSpec => []InvitationsConsistent
  <1>1. PeopleInv => InvitationsConsistent
    <2> SUFFICES ASSUME PeopleInv
                 PROVE  InvitationsConsistent
      OBVIOUS
    <2>1. \A i \in Invites : invite[i].status # "none" => ~StatusTaken(i, invite[i].status)
      BY DEF PeopleInv, OnePerStatus, StatusTaken
    <2>2. \A e \in Emails : MemberOf(e) # {} \/ (\E s \in Sessions : session[s].pc = "in" /\ session[s].email = e)
                            => user[e].known
      BY DEF PeopleInv, PeopleOK, Founded, MemberOf, Member
    <2> QED
      BY <2>1, <2>2 DEF InvitationsConsistent, PeopleInv, PeopleOK
  <1> QED
    BY <1>1, PeopleInit, PeopleStep, PTL DEF AccountsSpec

(* For any users, organizations, invitations and sessions: while a request *)
(* is handled before the next is looked at, no organization that exists is *)
(* ever without an OWNER or an ADMIN, except the one seedOwnerOnBoot is    *)
(* just about to give its owner.                                           *)
THEOREM SomebodyAlwaysAdministers == AccountsSpec => []SomebodyAdministers
  <1>1. PeopleInv => SomebodyAdministers
    BY DEF PeopleInv
  <1> QED
    BY <1>1, PeopleInit, PeopleStep, PTL DEF AccountsSpec

-----------------------------------------------------------------------------
(* The catalogue.  What a request looked up may be gone when it writes,    *)
(* and the unique names and foreign keys must do; only in calm weather is  *)
(* it still so.                                                            *)
FolderRow == [exists : BOOLEAN, name : FolderNames, default : BOOLEAN]
Groups == {GroupOf[p] : p \in Products}
PriceLines == UNION {[gs -> Prices \cup {NoPrice}] : gs \in SUBSET Groups}
ListRow == [exists : BOOLEAN, name : ListNames, price : PriceLines]
Clerk == [op : {"idle", "folders", "createFolder", "deleteFolder", "createItem", "updateItem", "deleteItem", "seed",
                "createList", "prices", "deleteList"},
          pc : {"idle", "ensure", "ensureCreate", "ensured", "write", "count", "legacy", "clear", "batch"},
          folder : Folders \cup {NoFolder}, item : Items \cup {NoItem}, list : Lists \cup {NoList},
          row : ItemRow, fields : SUBSET {"product", "active", "apple"}, name : FolderNames \cup ListNames \cup {""},
          groups : SUBSET Groups, prices : PriceLines, old : SUBSET Items, batch : Nat]

(* What a request may still rely on,                                       *)
StillSo(k) ==
    /\ k.op = "createFolder" => k.name \in FolderNames
    /\ k.op = "deleteFolder" => k.folder \in Folders /\ (calm => Deletable(k.folder))
    /\ k.op = "createItem" => k.row.by = "user"
    /\ k.op \in {"updateItem", "deleteItem"} => k.item \in Items
    /\ k.op = "createList" => k.name \in ListNames /\ k.groups # {}
    /\ k.pc = "batch" => k.batch \in DOMAIN Batches
    /\ k.pc \in {"ensure", "ensureCreate", "ensured"} => k.op \in {"folders", "createItem"}
    /\ \A i \in k.old : item[i].state # "none" /\ item[i].mark # "seed"

CatalogueTypes ==
    /\ folder \in [Folders -> FolderRow] /\ item \in [Items -> ItemRow]
    /\ list \in [Lists -> ListRow] /\ clerk \in [Clerks -> Clerk]

(* one request at a time,                                                  *)
AloneInCalm == calm => \A c, d \in Clerks : clerk[c].op # "idle" /\ clerk[d].op # "idle" => c = d

(* the rows of the seeder are marked as such,                              *)
Marked == \A i \in Items : item[i].by = "seeder" => item[i].mark = "seed"

(* and how much of the catalogue is there.                                 *)
NoneGone == \A i \in Items : item[i].by = "seeder" => item[i].state # "deleted"
Seeding(k) == k.pc \in {"legacy", "clear", "batch"}
Before(n) == UNION {Batches[b] : b \in {a \in DOMAIN Batches : a < n}}

SeedsCounted ==
    calm /\ NoneGone =>
        /\ \A c \in Clerks : clerk[c].pc \in {"legacy", "clear"} => Made = {}
        /\ \A c \in Clerks : clerk[c].pc = "batch" => Cardinality(Made) = Cardinality(Before(clerk[c].batch))
        /\ \/ \E c \in Clerks : Seeding(clerk[c])
           \/ Made = {} \/ Cardinality(Made) = Cardinality(Products)

CatalogueInv ==
    /\ CatalogueTypes /\ ItemsKeepFolder /\ AloneInCalm /\ SeedsCounted /\ Marked
    /\ \A c \in Clerks : StillSo(clerk[c]) /\ (clerk[c].pc = "idle" <=> clerk[c].op = "idle")
                         /\ (Seeding(clerk[c]) => clerk[c].op = "seed")

LEMMA IdleIs ==
    Idle \in Clerk /\ Idle.op = "idle" /\ Idle.pc = "idle" /\ Idle.old = {}
  <1>1. NoItemRow \in ItemRow
    BY CatalogueAssumption DEF NoItemRow, ItemRow, Marks
  <1>2. <<>> \in PriceLines
    <2>1. <<>> \in [{} -> Prices \cup {NoPrice}]
      OBVIOUS
    <2> QED
      BY <2>1 DEF PriceLines
  <1> QED
    BY <1>1, <1>2 DEF Idle, Clerk

(* Requests that look, and forget.                                         *)
LEMMA ClerkMoves ==
    ASSUME CatalogueInv, NEW c \in Clerks, NEW k \in Clerk, clerk' = [clerk EXCEPT ![c] = k],
           UNCHANGED <<folder, item, list, calm>>, StillSo(k), k.pc = "idle" <=> k.op = "idle",
           Seeding(k) => k.op = "seed", calm /\ k.op # "idle" => \A d \in Clerks \ {c} : clerk[d].op = "idle",
           SeedsCounted'
    PROVE  CatalogueInv'
  <1>1. clerk'[c] = k /\ \A d \in Clerks \ {c} : clerk'[d] = clerk[d]
    BY DEF CatalogueInv, CatalogueTypes
  <1>2. CatalogueTypes' /\ AloneInCalm'
    BY <1>1 DEF CatalogueInv, CatalogueTypes, AloneInCalm
  <1>3. ItemsKeepFolder'
    BY DEF CatalogueInv, ItemsKeepFolder, FolderRows, ListRows, Live
  <1>4. \A d \in Clerks : StillSo(clerk[d])'
    BY <1>1 DEF CatalogueInv, StillSo, Deletable
  <1> QED
    BY <1>1, <1>2, <1>3, <1>4 DEF CatalogueInv, Seeding, Marked

(* Requests that have nothing to do with the seeder leave it all there.    *)
LEMMA NothingSeeded ==
    ASSUME CatalogueInv, NEW c \in Clerks, NEW k, clerk' = [clerk EXCEPT ![c] = k], ~Seeding(clerk[c]), ~Seeding(k),
           UNCHANGED calm, NoneGone' => NoneGone /\ Made' = Made
    PROVE  SeedsCounted'
  <1>1. clerk'[c] = k /\ \A d \in Clerks \ {c} : clerk'[d] = clerk[d]
    BY DEF CatalogueInv, CatalogueTypes
  <1> QED
    BY <1>1 DEF CatalogueInv, SeedsCounted, Seeding

LEMMA JustLooks ==
    ASSUME CatalogueInv, NEW c \in Clerks, NEW k \in Clerk, clerk' = [clerk EXCEPT ![c] = k],
           UNCHANGED <<folder, item, list, calm>>, StillSo(k), k.pc = "idle" <=> k.op = "idle",
           ~Seeding(clerk[c]), ~Seeding(k), Free(c) \/ clerk[c].op # "idle" \/ k.op = "idle"
    PROVE  CatalogueInv'
  <1>1. NoneGone' <=> NoneGone
    BY DEF NoneGone
  <1>2. Made' = Made
    BY DEF Made, Live
  <1>3. calm /\ k.op # "idle" => \A d \in Clerks \ {c} : clerk[d].op = "idle"
    BY DEF CatalogueInv, AloneInCalm, Free
  <1> QED
    BY <1>1, <1>2, <1>3, NothingSeeded, ClerkMoves

(* Whatever a request does, it is forgotten at the end.                    *)
LEMMA Ends ==
    ASSUME CatalogueInv, NEW c \in Clerks, Done(c), UNCHANGED <<folder, item, list, calm>>, ~Seeding(clerk[c])
    PROVE  CatalogueInv'
  <1>1. StillSo(Idle) /\ ~Seeding(Idle)
    BY IdleIs DEF StillSo, Seeding
  <1> QED
    BY <1>1, IdleIs, JustLooks DEF Done

LEMMA Advances ==
    ASSUME CatalogueInv, NEW c \in Clerks, NEW pc \in {"ensure", "ensureCreate", "ensured", "write"}, Goes(c, pc),
           clerk[c].pc \in {"ensure", "ensureCreate", "ensured"}, UNCHANGED <<folder, item, list, calm>>
    PROVE  CatalogueInv'
  <1>1. PICK k : k = clerk[c]
    OBVIOUS
  <1>2. PICK m : m = [k EXCEPT !.pc = pc]
    OBVIOUS
  <1>3. k \in Clerk /\ StillSo(k) /\ clerk' = [clerk EXCEPT ![c] = m] /\ ~Seeding(k) /\ k.op \in {"folders", "createItem"}
    BY <1>1, <1>2 DEF CatalogueInv, CatalogueTypes, Goes, StillSo, Seeding
  <1>4. m \in Clerk /\ m.pc = pc /\ m.op = k.op /\ m.folder = k.folder /\ m.row = k.row /\ m.item = k.item /\ m.name = k.name
        /\ m.groups = k.groups /\ m.old = k.old
    BY <1>2, <1>3 DEF Clerk
  <1>5. StillSo(m) /\ ~Seeding(m)
    BY <1>3, <1>4 DEF StillSo, Seeding
  <1> QED
    BY <1>1, <1>3, <1>4, <1>5, JustLooks

(* Requests that write.                                                    *)
LEMMA ClerkWrites ==
    ASSUME CatalogueInv, NEW c \in Clerks, NEW k \in Clerk, clerk' = [clerk EXCEPT ![c] = k], clerk[c].op # "idle", UNCHANGED calm,
           StillSo(k), k.op # "deleteFolder", k.pc = "idle" <=> k.op = "idle", Seeding(k) => k.op = "seed",
           folder' \in [Folders -> FolderRow], item' \in [Items -> ItemRow], list' \in [Lists -> ListRow],
           \A i \in Items : item[i].state # "none" => item'[i].state # "none" /\ item'[i].mark = item[i].mark,
           ItemsKeepFolder', SeedsCounted', Marked'
    PROVE  CatalogueInv'
  <1>1. clerk'[c] = k /\ (\A d \in Clerks \ {c} : clerk'[d] = clerk[d]) /\ \A d \in Clerks : clerk'[d].old \subseteq Items
    BY DEF CatalogueInv, CatalogueTypes, Clerk
  <1>2. CatalogueTypes' /\ AloneInCalm'
    BY <1>1 DEF CatalogueInv, CatalogueTypes, AloneInCalm
  <1>3. StillSo(k)'
    BY <1>1 DEF StillSo
  <1>4. ASSUME NEW d \in Clerks \ {c}
        PROVE  StillSo(clerk[d])'
    <2>1. StillSo(clerk[d]) /\ clerk'[d] = clerk[d] /\ (calm => clerk[d].op = "idle")
      BY <1>1 DEF CatalogueInv, AloneInCalm
    <2> QED
      BY <1>1, <2>1 DEF StillSo
  <1> QED
    BY <1>1, <1>2, <1>3, <1>4 DEF CatalogueInv, Seeding

(* ... folders,                                                            *)
LEMMA FolderAdded ==
    ASSUME CatalogueInv, NEW c \in Clerks, NEW k \in Clerk, clerk' = [clerk EXCEPT ![c] = k], clerk[c].op # "idle",
           UNCHANGED <<item, list, calm>>, StillSo(k), k.op # "deleteFolder", k.pc = "idle" <=> k.op = "idle", ~Seeding(clerk[c]),
           ~Seeding(k), NEW name \in FolderNames, NEW flag \in BOOLEAN, ~NameTaken(name), AddFolder(name, flag)
    PROVE  CatalogueInv'
  <1>1. PICK f \in Folders \ FolderRows : folder' = [folder EXCEPT ![f] = [exists |-> TRUE, name |-> name, default |-> flag]]
    BY DEF AddFolder
  <1>2. folder' \in [Folders -> FolderRow]
    BY <1>1 DEF CatalogueInv, CatalogueTypes, FolderRow
  <1>3. FolderRows' = FolderRows \cup {f} /\ folder'[f].name = name /\ \A g \in FolderRows : folder'[g] = folder[g]
    BY <1>1 DEF CatalogueInv, CatalogueTypes, FolderRows
  <1>4. ItemsKeepFolder'
    BY <1>3 DEF CatalogueInv, ItemsKeepFolder, NameTaken, ListRows, Live
  <1>5. SeedsCounted'
    BY NothingSeeded DEF NoneGone, Made, Live
  <1> QED
    BY <1>2, <1>4, <1>5, ClerkWrites DEF CatalogueInv, CatalogueTypes, Marked

LEMMA FolderSteps ==
    ASSUME CatalogueInv, NEW c \in Clerks, FolderStep(c), UNCHANGED calm
    PROVE  CatalogueInv'
  <1>0. PICK k : k = clerk[c]
    OBVIOUS
  <1>1. k \in Clerk /\ StillSo(k) /\ (k.pc = "idle" <=> k.op = "idle") /\ (Seeding(k) => k.op = "seed")
    BY <1>0 DEF CatalogueInv, CatalogueTypes
  <1>2. CASE ListFolders(c)
    <2>1. PICK m : m = [Idle EXCEPT !.op = "folders", !.pc = "ensure"]
      OBVIOUS
    <2>2. m \in Clerk /\ m.op = "folders" /\ m.pc = "ensure" /\ m.old = {}
      BY <2>1, IdleIs DEF Clerk
    <2>3. StillSo(m) /\ ~Seeding(m)
      BY <2>2 DEF StillSo, Seeding
    <2>4. clerk' = [clerk EXCEPT ![c] = m] /\ UNCHANGED <<folder, item, list>> /\ Free(c) /\ ~Seeding(k)
      BY <1>0, <1>1, <1>2, <2>1 DEF ListFolders, Starts, Free, Seeding
    <2> QED
      BY <1>0, <2>2, <2>3, <2>4, JustLooks
  <1>3. CASE EnsureFind(c)
    <2>1. k.pc = "ensure" /\ UNCHANGED <<folder, item, list>>
      BY <1>0, <1>3 DEF EnsureFind
    <2>2. PICK pc \in {"ensure", "ensureCreate", "ensured", "write"} : Goes(c, pc)
      BY <1>3 DEF EnsureFind
    <2> QED
      BY <1>0, <2>1, <2>2, Advances
  <1>4. CASE EnsureCreate(c)
    <2>1. ~Seeding(k) /\ k.pc = "ensureCreate" /\ k.op # "idle" /\ UNCHANGED <<item, list>>
      BY <1>0, <1>1, <1>4 DEF EnsureCreate, Seeding
    <2>2. CASE NameTaken(DefaultName)
      BY <1>0, <1>4, <2>1, <2>2, Ends DEF EnsureCreate
    <2>3. CASE ~NameTaken(DefaultName)
      <3>1. PICK m : m = [k EXCEPT !.pc = "ensured"]
        OBVIOUS
      <3>2. m \in Clerk /\ m.pc = "ensured" /\ m.op = k.op /\ m.folder = k.folder /\ m.row = k.row /\ m.item = k.item
            /\ m.name = k.name /\ m.groups = k.groups /\ m.old = k.old
        BY <1>1, <3>1 DEF Clerk
      <3>3. StillSo(m) /\ ~Seeding(m)
        BY <1>1, <2>1, <3>2 DEF StillSo, Seeding
      <3>4. AddFolder(DefaultName, TRUE) /\ clerk' = [clerk EXCEPT ![c] = m]
        BY <1>0, <1>4, <2>3, <3>1 DEF EnsureCreate, Goes, CatalogueInv, CatalogueTypes
      <3>5. k.op # "deleteFolder"
        BY <1>1, <2>1 DEF StillSo
      <3> QED
        BY <1>0, <2>1, <2>3, <3>2, <3>3, <3>4, <3>5, FolderAdded, CatalogueAssumption
    <2> QED
      BY <2>2, <2>3
  <1>5. CASE FoldersListed(c)
    BY <1>0, <1>1, <1>5, Ends DEF FoldersListed, At, Seeding
  <1>6. CASE CreateFolderCheck(c)
    <2>1. PICK n \in FolderNames : Starts(c, [Idle EXCEPT !.op = "createFolder", !.pc = "write", !.name = n])
      BY <1>6 DEF CreateFolderCheck
    <2>2. PICK m : m = [Idle EXCEPT !.op = "createFolder", !.pc = "write", !.name = n]
      OBVIOUS
    <2>3. m \in Clerk /\ m.op = "createFolder" /\ m.pc = "write" /\ m.old = {} /\ m.name = n
      BY <2>2, IdleIs DEF Clerk
    <2>4. StillSo(m) /\ ~Seeding(m)
      BY <2>3 DEF StillSo, Seeding
    <2>5. clerk' = [clerk EXCEPT ![c] = m] /\ UNCHANGED <<folder, item, list>> /\ Free(c) /\ ~Seeding(k)
      BY <1>0, <1>1, <1>6, <2>1, <2>2 DEF CreateFolderCheck, Starts, Free, Seeding
    <2> QED
      BY <1>0, <2>3, <2>4, <2>5, JustLooks
  <1>7. CASE CreateFolder(c)
    <2>1. ~Seeding(k) /\ k.op = "createFolder" /\ Done(c) /\ UNCHANGED <<item, list>> /\ k.name \in FolderNames
      BY <1>0, <1>1, <1>7 DEF CreateFolder, At, Seeding, StillSo
    <2>2. CASE NameTaken(k.name)
      BY <1>0, <1>7, <2>1, <2>2, Ends DEF CreateFolder
    <2>3. CASE ~NameTaken(k.name)
      <3>1. AddFolder(k.name, FALSE)
        BY <1>0, <1>7, <2>3 DEF CreateFolder
      <3>2. StillSo(Idle) /\ ~Seeding(Idle)
        BY IdleIs DEF StillSo, Seeding
      <3> QED
        BY <1>0, <2>1, <2>3, <3>1, <3>2, IdleIs, FolderAdded DEF Done
    <2> QED
      BY <2>2, <2>3
  <1>8. CASE DeleteFolderCheck(c)
    <2>1. PICK f \in FolderRows : Deletable(f) /\ Starts(c, [Idle EXCEPT !.op = "deleteFolder", !.pc = "write", !.folder = f])
      BY <1>8 DEF DeleteFolderCheck
    <2>2. PICK m : m = [Idle EXCEPT !.op = "deleteFolder", !.pc = "write", !.folder = f]
      OBVIOUS
    <2>3. m \in Clerk /\ m.op = "deleteFolder" /\ m.pc = "write" /\ m.old = {} /\ m.folder = f /\ f \in Folders
      BY <2>2, IdleIs DEF Clerk, FolderRows
    <2>4. StillSo(m) /\ ~Seeding(m)
      BY <2>1, <2>3 DEF StillSo, Seeding
    <2>5. clerk' = [clerk EXCEPT ![c] = m] /\ UNCHANGED <<folder, item, list>> /\ Free(c) /\ ~Seeding(k)
      BY <1>0, <1>1, <1>8, <2>1, <2>2 DEF DeleteFolderCheck, Starts, Free, Seeding
    <2> QED
      BY <1>0, <2>3, <2>4, <2>5, JustLooks
  <1>9. CASE DeleteFolder(c)
    <2>1. PICK f \in Folders : f = k.folder
      BY <1>0, <1>1, <1>9 DEF DeleteFolder, At, StillSo
    <2>2. /\ ~Seeding(k) /\ k.op = "deleteFolder" /\ Done(c) /\ (calm => Deletable(f)) /\ UNCHANGED list
          /\ folder' = [folder EXCEPT ![f] = NoFolderRow]
          /\ item' = [i \in Items |-> IF item[i].folder = f THEN [item[i] EXCEPT !.folder = NoFolder] ELSE item[i]]
      BY <1>0, <1>1, <1>9, <2>1 DEF DeleteFolder, At, StillSo, Seeding
    <2>3. ASSUME NEW i \in Items
          PROVE  /\ item'[i] \in ItemRow /\ item'[i].state = item[i].state /\ item'[i].mark = item[i].mark /\ item'[i].by = item[i].by
                 /\ item'[i].folder = IF item[i].folder = f THEN NoFolder ELSE item[i].folder
      <3>1. PICK r \in ItemRow : r = item[i]
        BY DEF CatalogueInv, CatalogueTypes
      <3>2. item'[i] = IF r.folder = f THEN [r EXCEPT !.folder = NoFolder] ELSE r
        BY <2>2, <3>1
      <3> QED
        BY <3>1, <3>2 DEF ItemRow
    <2>4. folder' \in [Folders -> FolderRow] /\ item' \in [Items -> ItemRow]
      BY <2>2, <2>3, CatalogueAssumption DEF NoFolderRow, FolderRow, CatalogueInv, CatalogueTypes
    <2>5. FolderRows' = FolderRows \ {f} /\ \A g \in FolderRows' : folder'[g] = folder[g]
      BY <2>2 DEF FolderRows, NoFolderRow, CatalogueInv, CatalogueTypes
    <2>6. Live' = Live /\ Made' = Made
      BY <2>3 DEF Live, Made
    <2>7. ItemsKeepFolder'
      <3>1. \A i \in Items : item'[i].folder \in FolderRows' \cup {NoFolder}
        BY <2>3, <2>5 DEF CatalogueInv, ItemsKeepFolder
      <3>2. calm => \A i \in Live : item[i].by = "user" => item'[i].folder # NoFolder
        BY <2>2, <2>3 DEF CatalogueInv, ItemsKeepFolder, Deletable, Live
      <3> QED
        BY <2>2, <2>3, <2>5, <2>6, <3>1, <3>2 DEF CatalogueInv, ItemsKeepFolder, ListRows, Live
    <2>8. StillSo(Idle) /\ ~Seeding(Idle)
      BY IdleIs DEF StillSo, Seeding
    <2>9. SeedsCounted'
      BY <1>0, <2>2, <2>3, <2>6, <2>8, NothingSeeded DEF NoneGone, Done
    <2>10. Marked'
      BY <2>3 DEF CatalogueInv, Marked
    <2> QED
      BY <1>0, <2>2, <2>3, <2>4, <2>7, <2>8, <2>9, <2>10, IdleIs, ClerkWrites DEF Done, CatalogueInv, CatalogueTypes
  <1> QED
    BY <1>2, <1>3, <1>4, <1>5, <1>6, <1>7, <1>8, <1>9 DEF FolderStep

(* ... items,                                                              *)
LEMMA ItemSteps ==
    ASSUME CatalogueInv, NEW c \in Clerks, ItemStep(c), UNCHANGED calm
    PROVE  CatalogueInv'
  <1>0. PICK k : k = clerk[c]
    OBVIOUS
  <1>1. k \in Clerk /\ StillSo(k) /\ (k.pc = "idle" <=> k.op = "idle") /\ (Seeding(k) => k.op = "seed")
    BY <1>0 DEF CatalogueInv, CatalogueTypes
  <1>2. StillSo(Idle) /\ ~Seeding(Idle)
    BY IdleIs DEF StillSo, Seeding
  <1>3. CASE CreateItem(c)
    <2>1. PICK p \in Products, f \in FolderRows \cup {NoFolder}, mk \in Marks, apple \in BOOLEAN :
            Starts(c, [Idle EXCEPT !.op = "createItem", !.pc = "ensure", !.folder = f,
                         !.row = [NoItemRow EXCEPT !.state = "live", !.product = p, !.active = TRUE, !.mark = mk,
                                                   !.apple = apple, !.by = "user"]])
      BY <1>3 DEF CreateItem
    <2>2. PICK row : row = [NoItemRow EXCEPT !.state = "live", !.product = p, !.active = TRUE, !.mark = mk, !.apple = apple, !.by = "user"]
      OBVIOUS
    <2>3. row \in ItemRow /\ row.by = "user"
      BY <2>2 DEF NoItemRow, ItemRow
    <2>4. PICK m : m = [Idle EXCEPT !.op = "createItem", !.pc = "ensure", !.folder = f, !.row = row]
      OBVIOUS
    <2>5. m \in Clerk /\ m.op = "createItem" /\ m.pc = "ensure" /\ m.old = {} /\ m.row = row
      BY <2>3, <2>4, IdleIs DEF Clerk, FolderRows
    <2>6. StillSo(m) /\ ~Seeding(m)
      BY <2>3, <2>5 DEF StillSo, Seeding
    <2>7. clerk' = [clerk EXCEPT ![c] = m] /\ UNCHANGED <<folder, item, list>> /\ Free(c) /\ ~Seeding(k)
      BY <1>0, <1>1, <1>3, <2>1, <2>2, <2>4 DEF CreateItem, Starts, Free, Seeding
    <2> QED
      BY <1>0, <2>5, <2>6, <2>7, JustLooks
  <1>4. CASE CreateItemFolder(c)
    <2>1. k.op = "createItem" /\ k.pc = "ensured" /\ ~Seeding(k) /\ UNCHANGED <<folder, item, list>>
      BY <1>0, <1>4 DEF CreateItemFolder, At, Seeding
    <2>2. CASE Done(c)
      BY <1>0, <2>1, <2>2, Ends
    <2>3. CASE Goes(c, "write")
      BY <1>0, <2>1, <2>3, Advances
    <2>4. ASSUME NEW f \in DefaultFolder, clerk' = [clerk EXCEPT ![c].folder = f, ![c].pc = "write"]
          PROVE  CatalogueInv'
      <3>1. PICK m : m = [k EXCEPT !.folder = f, !.pc = "write"]
        OBVIOUS
      <3>2. m \in Clerk /\ m.op = "createItem" /\ m.pc = "write" /\ m.old = k.old /\ m.row = k.row
        BY <1>1, <2>1, <3>1 DEF Clerk, DefaultFolder, FolderRows
      <3>3. StillSo(m) /\ ~Seeding(m)
        BY <1>1, <2>1, <3>2 DEF StillSo, Seeding
      <3>4. clerk' = [clerk EXCEPT ![c] = m]
        BY <1>0, <2>4, <3>1 DEF CatalogueInv, CatalogueTypes, Clerk
      <3> QED
        BY <1>0, <2>1, <3>2, <3>3, <3>4, JustLooks
    <2> QED
      BY <1>4, <2>2, <2>3, <2>4 DEF CreateItemFolder
  <1>5. CASE CreateItemInsert(c)
    <2>1. k.op = "createItem" /\ k.pc = "write" /\ ~Seeding(k) /\ UNCHANGED <<folder, list>> /\ Done(c) /\ InsertItem(c)
      BY <1>0, <1>5 DEF CreateItemInsert, At, Seeding
    <2>2. CASE UNCHANGED item
      BY <1>0, <2>1, <2>2, Ends
    <2>3. CASE item' # item
      <3>1. PICK j \in FreeItems : item' = [item EXCEPT ![j] = [k.row EXCEPT !.folder = k.folder]]
        <4>1. (CHOOSE i \in FreeItems : TRUE) \in FreeItems
          BY <2>1, <2>3 DEF InsertItem
        <4> QED
          BY <1>0, <2>1, <2>3, <4>1 DEF InsertItem
      <3>2. k.folder \in FolderRows /\ k.folder \in Folders /\ k.row \in ItemRow /\ k.row.by = "user"
        BY <1>0, <1>1, <2>1, <2>3 DEF InsertItem, FolderRows, StillSo, Clerk
      <3>3. PICK row : row = [k.row EXCEPT !.folder = k.folder]
        OBVIOUS
      <3>4. row \in ItemRow /\ row.by = "user" /\ row.folder = k.folder /\ k.folder # NoFolder
        <4>1. PICK r \in ItemRow, f \in Folders : r = k.row /\ f = k.folder
          BY <3>2
        <4> QED
          BY <3>2, <3>3, <4>1, CatalogueAssumption DEF ItemRow
      <3>5. item' \in [Items -> ItemRow] /\ item'[j] = row /\ j \in Items /\ item[j].state = "none"
            /\ \A i \in Items \ {j} : item'[i] = item[i]
        BY <3>1, <3>3, <3>4 DEF FreeItems, CatalogueInv, CatalogueTypes
      <3>6. FolderRows' = FolderRows /\ ListRows' = ListRows
        BY <2>1 DEF FolderRows, ListRows
      <3>7. ItemsKeepFolder'
        BY <2>1, <3>2, <3>4, <3>5, <3>6 DEF CatalogueInv, ItemsKeepFolder, Live
      <3>8. NoneGone' => NoneGone
        BY <3>5 DEF NoneGone
      <3>9. Made' = Made
        BY <3>4, <3>5 DEF Made, Live
      <3>10. SeedsCounted'
        BY <1>0, <1>2, <2>1, <3>8, <3>9, NothingSeeded DEF Done
      <3>11. Marked'
        BY <3>4, <3>5 DEF CatalogueInv, Marked
      <3> QED
        BY <1>0, <1>2, <2>1, <3>5, <3>7, <3>10, <3>11, IdleIs, ClerkWrites DEF Done, CatalogueInv, CatalogueTypes
    <2> QED
      BY <2>2, <2>3
  <1>6. CASE UpdateItemCheck(c)
    <2>1. PICK i \in Live, p \in Products, a \in BOOLEAN, given \in BOOLEAN, apple \in BOOLEAN :
            Starts(c, [Idle EXCEPT !.op = "updateItem", !.pc = "write", !.item = i, !.fields = Changed(item[i], p, a, given),
                         !.row = [item[i] EXCEPT !.product = p, !.active = a, !.apple = apple]])
      BY <1>6 DEF UpdateItemCheck
    <2>2. PICK row, fields : row = [item[i] EXCEPT !.product = p, !.active = a, !.apple = apple]
                             /\ fields = Changed(item[i], p, a, given)
      OBVIOUS
    <2>3. i \in Items /\ row \in ItemRow /\ fields \subseteq {"product", "active", "apple"}
      <3>1. PICK r \in ItemRow : r = item[i] /\ i \in Items
        BY DEF CatalogueInv, CatalogueTypes, Live
      <3> QED
        BY <2>2, <3>1 DEF Changed, ItemRow
    <2>4. PICK m : m = [Idle EXCEPT !.op = "updateItem", !.pc = "write", !.item = i, !.fields = fields, !.row = row]
      OBVIOUS
    <2>5. m \in Clerk /\ m.op = "updateItem" /\ m.pc = "write" /\ m.old = {} /\ m.item = i
      BY <2>3, <2>4, IdleIs DEF Clerk
    <2>6. StillSo(m) /\ ~Seeding(m)
      BY <2>3, <2>5 DEF StillSo, Seeding
    <2>7. clerk' = [clerk EXCEPT ![c] = m] /\ UNCHANGED <<folder, item, list>> /\ Free(c) /\ ~Seeding(k)
      BY <1>0, <1>1, <1>6, <2>1, <2>2, <2>4 DEF UpdateItemCheck, Starts, Free, Seeding
    <2> QED
      BY <1>0, <2>5, <2>6, <2>7, JustLooks
  <1>7. ASSUME NEW i \in Items, NEW row \in ItemRow, item' = [item EXCEPT ![i] = row], k.op # "idle", ~Seeding(k), Done(c),
               UNCHANGED <<folder, list>>, row.folder = item[i].folder, row.mark = item[i].mark, row.by = item[i].by,
               row.state \in {item[i].state, "deleted"}
        PROVE  CatalogueInv'
    <2>1. item' \in [Items -> ItemRow] /\ item'[i] = row /\ \A j \in Items \ {i} : item'[j] = item[j]
      BY <1>7 DEF CatalogueInv, CatalogueTypes
    <2>2. FolderRows' = FolderRows /\ ListRows' = ListRows /\ Live' \subseteq Live
      BY <1>7, <2>1 DEF FolderRows, ListRows, Live
    <2>3. ItemsKeepFolder'
      BY <1>7, <2>1, <2>2 DEF CatalogueInv, ItemsKeepFolder
    <2>4. NoneGone' => NoneGone /\ Made' = Made
      BY <1>7, <2>1 DEF NoneGone, Made, Live
    <2>5. SeedsCounted'
      BY <1>0, <1>2, <1>7, <2>4, NothingSeeded DEF Done
    <2> QED
      BY <1>0, <1>2, <1>7, <2>1, <2>3, <2>5, IdleIs, ClerkWrites DEF Done, CatalogueInv, CatalogueTypes, Marked
  <1>8. CASE UpdateItem(c)
    <2>1. PICK i \in Items : i = k.item
      BY <1>0, <1>1, <1>8 DEF UpdateItem, At, StillSo
    <2>2. k.op = "updateItem" /\ ~Seeding(k) /\ Done(c) /\ UNCHANGED <<folder, list>>
      BY <1>0, <1>8 DEF UpdateItem, At, Seeding
    <2>3. PICK r \in ItemRow, n \in ItemRow, fs \in SUBSET {"product", "active", "apple"} : r = item[i] /\ n = k.row /\ fs = k.fields
      BY <1>1 DEF CatalogueInv, CatalogueTypes, Clerk
    <2>4. item' = [item EXCEPT ![i] = [x \in DOMAIN r |-> IF x \in fs THEN n[x] ELSE r[x]]]
      BY <1>0, <1>8, <2>1, <2>3 DEF UpdateItem
    <2>5. PICK row : row = [r EXCEPT !.product = IF "product" \in fs THEN n.product ELSE r.product,
                                     !.active = IF "active" \in fs THEN n.active ELSE r.active,
                                     !.apple = IF "apple" \in fs THEN n.apple ELSE r.apple]
      OBVIOUS
    <2>6. row = [x \in DOMAIN r |-> IF x \in fs THEN n[x] ELSE r[x]]
      BY <2>5 DEF ItemRow
    <2>7. row \in ItemRow /\ row.folder = r.folder /\ row.mark = r.mark /\ row.by = r.by /\ row.state = r.state
      BY <2>5 DEF ItemRow
    <2> QED
      BY <1>7, <2>2, <2>3, <2>4, <2>6, <2>7
  <1>9. CASE DeleteItemCheck(c)
    <2>1. PICK i \in Live : Starts(c, [Idle EXCEPT !.op = "deleteItem", !.pc = "write", !.item = i])
      BY <1>9 DEF DeleteItemCheck
    <2>2. PICK m : m = [Idle EXCEPT !.op = "deleteItem", !.pc = "write", !.item = i]
      OBVIOUS
    <2>3. m \in Clerk /\ m.op = "deleteItem" /\ m.pc = "write" /\ m.old = {} /\ m.item = i /\ i \in Items
      BY <2>2, IdleIs DEF Clerk, Live
    <2>4. StillSo(m) /\ ~Seeding(m)
      BY <2>3 DEF StillSo, Seeding
    <2>5. clerk' = [clerk EXCEPT ![c] = m] /\ UNCHANGED <<folder, item, list>> /\ Free(c) /\ ~Seeding(k)
      BY <1>0, <1>1, <1>9, <2>1, <2>2 DEF DeleteItemCheck, Starts, Free, Seeding
    <2> QED
      BY <1>0, <2>3, <2>4, <2>5, JustLooks
  <1>10. CASE DeleteItem(c)
    <2>1. PICK i \in Items : i = k.item
      BY <1>0, <1>1, <1>10 DEF DeleteItem, At, StillSo
    <2>2. k.op = "deleteItem" /\ ~Seeding(k) /\ Done(c) /\ UNCHANGED <<folder, list>>
      BY <1>0, <1>10 DEF DeleteItem, At, Seeding
    <2>3. PICK r \in ItemRow : r = item[i]
      BY DEF CatalogueInv, CatalogueTypes
    <2>4. PICK row : row = [r EXCEPT !.state = "deleted"]
      OBVIOUS
    <2>5. row \in ItemRow /\ row.folder = r.folder /\ row.mark = r.mark /\ row.by = r.by /\ row.state = "deleted"
      BY <2>4 DEF ItemRow
    <2>6. item' = [item EXCEPT ![i] = row]
      BY <1>0, <1>10, <2>1, <2>3, <2>4 DEF DeleteItem, CatalogueInv, CatalogueTypes
    <2> QED
      BY <1>7, <2>2, <2>3, <2>5, <2>6
  <1> QED
    BY <1>3, <1>4, <1>5, <1>6, <1>8, <1>9, <1>10 DEF ItemStep

(* ... and price lists.                                                    *)
LEMMA ListWritten ==
    ASSUME CatalogueInv, NEW c \in Clerks, NEW l \in Lists, NEW row \in ListRow, list' = [list EXCEPT ![l] = row], Done(c),
           UNCHANGED <<folder, item, calm>>, clerk[c].op # "idle", ~Seeding(clerk[c]),
           row.exists => DOMAIN row.price # {} /\ \A m \in ListRows \ {l} : list[m].name # row.name
    PROVE  CatalogueInv'
  <1>1. list' \in [Lists -> ListRow] /\ list'[l] = row /\ \A m \in Lists \ {l} : list'[m] = list[m]
    BY DEF CatalogueInv, CatalogueTypes
  <1>2. ItemsKeepFolder'
    BY <1>1 DEF CatalogueInv, ItemsKeepFolder, FolderRows, ListRows, Live
  <1>3. StillSo(Idle) /\ ~Seeding(Idle)
    BY IdleIs DEF StillSo, Seeding
  <1>4. SeedsCounted'
    BY <1>3, NothingSeeded DEF Done, NoneGone, Made, Live
  <1> QED
    BY <1>1, <1>2, <1>3, <1>4, IdleIs, ClerkWrites DEF Done, CatalogueInv, CatalogueTypes, Marked

LEMMA ListSteps ==
    ASSUME CatalogueInv, NEW c \in Clerks, ListStep(c), UNCHANGED calm
    PROVE  CatalogueInv'
  <1>0. PICK k : k = clerk[c]
    OBVIOUS
  <1>1. k \in Clerk /\ StillSo(k) /\ (k.pc = "idle" <=> k.op = "idle") /\ (Seeding(k) => k.op = "seed")
    BY <1>0 DEF CatalogueInv, CatalogueTypes
  <1>2. CASE CreateListCheck(c)
    <2>1. PICK n \in ListNames, is \in Selections :
            /\ Active(is) # {}
            /\ Starts(c, [Idle EXCEPT !.op = "createList", !.pc = "write", !.name = n,
                            !.groups = {GroupOf[item[i].product] : i \in Active(is)}])
      BY <1>2 DEF CreateListCheck
    <2>2. PICK gs : gs = {GroupOf[item[i].product] : i \in Active(is)}
      OBVIOUS
    <2>3. gs # {} /\ gs \subseteq Groups
      <3>1. is \subseteq Items
        BY DEF Selections, Live
      <3>2. \A i \in Active(is) : item[i].product \in Products
        BY <3>1 DEF Active, CatalogueInv, CatalogueTypes, ItemRow
      <3> QED
        BY <2>1, <2>2, <3>2 DEF Groups
    <2>4. PICK m : m = [Idle EXCEPT !.op = "createList", !.pc = "write", !.name = n, !.groups = gs]
      OBVIOUS
    <2>5. m \in Clerk /\ m.op = "createList" /\ m.pc = "write" /\ m.old = {} /\ m.name = n /\ m.groups = gs
      BY <2>3, <2>4, IdleIs DEF Clerk
    <2>6. StillSo(m) /\ ~Seeding(m)
      BY <2>3, <2>5 DEF StillSo, Seeding
    <2>7. clerk' = [clerk EXCEPT ![c] = m] /\ UNCHANGED <<folder, item, list>> /\ Free(c) /\ ~Seeding(k)
      BY <1>0, <1>1, <1>2, <2>1, <2>2, <2>4 DEF CreateListCheck, Starts, Free, Seeding
    <2> QED
      BY <1>0, <2>5, <2>6, <2>7, JustLooks
  <1>3. CASE CreateList(c)
    <2>1. k.op = "createList" /\ ~Seeding(k) /\ Done(c) /\ UNCHANGED <<folder, item>> /\ k.name \in ListNames
          /\ k.groups # {} /\ k.groups \subseteq Groups
      BY <1>0, <1>1, <1>3 DEF CreateList, At, Seeding, StillSo, Clerk
    <2>2. CASE UNCHANGED list
      BY <1>0, <2>1, <2>2, Ends
    <2>3. CASE list' # list
      <3>1. PICK l \in Lists \ ListRows : list' = [list EXCEPT ![l] = [exists |-> TRUE, name |-> k.name,
                                                                       price |-> [g \in k.groups |-> NoPrice]]]
        BY <1>0, <1>3, <2>3 DEF CreateList
      <3>2. \A m \in ListRows : list[m].name # k.name
        BY <1>0, <1>3, <2>3 DEF CreateList
      <3>3. PICK price : price = [g \in k.groups |-> NoPrice]
        OBVIOUS
      <3>4. price \in PriceLines /\ DOMAIN price # {}
        <4>1. price \in [k.groups -> Prices \cup {NoPrice}] /\ DOMAIN price = k.groups
          BY <3>3
        <4> QED
          BY <2>1, <4>1 DEF PriceLines
      <3>5. PICK row : row = [exists |-> TRUE, name |-> k.name, price |-> price]
        OBVIOUS
      <3>6. row \in ListRow /\ row.name = k.name /\ row.price = price
        BY <2>1, <3>4, <3>5 DEF ListRow
      <3> QED
        BY <1>0, <2>1, <3>1, <3>2, <3>3, <3>4, <3>5, <3>6, ListWritten
    <2> QED
      BY <2>2, <2>3
  <1>4. CASE PricesCheck(c)
    <2>0. PICK l \in ListRows : \E gs \in SUBSET DOMAIN list[l].price : \E ps \in [gs -> Prices \cup {NoPrice}] :
            Starts(c, [Idle EXCEPT !.op = "prices", !.pc = "write", !.list = l, !.prices = ps])
      BY <1>4 DEF PricesCheck
    <2>1. PICK gs \in SUBSET DOMAIN list[l].price : \E ps \in [gs -> Prices \cup {NoPrice}] :
            Starts(c, [Idle EXCEPT !.op = "prices", !.pc = "write", !.list = l, !.prices = ps])
      BY <2>0
    <2>7. PICK ps \in [gs -> Prices \cup {NoPrice}] : Starts(c, [Idle EXCEPT !.op = "prices", !.pc = "write", !.list = l, !.prices = ps])
      BY <2>1
    <2>2. l \in Lists /\ ps \in PriceLines
      <3>1. list[l].price \in PriceLines
        BY DEF ListRows, CatalogueInv, CatalogueTypes, ListRow
      <3>2. DOMAIN list[l].price \subseteq Groups
        BY <3>1 DEF PriceLines
      <3> QED
        BY <3>2 DEF ListRows, PriceLines
    <2>3. PICK m : m = [Idle EXCEPT !.op = "prices", !.pc = "write", !.list = l, !.prices = ps]
      OBVIOUS
    <2>4. m \in Clerk /\ m.op = "prices" /\ m.pc = "write" /\ m.old = {}
      BY <2>2, <2>3, IdleIs DEF Clerk
    <2>5. StillSo(m) /\ ~Seeding(m)
      BY <2>4 DEF StillSo, Seeding
    <2>6. clerk' = [clerk EXCEPT ![c] = m] /\ UNCHANGED <<folder, item, list>> /\ Free(c) /\ ~Seeding(k)
      BY <1>0, <1>1, <1>4, <2>7, <2>3 DEF PricesCheck, Starts, Free, Seeding
    <2> QED
      BY <1>0, <2>4, <2>5, <2>6, JustLooks
  <1>5. CASE UpdatePrices(c)
    <2>1. k.op = "prices" /\ ~Seeding(k) /\ Done(c) /\ UNCHANGED <<folder, item>>
      BY <1>0, <1>5 DEF UpdatePrices, At, Seeding
    <2>0. PICK l : l = k.list
      OBVIOUS
    <2>2. PICK ps \in PriceLines : l = k.list /\ ps = k.prices
      BY <1>1, <2>0 DEF Clerk
    <2>3. CASE ~(l \in ListRows /\ DOMAIN ps \subseteq DOMAIN list[l].price)
      BY <1>0, <1>5, <2>1, <2>2, <2>3, Ends DEF UpdatePrices
    <2>4. CASE l \in ListRows /\ DOMAIN ps \subseteq DOMAIN list[l].price
      <3>1. PICK r \in ListRow : r = list[l] /\ l \in Lists
        BY <2>4 DEF ListRows, CatalogueInv, CatalogueTypes
      <3>2. PICK price : price = [g \in DOMAIN r.price |-> IF g \in DOMAIN ps THEN ps[g] ELSE r.price[g]]
        OBVIOUS
      <3>3. PICK row : row = [r EXCEPT !.price = price]
        OBVIOUS
      <3>4. list' = [list EXCEPT ![l] = row]
        BY <1>0, <1>5, <2>2, <2>4, <3>1, <3>2, <3>3 DEF UpdatePrices, ListRow
      <3>5. r.price \in PriceLines /\ DOMAIN r.price # {} /\ r.exists
        BY <2>4, <3>1 DEF ListRow, ListRows, CatalogueInv, ItemsKeepFolder
      <3>6. price \in PriceLines /\ DOMAIN price = DOMAIN r.price
        <4>1. PICK gs \in SUBSET Groups : r.price \in [gs -> Prices \cup {NoPrice}]
          BY <3>5 DEF PriceLines
        <4>2. PICK hs \in SUBSET Groups : ps \in [hs -> Prices \cup {NoPrice}]
          BY DEF PriceLines
        <4>3. price \in [gs -> Prices \cup {NoPrice}]
          BY <3>2, <4>1, <4>2
        <4> QED
          BY <3>2, <4>3 DEF PriceLines
      <3>7. row \in ListRow /\ row.price = price /\ row.name = r.name
        BY <3>3, <3>6 DEF ListRow
      <3>8. \A m \in ListRows \ {l} : list[m].name # row.name
        BY <2>4, <3>1, <3>7 DEF CatalogueInv, ItemsKeepFolder
      <3> QED
        BY <1>0, <2>1, <3>1, <3>4, <3>5, <3>6, <3>7, <3>8, ListWritten
    <2> QED
      BY <2>3, <2>4
  <1>6. CASE DeleteListCheck(c)
    <2>1. PICK l \in ListRows : Starts(c, [Idle EXCEPT !.op = "deleteList", !.pc = "write", !.list = l])
      BY <1>6 DEF DeleteListCheck
    <2>2. PICK m : m = [Idle EXCEPT !.op = "deleteList", !.pc = "write", !.list = l]
      OBVIOUS
    <2>3. m \in Clerk /\ m.op = "deleteList" /\ m.pc = "write" /\ m.old = {}
      BY <2>2, IdleIs DEF Clerk, ListRows
    <2>4. StillSo(m) /\ ~Seeding(m)
      BY <2>3 DEF StillSo, Seeding
    <2>5. clerk' = [clerk EXCEPT ![c] = m] /\ UNCHANGED <<folder, item, list>> /\ Free(c) /\ ~Seeding(k)
      BY <1>0, <1>1, <1>6, <2>1, <2>2 DEF DeleteListCheck, Starts, Free, Seeding
    <2> QED
      BY <1>0, <2>3, <2>4, <2>5, JustLooks
  <1>7. CASE DeleteList(c)
    <2>1. k.op = "deleteList" /\ ~Seeding(k) /\ Done(c) /\ UNCHANGED <<folder, item>> /\ list' = [list EXCEPT ![k.list] = NoListRow]
      BY <1>0, <1>7 DEF DeleteList, At, Seeding
    <2>2. NoListRow \in ListRow /\ NoListRow.exists = FALSE
      <3>1. <<>> \in [{} -> Prices \cup {NoPrice}]
        OBVIOUS
      <3>2. <<>> \in PriceLines
        BY <3>1 DEF PriceLines
      <3> QED
        BY <3>2, CatalogueAssumption DEF NoListRow, ListRow
    <2>3. CASE k.list \in Lists
      BY <1>0, <2>1, <2>2, <2>3, ListWritten
    <2>4. CASE k.list \notin Lists
      <3>1. UNCHANGED list
        BY <2>1, <2>4 DEF CatalogueInv, CatalogueTypes
      <3> QED
        BY <1>0, <2>1, <3>1, Ends
    <2> QED
      BY <2>3, <2>4
  <1> QED
    BY <1>2, <1>3, <1>4, <1>5, <1>6, <1>7 DEF ListStep

(* The seeder.  Portion by portion the catalogue grows,                    *)
LEMMA Portions ==
    /\ Before(1) = {} /\ IsFiniteSet(Products)
    /\ \A b \in DOMAIN Batches :
          /\ b \in Nat /\ Batches[b] \subseteq Products /\ IsFiniteSet(Batches[b])
          /\ Cardinality(Before(b + 1)) = Cardinality(Before(b)) + Cardinality(Batches[b])
          /\ Cardinality(Batches[b]) \in Nat /\ Cardinality(Before(b)) \in Nat
          /\ IF b = Len(Batches) THEN Before(b + 1) = Products ELSE b + 1 \in DOMAIN Batches
  <1>1. DOMAIN Batches = 1 .. Len(Batches) /\ Len(Batches) \in Nat /\ \A b \in DOMAIN Batches : Batches[b] \subseteq Products
    BY CatalogueAssumption
  <1>2. Before(1) = {}
    BY <1>1 DEF Before
  <1>3. ASSUME NEW b \in DOMAIN Batches
        PROVE  /\ b \in Nat /\ Batches[b] \subseteq Products /\ IsFiniteSet(Batches[b])
               /\ Cardinality(Before(b + 1)) = Cardinality(Before(b)) + Cardinality(Batches[b])
               /\ Cardinality(Batches[b]) \in Nat /\ Cardinality(Before(b)) \in Nat
               /\ IF b = Len(Batches) THEN Before(b + 1) = Products ELSE b + 1 \in DOMAIN Batches
    <2>1. b \in Nat /\ Batches[b] \subseteq Products /\ b <= Len(Batches)
      BY <1>1
    <2>2. Before(b) \subseteq Products
      BY <1>1 DEF Before
    <2>3. {a \in DOMAIN Batches : a < b + 1} = {a \in DOMAIN Batches : a < b} \cup {b}
      BY <1>1
    <2>4. Before(b + 1) = Before(b) \cup Batches[b]
      BY <2>3 DEF Before
    <2>5. Before(b) \cap Batches[b] = {}
      <3>1. \A a \in DOMAIN Batches : a < b => Batches[a] \cap Batches[b] = {}
        BY <1>1, <2>1, CatalogueAssumption
      <3> QED
        BY <3>1 DEF Before
    <2>6. IsFiniteSet(Batches[b]) /\ IsFiniteSet(Before(b)) /\ IsFiniteSet(Products)
      BY <2>1, <2>2, FS_Subset, CatalogueAssumption
    <2>7. Cardinality(Batches[b]) \in Nat /\ Cardinality(Before(b)) \in Nat
      BY <2>6, FS_CardinalityType
    <2>8. Cardinality(Before(b + 1)) = Cardinality(Before(b)) + Cardinality(Batches[b])
      <3>1. Cardinality(Before(b) \cup Batches[b]) = Cardinality(Before(b)) + Cardinality(Batches[b]) - Cardinality(Before(b) \cap Batches[b])
        BY <2>6, FS_Union
      <3>2. Cardinality(Before(b) \cap Batches[b]) = 0
        BY <2>5, FS_EmptySet
      <3>3. PICK x \in Nat, y \in Nat : x = Cardinality(Before(b)) /\ y = Cardinality(Batches[b])
        BY <2>7
      <3>4. Cardinality(Before(b) \cup Batches[b]) = x + y - 0
        BY <3>1, <3>2, <3>3
      <3>5. x + y - 0 = x + y
        OBVIOUS
      <3> QED
        BY <2>4, <3>3, <3>4, <3>5
    <2>9. b = Len(Batches) => Before(b + 1) = Products
      <3> SUFFICES ASSUME b = Len(Batches), NEW p \in Products
                   PROVE  p \in Before(b + 1)
        BY <2>1, <2>2, <2>4
      <3>1. PICK a \in DOMAIN Batches : p \in Batches[a]
        BY CatalogueAssumption
      <3>2. a < b + 1
        BY <1>1, <3>1
      <3> QED
        BY <3>1, <3>2 DEF Before
    <2>10. b # Len(Batches) => b + 1 \in DOMAIN Batches
      BY <1>1, <2>1
    <2> QED
      BY <2>1, <2>6, <2>7, <2>8, <2>9, <2>10
  <1> QED
    BY <1>2, <1>3, CatalogueAssumption

(* with a row of its own for each product.                                 *)
LEMMA RowsFor ==
    ASSUME NEW b \in SUBSET Products, NEW free \in SUBSET Items, Cardinality(free) >= Cardinality(b)
    PROVE  \E f \in [b -> free] : \A p, q \in b : p # q => f[p] # f[q]
  <1>1. IsFiniteSet(b) /\ IsFiniteSet(free)
    BY FS_Subset, CatalogueAssumption
  <1>2. PICK m \in Nat, n \in Nat : m = Cardinality(b) /\ n = Cardinality(free)
    BY <1>1, FS_CardinalityType
  <1>3. ExistsBijection(1 .. m, b) /\ ExistsBijection(1 .. n, free)
    BY <1>1, <1>2, FS_CardinalityType
  <1>4. ExistsInjection(b, 1 .. m) /\ ExistsInjection(1 .. n, free)
    BY <1>3, Fun_ExistsBijEquiv
  <1>5. ExistsInjection(1 .. m, 1 .. n)
    BY <1>2, Fun_NatInjLeq
  <1>6. ExistsInjection(b, free)
    <2>1. ExistsInjection(b, 1 .. n)
      BY <1>4, <1>5, Fun_ExistsInjTransitive
    <2> QED
      BY <1>4, <2>1, Fun_ExistsInjTransitive
  <1>7. PICK f \in Injection(b, free) : TRUE
    BY <1>6, Fun_ExistsInj
  <1> QED
    BY <1>7, Fun_InjectionProperties

LEMMA RowsCounted ==
    ASSUME NEW b \in SUBSET Products, NEW free \in SUBSET Items, NEW f \in [b -> free], \A p, q \in b : p # q => f[p] # f[q],
           NEW before \in SUBSET Items, before \cap free = {}
    PROVE  Cardinality(before \cup {f[p] : p \in b}) = Cardinality(before) + Cardinality(b)
  <1>1. PICK new : new = {f[p] : p \in b}
    OBVIOUS
  <1>2. IsFiniteSet(b) /\ IsFiniteSet(before) /\ IsFiniteSet(new)
    BY <1>1, FS_Subset, CatalogueAssumption
  <1>3. f \in [b -> new] /\ \A i \in new : \E p \in b : f[p] = i
    BY <1>1
  <1>4. f \in Surjection(b, new) /\ f \in Injection(b, new)
    <2>1. \A p, q \in b : f[p] = f[q] => p = q
      OBVIOUS
    <2>2. f \in Injection(b, new)
      BY <1>3, <2>1, Fun_IsInj
    <2>3. f \in Surjection(b, new)
      BY <1>3, Fun_IsSurj
    <2> QED
      BY <2>2, <2>3
  <1>5. Cardinality(new) = Cardinality(b)
    BY <1>2, <1>4, FS_Surjection
  <1>6. before \cap new = {}
    BY <1>1
  <1>7. Cardinality(before \cup new) = Cardinality(before) + Cardinality(new) - Cardinality(before \cap new)
    BY <1>2, FS_Union
  <1>8. Cardinality(before \cap new) = 0 /\ Cardinality(before) \in Nat /\ Cardinality(new) \in Nat
    BY <1>2, <1>6, FS_EmptySet, FS_CardinalityType
  <1> QED
    BY <1>1, <1>5, <1>7, <1>8

LEMMA SeedSteps ==
    ASSUME CatalogueInv, NEW c \in Clerks, SeedStep(c), UNCHANGED calm
    PROVE  CatalogueInv'
  <1>0. PICK k : k = clerk[c]
    OBVIOUS
  <1>1. k \in Clerk /\ StillSo(k) /\ (k.pc = "idle" <=> k.op = "idle") /\ (Seeding(k) => k.op = "seed")
    BY <1>0 DEF CatalogueInv, CatalogueTypes
  <1>2. calm /\ k.op # "idle" => \A d \in Clerks \ {c} : ~Seeding(clerk[d]) /\ clerk[d].op = "idle"
    BY <1>0 DEF CatalogueInv, AloneInCalm, Seeding
  <1>3. CASE SeedDefault(c) \/ Reseed(c)
    <2>1. PICK m : m = [Idle EXCEPT !.op = "seed", !.pc = "count"]
      OBVIOUS
    <2>2. m \in Clerk /\ m.op = "seed" /\ m.pc = "count" /\ m.old = {}
      BY <2>1, IdleIs DEF Clerk
    <2>3. StillSo(m) /\ ~Seeding(m)
      BY <2>2 DEF StillSo, Seeding
    <2>4. clerk' = [clerk EXCEPT ![c] = m] /\ UNCHANGED <<folder, item, list>> /\ Free(c) /\ ~Seeding(k)
      BY <1>0, <1>1, <1>3, <2>1 DEF SeedDefault, Reseed, Starts, Free, Seeding
    <2> QED
      BY <1>0, <2>2, <2>3, <2>4, JustLooks
  <1>4. CASE SeedCount(c)
    <2>1. k.op = "seed" /\ k.pc = "count" /\ ~Seeding(k) /\ UNCHANGED <<folder, item, list>>
      BY <1>0, <1>4 DEF SeedCount, At, Seeding
    <2>2. CASE AlreadySeeded
      BY <1>0, <1>4, <2>1, <2>2, Ends DEF SeedCount
    <2>3. CASE ~AlreadySeeded
      <3>1. PICK m : m = [k EXCEPT !.pc = "legacy"]
        OBVIOUS
      <3>2. m \in Clerk /\ m.op = "seed" /\ m.pc = "legacy" /\ m.old = k.old
        BY <1>1, <2>1, <3>1 DEF Clerk
      <3>3. StillSo(m)
        BY <1>1, <3>2 DEF StillSo
      <3>4. clerk' = [clerk EXCEPT ![c] = m]
        BY <1>0, <1>4, <2>3, <3>1 DEF SeedCount, Goes, CatalogueInv, CatalogueTypes
      <3>5. clerk'[c] = m /\ \A d \in Clerks \ {c} : clerk'[d] = clerk[d]
        BY <3>4 DEF CatalogueInv, CatalogueTypes
      <3>6. Cardinality(Made) # Cardinality(Products)
        <4>1. PICK n \in Nat : n = Cardinality(Products)
          BY Portions, FS_CardinalityType
        <4>2. Made \subseteq FromSeeder /\ FromSeeder \subseteq Items
          BY DEF Made, FromSeeder, Live, CatalogueInv, Marked
        <4>3. IsFiniteSet(FromSeeder) /\ Cardinality(Made) <= Cardinality(FromSeeder)
          BY <4>2, FS_Subset, CatalogueAssumption
        <4>4. PICK seen \in Nat, k2 \in Nat : seen = Cardinality(Made) /\ k2 = Cardinality(FromSeeder)
          BY <4>2, <4>3, FS_Subset, FS_CardinalityType
        <4>5. seen <= k2 /\ ~(k2 * 10 >= n * 9)
          BY <2>3, <4>1, <4>3, <4>4 DEF AlreadySeeded
        <4> QED
          BY <4>1, <4>4, <4>5
      <3>7. calm /\ NoneGone => Made = {}
        BY <1>0, <1>2, <2>1, <3>6 DEF CatalogueInv, SeedsCounted
      <3>8. (NoneGone' <=> NoneGone) /\ Made' = Made
        BY <2>1 DEF NoneGone, Made, Live
      <3>9. SeedsCounted'
        BY <1>2, <2>1, <3>2, <3>5, <3>7, <3>8 DEF SeedsCounted, Seeding
      <3> QED
        BY <1>2, <2>1, <3>2, <3>3, <3>4, <3>9, ClerkMoves
    <2> QED
      BY <2>2, <2>3
  <1>5. CASE SeedLegacy(c)
    <2>1. k.op = "seed" /\ k.pc = "legacy" /\ UNCHANGED <<folder, item, list>>
      BY <1>0, <1>5 DEF SeedLegacy, At
    <2>2. PICK stale \in SUBSET Items : stale = {i \in Live : LooksLegacy(item[i])}
      BY DEF Live
    <2>3. PICK m : m = [k EXCEPT !.old = stale, !.pc = "clear"]
      OBVIOUS
    <2>4. m \in Clerk /\ m.op = "seed" /\ m.pc = "clear" /\ m.old = stale
      BY <1>1, <2>1, <2>3 DEF Clerk
    <2>5. StillSo(m)
      BY <2>2, <2>4 DEF StillSo, Live, LooksLegacy
    <2>6. clerk' = [clerk EXCEPT ![c] = m]
      BY <1>0, <1>5, <2>2, <2>3 DEF SeedLegacy, CatalogueInv, CatalogueTypes
    <2>7. clerk'[c] = m /\ \A d \in Clerks \ {c} : clerk'[d] = clerk[d]
      BY <2>6 DEF CatalogueInv, CatalogueTypes
    <2>8. (NoneGone' <=> NoneGone) /\ Made' = Made
      BY <2>1 DEF NoneGone, Made, Live
    <2>9. SeedsCounted'
      BY <1>0, <1>2, <2>1, <2>4, <2>7, <2>8 DEF CatalogueInv, SeedsCounted, Seeding
    <2> QED
      BY <1>2, <2>1, <2>4, <2>5, <2>6, <2>9, ClerkMoves
  <1>6. CASE SeedClear(c)
    <2>1. /\ k.op = "seed" /\ k.pc = "clear" /\ UNCHANGED <<folder, list>>
          /\ item' = [i \in Items |-> IF i \in k.old THEN [item[i] EXCEPT !.state = "deleted"] ELSE item[i]]
      BY <1>0, <1>6 DEF SeedClear, At
    <2>2. PICK m : m = [k EXCEPT !.pc = "batch", !.batch = 1]
      OBVIOUS
    <2>3. m \in Clerk /\ m.op = "seed" /\ m.pc = "batch" /\ m.old = k.old /\ m.batch = 1
      BY <1>1, <2>1, <2>2 DEF Clerk
    <2>4. 1 \in DOMAIN Batches
      BY CatalogueAssumption
    <2>5. StillSo(m)
      BY <1>1, <2>3, <2>4 DEF StillSo
    <2>6. clerk' = [clerk EXCEPT ![c] = m]
      BY <1>0, <1>6, <2>2 DEF SeedClear, CatalogueInv, CatalogueTypes
    <2>7. clerk'[c] = m /\ \A d \in Clerks \ {c} : clerk'[d] = clerk[d]
      BY <2>6 DEF CatalogueInv, CatalogueTypes
    <2>8. ASSUME NEW i \in Items
          PROVE  /\ item'[i] \in ItemRow /\ item'[i].mark = item[i].mark /\ item'[i].by = item[i].by
                 /\ item'[i].folder = item[i].folder
                 /\ item'[i].state = IF i \in k.old THEN "deleted" ELSE item[i].state
                 /\ i \in k.old => item[i].mark # "seed"
      <3>1. PICK r \in ItemRow : r = item[i]
        BY DEF CatalogueInv, CatalogueTypes
      <3>2. item'[i] = IF i \in k.old THEN [r EXCEPT !.state = "deleted"] ELSE r
        BY <2>1, <3>1
      <3> QED
        BY <1>1, <3>1, <3>2 DEF ItemRow, StillSo
    <2>9. item' \in [Items -> ItemRow]
      BY <2>1, <2>8
    <2>10. (NoneGone' => NoneGone) /\ Made' = Made
      BY <2>8 DEF NoneGone, Made, Live, CatalogueInv, Marked
    <2>11. SeedsCounted'
      <3>1. Cardinality(Before(1)) = 0 /\ Cardinality({}) = 0
        BY Portions, FS_EmptySet
      <3> QED
        BY <1>0, <1>2, <2>1, <2>3, <2>7, <2>10, <3>1 DEF CatalogueInv, SeedsCounted, Seeding
    <2>12. ItemsKeepFolder'
      BY <2>1, <2>8 DEF CatalogueInv, ItemsKeepFolder, FolderRows, ListRows, Live
    <2>13. folder' \in [Folders -> FolderRow] /\ list' \in [Lists -> ListRow]
      BY <2>1 DEF CatalogueInv, CatalogueTypes
    <2>14. \A i \in Items : item[i].state # "none" => item'[i].state # "none" /\ item'[i].mark = item[i].mark
      BY <2>8
    <2>15. m.op # "deleteFolder" /\ m.op # "idle" /\ m.pc # "idle" /\ k.op # "idle"
      BY <2>1, <2>3
    <2>16. Marked'
      BY <2>8 DEF CatalogueInv, Marked
    <2> QED
      BY <1>0, <2>3, <2>5, <2>6, <2>9, <2>11, <2>12, <2>13, <2>14, <2>15, <2>16, ClerkWrites
  <1>7. CASE SeedBatch(c)
    <2>1. k.op = "seed" /\ k.pc = "batch" /\ k.batch \in DOMAIN Batches /\ UNCHANGED <<folder, list>>
      BY <1>0, <1>1, <1>7 DEF SeedBatch, At, StillSo
    <2>2. PICK n \in Nat, b \in SUBSET Products : n = k.batch /\ b = Batches[n] /\ n \in DOMAIN Batches
      BY <2>1, Portions
    <2>3. PICK free \in SUBSET Items : free = FreeItems
      BY DEF FreeItems
    <2>4. Cardinality(free) >= Cardinality(b)
      BY <1>0, <1>7, <2>2, <2>3 DEF SeedBatch
    <2>5. PICK put : put = CHOOSE f \in [b -> free] : \A p, q \in b : p # q => f[p] # f[q]
      OBVIOUS
    <2>6. put \in [b -> free] /\ \A p, q \in b : p # q => put[p] # put[q]
      BY <2>4, <2>5, RowsFor
    <2>7. item' = [i \in Items |-> IF \E p \in b : put[p] = i THEN SeedRow(CHOOSE p \in b : put[p] = i) ELSE item[i]]
      BY <1>0, <1>7, <2>2, <2>3, <2>5 DEF SeedBatch
    <2>8. PICK new \in SUBSET Items : new = {put[p] : p \in b}
      BY <2>6
    <2>9. ASSUME NEW p \in Products
          PROVE  SeedRow(p) \in ItemRow /\ SeedRow(p).state = "live" /\ SeedRow(p).mark = "seed" /\ SeedRow(p).by = "seeder"
                 /\ SeedRow(p).folder = NoFolder
      BY DEF SeedRow, NoItemRow, ItemRow, Marks
    <2>10. \A i \in new : /\ i \in free /\ item'[i] \in ItemRow /\ item'[i].state = "live" /\ item'[i].mark = "seed"
                          /\ item'[i].by = "seeder" /\ item'[i].folder = NoFolder
      <3> SUFFICES ASSUME NEW i \in new
                   PROVE  /\ i \in free /\ item'[i] \in ItemRow /\ item'[i].state = "live" /\ item'[i].mark = "seed"
                          /\ item'[i].by = "seeder" /\ item'[i].folder = NoFolder
        OBVIOUS
      <3>1. PICK p \in b : p = CHOOSE q \in b : put[q] = i
        BY <2>8
      <3>2. item'[i] = SeedRow(p) /\ i \in free
        BY <2>6, <2>7, <2>8, <3>1
      <3> QED
        BY <2>9, <3>2
    <2>11. \A i \in Items \ new : item'[i] = item[i]
      BY <2>7, <2>8
    <2>12. \A i \in free : item[i].state = "none"
      BY <2>3 DEF FreeItems
    <2>13. item' \in [Items -> ItemRow]
      <3>1. \A i \in Items : item'[i] \in ItemRow
        BY <2>10, <2>11 DEF CatalogueInv, CatalogueTypes
      <3> HIDE DEF ItemRow
      <3> QED
        BY <2>7, <3>1
    <2>14. Made' = Made \cup new /\ Made \cap free = {} /\ Made \subseteq Items /\ (NoneGone' => NoneGone)
      BY <2>8, <2>10, <2>11, <2>12 DEF Made, Live, NoneGone
    <2>15. Cardinality(Made') = Cardinality(Made) + Cardinality(b)
      <3>1. PICK seeds \in SUBSET Items : seeds = Made
        BY <2>14
      <3>2. Cardinality(seeds \cup {put[p] : p \in b}) = Cardinality(seeds) + Cardinality(b)
        <4>1. seeds \cap free = {}
          BY <2>14, <3>1
        <4> QED
          BY <2>6, <4>1, RowsCounted
      <3> QED
        BY <2>8, <2>14, <3>1, <3>2
    <2>16. calm /\ NoneGone' => Cardinality(Made') = Cardinality(Before(n + 1))
      BY <1>0, <2>1, <2>2, <2>14, <2>15, Portions DEF CatalogueInv, SeedsCounted
    <2>17. ItemsKeepFolder'
      BY <2>1, <2>10, <2>11 DEF CatalogueInv, ItemsKeepFolder, FolderRows, ListRows, Live
    <2>18. PICK m : m = IF n = Len(Batches) THEN Idle ELSE [k EXCEPT !.batch = n + 1]
      OBVIOUS
    <2>19. clerk' = [clerk EXCEPT ![c] = m]
      <3>1. clerk' = [clerk EXCEPT ![c] = IF k.batch = Len(Batches) THEN Idle ELSE [k EXCEPT !.batch = k.batch + 1]]
        <4>1. clerk' = [clerk EXCEPT ![c] = IF clerk[c].batch = Len(Batches) THEN Idle ELSE [clerk[c] EXCEPT !.batch = clerk[c].batch + 1]]
          BY <1>7 DEF SeedBatch
        <4> QED
          BY <1>0, <4>1
      <3> QED
        BY <2>2, <2>18, <3>1
    <2>20. /\ m \in Clerk /\ StillSo(m) /\ m.op # "deleteFolder" /\ (m.pc = "idle" <=> m.op = "idle") /\ (Seeding(m) => m.op = "seed")
           /\ IF n = Len(Batches) THEN ~Seeding(m) ELSE m.pc = "batch" /\ m.batch = n + 1
      <3>1. CASE n = Len(Batches)
        BY <2>18, <3>1, IdleIs DEF StillSo, Seeding
      <3>2. CASE n # Len(Batches)
        <4>1. n + 1 \in DOMAIN Batches /\ n + 1 \in Nat
          BY <2>2, <3>2, Portions
        <4>2. PICK x \in Nat : x = n + 1
          BY <4>1
        <4>3. m \in Clerk /\ m.op = "seed" /\ m.pc = "batch" /\ m.batch = x /\ m.old = k.old
          BY <1>1, <2>1, <2>18, <3>2, <4>2 DEF Clerk
        <4> QED
          BY <1>1, <3>2, <4>1, <4>2, <4>3 DEF StillSo, Seeding
      <3> QED
        BY <3>1, <3>2
    <2>21. clerk'[c] = m /\ \A d \in Clerks \ {c} : clerk'[d] = clerk[d]
      BY <2>19 DEF CatalogueInv, CatalogueTypes
    <2>22. SeedsCounted'
      <3> SUFFICES ASSUME calm, NoneGone'
                   PROVE  /\ \A d \in Clerks : clerk'[d].pc \in {"legacy", "clear"} => Made' = {}
                          /\ \A d \in Clerks : clerk'[d].pc = "batch" => Cardinality(Made') = Cardinality(Before(clerk'[d].batch))
                          /\ (\E d \in Clerks : Seeding(clerk'[d])) \/ Made' = {} \/ Cardinality(Made') = Cardinality(Products)
        BY DEF SeedsCounted, Seeding, Before
      <3>1. \A d \in Clerks \ {c} : ~Seeding(clerk'[d])
        BY <1>2, <2>1, <2>21
      <3>2. CASE n = Len(Batches)
        <4>1. Cardinality(Made') = Cardinality(Products)
          BY <2>2, <2>16, <3>2, Portions
        <4> QED
          BY <2>20, <2>21, <3>1, <3>2, <4>1 DEF Seeding
      <3>3. CASE n # Len(Batches)
        BY <2>16, <2>20, <2>21, <3>1, <3>3 DEF Seeding
      <3> QED
        BY <3>2, <3>3
    <2>23. folder' \in [Folders -> FolderRow] /\ list' \in [Lists -> ListRow]
      BY <2>1 DEF CatalogueInv, CatalogueTypes
    <2>24. \A i \in Items : item[i].state # "none" => item'[i].state # "none" /\ item'[i].mark = item[i].mark
      BY <2>10, <2>11, <2>12
    <2>25. Marked'
      BY <2>10, <2>11 DEF CatalogueInv, Marked
    <2> QED
      BY <1>0, <2>1, <2>13, <2>17, <2>19, <2>20, <2>22, <2>23, <2>24, <2>25, ClerkWrites
  <1> QED
    BY <1>3, <1>4, <1>5, <1>6, <1>7 DEF SeedStep

LEMMA ClerkForgets ==
    ASSUME CatalogueInv, NEW c \in Clerks, ClerkFails(c), UNCHANGED calm
    PROVE  CatalogueInv'
  <1>1. StillSo(Idle) /\ ~Seeding(Idle)
    BY IdleIs DEF StillSo, Seeding
  <1>2. SeedsCounted'
    BY DEF ClerkFails, SeedsCounted
  <1> QED
    BY <1>1, <1>2, IdleIs, ClerkMoves DEF ClerkFails, Done

LEMMA CatalogueInitInv == CatalogueInit => CatalogueInv
  <1> SUFFICES ASSUME CatalogueInit
               PROVE  CatalogueInv
    OBVIOUS
  <1>1. NoFolderRow \in FolderRow /\ NoFolderRow.exists = FALSE
    BY CatalogueAssumption DEF NoFolderRow, FolderRow
  <1>2. NoItemRow \in ItemRow /\ NoItemRow.state = "none" /\ NoItemRow.folder = NoFolder /\ NoItemRow.by = "nobody"
    BY CatalogueAssumption DEF NoItemRow, ItemRow, Marks
  <1>3. NoListRow \in ListRow /\ NoListRow.exists = FALSE
    <2>1. <<>> \in [{} -> Prices \cup {NoPrice}]
      OBVIOUS
    <2>2. <<>> \in PriceLines
      BY <2>1 DEF PriceLines
    <2> QED
      BY <2>2, CatalogueAssumption DEF NoListRow, ListRow
  <1>4. CatalogueTypes
    BY <1>1, <1>2, <1>3, IdleIs DEF CatalogueInit, CatalogueTypes
  <1>5. FolderRows = {} /\ Live = {} /\ ListRows = {} /\ Made = {}
    BY <1>1, <1>2, <1>3 DEF CatalogueInit, FolderRows, Live, ListRows, Made
  <1>6. ItemsKeepFolder
    BY <1>2, <1>5 DEF CatalogueInit, ItemsKeepFolder
  <1>7. AloneInCalm /\ SeedsCounted
    BY <1>5, IdleIs DEF CatalogueInit, AloneInCalm, SeedsCounted
  <1> QED
    BY <1>2, <1>4, <1>6, <1>7, IdleIs DEF CatalogueInit, CatalogueInv, StillSo, Seeding, Marked

LEMMA CatalogueStep == CatalogueInv /\ [CatalogueNext /\ UNCHANGED calm]_<<catalogueVars, calm>> => CatalogueInv'
  <1> SUFFICES ASSUME CatalogueInv, [CatalogueNext /\ UNCHANGED calm]_<<catalogueVars, calm>>
               PROVE  CatalogueInv'
    OBVIOUS
  <1>1. CASE CatalogueNext /\ UNCHANGED calm
    BY <1>1, FolderSteps, ItemSteps, SeedSteps, ListSteps, ClerkForgets DEF CatalogueNext
  <1>2. CASE UNCHANGED <<catalogueVars, calm>>
    <2>1. UNCHANGED <<folder, item, list, clerk, calm>>
      BY <1>2 DEF catalogueVars
    <2> QED
      BY <2>1 DEF CatalogueInv, CatalogueTypes, ItemsKeepFolder, AloneInCalm, SeedsCounted, StillSo, Deletable, Seeding, Before,
                  FolderRows, ListRows, Live, Made, NoneGone, Marked
  <1> QED
    BY <1>1, <1>2

(* The invariant of the catalogue.                                         *)
THEOREM CatalogueInvariant == CatalogueSpec => []CatalogueInv
  <1>1. QED
    BY CatalogueInitInv, CatalogueStep, PTL DEF CatalogueSpec

(* For any folders, items, price lists and requests, whatever meets or     *)
(* fails: an item is in a folder that exists or in none, names are unique  *)
(* and a price list has lines; in calm weather, what a user made is in a   *)
(* folder as long as nobody deletes it.                                    *)
THEOREM ItemsAlwaysKeepFolder == CatalogueSpec => []ItemsKeepFolder
  <1>1. CatalogueInv => ItemsKeepFolder
    BY DEF CatalogueInv
  <1> QED
    BY <1>1, CatalogueInvariant, PTL

(* For any catalogue, in however many portions it is made, and for any     *)
(* number of seedings: in calm weather, and as long as nobody has deleted  *)
(* items the seeder made, it has made the catalogue at most once.         *)
THEOREM CatalogueAlwaysOnce == CatalogueSpec => []CatalogueOnce
  <1>1. CatalogueInv => CatalogueOnce
    <2> SUFFICES ASSUME CatalogueInv, calm, NoneGone
                 PROVE  Cardinality(Made) <= Cardinality(Products)
      BY DEF CatalogueOnce, NoneGone
    <2>1. PICK n \in Nat : n = Cardinality(Products)
      BY Portions, FS_CardinalityType
    <2>2. CASE Made = {} \/ Cardinality(Made) = Cardinality(Products)
      BY <2>1, <2>2, FS_EmptySet
    <2>3. CASE \E c \in Clerks : Seeding(clerk[c])
      <3>1. PICK c \in Clerks : Seeding(clerk[c])
        BY <2>3
      <3>2. CASE clerk[c].pc = "batch"
        <4>1. Cardinality(Made) = Cardinality(Before(clerk[c].batch))
          BY <3>2 DEF CatalogueInv, SeedsCounted
        <4>2. Before(clerk[c].batch) \subseteq Products
          BY CatalogueAssumption DEF Before
        <4> QED
          BY <4>1, <4>2, Portions, FS_Subset
      <3>3. CASE clerk[c].pc # "batch"
        BY <2>2, <3>1, <3>3 DEF CatalogueInv, SeedsCounted, Seeding
      <3> QED
        BY <3>2, <3>3
    <2> QED
      BY <2>2, <2>3 DEF CatalogueInv, SeedsCounted
  <1> QED
    BY <1>1, CatalogueInvariant, PTL

-----------------------------------------------------------------------------
(* Prices.  QuoteConsistent speaks of answers; what a quote has come to so *)
(* far is stated line by line: while nothing is written meanwhile, against *)
(* the rules and items as they are.                                        *)
RuleRow == [exists : BOOLEAN, deleted : BOOLEAN, data : RuleData]
Desk == [op : {"idle", "update", "delete", "restore"}, rule : Rules \cup {NoRule}, data : RuleData]
Quoted == [done : BOOLEAN, rule : Rules \cup {NoRule}, price : Int, kept : BOOLEAN]
SomeLines == Carts \cup {<<>>}
Quote == [pc : {"idle", "pricing", "answered"}, kind : {"item", "bulk", "sale"}, lines : SomeLines,
          priced : UNION {[DOMAIN lines -> Quoted] : lines \in SomeLines}, even : BOOLEAN, moved : BOOLEAN]

PricingTypes ==
    /\ rule \in [Rules -> RuleRow] /\ thing \in [Things -> ThingData]
    /\ desk \in [Desks -> Desk] /\ quote \in [Quoters -> Quote]
    /\ \A d \in Desks : desk[d].op # "idle" => desk[d].rule \in RuleRows
    /\ \A q \in Quoters : quote[q].priced \in [DOMAIN quote[q].lines -> Quoted]
    /\ withdrawn \in [Quoters -> SUBSET Rules]

(* What a line may come to.                                                *)
Options(line) == IF line.thing = NoThing THEN {Kept(line)} ELSE ComputePrice(line)

(* Nothing is priced by a rule withdrawn,                                  *)
SoundRules(q) ==
    /\ \A r \in withdrawn[q] : ~rule[r].exists \/ ~InForce(r)
    /\ quote[q].pc = "pricing" => \A i \in DOMAIN quote[q].lines : quote[q].priced[i].rule \notin withdrawn[q]

(* and a quote during which nothing is written is made of one state.       *)
SoundMade(q) ==
    /\ quote[q].pc = "pricing" /\ ~quote[q].moved =>
          /\ quote[q].even = EvenPriorities
          /\ \A i \in DOMAIN quote[q].lines : quote[q].priced[i].done =>
                quote[q].priced[i] \in Options(quote[q].lines[i]) \cup {Kept(quote[q].lines[i])}
    /\ quote[q].pc = "answered" /\ ~quote[q].moved /\ ~quote[q].even =>
          \A i, j \in DOMAIN quote[q].lines :
              /\ quote[q].lines[i] = quote[q].lines[j]
              /\ quote[q].priced[i].kept <=> quote[q].priced[j].kept
              => quote[q].priced[i] = quote[q].priced[j]

PricingInv == PricingTypes /\ \A q \in Quoters : SoundRules(q) /\ SoundMade(q)

LEMMA LinesAre ==
    ASSUME NEW lines \in SomeLines, NEW i \in DOMAIN lines
    PROVE  /\ lines \in Carts /\ lines[i].thing \in Things \cup {NoThing} /\ lines[i].qty \in Nat /\ lines[i].total \in Int
           /\ lines[i].base = NoBase \/ lines[i].base \in Int
  <1>1. lines # <<>>
    OBVIOUS
  <1> QED
    BY <1>1, PricingAssumption DEF SomeLines

(* As long as nobody writes rules or items, lines come to what they did.   *)
LEMMA SameRules ==
    ASSUME UNCHANGED <<rule, thing>>
    PROVE  /\ RuleRows' = RuleRows /\ EvenPriorities' = EvenPriorities /\ \A r : InForce(r)' = InForce(r)
           /\ \A line : Options(line)' = Options(line)
  <1>1. RuleRows' = RuleRows /\ \A r : InForce(r)' = InForce(r)
    BY DEF RuleRows, InForce
  <1>2. EvenPriorities' = EvenPriorities
    BY <1>1 DEF EvenPriorities
  <1>3. \A r, t : RuleMatches(r, t)' = RuleMatches(r, t)
    BY DEF RuleMatches, MatchesFields
  <1>4. \A t : FirstRules(t)' = FirstRules(t)
    BY <1>1, <1>3 DEF FirstRules
  <1>5. \A line : ComputePrice(line)' = ComputePrice(line)
    BY <1>4 DEF ComputePrice, BaseOf
  <1> QED
    BY <1>1, <1>2, <1>5 DEF Options

(* What is written moves the quotes being made, and nothing is claimed of  *)
(* them but that they use no rule withdrawn.                               *)
LEMMA WritesMove ==
    ASSUME PricingInv, quote' = Moved, rule' \in [Rules -> RuleRow], RuleRows \subseteq RuleRows',
           thing' \in [Things -> ThingData], desk' \in [Desks -> Desk],
           \A d \in Desks : desk'[d].op # "idle" => desk'[d].rule \in RuleRows,
           withdrawn' \in [Quoters -> SUBSET Rules],
           \A q \in Quoters : /\ withdrawn'[q] \subseteq withdrawn[q]
                              /\ \A r \in withdrawn'[q] : ~rule'[r].exists \/ ~InForce(r)'
    PROVE  PricingInv'
  <1>1. ASSUME NEW q \in Quoters
        PROVE  /\ quote'[q] \in Quote /\ quote'[q].pc = quote[q].pc /\ quote'[q].lines = quote[q].lines
               /\ quote'[q].priced = quote[q].priced /\ (quote[q].pc = "pricing" => quote'[q].moved)
               /\ quote[q].pc # "pricing" => quote'[q] = quote[q]
    <2>1. quote[q] \in Quote
      BY DEF PricingInv, PricingTypes
    <2>2. quote'[q] = IF quote[q].pc = "pricing" THEN [quote[q] EXCEPT !.moved = TRUE] ELSE quote[q]
      BY DEF Moved
    <2> QED
      BY <2>1, <2>2 DEF Quote
  <1>2. quote' \in [Quoters -> Quote]
    BY <1>1 DEF Moved
  <1>3. PricingTypes'
    BY <1>1, <1>2 DEF PricingInv, PricingTypes
  <1>4. ASSUME NEW q \in Quoters
        PROVE  SoundRules(q)' /\ SoundMade(q)'
    <2>1. SoundRules(q)'
      BY <1>1 DEF PricingInv, SoundRules
    <2>2. SoundMade(q)'
      BY <1>1 DEF PricingInv, SoundMade
    <2> QED
      BY <2>1, <2>2
  <1> QED
    BY <1>3, <1>4 DEF PricingInv

LEMMA ThingSteps ==
    ASSUME PricingInv, NEW t \in Things, ChangeThing(t)
    PROVE  PricingInv'
  <1>1. UNCHANGED <<rule, desk, withdrawn>> /\ quote' = Moved /\ PricingTypes
    BY DEF ChangeThing, PricingInv
  <1>2. thing' \in [Things -> ThingData]
    BY DEF ChangeThing, PricingInv, PricingTypes
  <1>3. RuleRows' = RuleRows /\ \A r : InForce(r)' = InForce(r)
    BY <1>1 DEF RuleRows, InForce
  <1>4. \A q \in Quoters : \A r \in withdrawn'[q] : ~rule'[r].exists \/ ~InForce(r)'
    BY <1>1, <1>3 DEF PricingInv, SoundRules
  <1> QED
    BY <1>1, <1>2, <1>3, <1>4, WritesMove DEF PricingTypes

LEMMA DeskSteps ==
    ASSUME PricingInv, NEW d \in Desks,
           CreateRule(d) \/ FindRule(d) \/ UpdateRule(d) \/ DeleteRule(d) \/ RestoreRule(d) \/ DeskFails(d)
    PROVE  PricingInv'
  <1>0. PricingTypes /\ (\A q \in Quoters : SoundRules(q) /\ SoundMade(q))
    BY DEF PricingInv
  <1>1. IdleDesk \in Desk /\ IdleDesk.op = "idle"
    BY PricingAssumption DEF IdleDesk, Desk
  <1>2. CASE FindRule(d) \/ DeskFails(d)
    <2>1. UNCHANGED <<rule, thing, quote, withdrawn>>
      BY <1>2 DEF FindRule, DeskFails
    <2>2. desk' \in [Desks -> Desk] /\ \A e \in Desks : desk'[e].op # "idle" => desk'[e].rule \in RuleRows
      <3>1. CASE DeskFails(d)
        BY <1>0, <1>1, <3>1 DEF DeskFails, DeskDone, PricingTypes
      <3>2. CASE FindRule(d)
        <4>1. PICK r \in RuleRows, op \in {"update", "delete", "restore"}, data \in RuleData :
                desk' = [desk EXCEPT ![d] = [op |-> op, rule |-> r, data |-> data]]
          BY <3>2 DEF FindRule
        <4>2. r \in Rules
          BY DEF RuleRows
        <4> QED
          BY <1>0, <4>1, <4>2 DEF PricingTypes, Desk
      <3> QED
        BY <1>2, <3>1, <3>2
    <2>3. PricingTypes'
      BY <1>0, <2>1, <2>2 DEF PricingTypes, RuleRows
    <2>4. \A q \in Quoters : SoundRules(q)' /\ SoundMade(q)'
      BY <1>0, <2>1, SameRules DEF SoundRules, SoundMade
    <2> QED
      BY <2>3, <2>4 DEF PricingInv
  <1>3. ASSUME NEW r \in Rules, NEW row \in RuleRow, row.exists, WriteRule(r, row), UNCHANGED desk \/ DeskDone(d)
        PROVE  PricingInv'
    <2>1. /\ rule' = [rule EXCEPT ![r] = row] /\ quote' = Moved /\ thing' = thing
          /\ withdrawn' = [q \in Quoters |-> {s \in withdrawn[q] : ~rule'[s].data.active \/ rule'[s].deleted}]
      BY <1>3 DEF WriteRule, NoticedBy
    <2>2. desk' \in [Desks -> Desk] /\ \A e \in Desks : desk'[e].op # "idle" => desk'[e].rule \in RuleRows
      BY <1>0, <1>1, <1>3 DEF DeskDone, PricingTypes
    <2>3. RuleRows \subseteq RuleRows' /\ rule' \in [Rules -> RuleRow]
      BY <1>0, <1>3, <2>1 DEF RuleRows, PricingTypes
    <2>4. withdrawn' \in [Quoters -> SUBSET Rules]
      BY <1>0, <2>1 DEF PricingTypes
    <2>5. ASSUME NEW q \in Quoters
          PROVE  withdrawn'[q] \subseteq withdrawn[q] /\ \A s \in withdrawn'[q] : ~rule'[s].exists \/ ~InForce(s)'
      BY <2>1 DEF InForce
    <2> QED
      BY <1>0, <2>1, <2>2, <2>3, <2>4, <2>5, WritesMove DEF PricingTypes
  <1>4. CASE CreateRule(d)
    <2>1. PICK r \in Rules \ RuleRows, data \in RuleData : WriteRule(r, [exists |-> TRUE, deleted |-> FALSE, data |-> data])
      BY <1>4 DEF CreateRule
    <2>2. [exists |-> TRUE, deleted |-> FALSE, data |-> data] \in RuleRow /\ [exists |-> TRUE, deleted |-> FALSE, data |-> data].exists
      BY DEF RuleRow
    <2> QED
      BY <1>3, <1>4, <2>1, <2>2 DEF CreateRule
  <1>5. CASE UpdateRule(d) \/ DeleteRule(d) \/ RestoreRule(d)
    <2>1. PICK r : r = desk[d].rule
      OBVIOUS
    <2>2. r \in Rules /\ rule[r] \in RuleRow /\ rule[r].exists /\ desk[d] \in Desk /\ desk[d].op # "idle"
      BY <1>0, <1>5, <2>1 DEF PricingTypes, RuleRows, UpdateRule, DeleteRule, RestoreRule
    <2>3. PICK row : row = IF UpdateRule(d) THEN [rule[r] EXCEPT !.data = desk[d].data]
                           ELSE IF DeleteRule(d) THEN [rule[r] EXCEPT !.deleted = TRUE] ELSE [rule[r] EXCEPT !.deleted = FALSE]
      OBVIOUS
    <2>4. row \in RuleRow /\ row.exists
      BY <2>2, <2>3 DEF RuleRow, Desk
    <2>5. WriteRule(r, row) /\ DeskDone(d)
      BY <1>5, <2>1, <2>3 DEF UpdateRule, DeleteRule, RestoreRule
    <2> QED
      BY <1>3, <2>2, <2>4, <2>5
  <1> QED
    BY <1>2, <1>4, <1>5

(* What a line comes to is a price, by a rule in force or by none, and it  *)
(* is one price unless two rules of one priority could come first.         *)
LEMMA OptionsAre ==
    ASSUME PricingTypes, NEW lines \in SomeLines, NEW i \in DOMAIN lines, NEW p \in Options(lines[i])
    PROVE  /\ p \in Quoted /\ p.done /\ (p.rule = NoRule \/ (InForce(p.rule) /\ p.rule \in RuleRows))
           /\ p.kept => p = Kept(lines[i])
           /\ ~EvenPriorities => \A o \in Options(lines[i]) : o = p
  <1> PICK line : line = lines[i]
    OBVIOUS
  <1>1. line.thing \in Things \cup {NoThing} /\ line.total \in Int /\ (line.base = NoBase \/ line.base \in Int)
    BY LinesAre
  <1>2. CASE line.thing = NoThing
    <2>1. p = Kept(line) /\ Options(line) = {Kept(line)}
      BY <1>2 DEF Options
    <2> QED
      BY <1>1, <2>1 DEF Kept, Quoted
  <1>3. CASE line.thing # NoThing
    <2>1. PICK base : base = BaseOf(line)
      OBVIOUS
    <2>2. base \in Int
      <3>1. line.thing \in Things => thing[line.thing].base \in Int
        BY PricingAssumption DEF PricingTypes
      <3> QED
        BY <1>1, <1>3, <2>1, <3>1 DEF BaseOf
    <2>3. p \in ComputePrice(line) /\ Options(line) = ComputePrice(line)
      BY <1>3 DEF Options
    <2>4. CASE FirstRules(line.thing) = {}
      <3>0. PICK price \in Int : price = 100 * base
        BY <2>2
      <3>1. PICK none : none = [Unpriced EXCEPT !.done = TRUE, !.price = price]
        OBVIOUS
      <3>2. none.done = TRUE /\ none.price = price /\ none.rule = NoRule /\ none.kept = FALSE /\ none \in Quoted
        BY <3>1 DEF Unpriced, Quoted
      <3>3. ComputePrice(line) = {none}
        BY <2>1, <2>4, <3>0, <3>1 DEF ComputePrice
      <3> QED
        BY <2>3, <3>0, <3>2, <3>3
    <2>5. CASE FirstRules(line.thing) # {}
      <3>1. PICK r \in FirstRules(line.thing) :
              p = [Unpriced EXCEPT !.done = TRUE, !.rule = r, !.price = ApplyRule(base, rule[r].data)]
        BY <2>1, <2>3, <2>5 DEF ComputePrice
      <3>2. r \in RuleRows /\ r \in Rules /\ InForce(r)
        BY DEF FirstRules, RuleRows
      <3>3. ApplyRule(base, rule[r].data) \in Int
        <4>1. rule[r].data \in RuleData
          BY <3>2 DEF PricingTypes, RuleRow
        <4>2. PICK data \in RuleData : data = rule[r].data
          BY <4>1
        <4>3. data.value \in Int /\ data.type \in {"MARKUP_PERCENT", "MARKUP_FIXED", "OVERRIDE_PRICE"}
          BY PricingAssumption
        <4> QED
          BY <2>2, <4>2, <4>3 DEF ApplyRule
      <3>4. p \in Quoted /\ p.done /\ p.rule = r /\ ~p.kept
        BY <3>1, <3>2, <3>3 DEF Unpriced, Quoted
      <3>5. ~EvenPriorities => \A s \in FirstRules(line.thing) : s = r
        <4> SUFFICES ASSUME NEW s \in FirstRules(line.thing), s # r
                     PROVE  EvenPriorities
          OBVIOUS
        <4>1. /\ s \in RuleRows /\ s \in Rules /\ rule[s].data \in RuleData /\ rule[r].data \in RuleData
              /\ rule[s].data.priority <= rule[r].data.priority /\ rule[r].data.priority <= rule[s].data.priority
          BY <3>2 DEF FirstRules, RuleRows, PricingTypes, RuleRow
        <4>2. PICK m, n : m = rule[s].data /\ n = rule[r].data
          OBVIOUS
        <4>3. m.priority \in Int /\ n.priority \in Int
          BY <4>1, <4>2, PricingAssumption
        <4>4. m.priority = n.priority
          BY <4>1, <4>2, <4>3
        <4> QED
          BY <3>2, <4>1, <4>2, <4>4 DEF EvenPriorities
      <3>6. ~EvenPriorities => \A o \in Options(line) : o = p
        <4> SUFFICES ASSUME ~EvenPriorities, NEW o \in Options(line)
                     PROVE  o = p
          OBVIOUS
        <4>0. o \in {[Unpriced EXCEPT !.done = TRUE, !.rule = s, !.price = ApplyRule(BaseOf(line), rule[s].data)] : s \in FirstRules(line.thing)}
          BY <2>3, <2>5 DEF ComputePrice
        <4>1. PICK s \in FirstRules(line.thing) :
                o = [Unpriced EXCEPT !.done = TRUE, !.rule = s, !.price = ApplyRule(base, rule[s].data)]
          BY <2>1, <4>0
        <4> QED
          BY <3>1, <3>5, <4>1
      <3> QED
        BY <3>2, <3>4, <3>6
    <2> QED
      BY <2>4, <2>5
  <1> QED
    BY <1>2, <1>3

(* Quotes are written one at a time.                                       *)
LEMMA QuoteTypes ==
    ASSUME PricingInv, NEW q \in Quoters, NEW c \in Quote, quote' = [quote EXCEPT ![q] = c], c.priced \in [DOMAIN c.lines -> Quoted],
           UNCHANGED <<rule, thing, desk>>, withdrawn' \in [Quoters -> SUBSET Rules],
           \A p \in Quoters \ {q} : withdrawn'[p] = withdrawn[p],
           SoundRules(q)' /\ SoundMade(q)'
    PROVE  PricingInv'
  <1>1. quote'[q] = c /\ \A p \in Quoters \ {q} : quote'[p] = quote[p]
    BY DEF PricingInv, PricingTypes
  <1>2. PricingTypes'
    BY <1>1, SameRules DEF PricingInv, PricingTypes
  <1>3. ASSUME NEW p \in Quoters \ {q}
        PROVE  SoundRules(p)' /\ SoundMade(p)'
    <2>1. SoundRules(p) /\ SoundMade(p) /\ quote'[p] = quote[p] /\ withdrawn'[p] = withdrawn[p]
      BY <1>1 DEF PricingInv
    <2> QED
      BY <2>1, SameRules DEF SoundRules, SoundMade
  <1> QED
    BY <1>2, <1>3 DEF PricingInv

LEMMA QuoteSteps ==
    ASSUME PricingInv, NEW q \in Quoters,
           QuoteStart(q) \/ QuoteAnswer(q) \/ \E i \in DOMAIN quote[q].priced : PriceLine(q, i) \/ LineFails(q, i)
    PROVE  PricingInv'
  <1>0. PICK c : c = quote[q]
    OBVIOUS
  <1>1. PricingTypes /\ c \in Quote /\ c.priced \in [DOMAIN c.lines -> Quoted] /\ c.lines \in SomeLines
        /\ SoundRules(q) /\ SoundMade(q)
    BY <1>0 DEF PricingInv, PricingTypes, Quote
  <1>2. CASE QuoteStart(q)
    <2>1. PICK kind \in {"item", "bulk", "sale"}, lines \in Carts : quote' = [quote EXCEPT ![q] = Asked(kind, lines)]
      BY <1>2 DEF QuoteStart
    <2>2. PICK d : d = Asked(kind, lines)
      OBVIOUS
    <2>3. Unpriced \in Quoted /\ Unpriced.done = FALSE /\ Unpriced.rule = NoRule
      BY DEF Unpriced, Quoted
    <2>4. /\ d.pc = "pricing" /\ d.kind = kind /\ d.lines = lines /\ d.even = EvenPriorities
          /\ d.priced \in [DOMAIN lines -> Quoted] /\ \A i \in DOMAIN lines : d.priced[i] = Unpriced
      BY <2>2, <2>3 DEF Asked
    <2>5. d \in Quote
      <3>1. EvenPriorities \in BOOLEAN
        BY DEF EvenPriorities
      <3>2. d = [pc |-> "pricing", kind |-> kind, lines |-> lines, priced |-> d.priced, even |-> EvenPriorities, moved |-> FALSE]
        BY <2>2 DEF Asked
      <3>3. lines \in SomeLines /\ d.priced \in UNION {[DOMAIN l -> Quoted] : l \in SomeLines}
        BY <2>4 DEF SomeLines
      <3>4. PICK pr \in UNION {[DOMAIN l -> Quoted] : l \in SomeLines}, e \in BOOLEAN :
              d = [pc |-> "pricing", kind |-> kind, lines |-> lines, priced |-> pr, even |-> e, moved |-> FALSE]
        BY <3>1, <3>2, <3>3
      <3> QED
        BY <3>3, <3>4 DEF Quote
    <2>6. quote'[q] = d /\ UNCHANGED <<rule, thing, desk>>
      BY <1>1, <1>2, <2>1, <2>2 DEF PricingTypes, QuoteStart
    <2>7. withdrawn' = [withdrawn EXCEPT ![q] = Rules \ {r \in RuleRows : rule[r].data.active /\ ~rule[r].deleted}]
      BY <1>2 DEF QuoteStart
    <2>8. /\ withdrawn' \in [Quoters -> SUBSET Rules] /\ (\A p \in Quoters \ {q} : withdrawn'[p] = withdrawn[p])
          /\ \A r \in withdrawn'[q] : r \in Rules /\ (~rule[r].exists \/ ~InForce(r))
      BY <1>1, <2>7 DEF PricingTypes, RuleRows, InForce
    <2>9. SoundRules(q)'
      BY <2>3, <2>4, <2>6, <2>8, SameRules, PricingAssumption DEF SoundRules
    <2>10. SoundMade(q)'
      BY <2>3, <2>4, <2>6, SameRules DEF SoundMade
    <2> QED
      BY <2>1, <2>2, <2>4, <2>5, <2>6, <2>8, <2>9, <2>10, QuoteTypes
  <1>3. CASE QuoteAnswer(q)
    <2>1. PICK d : d = [c EXCEPT !.pc = "answered"]
      OBVIOUS
    <2>2. /\ d \in Quote /\ d.pc = "answered" /\ d.lines = c.lines /\ d.priced = c.priced
          /\ d.even = c.even /\ d.moved = c.moved
      BY <1>1, <2>1 DEF Quote
    <2>3. quote' = [quote EXCEPT ![q] = d] /\ c.pc = "pricing" /\ UNCHANGED <<rule, thing, desk, withdrawn>>
          /\ \A i \in DOMAIN c.lines : c.priced[i].done
      BY <1>0, <1>1, <1>3, <2>1 DEF QuoteAnswer, PricingTypes
    <2>4. quote'[q] = d
      BY <1>1, <2>3 DEF PricingTypes
    <2>5. SoundRules(q)'
      BY <1>0, <1>1, <2>2, <2>3, <2>4, SameRules DEF SoundRules
    <2>6. SoundMade(q)'
      <3> SUFFICES ASSUME ~d.even, ~d.moved, NEW i \in DOMAIN c.lines, NEW j \in DOMAIN c.lines, c.lines[i] = c.lines[j],
                          c.priced[i].kept <=> c.priced[j].kept
                   PROVE  c.priced[i] = c.priced[j]
        BY <2>2, <2>4 DEF SoundMade
      <3>1. ~EvenPriorities /\ c.priced[i] \in Options(c.lines[i]) \cup {Kept(c.lines[i])}
            /\ c.priced[j] \in Options(c.lines[i]) \cup {Kept(c.lines[i])}
        BY <1>0, <1>1, <2>2, <2>3 DEF SoundMade
      <3>2. Kept(c.lines[i]).kept = TRUE
        BY DEF Kept
      <3>3. \A p \in Options(c.lines[i]) : (p.kept => p = Kept(c.lines[i])) /\ \A o \in Options(c.lines[i]) : o = p
        BY <1>1, <3>1, OptionsAre
      <3> QED
        BY <3>1, <3>2, <3>3
    <2>7. withdrawn' \in [Quoters -> SUBSET Rules]
      BY <1>1, <2>3 DEF PricingTypes
    <2> QED
      BY <1>1, <2>2, <2>3, <2>5, <2>6, <2>7, QuoteTypes
  <1>4. ASSUME NEW i \in DOMAIN c.priced, NEW p \in Quoted, c.pc = "pricing", ~c.priced[i].done, p.done,
               quote' = [quote EXCEPT ![q] = [c EXCEPT !.priced[i] = p]], UNCHANGED <<rule, thing, desk, withdrawn>>,
               p.rule = NoRule \/ (InForce(p.rule) /\ p.rule \in RuleRows), p \in Options(c.lines[i]) \cup {Kept(c.lines[i])}
        PROVE  PricingInv'
    <2>1. PICK d : d = [c EXCEPT !.priced[i] = p]
      OBVIOUS
    <2>2. /\ d.pc = "pricing" /\ d.lines = c.lines /\ d.even = c.even /\ d.moved = c.moved /\ i \in DOMAIN c.lines
          /\ d.priced \in [DOMAIN c.lines -> Quoted] /\ \A j \in DOMAIN c.lines : d.priced[j] = IF j = i THEN p ELSE c.priced[j]
      BY <1>1, <1>4, <2>1 DEF Quote
    <2>3. d \in Quote
      <3>1. d = [c EXCEPT !.priced = d.priced]
        BY <1>1, <2>1 DEF Quote
      <3>2. d.priced \in UNION {[DOMAIN l -> Quoted] : l \in SomeLines}
        BY <1>1, <2>2
      <3> HIDE DEF Quoted
      <3>3. PICK pr \in UNION {[DOMAIN l -> Quoted] : l \in SomeLines} : d = [c EXCEPT !.priced = pr]
        BY <3>1, <3>2
      <3> QED
        BY <1>1, <3>3 DEF Quote
    <2>4. quote' = [quote EXCEPT ![q] = d] /\ quote'[q] = d
      BY <1>1, <1>4, <2>1 DEF PricingTypes
    <2>5. SoundRules(q)'
      BY <1>0, <1>1, <1>4, <2>2, <2>4, SameRules, PricingAssumption DEF SoundRules, RuleRows, PricingTypes
    <2>6. SoundMade(q)'
      <3> SUFFICES ASSUME ~d.moved
                   PROVE  /\ d.even = EvenPriorities
                          /\ \A j \in DOMAIN c.lines : d.priced[j].done =>
                                d.priced[j] \in Options(c.lines[j]) \cup {Kept(c.lines[j])}
        <4>1. \A line : Kept(line)' = Kept(line)
          BY DEF Kept
        <4>2. EvenPriorities' = EvenPriorities /\ \A line : Options(line)' = Options(line)
          BY <1>4, SameRules
        <4> QED
          BY <2>2, <2>4, <4>1, <4>2 DEF SoundMade
      <3> QED
        BY <1>0, <1>1, <1>4, <2>2 DEF SoundMade
    <2>7. withdrawn' \in [Quoters -> SUBSET Rules]
      BY <1>1, <1>4 DEF PricingTypes
    <2> QED
      BY <1>0, <1>1, <1>4, <2>2, <2>3, <2>4, <2>5, <2>6, <2>7, QuoteTypes
  <1>5. ASSUME NEW i \in DOMAIN quote[q].priced, PriceLine(q, i)
        PROVE  PricingInv'
    <2>1. PICK line : line = c.lines[i]
      OBVIOUS
    <2>2. PICK p \in Options(line) : quote' = [quote EXCEPT ![q].priced[i] = p]
      BY <1>0, <1>5, <2>1 DEF PriceLine, Options
    <2>3. i \in DOMAIN c.lines
      BY <1>0, <1>1
    <2>4. p \in Quoted /\ p.done /\ (p.rule = NoRule \/ (InForce(p.rule) /\ p.rule \in RuleRows))
      BY <1>1, <2>1, <2>2, <2>3, OptionsAre
    <2>5. c.pc = "pricing" /\ ~c.priced[i].done /\ UNCHANGED <<rule, thing, desk, withdrawn>>
      BY <1>0, <1>5 DEF PriceLine
    <2>6. quote' = [quote EXCEPT ![q] = [c EXCEPT !.priced[i] = p]]
      BY <1>0, <1>1, <2>2 DEF PricingTypes, Quote
    <2> QED
      BY <1>0, <1>4, <1>5, <2>1, <2>2, <2>4, <2>5, <2>6
  <1>6. ASSUME NEW i \in DOMAIN quote[q].priced, LineFails(q, i)
        PROVE  PricingInv'
    <2>1. c.pc = "pricing" /\ ~c.priced[i].done /\ i \in DOMAIN c.lines /\ UNCHANGED <<rule, thing, desk, withdrawn>>
      BY <1>0, <1>1, <1>6 DEF LineFails
    <2>2. CASE c.kind = "sale"
      <3>1. PICK p : p = Kept(c.lines[i])
        OBVIOUS
      <3>2. c.lines[i].total \in Int
        BY <1>1, <2>1, LinesAre
      <3>3. p \in Quoted /\ p.done /\ p.rule = NoRule
        BY <3>1, <3>2 DEF Kept, Quoted
      <3>4. quote' = [quote EXCEPT ![q] = [c EXCEPT !.priced[i] = p]]
        BY <1>0, <1>1, <1>6, <2>2, <3>1 DEF LineFails, PricingTypes
      <3> QED
        BY <1>0, <1>4, <2>1, <3>1, <3>3, <3>4
    <2>3. CASE c.kind # "sale"
      <3>1. quote' = [quote EXCEPT ![q] = IdleQuote]
        BY <1>0, <1>1, <1>6, <2>3 DEF LineFails, PricingTypes
      <3>2. IdleQuote.priced = <<>> /\ IdleQuote.lines = <<>> /\ IdleQuote.pc = "idle"
        BY DEF IdleQuote
      <3>3. IdleQuote \in Quote /\ IdleQuote.priced \in [DOMAIN IdleQuote.lines -> Quoted]
        BY DEF IdleQuote, Quote, SomeLines
      <3>4. SoundRules(q)' /\ SoundMade(q)'
        BY <1>0, <1>1, <2>1, <3>1, <3>2, SameRules DEF SoundRules, SoundMade, PricingTypes
      <3>5. withdrawn' \in [Quoters -> SUBSET Rules]
        BY <1>1, <2>1 DEF PricingTypes
      <3> QED
        BY <2>1, <3>1, <3>2, <3>3, <3>4, <3>5, QuoteTypes
    <2> QED
      BY <2>2, <2>3
  <1> QED
    BY <1>2, <1>3, <1>5, <1>6

LEMMA PricingInitInv == PricingInit => PricingInv
  <1> SUFFICES ASSUME PricingInit
               PROVE  PricingInv
    OBVIOUS
  <1>1. IdleDesk \in Desk /\ IdleDesk.op = "idle" /\ NoRuleRow \in RuleRow /\ NoRuleRow.exists = FALSE
    BY PricingAssumption DEF IdleDesk, Desk, NoRuleRow, RuleRow
  <1>2. IdleQuote.priced = <<>> /\ IdleQuote.lines = <<>> /\ IdleQuote.pc = "idle"
    BY DEF IdleQuote
  <1>3. IdleQuote \in Quote /\ IdleQuote.priced \in [DOMAIN IdleQuote.lines -> Quoted]
    BY DEF IdleQuote, Quote, SomeLines
  <1> QED
    BY <1>1, <1>2, <1>3 DEF PricingInit, PricingInv, PricingTypes, SoundRules, SoundMade

(* The invariant of rules and quotes.                                      *)
THEOREM PricingInvariant == PricingSpec => []PricingInv
  <1>1. PricingInv /\ [PricingNext /\ UNCHANGED calm]_<<pricingVars, calm>> => PricingInv'
    <2> SUFFICES ASSUME PricingInv, [PricingNext /\ UNCHANGED calm]_<<pricingVars, calm>>
                 PROVE  PricingInv'
      OBVIOUS
    <2>1. CASE PricingNext /\ UNCHANGED calm
      BY <2>1, DeskSteps, ThingSteps, QuoteSteps DEF PricingNext
    <2>2. CASE UNCHANGED <<pricingVars, calm>>
      <3>1. UNCHANGED <<rule, thing, desk, quote, withdrawn>>
        BY <2>2 DEF pricingVars
      <3> QED
        BY <3>1, SameRules DEF PricingInv, PricingTypes, SoundRules, SoundMade
    <2> QED
      BY <2>1, <2>2
  <1> QED
    BY <1>1, PricingInitInv, PTL DEF PricingSpec

(* For any rules, items and carts, however many quotes, requests about     *)
(* rules and edits of items are under way at once and whatever fails:      *)
(* nothing is priced by a rule withdrawn before the quote began, and equal *)
(* lines of a quote cost the same unless two rules were of one priority, a *)
(* rule or an item was written while it was made, or the queries of one    *)
(* of them failed.                                                         *)
THEOREM QuotesAlwaysConsistent == PricingSpec => []QuoteConsistent
  <1>1. PricingInv => QuoteConsistent
    <2> SUFFICES ASSUME PricingInv, NEW q \in Quoters
                 PROVE  /\ quote[q].pc = "pricing" => \A i \in DOMAIN quote[q].priced : quote[q].priced[i].rule \notin withdrawn[q]
                        /\ ~quote[q].even /\ ~quote[q].moved /\ quote[q].pc = "answered" =>
                              \A i, j \in DOMAIN quote[q].lines :
                                  /\ quote[q].lines[i] = quote[q].lines[j]
                                  /\ quote[q].priced[i].kept <=> quote[q].priced[j].kept
                                  => quote[q].priced[i] = quote[q].priced[j]
      BY DEF QuoteConsistent
    <2>1. SoundRules(q) /\ SoundMade(q) /\ DOMAIN quote[q].priced = DOMAIN quote[q].lines
      BY DEF PricingInv, PricingTypes
    <2> QED
      BY <2>1 DEF SoundRules, SoundMade
  <1> QED
    BY <1>1, PricingInvariant, PTL

-----------------------------------------------------------------------------
(* The numbers of sales.  What an unaided till is about to insert, in calm *)
(* weather, is still the next number.                                      *)
AtInsert(t) == till[t].pc = "insert"

NumbersInv ==
    /\ sold \in Seq({sold[i] : i \in DOMAIN sold}) /\ DOMAIN till = Tills
    /\ \A t \in Tills : till[t] = [pc |-> till[t].pc, shop |-> till[t].shop, number |-> till[t].number, own |-> till[t].own]
    /\ \A t \in Tills : AtInsert(t) => till[t].shop \in Shops
    /\ calm => \A t, u \in Tills : AtInsert(t) /\ AtInsert(u) => t = u
    /\ calm => \A t \in Tills : AtInsert(t) /\ ~till[t].own => till[t].number \in NextNumber(till[t].shop)
    /\ NumbersRunOn

(* As long as numbers go up by one and are short, the next is one more.    *)
LEMMA NextIsOneMore ==
    ASSUME Len(sold) \in Nat, DOMAIN sold = 1 .. Len(sold), NEW s, AloneUnaided(s), Len(sold) < Base ^ Width,
           \A i \in DOMAIN sold : sold[i].number = i
    PROVE  NextNumber(s) = {Len(sold) + 1} /\ ~NumberTaken(Len(sold) + 1)
  <1> PICK n \in Nat : n = Len(sold)
    OBVIOUS
  <1>1. NumbersOf(s) = 1 .. n
    BY DEF NumbersOf, AloneUnaided
  <1>2. \A k \in 1 .. n : k \in Nat /\ Digits(k) = Width /\ k \notin {NaN, Text}
    <2> SUFFICES ASSUME NEW k \in 1 .. n
                 PROVE  k \in Nat /\ Digits(k) = Width /\ k \notin {NaN, Text}
      OBVIOUS
    <2>1. PICK w \in Nat : w = Base ^ Width
      BY NumbersAssumption
    <2>2. k < w
      BY <2>1
    <2> QED
      BY <2>1, <2>2, NumbersAssumption DEF Digits
  <1>3. \A k, m \in 1 .. n : TextBefore(k, m) <=> k <= m
    BY <1>2 DEF TextBefore
  <1>4. CASE n = 0
    BY <1>1, <1>4 DEF NextNumber, NumberTaken
  <1>5. CASE n # 0
    <2>1. n \in NumbersOf(s) /\ \A m \in NumbersOf(s) : TextBefore(m, n)
      BY <1>1, <1>3, <1>5
    <2>2. \A k \in NumbersOf(s) : (\A m \in NumbersOf(s) : TextBefore(m, k)) => k = n
      BY <1>1, <1>3, <1>5
    <2>3. LastNumber(s) = {n}
      BY <2>1, <2>2 DEF LastNumber
    <2> QED
      BY <1>1, <1>2, <1>5, <2>3 DEF NextNumber, NumberTaken
  <1> QED
    BY <1>4, <1>5

LEMMA NumbersStep == NumbersInv /\ [NumbersNext /\ UNCHANGED calm]_<<numberVars, calm>> => NumbersInv'
  <1> SUFFICES ASSUME NumbersInv, [NumbersNext /\ UNCHANGED calm]_<<numberVars, calm>>
               PROVE  NumbersInv'
    OBVIOUS
  <1>1. /\ Len(sold) \in Nat /\ DOMAIN sold = 1 .. Len(sold) /\ DOMAIN till = Tills
        /\ \A t \in Tills : till[t] = [pc |-> till[t].pc, shop |-> till[t].shop, number |-> till[t].number, own |-> till[t].own]
    BY DEF NumbersInv
  <1>2. ASSUME NEW t \in Tills, NumberSale(t) \/ BringNumber(t), UNCHANGED calm
        PROVE  NumbersInv'
    <2>0. PICK s \in Shops, own \in BOOLEAN :
            \E n : /\ till' = [till EXCEPT ![t] = [pc |-> "insert", shop |-> s, number |-> n, own |-> own]]
                   /\ ~own => n \in NextNumber(s)
      <3>1. CASE NumberSale(t)
        BY <3>1 DEF NumberSale
      <3>2. CASE BringNumber(t)
        BY <3>2 DEF BringNumber
      <3> QED
        BY <1>2, <3>1, <3>2
    <2>1. PICK n : /\ till' = [till EXCEPT ![t] = [pc |-> "insert", shop |-> s, number |-> n, own |-> own]]
                   /\ ~own => n \in NextNumber(s)
      BY <2>0
    <2>2. UNCHANGED sold /\ TillFree(t)
      BY <1>2 DEF NumberSale, BringNumber
    <2>3. /\ till'[t] = [pc |-> "insert", shop |-> s, number |-> n, own |-> own] /\ DOMAIN till' = Tills
          /\ \A u \in Tills \ {t} : till'[u] = till[u]
      BY <1>1, <2>1
    <2>4. \A z : NextNumber(z)' = NextNumber(z)
      BY <2>2 DEF NextNumber, LastNumber, NumbersOf
    <2>5. NumbersRunOn'
      BY <1>2, <2>2, <2>3 DEF NumbersInv, NumbersRunOn, AloneUnaided
    <2> QED
      BY <1>1, <1>2, <2>1, <2>2, <2>3, <2>4, <2>5 DEF NumbersInv, TillFree, AtInsert
  <1>3. ASSUME NEW t \in Tills, InsertSale(t), UNCHANGED calm
        PROVE  NumbersInv'
    <2>1. PICK n, s, own : n = till[t].number /\ s = till[t].shop /\ own = till[t].own
      OBVIOUS
    <2>2. PICK pc \in {"refused", "done"} : till' = [till EXCEPT ![t].pc = pc] /\ (pc = "refused" <=> NumberTaken(n))
      BY <1>3, <2>1 DEF InsertSale
    <2>3. till'[t] = [pc |-> pc, shop |-> s, number |-> n, own |-> own] /\ DOMAIN till' = Tills
          /\ (\A u \in Tills \ {t} : till'[u] = till[u]) /\ AtInsert(t)
      BY <1>1, <1>3, <2>1, <2>2 DEF InsertSale, AtInsert
    <2>4. calm => \A u \in Tills : ~AtInsert(u)'
      BY <2>3 DEF NumbersInv, AtInsert
    <2>5. /\ \A u, v \in Tills : calm /\ AtInsert(u)' /\ AtInsert(v)' => u = v
          /\ \A u \in Tills : AtInsert(u)' => till'[u].shop \in Shops
      BY <2>3, <2>4 DEF NumbersInv, AtInsert
    (* A till that is alone and unaided has the number after the last.      *)
    <2>6. calm /\ ~own /\ AloneUnaided(s) /\ Len(sold) < Base ^ Width => n = Len(sold) + 1 /\ ~NumberTaken(n)
      <3> SUFFICES ASSUME calm, ~own, AloneUnaided(s), Len(sold) < Base ^ Width
                   PROVE  n = Len(sold) + 1 /\ ~NumberTaken(n)
        OBVIOUS
      <3>1. n \in NextNumber(s)
        BY <2>1, <2>3 DEF NumbersInv
      <3>2. \A i \in DOMAIN sold : sold[i].number = i
        BY <2>1, <2>3 DEF NumbersInv, NumbersRunOn
      <3> QED
        BY <1>1, <3>1, <3>2, NextIsOneMore
    <2>7. CASE NumberTaken(n)
      <3>1. sold' = sold /\ pc = "refused"
        BY <1>3, <2>1, <2>2, <2>7 DEF InsertSale
      <3>2. NumbersRunOn'
        BY <1>3, <2>3, <2>6, <2>7, <3>1 DEF NumbersInv, NumbersRunOn, AloneUnaided
      <3> QED
        BY <1>1, <1>3, <2>3, <2>4, <2>5, <3>1, <3>2 DEF NumbersInv
    <2>8. CASE ~NumberTaken(n)
      <3>1. PICK e : e = [shop |-> s, number |-> n, own |-> own]
        OBVIOUS
      <3>2. sold' = Append(sold, e) /\ pc = "done"
        BY <1>3, <2>1, <2>2, <2>8, <3>1 DEF InsertSale
      <3>3. PICK S : S = {sold[i] : i \in DOMAIN sold} \cup {e}
        OBVIOUS
      <3>4. sold \in Seq(S) /\ e \in S
        BY <3>3 DEF NumbersInv
      <3>5. sold' \in Seq(S) /\ Len(sold') = Len(sold) + 1 /\ DOMAIN sold' = 1 .. Len(sold) + 1 /\ sold'[Len(sold) + 1] = e
            /\ \A i \in DOMAIN sold : sold'[i] = sold[i]
        BY <1>1, <3>2, <3>4
      <3>6. sold' \in Seq({sold'[i] : i \in DOMAIN sold'})
        BY <3>5
      <3>7. \A i, j \in DOMAIN sold' : sold'[i].number = sold'[j].number => i = j
        BY <1>1, <2>8, <3>1, <3>5 DEF NumbersInv, NumbersRunOn, NumberTaken
      <3>8. ASSUME NEW z \in Shops, calm, AloneUnaided(z)', Len(sold') < Base ^ Width
            PROVE  /\ \A i \in DOMAIN sold' : sold'[i].number = i
                   /\ \A u \in Tills : till'[u].pc = "refused" => till'[u].shop # z \/ till'[u].own
        <4>1. AloneUnaided(z) /\ z = s /\ ~own
          BY <1>1, <3>1, <3>5, <3>8 DEF AloneUnaided
        <4>2. Len(sold) < Base ^ Width
          BY <1>1, <3>5, <3>8, NumbersAssumption
        <4>3. n = Len(sold) + 1
          BY <2>6, <3>8, <4>1, <4>2
        <4>4. \A i \in DOMAIN sold : sold[i].number = i
          BY <3>8, <4>1, <4>2 DEF NumbersInv, NumbersRunOn
        <4>5. \A u \in Tills \ {t} : till'[u].pc = "refused" => till'[u].shop # z \/ till'[u].own
          BY <2>3, <3>8, <4>1, <4>2 DEF NumbersInv, NumbersRunOn
        <4> QED
          BY <1>1, <2>3, <3>1, <3>2, <3>5, <4>3, <4>4, <4>5
      <3>9. NumbersRunOn'
        BY <1>3, <3>7, <3>8 DEF NumbersRunOn
      <3> QED
        BY <1>1, <1>3, <2>3, <2>4, <2>5, <3>6, <3>9 DEF NumbersInv
    <2> QED
      BY <2>7, <2>8
  <1>4. CASE UNCHANGED <<numberVars, calm>>
    <2>1. UNCHANGED <<sold, till, calm>>
      BY <1>4 DEF numberVars
    <2>2. \A z : NextNumber(z)' = NextNumber(z)
      BY <2>1 DEF NextNumber, LastNumber, NumbersOf
    <2>3. NumbersRunOn'
      BY <2>1 DEF NumbersInv, NumbersRunOn, AloneUnaided
    <2> QED
      BY <2>1, <2>2, <2>3 DEF NumbersInv, AtInsert
  <1> QED
    BY <1>2, <1>3, <1>4 DEF NumbersNext

(* Nothing is sold at the start.                                           *)
LEMMA NumbersStart == NumbersInit => NumbersInv
  <1> SUFFICES ASSUME NumbersInit
               PROVE  NumbersInv
    OBVIOUS
  <1>1. sold = <<>> /\ DOMAIN till = Tills /\ \A t \in Tills : till[t] = IdleTill
    BY DEF NumbersInit
  <1>2. sold \in Seq({sold[i] : i \in DOMAIN sold}) /\ DOMAIN sold = {}
    BY <1>1
  <1> QED
    BY <1>1, <1>2 DEF NumbersInv, NumbersRunOn, AtInsert, IdleTill

(* A number that is given out is a number, or none.                        *)
LEMMA NextIsNumber ==
    ASSUME NumbersTypeOK, NEW s, NEW n \in NextNumber(s)
    PROVE  n \in Nat \cup {NaN, Text}
  <1>1. \A m \in NumbersOf(s) : m \in Nat \cup {NaN, Text}
    BY DEF NumbersOf, NumbersTypeOK
  <1>2. n = 1 \/ n = NaN \/ \E m \in NumbersOf(s) : m \notin {NaN, Text} /\ n = m + 1
    BY DEF NextNumber, LastNumber
  <1> QED
    BY <1>1, <1>2

(* Sales, and what a till is about to insert, keep to their types.         *)
LEMMA NumbersTypesStep ==
    ASSUME NumbersInv, NumbersTypeOK, [NumbersNext /\ UNCHANGED calm]_<<numberVars, calm>>
    PROVE  NumbersTypeOK'
  <1> DEFINE Numbers == Nat \cup {NaN, Text}
             Row == [pc : {"idle", "insert", "done", "refused"}, shop : Shops, number : Numbers, own : BOOLEAN]
  <1>0. till \in [Tills -> Row]
    BY DEF NumbersTypeOK
  <1>1. ASSUME NEW t \in Tills, NumberSale(t) \/ BringNumber(t) PROVE NumbersTypeOK'
    <2>1. UNCHANGED sold
      BY <1>1 DEF NumberSale, BringNumber
    <2>2. PICK s \in Shops, n \in Numbers, own \in BOOLEAN :
             till' = [till EXCEPT ![t] = [pc |-> "insert", shop |-> s, number |-> n, own |-> own]]
      <3>1. CASE NumberSale(t)
        <4>1. PICK s \in Shops : \E n \in NextNumber(s) : till' = [till EXCEPT ![t] = [pc |-> "insert", shop |-> s, number |-> n, own |-> FALSE]]
          BY <3>1 DEF NumberSale
        <4>2. \A n \in NextNumber(s) : n \in Numbers
          BY NextIsNumber
        <4> QED
          BY <4>1, <4>2
      <3>2. CASE BringNumber(t)
        <4>1. PICK s \in Shops, n \in Brought : till' = [till EXCEPT ![t] = [pc |-> "insert", shop |-> s, number |-> n, own |-> TRUE]]
          BY <3>2 DEF BringNumber
        <4>2. n \in Numbers
          BY NumbersAssumption
        <4> QED
          BY <4>1, <4>2
      <3> QED
        BY <1>1, <3>1, <3>2
    <2>3. till' \in [Tills -> Row]
      <3> DEFINE r == [pc |-> "insert", shop |-> s, number |-> n, own |-> own]
      <3>1. r \in Row
        BY <2>2
      <3>2. till' = [till EXCEPT ![t] = r]
        BY <2>2
      <3> HIDE DEF r, Row
      <3> QED
        BY <1>0, <3>1, <3>2
    <2> QED
      BY <2>1, <2>3 DEF NumbersTypeOK
  <1>2. ASSUME NEW t \in Tills, InsertSale(t) PROVE NumbersTypeOK'
    <2>1. till[t] \in Row /\ till[t].shop \in Shops /\ till[t].number \in Numbers
      BY <1>0
    <2>2. PICK pc \in {"refused", "done"} : till' = [till EXCEPT ![t].pc = pc]
      BY <1>2 DEF InsertSale
    <2>3. till' \in [Tills -> Row]
      BY <1>0, <2>2
    <2>4. \/ sold' = sold
          \/ sold' = Append(sold, [shop |-> till[t].shop, number |-> till[t].number, own |-> till[t].own])
      BY <1>2 DEF InsertSale
    <2>5. \A i \in DOMAIN sold' : sold'[i].shop \in Shops /\ sold'[i].number \in Numbers
      <3>1. CASE sold' = sold
        BY <3>1 DEF NumbersTypeOK
      <3>2. CASE sold' # sold
        <4> DEFINE e == [shop |-> till[t].shop, number |-> till[t].number, own |-> till[t].own]
                   S == {sold[i] : i \in DOMAIN sold}
        <4>1. e.shop \in Shops /\ e.number \in Numbers
          BY <2>1
        <4>2. sold \in Seq(S) /\ \A x \in S : x.shop \in Shops /\ x.number \in Numbers
          BY DEF NumbersInv, NumbersTypeOK
        <4>3. sold' = Append(sold, e)
          BY <2>4, <3>2
        <4> HIDE DEF e, S
        <4>4. sold' \in Seq(S \cup {e})
          BY <4>2, <4>3
        <4>5. \A i \in DOMAIN sold' : sold'[i] \in S \cup {e}
          BY <4>4
        <4> QED
          BY <4>1, <4>2, <4>5
      <3> QED
        BY <3>1, <3>2
    <2> QED
      BY <2>3, <2>5 DEF NumbersTypeOK
  <1>3. CASE UNCHANGED <<numberVars, calm>>
    BY <1>3 DEF numberVars, NumbersTypeOK
  <1> QED
    BY <1>1, <1>2, <1>3 DEF NumbersNext

(* For any organizations and requests: every sale has a number, or one the *)
(* program cannot read, and so has every sale about to be inserted.        *)
THEOREM NumbersTypeCorrect == NumbersSpec => []NumbersTypeOK
  <1>1. NumbersInit => NumbersTypeOK
    <2> SUFFICES ASSUME NumbersInit PROVE NumbersTypeOK
      OBVIOUS
    <2>1. IdleTill \in [pc : {"idle", "insert", "done", "refused"}, shop : Shops, number : Nat \cup {NaN, Text}, own : BOOLEAN]
      BY NumbersAssumption DEF IdleTill
    <2>2. sold = <<>> /\ till = [t \in Tills |-> IdleTill]
      BY DEF NumbersInit
    <2> QED
      BY <2>1, <2>2 DEF NumbersTypeOK
  <1>2. NumbersInv /\ NumbersTypeOK /\ [NumbersNext /\ UNCHANGED calm]_<<numberVars, calm>> => NumbersTypeOK'
    BY NumbersTypesStep
  <1> QED
    BY <1>1, <1>2, NumbersStart, NumbersStep, PTL DEF NumbersSpec

(* For any organizations, requests and width of the numbers, whatever      *)
(* interleaves: numbers are unique; in calm weather an organization that   *)
(* sells alone and lets the program number its sales has them numbered one *)
(* by one, and none refused, up to the first number of more digits.        *)
THEOREM NumbersAlwaysRunOn == NumbersSpec => []NumbersRunOn
  <1>1. NumbersInv => NumbersRunOn
    BY DEF NumbersInv
  <1> QED
    BY <1>1, NumbersStart, NumbersStep, PTL DEF NumbersSpec

-----------------------------------------------------------------------------
(* List pages.  NothingHidden speaks of an answer and of the page number   *)
(* at once; what makes it inductive is that a page reached by the pager    *)
(* has rows as long as rows only come, and that an answer counts no more   *)
(* rows than there are.  How many rows a page has follows from counting    *)
(* them by rank.                                                           *)
Rank(S, r) == Cardinality({x \in S : x >= r})

(* Ranks number the rows of a set from 1 to how many there are.            *)
LEMMA RanksCount ==
    ASSUME NEW S \in SUBSET Nat, IsFiniteSet(S)
    PROVE  /\ \A r \in S : Rank(S, r) \in 1..Cardinality(S)
           /\ \A r, s \in S : Rank(S, r) = Rank(S, s) => r = s
           /\ \A k \in 1..Cardinality(S) : \E r \in S : Rank(S, r) = k
  <1> DEFINE n == Cardinality(S)
             From(r) == {x \in S : x >= r}
             f == [r \in S |-> Rank(S, r)]
  <1>1. n \in Nat
    BY FS_CardinalityType
  <1>2. ASSUME NEW r \in S PROVE IsFiniteSet(From(r)) /\ Rank(S, r) \in 1..n
    <2>1. IsFiniteSet(From(r)) /\ Cardinality(From(r)) <= n
      BY FS_Subset
    <2>2. Cardinality(From(r)) \in Nat
      BY <2>1, FS_CardinalityType
    <2>3. r \in From(r)
      OBVIOUS
    <2>4. Cardinality(From(r)) # 0
      BY <2>1, <2>3, FS_EmptySet
    <2> QED
      BY <1>1, <2>1, <2>2, <2>4 DEF Rank
  <1>3. ASSUME NEW r \in S, NEW s \in S, r < s PROVE Rank(S, r) # Rank(S, s)
    <2>1. r \in Nat /\ s \in Nat /\ \A x \in S : x \in Nat
      OBVIOUS
    <2>2. (\A x \in S : x >= s => x >= r) /\ r >= r /\ ~(r >= s)
      BY <1>3, <2>1
    <2>3. From(s) \subseteq From(r) /\ r \in From(r) /\ r \notin From(s)
      BY <2>2
    <2> QED
      BY <1>2, <2>3, FS_Subset DEF Rank
  <1>4. \A r, s \in S : Rank(S, r) = Rank(S, s) => r = s
    BY <1>3
  <1>5. f \in Injection(S, 1..n)
    BY <1>2, <1>4 DEF Injection, IsInjective
  <1>6. IsFiniteSet(1..n) /\ Cardinality(1..n) = n
    BY <1>1, FS_Interval
  <1>7. f \in Surjection(S, 1..n)
    BY <1>5, <1>6, FS_Injection
  <1> QED
    BY <1>2, <1>4, <1>7 DEF Surjection

(* How many rows there are from one rank to another.                       *)
LEMMA Slices ==
    ASSUME NEW S \in SUBSET Nat, IsFiniteSet(S), NEW a \in Nat, NEW b \in Nat, a <= b,
           NEW T, T = {r \in S : a < Rank(S, r) /\ Rank(S, r) <= b}
    PROVE  /\ IsFiniteSet(T) /\ Cardinality(S) \in Nat
           /\ Cardinality(T) = IF Cardinality(S) <= a THEN 0 ELSE IF Cardinality(S) <= b THEN Cardinality(S) - a ELSE b - a
  <1> DEFINE n == Cardinality(S)
             m == IF n <= b THEN n ELSE b
             g == [r \in T |-> Rank(S, r)]
  <1>1. n \in Nat
    BY FS_CardinalityType
  <1>2. /\ \A r \in S : Rank(S, r) \in 1..n
        /\ \A r, s \in S : Rank(S, r) = Rank(S, s) => r = s
        /\ \A k \in 1..n : \E r \in S : Rank(S, r) = k
    BY RanksCount
  <1>3. IsFiniteSet(T)
    BY FS_Subset
  <1>4. \A r \in T : Rank(S, r) \in (a + 1)..m
    BY <1>1, <1>2
  <1>5. \A k \in (a + 1)..m : \E r \in T : Rank(S, r) = k
    <2> SUFFICES ASSUME NEW k \in (a + 1)..m PROVE \E r \in T : Rank(S, r) = k
      OBVIOUS
    <2>1. k \in 1..n /\ a < k /\ k <= b
      BY <1>1
    <2>2. PICK r \in S : Rank(S, r) = k
      BY <1>2, <2>1
    <2> QED
      BY <2>1, <2>2
  <1>6. g \in Bijection(T, (a + 1)..m)
    <2>1. g \in Injection(T, (a + 1)..m)
      BY <1>2, <1>4 DEF Injection, IsInjective
    <2>2. g \in Surjection(T, (a + 1)..m)
      BY <1>4, <1>5 DEF Surjection
    <2> QED
      BY <2>1, <2>2 DEF Bijection
  <1>7. Cardinality((a + 1)..m) = Cardinality(T)
    BY <1>3, <1>6, FS_Bijection DEF ExistsBijection
  <1>8. Cardinality((a + 1)..m) = IF a + 1 > m THEN 0 ELSE m - (a + 1) + 1
    <2>1. a + 1 \in Int /\ m \in Int
      BY <1>1
    <2> HIDE DEF m
    <2> QED
      BY <2>1, FS_Interval
  <1> QED
    BY <1>1, <1>3, <1>7, <1>8

(* A set that is not empty has a greatest row.                             *)
LEMMA NewestIs ==
    ASSUME NEW S \in SUBSET Nat, IsFiniteSet(S), S # {}
    PROVE  \E r \in S : \A x \in S : x <= r
  <1>1. Cardinality(S) \in Nat /\ Cardinality(S) # 0
    BY FS_CardinalityType, FS_EmptySet
  <1>2. PICK r \in S : Rank(S, r) = 1
    BY <1>1, RanksCount
  <1>3. ASSUME NEW x \in S, x > r PROVE FALSE
    <2>1. x = r
      <3>1. Rank(S, x) <= Rank(S, r)
        <4>1. x \in Nat /\ r \in Nat /\ \A y \in S : y \in Nat
          OBVIOUS
        <4>2. {y \in S : y >= x} \subseteq {y \in S : y >= r}
          <5>1. \A y \in S : y >= x => y >= r
            BY <1>3, <4>1
          <5> QED
            BY <5>1
        <4>3. IsFiniteSet({y \in S : y >= r})
          BY FS_Subset
        <4> QED
          BY <4>2, <4>3, FS_Subset DEF Rank
      <3> QED
        BY <1>1, <1>2, <3>1, RanksCount
    <2> QED
      BY <1>3, <2>1
  <1> QED
    BY <1>3

-----------------------------------------------------------------------------
(* What an answer says of its own page.                                    *)
Paged(q, a) ==
    /\ a.total \in 0..MaxRowId /\ a.rows \subseteq 1..MaxRowId
    /\ Cardinality(a.rows) =
          IF a.total <= (q.num - 1) * q.size THEN 0
          ELSE IF a.total <= q.num * q.size THEN a.total - (q.num - 1) * q.size
          ELSE q.num * q.size - (q.num - 1) * q.size

PagesOK == \A q \in DOMAIN answers : q.num \in Nat \ {0} /\ q.size \in Nat \ {0} /\ Paged(q, answers[q])

(* As long as rows only come, an answer never counts more rows than there  *)
(* are, and one that nothing has invalidated is what would be answered now.*)
AnswersOK ==
    "rows" \notin since =>
        \A q \in DOMAIN answers :
            answers[q].total <= Cardinality(Found(q)) /\ (q \notin old => answers[q] = Answer(q))

(* The page the user is on has rows, if he came there by the pager.        *)
PageOK == Asking /\ num > 1 /\ since \cap {"folder", "rows"} = {} => (num - 1) * size < Cardinality(Found(Query))

TabOK ==
    /\ size \in Sizes(tab)
    /\ tab \in {"sellers", "priceLists", "reservations"} => num = 1
    /\ tab = "reservations" => DOMAIN answers = {}

ListsInv == ListsTypeOK /\ TabOK /\ PagesOK /\ AnswersOK /\ PageOK

(* Whatever is asked for, rows are found and not made up.                  *)
LEMMA FoundIs ==
    ASSUME ListsTypeOK, NEW q
    PROVE  /\ Found(q) \subseteq DOMAIN listed /\ Found(q) \in SUBSET Nat
           /\ IsFiniteSet(Found(q)) /\ Cardinality(Found(q)) \in 0..MaxRowId
  <1>1. Found(q) \subseteq DOMAIN listed
    BY DEF Found, SalesFound, CustomersFound, AccountsFound, ItemsFound, FoundBy, Finding, Own
  <1>2. DOMAIN listed \subseteq 1..MaxRowId /\ MaxRowId \in Nat
    BY ListsAssumption DEF ListsTypeOK
  <1>3. IsFiniteSet(1..MaxRowId) /\ Cardinality(1..MaxRowId) = MaxRowId
    BY <1>2, FS_Interval
  <1>4. Found(q) \subseteq 1..MaxRowId
    BY <1>1, <1>2
  <1>5. IsFiniteSet(Found(q)) /\ Cardinality(Found(q)) <= MaxRowId
    BY <1>3, <1>4, FS_Subset
  <1> QED
    BY <1>1, <1>2, <1>4, <1>5, FS_CardinalityType

(* An answer counts what is found, and has the rows of its page.           *)
LEMMA AnswerIs ==
    ASSUME ListsTypeOK, NEW q, q.num \in Nat \ {0}, q.size \in Nat \ {0}
    PROVE  Paged(q, Answer(q)) /\ Answer(q).total = Cardinality(Found(q))
  <1> DEFINE S == Found(q)
             a == (q.num - 1) * q.size
             b == q.num * q.size
             T == {r \in S : a < Rank(S, r) /\ Rank(S, r) <= b}
  <1>1. S \in SUBSET Nat /\ S \subseteq 1..MaxRowId /\ IsFiniteSet(S) /\ Cardinality(S) \in 0..MaxRowId
    BY FoundIs DEF ListsTypeOK
  <1>2. a \in Nat /\ b \in Nat /\ a <= b
    <2>1. PICK n \in Nat : q.num = n + 1
      <3>1. q.num - 1 \in Nat /\ q.num = (q.num - 1) + 1
        OBVIOUS
      <3> QED
        BY <3>1
    <2>2. PICK s \in Nat : q.size = s
      OBVIOUS
    <2>3. n * s \in Nat /\ (n + 1) * s = n * s + s
      BY <2>1, <2>2
    <2>4. a = n * s /\ b = (n + 1) * s
      BY <2>1, <2>2
    <2> QED
      BY <2>3, <2>4, <2>2
  <1>3. Answer(q) = [rows |-> T, total |-> Cardinality(S)]
    BY DEF Answer, Rank
  <1>4. Cardinality(T) = IF Cardinality(S) <= a THEN 0 ELSE IF Cardinality(S) <= b THEN Cardinality(S) - a ELSE b - a
    <2> HIDE DEF S, a, b
    <2> QED
      BY <1>1, <1>2, Slices
  <1> QED
    BY <1>1, <1>3, <1>4 DEF Paged

(* What is found depends on the rows, the filters and the folder.          *)
LEMMA FoundSame ==
    ASSUME UNCHANGED <<tab, seller, listed>>
    PROVE  /\ \A q : Found(q)' = Found(q) /\ Answer(q)' = Answer(q)
           /\ UNCHANGED <<asked, opened>> => Found(Query)' = Found(Query)
  <1>1. \A q : Found(q)' = Found(q)
    BY DEF Found, SalesFound, CustomersFound, AccountsFound, ItemsFound, FoundBy, Finding, Own
  <1>2. \A q : Answer(q)' = Answer(q)
    BY <1>1 DEF Answer
  <1>3. UNCHANGED <<asked, opened>> => Found(Query)' = Found(Query)
    BY DEF Query, Found, SalesFound, CustomersFound, AccountsFound, ItemsFound, FoundBy, Finding, Own
  <1> QED
    BY <1>1, <1>2, <1>3

(* A new row hides none.                                                   *)
LEMMA FoundGrows ==
    ASSUME NEW n, n \notin DOMAIN listed, NEW k, listed' = Put(n, k), UNCHANGED <<tab, seller>>
    PROVE  \A q : Found(q) \subseteq Found(q)'
  <1>1. DOMAIN listed \subseteq DOMAIN listed' /\ \A r \in DOMAIN listed : listed'[r] = listed[r]
    BY DEF Put
  <1>2. Own \subseteq Own' /\ (\A c : Finding(c) \subseteq Finding(c)') /\ (\A on : FoundBy(on) \subseteq FoundBy(on)')
    BY <1>1 DEF Own, Finding, FoundBy
  <1>3. \A on : SalesFound(on) \subseteq SalesFound(on)' /\ CustomersFound(on) \subseteq CustomersFound(on)'
    BY <1>1, <1>2 DEF SalesFound, CustomersFound
  <1>4. (\A on : AccountsFound(on) \subseteq AccountsFound(on)') /\ (\A on, f : ItemsFound(on, f) \subseteq ItemsFound(on, f)')
    BY <1>2 DEF AccountsFound, ItemsFound
  <1> QED
    BY <1>2, <1>3, <1>4 DEF Found

(* What is shown.                                                          *)
LEMMA ShownIs ==
    ASSUME ListsInv, Shown # NoAnswer
    PROVE  /\ Query \in DOMAIN answers /\ Shown = answers[Query] /\ Asking
           /\ Query.num = num /\ Query.size = size /\ Paged(Query, Shown)
           /\ tab # "reservations"
  <1>1. Asking /\ Query \in DOMAIN answers /\ Shown = answers[Query]
    BY DEF Shown
  <1>2. Query.num = num /\ Query.size = size
    BY DEF Query
  <1> QED
    BY <1>1, <1>2 DEF ListsInv, PagesOK, TabOK

(* The pager offers the next page exactly when there are more rows.        *)
LEMMA PagerIs ==
    ASSUME ListsInv, Shown # NoAnswer, Shown.rows # {}
    PROVE  /\ (num - 1) * size < Shown.total
           /\ Tables[tab].pager = "rows" => (MoreRows <=> num * size < Shown.total)
           /\ (num - 1) * size + Cardinality(Shown.rows) < Shown.total <=> num * size < Shown.total
  <1>1. Paged(Query, Shown) /\ Query.num = num /\ Query.size = size
    BY ShownIs
  <1>2. num \in Nat \ {0} /\ size \in Nat \ {0} /\ tab \in DOMAIN Tables /\ size \in Sizes(tab) /\ MaxRowId \in Nat
    BY ListsAssumption DEF ListsInv, ListsTypeOK, TabOK
  <1>3. IsFiniteSet(Shown.rows)
    <2>1. IsFiniteSet(1..MaxRowId)
      BY <1>2, FS_Interval
    <2> QED
      BY <1>1, <2>1, FS_Subset DEF Paged
  <1>4. Cardinality(Shown.rows) # 0 /\ Cardinality(Shown.rows) \in Nat
    BY <1>3, FS_EmptySet, FS_CardinalityType
  <1> DEFINE a == (num - 1) * size
             b == num * size
  <1>5. a \in Nat /\ b \in Nat /\ b = a + size
    BY <1>2
  <1>6. Shown.total \in Nat
    BY <1>1, <1>2 DEF Paged
  <1>7. Cardinality(Shown.rows) = IF Shown.total <= a THEN 0 ELSE IF Shown.total <= b THEN Shown.total - a ELSE b - a
    BY <1>1 DEF Paged
  <1>8. a < Shown.total /\ (a + Cardinality(Shown.rows) < Shown.total <=> b < Shown.total)
    <2> HIDE DEF a, b
    <2> QED
      BY <1>4, <1>5, <1>6, <1>7
  <1>9. ASSUME Tables[tab].pager = "rows" PROVE MoreRows <=> b < Shown.total
    <2>1. CASE Tables[tab].next = "byRows"
      BY <2>1 DEF MoreRows
    <2>2. CASE Tables[tab].next # "byRows"
      <3>1. tab \in {"sales", "movements", "audit"} /\ Tables[tab].next = "byPages"
        BY <1>2, <1>9, <2>2 DEF Tables, Table, SalesTable, CustomersTable, VendorsTable, PurchasesTable, MovementsTable,
           AuditLogTable, ReservationsTable, LedgerAccountsTable, ItemsTable, SellersTable, PriceListsTable
      <3>2. size \in {1, 2}
        BY <1>2, <3>1 DEF Sizes
      <3>3. PICK t \in Nat : t = Shown.total
        BY <1>6
      <3>4. MoreRows <=> num # (t + size - 1) \div size
        BY <3>1, <3>3 DEF MoreRows, PageCount
      <3>5. CASE size = 1
        <4>1. (t + 1 - 1) \div 1 = t
          BY <3>3
        <4> QED
          BY <1>2, <1>8, <3>3, <3>4, <3>5, <4>1
      <3>6. CASE size = 2
        <4>1. (t + 2 - 1) \div 2 = num <=> t + 1 = 2 * num \/ t = 2 * num
          BY <1>2, <3>3
        <4>2. t > 2 * (num - 1)
          BY <1>2, <1>8, <3>3, <3>6
        <4> QED
          BY <1>2, <3>3, <3>4, <3>6, <4>1, <4>2
      <3> QED
        BY <3>2, <3>5, <3>6
    <2> QED
      BY <2>1, <2>2
  <1> QED
    BY <1>8, <1>9

-----------------------------------------------------------------------------
(* Steps that write no rows and get no answers.                            *)
LEMMA AnswersStay ==
    ASSUME PagesOK, AnswersOK, UNCHANGED <<tab, seller, listed, answers, old>>, "rows" \in since => "rows" \in since'
    PROVE  PagesOK' /\ AnswersOK'
  <1>1. PagesOK'
    BY DEF PagesOK, Paged
  <1>2. \A q : Found(q)' = Found(q) /\ Answer(q)' = Answer(q)
    BY FoundSame
  <1>3. AnswersOK'
    BY <1>2 DEF AnswersOK
  <1> QED
    BY <1>1, <1>3

LEMMA PageStays ==
    ASSUME PageOK, UNCHANGED <<tab, seller, listed, num, size, asked, opened, since>>
    PROVE  PageOK'
  <1>1. Found(Query)' = Found(Query)
    BY FoundSame
  <1> QED
    BY <1>1 DEF PageOK, Asking

(* The controls of a page belong to it.                                    *)
LEMMA ControlsAre ==
    ASSUME tab \in DOMAIN Tables
    PROVE  /\ Controls(tab) \subseteq Toolbars[tab].filters
           /\ tab \in {"sellers", "priceLists"} => Toolbars[tab].filters = {} /\ Tables[tab].pager = "never"
           /\ tab \notin {"sellers", "priceLists", "accounts", "reservations"} => Tables[tab].pager = "rows"
           /\ tab = "reservations" => "always" \in Toolbars[tab].refused
           /\ Toolbars[tab].keeps = {} \/ tab = "reservations"
BY DEF Controls, Tables, Toolbars, Table, Toolbar, SalesTable, CustomersTable, VendorsTable, PurchasesTable, MovementsTable,
   AuditLogTable, ReservationsTable, LedgerAccountsTable, ItemsTable, SellersTable, PriceListsTable, SalesBar, CustomersBar,
   VendorsBar, PurchasesBar, MovementsBar, MovementFilters, AuditLogBar, ReservationsBar, LedgerAccountsBar, ItemsBar, SellersBar

LEMMA FilterStep ==
    ASSUME ListsInv, (\E c \in Toolbars[tab].filters : Filter(c)) \/ Debounced \/ Clear
    PROVE  ListsInv'
  <1>1. UNCHANGED <<tab, seller, size, opened, listed, answers, old, ticked, dialog, deleting>>
    BY DEF Filter, Debounced, Clear, answerVars, tickVars
  <1>2. /\ tab \in DOMAIN Tables /\ Controls(tab) \subseteq Toolbars[tab].filters
        /\ Toolbars[tab].keeps = {} \/ tab = "reservations"
    BY ControlsAre DEF ListsInv, ListsTypeOK
  <1>3. /\ typed' \subseteq Toolbars[tab].filters /\ asked' \subseteq Toolbars[tab].filters /\ timer' \in BOOLEAN
        /\ since' \subseteq Toolbars[tab].filters \cup {"rows", "size", "folder"}
        /\ "rows" \in since => "rows" \in since'
    BY <1>2 DEF ListsInv, ListsTypeOK, Filter, Debounced, Clear, GoTo
  <1>4. num' = 1 \/ UNCHANGED <<num, asked, since>>
    BY <1>2 DEF ListsInv, TabOK, Filter, Debounced, Clear, GoTo
  <1>5. ListsTypeOK'
    BY <1>1, <1>3, <1>4 DEF ListsInv, ListsTypeOK
  <1>6. TabOK'
    BY <1>1, <1>4 DEF ListsInv, TabOK, Sizes
  <1>7. PagesOK' /\ AnswersOK'
    BY <1>1, <1>3, AnswersStay DEF ListsInv
  <1>8. PageOK'
    <2>1. CASE UNCHANGED <<num, asked, since>>
      BY <1>1, <2>1, PageStays DEF ListsInv
    <2>2. CASE num' = 1
      BY <2>2 DEF PageOK
    <2> QED
      BY <1>4, <2>1, <2>2
  <1> QED
    BY <1>5, <1>6, <1>7, <1>8 DEF ListsInv

LEMMA PagerStep ==
    ASSUME ListsInv, NextPage \/ PreviousPage \/ \E n \in {1, 2} : RecordsPerPage(n)
    PROVE  ListsInv'
  <1>1. UNCHANGED <<tab, seller, typed, asked, timer, opened, listed, answers, old, ticked, dialog, deleting>>
    BY DEF NextPage, PreviousPage, RecordsPerPage, answerVars, tickVars
  <1>2. Shown # NoAnswer /\ num \in Nat \ {0} /\ size \in Nat \ {0} /\ tab \in DOMAIN Tables
    BY DEF NextPage, PreviousPage, RecordsPerPage, PagerShown, ListsInv, ListsTypeOK
  <1>3. /\ num' \in Nat \ {0} /\ size' \in Nat \ {0}
        /\ since' \subseteq since \cup {"size"} /\ ("rows" \in since => "rows" \in since')
    BY <1>2 DEF NextPage, PreviousPage, RecordsPerPage, GoTo
  <1>4. ListsTypeOK'
    BY <1>1, <1>3 DEF ListsInv, ListsTypeOK
  <1>5. tab \notin {"sellers", "priceLists", "reservations"}
    <2>1. tab # "reservations"
      BY <1>2, ShownIs
    <2> QED
      BY <1>2, <2>1, ControlsAre DEF NextPage, PreviousPage, RecordsPerPage, PagerShown
  <1>6. TabOK'
    BY <1>1, <1>5 DEF ListsInv, TabOK, Sizes, NextPage, PreviousPage, RecordsPerPage
  <1>7. PagesOK' /\ AnswersOK'
    BY <1>1, <1>3, AnswersStay DEF ListsInv
  <1>8. Found(Query)' = Found(Query) /\ (Asking' <=> Asking)
    BY <1>1, FoundSame DEF Asking
  <1>9. Cardinality(Found(Query)) \in Nat
    BY FoundIs DEF ListsInv
  <1>10. ASSUME NextPage PROVE PageOK'
    <2> SUFFICES ASSUME since' \cap {"folder", "rows"} = {} PROVE (num' - 1) * size' < Cardinality(Found(Query))
      BY <1>8 DEF PageOK
    <2>1. num' = num + 1 /\ size' = size /\ "rows" \notin since
      BY <1>2, <1>3, <1>10 DEF NextPage, GoTo
    <2>2. tab # "accounts" /\ Tables[tab].pager = "rows" /\ Shown.rows # {} /\ MoreRows
      <3>1. tab # "accounts"
        BY <1>10 DEF NextPage, PagerShown, Tables, Table, LedgerAccountsTable
      <3>2. Tables[tab].pager = "rows"
        BY <1>2, <1>5, <3>1, ControlsAre
      <3> QED
        BY <1>10, <3>1, <3>2 DEF NextPage, PagerShown
    <2>3. num * size < Shown.total
      BY <1>2, <2>2, PagerIs
    <2>4. Shown.total <= Cardinality(Found(Query)) /\ Shown.total \in Nat
      BY <1>2, <2>1, ShownIs, ListsAssumption DEF ListsInv, AnswersOK, Paged
    <2>5. num' - 1 = num /\ num * size \in Nat
      BY <1>2, <2>1
    <2> QED
      BY <1>9, <2>1, <2>3, <2>4, <2>5
  <1>11. ASSUME PreviousPage PROVE PageOK'
    <2> SUFFICES ASSUME Asking, num' > 1, since' \cap {"folder", "rows"} = {}
                 PROVE (num' - 1) * size' < Cardinality(Found(Query))
      BY <1>8 DEF PageOK
    <2>1. num' = num - 1 /\ size' = size /\ since' = since
      BY <1>2, <1>11 DEF PreviousPage, GoTo
    <2>2. (num - 1) * size < Cardinality(Found(Query))
      BY <1>2, <1>11, <2>1 DEF ListsInv, PageOK, PreviousPage
    <2>3. (num - 2) * size <= (num - 1) * size /\ (num - 2) * size \in Int /\ (num - 1) * size \in Int
      BY <1>2
    <2>4. num' - 1 = num - 2
      BY <1>2, <2>1
    <2> QED
      BY <1>9, <2>1, <2>2, <2>3, <2>4
  <1>12. ASSUME NEW n \in {1, 2}, RecordsPerPage(n) PROVE PageOK'
    BY <1>12 DEF RecordsPerPage, GoTo, PageOK
  <1> QED
    BY <1>4, <1>6, <1>7, <1>10, <1>11, <1>12 DEF ListsInv

(* Opening and closing folders.                                            *)
LEMMA FolderMoves ==
    ASSUME ListsInv, (\E f \in OpenableFolders : OpenFolder(f)) \/ BackToFolders \/ BrowserBack
    PROVE  ListsInv'
  <1>1. tab = "items" /\ UNCHANGED <<tab, seller, size, listed, answers, old, ticked, dialog, deleting>>
    BY DEF OpenFolder, BackToFolders, BrowserBack, answerVars, tickVars
  <1>2. /\ opened' \in OpenableFolders \cup {AllFolders} /\ timer' \in BOOLEAN /\ num' \in Nat \ {0}
        /\ typed' \subseteq typed /\ asked' \subseteq asked /\ since' \subseteq since \cup {"folder"}
        /\ "rows" \in since => "rows" \in since'
    <2>1. opened \in OpenableFolders \cup {AllFolders} /\ timer \in BOOLEAN /\ num \in Nat \ {0}
      BY DEF ListsInv, ListsTypeOK
    <2>2. CASE \E f \in OpenableFolders : OpenFolder(f)
      BY <2>1, <2>2 DEF OpenFolder, GoTo
    <2>3. CASE BackToFolders
      <3>1. timer' \in BOOLEAN
        BY <2>3 DEF BackToFolders
      <3> QED
        BY <2>1, <2>3, <3>1 DEF BackToFolders, GoTo
    <2>4. CASE BrowserBack
      BY <2>1, <2>4 DEF BrowserBack
    <2> QED
      BY <2>2, <2>3, <2>4
  <1>3. ListsTypeOK'
    BY <1>1, <1>2 DEF ListsInv, ListsTypeOK
  <1>4. TabOK'
    BY <1>1 DEF ListsInv, TabOK, Sizes
  <1>5. PagesOK' /\ AnswersOK'
    BY <1>1, <1>2, AnswersStay DEF ListsInv
  <1>6. num' = 1 \/ "folder" \in since' \/ ~Asking'
    BY <1>1 DEF OpenFolder, BackToFolders, BrowserBack, GoTo, Asking
  <1> QED
    BY <1>3, <1>4, <1>5, <1>6 DEF ListsInv, PageOK

(* Ticks and the dialog of a bulk deletion.                                *)
LEMMA TickStep ==
    ASSUME ListsInv, (\E r \in 1..MaxRowId : Tick(r)) \/ TickAll \/ TrimTicks \/ AskBulkDelete \/ ConfirmBulkDelete
    PROVE  ListsInv'
  <1>1. UNCHANGED <<tab, seller, num, size, typed, asked, timer, opened, listed, answers, old, since>>
    BY DEF Tick, TickAll, TrimTicks, AskBulkDelete, ConfirmBulkDelete, answerVars
  <1>2. Shown # NoAnswer => Shown.rows \subseteq 1..MaxRowId
    BY ShownIs DEF Paged
  <1>3. ticked' \subseteq 1..MaxRowId /\ deleting' \subseteq 1..MaxRowId /\ dialog' \in {"none", "asked", "running"}
    BY <1>2 DEF Tick, TickAll, TrimTicks, AskBulkDelete, ConfirmBulkDelete, ListsInv, ListsTypeOK
  <1>4. ListsTypeOK' /\ TabOK'
    BY <1>1, <1>3 DEF ListsInv, ListsTypeOK, TabOK, Sizes
  <1> QED
    BY <1>1, <1>4, AnswersStay, PageStays DEF ListsInv

-----------------------------------------------------------------------------
(* Answers arrive, or grow old.                                            *)
LEMMA LoadStep ==
    ASSUME ListsInv, Load
    PROVE  ListsInv'
  <1>1. UNCHANGED <<tab, seller, num, size, typed, asked, timer, opened, listed, since, ticked, dialog, deleting>>
    BY DEF Load, tickVars
  <1> DEFINE here == Query
  <1>2. /\ DOMAIN answers' = DOMAIN answers \cup {here} /\ answers'[here] = Answer(here)
        /\ \A q \in DOMAIN answers \ {here} : answers'[q] = answers[q]
        /\ old' = old \ {here}
    BY DEF Load
  <1>3. here.num \in Nat \ {0} /\ here.size \in Nat \ {0}
    BY DEF Query, ListsInv, ListsTypeOK
  <1>4. Paged(here, Answer(here)) /\ Answer(here).total = Cardinality(Found(here)) /\ Cardinality(Found(here)) \in Nat
    BY <1>3, AnswerIs, FoundIs DEF ListsInv
  <1>5. PICK h : h = here
    OBVIOUS
  <1> HIDE DEF here
  <1>6. ListsTypeOK'
    BY <1>1, <1>2, <1>5 DEF ListsInv, ListsTypeOK
  <1>7. TabOK'
    <2>1. tab # "reservations"
      BY ControlsAre DEF Load, Refused, ListsInv, ListsTypeOK
    <2> QED
      BY <1>1, <2>1 DEF ListsInv, TabOK, Sizes
  <1>8. PagesOK'
    BY <1>2, <1>3, <1>4, <1>5 DEF ListsInv, PagesOK, Paged
  <1>9. \A q : Found(q)' = Found(q) /\ Answer(q)' = Answer(q)
    BY <1>1, FoundSame
  <1>10. AnswersOK'
    <2> SUFFICES ASSUME "rows" \notin since, NEW q \in DOMAIN answers'
                 PROVE  answers'[q].total <= Cardinality(Found(q)) /\ (q \notin old' => answers'[q] = Answer(q))
      BY <1>1, <1>9 DEF AnswersOK
    <2>1. CASE q = h
      BY <1>2, <1>4, <1>5, <2>1
    <2>2. CASE q # h
      <3>1. q \in DOMAIN answers /\ answers'[q] = answers[q] /\ (q \notin old' => q \notin old)
        BY <1>2, <1>5, <2>2
      <3> QED
        BY <3>1 DEF ListsInv, AnswersOK
    <2> QED
      BY <2>1, <2>2
  <1> QED
    BY <1>1, <1>6, <1>7, <1>8, <1>10, PageStays DEF ListsInv

LEMMA OldStep ==
    ASSUME ListsInv, RefreshList \/ BulkDeleteDone
    PROVE  ListsInv'
  <1>1. UNCHANGED <<tab, seller, num, size, typed, asked, timer, opened, listed, answers, since>> /\ old' = DOMAIN answers
    BY DEF RefreshList, BulkDeleteDone, tickVars
  <1>2. ticked' \subseteq 1..MaxRowId /\ deleting' \subseteq 1..MaxRowId /\ dialog' \in {"none", "asked", "running"}
    BY DEF RefreshList, BulkDeleteDone, tickVars, ListsInv, ListsTypeOK
  <1>3. ListsTypeOK' /\ TabOK'
    BY <1>1, <1>2 DEF ListsInv, ListsTypeOK, TabOK, Sizes
  <1>4. PagesOK'
    BY <1>1 DEF ListsInv, PagesOK, Paged
  <1>5. AnswersOK'
    <2>1. \A q : Found(q)' = Found(q)
      BY <1>1, FoundSame
    <2> QED
      BY <1>1, <2>1 DEF ListsInv, AnswersOK
  <1> QED
    BY <1>1, <1>3, <1>4, <1>5, PageStays DEF ListsInv

-----------------------------------------------------------------------------
(* Steps that write rows.                                                  *)
LEMMA CreateStep ==
    ASSUME ListsInv, NEW k \in RowKinds, CreateDialog(k)
    PROVE  ListsInv'
  <1>1. UNCHANGED <<tab, seller, num, size, typed, asked, timer, opened, answers, since, ticked, dialog, deleting>> /\ old' = DOMAIN answers
    BY DEF CreateDialog, Writes, tickVars
  <1>2. DOMAIN listed \subseteq 1..MaxRowId /\ MaxRowId \in Nat \ {0} /\ NewestId < MaxRowId
    BY ListsAssumption DEF ListsInv, ListsTypeOK, CreateDialog
  <1>3. NewestId \in Nat /\ \A r \in DOMAIN listed : r <= NewestId
    <2>1. CASE DOMAIN listed = {}
      BY <2>1 DEF NewestId
    <2>2. CASE DOMAIN listed # {}
      <3>1. IsFiniteSet(DOMAIN listed) /\ DOMAIN listed \in SUBSET Nat
        <4>1. IsFiniteSet(1..MaxRowId)
          BY <1>2, FS_Interval
        <4> QED
          BY <1>2, <4>1, FS_Subset
      <3>2. \E r \in DOMAIN listed : \A x \in DOMAIN listed : x <= r
        BY <2>2, <3>1, NewestIs
      <3> QED
        BY <2>2, <3>1, <3>2 DEF NewestId
    <2> QED
      BY <2>1, <2>2
  <1>4. PICK n : n = NewestId + 1
    OBVIOUS
  <1>5. n \in 1..MaxRowId /\ n \notin DOMAIN listed
    BY <1>2, <1>3, <1>4
  <1>6. listed' = Put(n, k)
    BY <1>4 DEF CreateDialog, Writes
  <1>7. DOMAIN listed' \subseteq 1..MaxRowId
    BY <1>2, <1>5, <1>6 DEF Put
  <1>8. ListsTypeOK' /\ TabOK'
    BY <1>1, <1>7 DEF ListsInv, ListsTypeOK, TabOK, Sizes
  <1>9. PagesOK'
    BY <1>1 DEF ListsInv, PagesOK, Paged
  <1>10. \A q : Found(q) \subseteq Found(q)'
    BY <1>1, <1>5, <1>6, FoundGrows
  <1>11. ASSUME NEW q PROVE Cardinality(Found(q)) <= Cardinality(Found(q)') /\ Cardinality(Found(q)) \in Nat /\ Cardinality(Found(q)') \in Nat
    <2>1. IsFiniteSet(Found(q)') /\ Cardinality(Found(q)') \in Nat
      <3>1. DOMAIN listed' \subseteq 1..MaxRowId /\ IsFiniteSet(1..MaxRowId)
        BY <1>2, <1>7, FS_Interval
      <3>2. Found(q)' \subseteq DOMAIN listed'
        BY DEF Found, SalesFound, CustomersFound, AccountsFound, ItemsFound, FoundBy, Finding, Own
      <3> QED
        BY <3>1, <3>2, FS_Subset, FS_CardinalityType
    <2>2. Cardinality(Found(q)) \in Nat
      BY FoundIs DEF ListsInv
    <2> QED
      BY <1>10, <2>1, <2>2, FS_Subset
  <1>12. AnswersOK'
    <2> SUFFICES ASSUME "rows" \notin since, NEW q \in DOMAIN answers PROVE answers[q].total <= Cardinality(Found(q)')
      BY <1>1 DEF AnswersOK
    <2>1. answers[q].total <= Cardinality(Found(q)) /\ answers[q].total \in Nat
      BY ListsAssumption DEF ListsInv, AnswersOK, PagesOK, Paged
    <2> QED
      BY <1>11, <2>1
  <1>13. PageOK'
    <2> SUFFICES ASSUME Asking, num > 1, since \cap {"folder", "rows"} = {} PROVE (num - 1) * size < Cardinality(Found(Query)')
      BY <1>1 DEF PageOK, Asking
    <2>1. PICK q : q = Query
      OBVIOUS
    <2>2. Found(Query)' = Found(q)'
      BY <1>1, <2>1 DEF Query, Found, SalesFound, CustomersFound, AccountsFound, ItemsFound, FoundBy, Finding, Own
    <2>3. (num - 1) * size < Cardinality(Found(q)) /\ (num - 1) * size \in Nat
      BY <2>1 DEF ListsInv, PageOK, ListsTypeOK
    <2> QED
      BY <1>11, <2>2, <2>3
  <1> QED
    BY <1>8, <1>9, <1>12, <1>13 DEF ListsInv

(* Steps that change or remove rows are remembered.                        *)
LEMMA GoneStep ==
    ASSUME ListsInv, UNCHANGED <<tab, seller, num, size, typed, asked, timer, opened, answers, ticked>>,
           DOMAIN listed' \subseteq DOMAIN listed, old' = old \/ old' = DOMAIN answers, since' = since \cup {"rows"},
           deleting' \subseteq deleting, UNCHANGED dialog
    PROVE  ListsInv'
  <1>1. ListsTypeOK' /\ TabOK'
    BY DEF ListsInv, ListsTypeOK, TabOK, Sizes
  <1>2. PagesOK'
    BY DEF ListsInv, PagesOK, Paged
  <1> QED
    BY <1>1, <1>2 DEF ListsInv, AnswersOK, PageOK

LEMMA WriteStep ==
    ASSUME ListsInv,
           \/ \E r \in DOMAIN listed, k \in RowKinds : EditDialog(r, k)
           \/ \E r \in DOMAIN listed : DeleteDialog(r) \/ SomebodyElse(r)
           \/ \E r \in deleting : BulkDeleteOne(r)
    PROVE  ListsInv'
  <1>1. ASSUME NEW r \in DOMAIN listed, NEW k \in RowKinds, EditDialog(r, k) PROVE ListsInv'
    BY <1>1, GoneStep DEF EditDialog, Writes, Put, tickVars
  <1>2. ASSUME NEW r \in DOMAIN listed, DeleteDialog(r) \/ SomebodyElse(r) PROVE ListsInv'
    BY <1>2, GoneStep DEF DeleteDialog, SomebodyElse, Writes, Without, tickVars
  <1>3. ASSUME NEW r \in deleting, BulkDeleteOne(r) PROVE ListsInv'
    <2>1. UNCHANGED <<tab, seller, num, size, typed, asked, timer, opened, answers, ticked, dialog>> /\ deleting' \subseteq deleting
      BY <1>3 DEF BulkDeleteOne
    <2>2. CASE r \in DOMAIN listed /\ Writes(Without({r}), TRUE)
      BY <2>1, <2>2, GoneStep DEF Writes, Without
    <2>3. CASE UNCHANGED <<listed, old, since>>
      <3>1. ListsTypeOK' /\ TabOK'
        BY <2>1, <2>3 DEF ListsInv, ListsTypeOK, TabOK, Sizes
      <3> QED
        BY <2>1, <2>3, <3>1, AnswersStay, PageStays DEF ListsInv
    <2> QED
      BY <1>3, <2>2, <2>3 DEF BulkDeleteOne
  <1> QED
    BY <1>1, <1>2, <1>3

-----------------------------------------------------------------------------
(* Every step of the specification.                                        *)
LEMMA ListsStep == ListsInv /\ [ListsNext /\ UNCHANGED calm]_<<listVars, calm>> => ListsInv'
  <1> SUFFICES ASSUME ListsInv, [ListsNext /\ UNCHANGED calm]_<<listVars, calm>> PROVE ListsInv'
    OBVIOUS
  <1>1. CASE ListsNext
    <2>1. CASE (\E c \in Toolbars[tab].filters : Filter(c)) \/ Debounced \/ Clear
      BY <2>1, FilterStep
    <2>2. CASE NextPage \/ PreviousPage \/ \E n \in {1, 2} : RecordsPerPage(n)
      BY <2>2, PagerStep
    <2>3. CASE Load \/ RefreshList
      BY <2>3, LoadStep, OldStep
    <2>4. CASE \E k \in RowKinds : CreateDialog(k) \/ \E r \in DOMAIN listed : EditDialog(r, k)
      BY <2>4, CreateStep, WriteStep
    <2>5. CASE \E r \in DOMAIN listed : DeleteDialog(r) \/ SomebodyElse(r)
      BY <2>5, WriteStep
    <2>6. CASE ItemsPage
      BY <2>6, FolderMoves, TickStep, WriteStep, OldStep DEF ItemsPage
    <2> QED
      BY <1>1, <2>1, <2>2, <2>3, <2>4, <2>5, <2>6 DEF ListsNext
  <1>2. CASE UNCHANGED <<listVars, calm>>
    <2>1. UNCHANGED listVars
      BY <1>2
    <2>2. ListsTypeOK' /\ TabOK'
      BY <2>1 DEF ListsInv, ListsTypeOK, TabOK, Sizes, listVars
    <2> QED
      BY <2>1, <2>2, AnswersStay, PageStays DEF ListsInv, listVars
  <1> QED
    BY <1>1, <1>2

LEMMA ListsInitInv == ListsInit => ListsInv
  <1> SUFFICES ASSUME ListsInit PROVE ListsInv
    OBVIOUS
  <1>1. DOMAIN listed \subseteq 1..MaxRowId
    <2>1. DOMAIN listed = 1..FirstRows
      BY DEF ListsInit
    <2> QED
      BY <2>1, ListsAssumption
  <1>2. DOMAIN answers = {}
    BY DEF ListsInit
  <1>3. size \in Nat \ {0}
    BY ListsAssumption DEF ListsInit, Sizes
  <1>4. ListsTypeOK
    <2>1. tab \in DOMAIN Tables /\ seller \in BOOLEAN /\ timer \in BOOLEAN /\ num = 1 /\ opened = AllFolders
      BY DEF ListsInit
    <2>2. typed = {} /\ asked = {} /\ old = {} /\ since = {} /\ ticked = {} /\ deleting = {} /\ dialog = "none"
      BY DEF ListsInit
    <2>3. num \in Nat \ {0} /\ opened \in OpenableFolders \cup {AllFolders}
      BY <2>1
    <2> QED
      BY <1>1, <1>3, <2>1, <2>2, <2>3 DEF ListsTypeOK
  <1> QED
    BY <1>2, <1>4 DEF ListsInit, ListsInv, TabOK, PagesOK, AnswersOK, PageOK

(* What a page shows of an invariant state.                                *)
LEMMA NothingHiddenIs == ListsInv => NothingHidden
  <1> SUFFICES ASSUME ListsInv, Shown # NoAnswer PROVE NothingHidden
    BY DEF NothingHidden
  <1>1. /\ Query \in DOMAIN answers /\ Shown = answers[Query] /\ Asking /\ Query.num = num /\ Query.size = size
        /\ Paged(Query, Shown) /\ tab # "reservations"
    BY ShownIs
  <1>2. num \in Nat \ {0} /\ size \in Nat \ {0} /\ tab \in DOMAIN Tables /\ Shown.total \in 0..MaxRowId /\ MaxRowId \in Nat
    BY <1>1, ListsAssumption DEF ListsInv, ListsTypeOK, Paged
  <1>3. ASSUME Shown.rows = {}, Shown.total > 0, Query \notin old, since \cap {"folder", "rows"} = {} PROVE FALSE
    <2>1. Shown.total <= (num - 1) * size
      <3>1. Cardinality(Shown.rows) = 0
        BY <1>3, FS_EmptySet
      <3>2. PICK a, b : a = (num - 1) * size /\ b = num * size
        OBVIOUS
      <3>3. a \in Nat /\ b \in Nat /\ b - a > 0
        BY <1>2, <3>2
      <3>4. Shown.total <= a
        BY <1>1, <1>2, <3>1, <3>2, <3>3 DEF Paged
      <3> QED
        BY <3>2, <3>4
    <2>2. num > 1
      BY <1>2, <1>3, <2>1
    <2>3. (num - 1) * size < Cardinality(Found(Query))
      BY <1>1, <1>3, <2>2 DEF ListsInv, PageOK
    <2>4. Shown.total = Cardinality(Found(Query))
      <3>1. Shown = Answer(Query)
        BY <1>1, <1>3 DEF ListsInv, AnswersOK
      <3>2. Answer(Query).total = Cardinality(Found(Query))
        BY <1>1, <1>2, AnswerIs DEF ListsInv
      <3> QED
        BY <3>1, <3>2
    <2>5. (num - 1) * size \in Nat
      BY <1>2
    <2> QED
      BY <1>2, <2>1, <2>3, <2>4, <2>5
  <1>4. ASSUME Shown.rows # {}, tab # "accounts"
        PROVE  (PagerShown /\ MoreRows) <=> (num - 1) * size + Cardinality(Shown.rows) < Shown.total
    <2>1. (num - 1) * size + Cardinality(Shown.rows) < Shown.total <=> num * size < Shown.total
      BY <1>4, PagerIs
    <2>2. CASE tab \in {"sellers", "priceLists"}
      <3>1. ~PagerShown
        BY <1>2, <2>2, ControlsAre DEF PagerShown
      <3>2. num * size = MaxRowId
        BY <1>2, <2>2 DEF ListsInv, TabOK, Sizes
      <3> QED
        BY <1>2, <2>1, <3>1, <3>2
    <2>3. CASE tab \notin {"sellers", "priceLists"}
      <3>1. Tables[tab].pager = "rows"
        BY <1>1, <1>2, <1>4, <2>3, ControlsAre
      <3>2. MoreRows <=> num * size < Shown.total
        BY <1>4, <3>1, PagerIs
      <3>3. num * size >= size
        BY <1>2
      <3>4. num * size < Shown.total => Shown.total > size
        BY <1>2, <3>3
      <3>5. num * size < Shown.total => PagerShown
        BY <1>4, <3>1, <3>4 DEF PagerShown
      <3> QED
        BY <2>1, <3>2, <3>5
    <2> QED
      BY <2>2, <2>3
  <1> QED
    BY <1>3, <1>4 DEF NothingHidden

(* The invariant of the list pages.                                        *)
THEOREM ListsInvariant == ListsSpec => []ListsInv
  <1>1. QED
    BY ListsInitInv, ListsStep, PTL DEF ListsSpec

(* No row that matches is out of reach of a list page: a page is shown     *)
(* empty only if nothing matches, and offers the next one exactly when     *)
(* there are more, on every page and for any filters, rows and folders.    *)
THEOREM NothingEverHidden == ListsSpec => []NothingHidden
  <1>1. QED
    BY ListsInvariant, NothingHiddenIs, PTL

-----------------------------------------------------------------------------
(* Migrations.  SchemaKept holds whatever the database was when the        *)
(* container was first started, wherever it died and however often it was  *)
(* recovered, for either mode of the scripts.  The invariant says,         *)
(* besides, what the step under way has found out: a migration that is     *)
(* about to be resolved as applied is there, and while tables are dropped  *)
(* no accounts were made in a whole ledger.                                *)
Outcome == {"failed", "rolledBack", "applied"}
Settled(s) == s # <<>> /\ Last(s) = "applied"

(* A migration that was ever recorded as applied still is.                 *)
Fine(s) == s \in Seq(Outcome) /\ ((\E i \in DOMAIN s : s[i] = "applied") => Settled(s))

There(m) == Files[m].makes \subseteq schema
KeysThere == PriceTables \subseteq schema => "priceKeys" \in schema

DataOK ==
    /\ rows \in [Migration -> Seq(Outcome)]
    /\ \A m \in Migration : Fine(rows[m]) /\ (Settled(rows[m]) => There(m))
    /\ KeysThere
    /\ ledgerUsed = "whole" => LedgerThere

Resolving == {"resolvePrefix", "resolveP3018", "resolveLists", "resolveStock", "resolveTarget"}

StepOK ==
    /\ todo.of \in Migration
    /\ step = "serving" => \A m \in Migration : Settled(rows[m])
    /\ step \in Resolving /\ todo.as = "applied" => There(todo.of)
    /\ step = "finish" => There(todo.of)
    /\ step = "drop" => ~Settled(rows["accounting"]) /\ ledgerUsed # "whole" /\ found \subseteq ToSet(LedgerTables)

MigrationsInv == DataOK /\ StepOK

-----------------------------------------------------------------------------
(* What the definitions of the files come to.                              *)
LEMMA FilesAre ==
    /\ Migration = {"accounting", "items", "purchaseStock", "folderPrefix", "priceLists"}
    /\ ToSet(LedgerTables) = {"CustomerBalanceSnapshot", "LedgerCategory", "LedgerAccount"}
    /\ Files["accounting"].makes = Accounting.makes /\ Files["items"].makes = {"Item"}
    /\ Files["purchaseStock"].makes = PurchaseStock.makes /\ Files["folderPrefix"].makes = FolderPrefix.makes
    /\ Files["priceLists"].makes = PriceTables \cup {"priceKeys"}
<1>1. Migration = {"accounting", "items", "purchaseStock", "folderPrefix", "priceLists"}
  <2>1. DOMAIN Order = 1..5 /\ Len(Order) = 5
    BY DEF Order
  <2>2. Order[1] = "accounting" /\ Order[2] = "items" /\ Order[3] = "purchaseStock" /\ Order[4] = "folderPrefix" /\ Order[5] = "priceLists"
    BY DEF Order
  <2>3. 1..5 = {1, 2, 3, 4, 5}
    OBVIOUS
  <2> QED
    BY <2>1, <2>2, <2>3 DEF Migration, ToSet
<1>2. ToSet(LedgerTables) = {"CustomerBalanceSnapshot", "LedgerCategory", "LedgerAccount"}
  <2>1. DOMAIN LedgerTables = 1..3
    BY DEF LedgerTables
  <2>2. LedgerTables[1] = "CustomerBalanceSnapshot" /\ LedgerTables[2] = "LedgerCategory" /\ LedgerTables[3] = "LedgerAccount"
    BY DEF LedgerTables
  <2>3. 1..3 = {1, 2, 3}
    OBVIOUS
  <2> QED
    BY <2>1, <2>2, <2>3 DEF ToSet
<1> QED
  BY <1>1, <1>2 DEF Files, ItemsModel, PriceListFile

(* The sequences a migration's rows become.                                *)
LEMMA RowsBecome ==
    ASSUME NEW s, Fine(s)
    PROVE  /\ Fine([i \in DOMAIN s |-> "rolledBack"]) /\ ~Settled([i \in DOMAIN s |-> "rolledBack"])
           /\ Fine(Append(s, "applied"))
           /\ (~\E i \in DOMAIN s : s[i] = "applied") => Fine(Append(s, "failed")) /\ ~Settled(Append(s, "failed"))
           /\ Fine(Append(Front(s), "applied"))
<1> DEFINE u == [i \in DOMAIN s |-> "rolledBack"]
<1>1. s \in Seq(Outcome) /\ DOMAIN s = 1..Len(s) /\ Len(s) \in Nat /\ \A i \in 1..Len(s) : s[i] \in Outcome
  BY DEF Fine
<1>2. u \in Seq(Outcome) /\ Len(u) = Len(s)
  BY <1>1 DEF Outcome
<1>4. Fine(u) /\ ~Settled(u)
  BY <1>1, <1>2 DEF Fine, Settled, Last
<1>5. Fine(Append(s, "applied"))
  BY <1>1 DEF Fine, Settled, Last, Outcome
<1>6. (~\E i \in DOMAIN s : s[i] = "applied") => Fine(Append(s, "failed")) /\ ~Settled(Append(s, "failed"))
  BY <1>1 DEF Fine, Settled, Last, Outcome
<1>7. Front(s) \in Seq(Outcome)
  BY <1>1 DEF Front
<1>8. Fine(Append(Front(s), "applied"))
  BY <1>7 DEF Fine, Settled, Last, Outcome
<1> QED
  BY <1>4, <1>5, <1>6, <1>8

(* Marking the failed rows as rolled back.                                 *)
LEMMA MarkedRows ==
    ASSUME NEW m \in Migration, Fine(rows[m])
    PROVE  Fine(Mark(m, "rolledBack")) /\ (Settled(Mark(m, "rolledBack")) => Settled(rows[m]))
<1> DEFINE s == rows[m]
           t == Mark(m, "rolledBack")
<1>1. s \in Seq(Outcome) /\ DOMAIN s = 1..Len(s) /\ Len(s) \in Nat /\ \A i \in 1..Len(s) : s[i] \in Outcome
  BY DEF Fine
<1>2. t \in Seq(Outcome) /\ Len(t) = Len(s) /\ \A i \in 1..Len(s) : t[i] = IF s[i] = "failed" THEN "rolledBack" ELSE s[i]
  BY <1>1 DEF Mark, Outcome
<1> HIDE DEF t
<1>3. (\E i \in DOMAIN t : t[i] = "applied") => s # <<>> /\ s[Len(s)] = "applied" /\ Len(s) > 0
  BY <1>1, <1>2 DEF Fine, Settled, Last
<1>4. Settled(t) => Settled(s)
  BY <1>1, <1>2 DEF Settled, Last
<1> QED
  BY <1>1, <1>2, <1>3, <1>4 DEF Fine, Settled, Last, t

-----------------------------------------------------------------------------
(* How the data may change: objects are added, never one half of the price *)
(* lists;                                                                  *)
LEMMA SchemaGrows ==
    ASSUME DataOK, schema \subseteq schema', KeysThere', UNCHANGED <<rows, ledgerUsed>>
    PROVE  DataOK'
BY DEF DataOK, There, LedgerThere

(* nothing that is recorded is touched;                                    *)
LEMMA DataStays ==
    ASSUME DataOK, UNCHANGED <<schema, rows, ledgerUsed>>
    PROVE  DataOK'
BY DEF DataOK, There, LedgerThere, KeysThere

(* a migration gets other rows, which record it as applied only if it is.  *)
LEMMA RowsChange ==
    ASSUME DataOK, UNCHANGED <<schema, ledgerUsed>>, NEW m \in Migration, NEW s, Fine(s), Settled(s) => Settled(rows[m]) \/ There(m),
           rows' = [rows EXCEPT ![m] = s]
    PROVE  DataOK'
BY DEF DataOK, There, LedgerThere, KeysThere, Fine

(* In particular the failed rows may be marked as rolled back,             *)
LEMMA MarkChange ==
    ASSUME DataOK, UNCHANGED <<schema, ledgerUsed>>, NEW m \in Migration, rows' = [rows EXCEPT ![m] = Mark(m, "rolledBack")]
    PROVE  DataOK'
<1>1. Fine(rows[m])
  BY DEF DataOK
<1>2. Fine(Mark(m, "rolledBack")) /\ (Settled(Mark(m, "rolledBack")) => Settled(rows[m]))
  BY <1>1, MarkedRows
<1> QED
  BY <1>2, RowsChange

(* and `prisma migrate resolve' may record what is there as applied.       *)
LEMMA CliChange ==
    ASSUME DataOK, UNCHANGED <<schema, ledgerUsed>>, NEW m \in Migration, NEW as, CliSucceeds(m, as), as = "applied" => There(m)
    PROVE  DataOK'
<1>1. CASE as = "applied"
  <2>1. Fine(rows[m])
    BY DEF DataOK
  <2>2. Fine(Mark(m, "rolledBack"))
    BY <2>1, MarkedRows
  <2>3. Fine(Append(Mark(m, "rolledBack"), "applied"))
    BY <2>2, RowsBecome
  <2> QED
    BY <1>1, <2>3, RowsChange DEF CliSucceeds
<1>2. CASE as # "applied"
  BY <1>2, MarkChange DEF CliSucceeds
<1> QED
  BY <1>1, <1>2

-----------------------------------------------------------------------------
(* The databases there are at the start.                                   *)
LEMMA InvInit == MigrationsInit => MigrationsInv
<1> SUFFICES ASSUME MigrationsInit PROVE MigrationsInv
  OBVIOUS
<1>1. PICK applied \in SUBSET Migration, failed \in BOOLEAN :
        /\ rows = [m \in Migration |->
                    IF m \in applied THEN <<"applied">> ELSE IF failed /\ FirstMissing(m, applied) THEN <<"failed">> ELSE <<>>]
        /\ \/ \E extra \in SUBSET Migration, notYet \in {{}, {"purchaseColumns"}, {"LedgerCategory"}} :
                schema = (Pushed \cup UNION {Files[m].makes : m \in applied \cup extra})
                            \ (IF "accounting" \in applied THEN {} ELSE notYet)
           \/ applied = {} /\ schema = {}
  BY DEF MigrationsInit
<1>2. \A m \in Migration : rows[m] \in {<<"applied">>, <<"failed">>, <<>>} /\ (m \notin applied => rows[m] \in {<<"failed">>, <<>>})
  BY <1>1
<1>3. Fine(<<"applied">>) /\ Fine(<<"failed">>) /\ Fine(<<>>) /\ ~Settled(<<"failed">>) /\ ~Settled(<<>>)
  BY DEF Fine, Settled, Last, Outcome
<1>4. rows \in [Migration -> Seq(Outcome)] /\ \A m \in Migration : Fine(rows[m]) /\ (Settled(rows[m]) => m \in applied)
  BY <1>1, <1>2, <1>3 DEF Fine
<1>5. \A m \in applied : There(m)
  <2>1. ASSUME NEW m \in applied, NEW extra \in SUBSET Migration, NEW notYet \in {{}, {"purchaseColumns"}, {"LedgerCategory"}},
               schema = (Pushed \cup UNION {Files[n].makes : n \in applied \cup extra})
                            \ (IF "accounting" \in applied THEN {} ELSE notYet)
        PROVE  There(m)
    <3>1. Files[m].makes \subseteq UNION {Files[n].makes : n \in applied \cup extra}
      OBVIOUS
    <3>2. m # "accounting" => "purchaseColumns" \notin Files[m].makes /\ "LedgerCategory" \notin Files[m].makes
      BY FilesAre DEF PurchaseStock, FolderPrefix, PriceTables
    <3> QED
      BY <2>1, <3>1, <3>2 DEF There
  <2> QED
    BY <1>1, <2>1
<1>6. KeysThere
  <2>1. ASSUME NEW extra \in SUBSET Migration, NEW notYet \in {{}, {"purchaseColumns"}, {"LedgerCategory"}},
               schema = (Pushed \cup UNION {Files[n].makes : n \in applied \cup extra})
                            \ (IF "accounting" \in applied THEN {} ELSE notYet),
               "PriceList" \in schema
        PROVE  "priceKeys" \in schema
    <3>1. PICK n \in applied \cup extra : "PriceList" \in Files[n].makes
      BY <2>1 DEF Pushed
    <3>2. n = "priceLists"
      BY <3>1, FilesAre DEF Accounting, PurchaseStock, FolderPrefix
    <3> QED
      BY <2>1, <3>2, FilesAre
  <2> QED
    BY <1>1, <2>1 DEF KeysThere, PriceTables
<1>7. ledgerUsed = "whole" => LedgerThere
  BY Zenon DEF MigrationsInit
<1>8. DataOK
  BY <1>4, <1>5, <1>6, <1>7 DEF DataOK
<1> QED
  BY <1>8, FilesAre DEF MigrationsInit, MigrationsInv, StepOK, Resolving, NoTodo

(* Steps that only look, and decide what comes next.                       *)
LEMMA LookStep ==
    ASSUME MigrationsInv,
           ResolveFolderPrefix \/ AuditDatabase \/ CheckP3018 \/ ListFailed \/ RecoverPriceLists \/ RecoverPurchaseStock
             \/ RecoverTarget \/ QueryFails \/ PreMigrateCleanup \/ StartAgain \/ Crash
    PROVE  MigrationsInv'
<1> USE DEF MigrationsInv
<1>1. UNCHANGED <<schema, rows, ledgerUsed>>
  BY DEF ResolveFolderPrefix, AuditDatabase, CheckP3018, ListFailed, RecoverPriceLists, RecoverPurchaseStock, RecoverTarget,
         QueryFails, PreMigrateCleanup, StartAgain, Crash
<1>2. DataOK'
  BY <1>1, DataStays
<1> USE DEF StepOK, Resolving, There, Then, Resolve, Due
<1>3. CASE ResolveFolderPrefix
  BY <1>1, <1>2, <1>3, FilesAre DEF ResolveFolderPrefix
<1>4. CASE AuditDatabase \/ ListFailed \/ PreMigrateCleanup \/ StartAgain
  BY <1>1, <1>2, <1>4 DEF AuditDatabase, ListFailed, PreMigrateCleanup, StartAgain
<1>5. CASE QueryFails \/ Crash
  BY <1>1, <1>2, <1>5 DEF QueryFails, Crash, Caught, Dies
<1>6. CASE CheckP3018
  BY <1>1, <1>2, <1>6, FilesAre DEF CheckP3018, ResolvePriceLists, PriceListsThere, DataOK, KeysThere
<1>7. CASE RecoverPriceLists
  BY <1>1, <1>2, <1>7, FilesAre DEF RecoverPriceLists, ResolvePriceLists, PriceListsThere, DataOK, KeysThere
<1>8. CASE RecoverPurchaseStock
  BY <1>1, <1>2, <1>8, FilesAre DEF RecoverPurchaseStock, PurchaseStockThere, Dies
<1>9. CASE RecoverTarget
  <2>1. CASE ~Is("accounting", "failed") \/ LedgerThere
    BY <1>1, <1>2, <1>9, <2>1, FilesAre DEF RecoverTarget, LedgerThere
  <2>2. CASE Is("accounting", "failed") /\ ~LedgerThere
    <3>1. ~Settled(rows["accounting"]) /\ ledgerUsed # "whole"
      BY <2>2 DEF Is, Settled, DataOK
    <3> QED
      BY <1>1, <1>2, <1>9, <2>2, <3>1, FilesAre DEF RecoverTarget
  <2> QED
    BY <2>1, <2>2
<1> QED
  BY <1>3, <1>4, <1>5, <1>6, <1>7, <1>8, <1>9

(* Steps that write rows.                                                  *)
LEMMA RowsStep ==
    ASSUME MigrationsInv,
           \/ PrefixResolved \/ P3018Resolved \/ PriceListsResolved \/ PurchaseStockResolved \/ TargetResolved
           \/ RollBackTarget \/ ForceRollback \/ MarkRolledBack \/ ResolveByHand \/ \E m \in Migration : ResolveFailed(m)
    PROVE  MigrationsInv'
<1> USE DEF MigrationsInv
<1>1. ASSUME NEW here \in Resolving, NEW next \in {"audit", "list", "purchaseStock", "target", "cleanup"}, RunCli(here, next)
      PROVE  MigrationsInv'
  <2>1. todo.of \in Migration /\ (todo.as = "applied" => There(todo.of)) /\ UNCHANGED <<schema, ledgerUsed, todo>>
    BY <1>1 DEF StepOK, RunCli, Due
  <2>2. DataOK'
    BY <1>1, <2>1, CliChange, DataStays DEF RunCli, Cli
  <2>3. step' \in {"audit", "list", "purchaseStock", "target", "cleanup", "down"}
    BY <1>1 DEF RunCli, Cli, Then, Dies
  <2> QED
    BY <2>1, <2>2, <2>3 DEF StepOK, Resolving
<1>2. CASE PrefixResolved \/ P3018Resolved \/ PriceListsResolved \/ PurchaseStockResolved \/ TargetResolved
  BY <1>1, <1>2 DEF PrefixResolved, P3018Resolved, PriceListsResolved, PurchaseStockResolved, TargetResolved, Resolving
<1>3. CASE RollBackTarget \/ ForceRollback
  <2>1. DataOK'
    BY <1>3, FilesAre, CliChange, MarkChange, DataStays DEF RollBackTarget, ForceRollback
  <2> QED
    BY <1>3, <2>1 DEF RollBackTarget, ForceRollback, StepOK, Resolving, Then, Due, Caught
<1>4. CASE MarkRolledBack
  <2>1. DataOK'
    <3>1. CASE UNCHANGED rows
      BY <1>4, <3>1, DataStays DEF MarkRolledBack
    <3>2. CASE \E m \in found : rows' = [rows EXCEPT ![m] = Mark(m, "rolledBack")]
      <4>1. PICK m \in found : rows' = [rows EXCEPT ![m] = Mark(m, "rolledBack")]
        BY <3>2
      <4>2. CASE m \in Migration
        BY <1>4, <4>1, <4>2, MarkChange DEF MarkRolledBack
      <4>3. CASE m \notin Migration
        BY <1>4, <4>1, <4>3, DataStays DEF MarkRolledBack, DataOK
      <4> QED
        BY <4>2, <4>3
    <3> QED
      BY <1>4, <3>1, <3>2 DEF MarkRolledBack
  <2> QED
    BY <1>4, <2>1 DEF MarkRolledBack, StepOK, Resolving, Then, Due, Dies
<1>5. CASE ResolveByHand
  <2>1. There("purchaseStock")
    BY <1>5, FilesAre DEF ResolveByHand, There
  <2>2. DataOK'
    BY <1>5, <2>1, FilesAre, CliChange DEF ResolveByHand
  <2> QED
    BY <1>5, <2>2 DEF ResolveByHand, StepOK, Resolving, Due
<1>6. CASE \E m \in Migration : ResolveFailed(m)
  <2>1. PICK m \in Migration : ResolveFailed(m)
    BY <1>6
  <2> DEFINE s == [i \in DOMAIN rows[m] |-> "rolledBack"]
  <2>2. Fine(s) /\ ~Settled(s)
    BY RowsBecome DEF DataOK
  <2>3. rows' = [rows EXCEPT ![m] = s] /\ UNCHANGED <<schema, ledgerUsed, step, todo, found>> /\ step = "down"
    BY <2>1 DEF ResolveFailed, Due
  <2> HIDE DEF s
  <2>4. DataOK'
    BY <2>2, <2>3, RowsChange
  <2> QED
    BY <2>3, <2>4 DEF StepOK, Resolving
<1> QED
  BY <1>2, <1>3, <1>4, <1>5, <1>6

(* Steps that make or drop objects.                                        *)
LEMMA SchemaStep ==
    ASSUME MigrationsInv, DbPush \/ DropPartialTable \/ DeployRuns \/ RepairByHand \/ UseLedger
    PROVE  MigrationsInv'
<1> USE DEF MigrationsInv
<1>1. CASE DbPush
  <2>1. CASE schema' = Everything
    <3>1. \A m \in Migration : Files[m].makes \subseteq Everything
      BY DEF Everything
    <3>2. LedgerThere' /\ KeysThere' /\ \A m \in Migration : There(m)'
      BY <2>1, <3>1, FilesAre DEF LedgerThere, KeysThere, There
    <3>3. DataOK'
      BY <1>1, <3>2 DEF DbPush, DataOK
    <3> QED
      BY <1>1, <3>3, <3>2 DEF DbPush, StepOK, Resolving, Then, Due, Caught
  <2>2. CASE UNCHANGED schema
    BY <1>1, <2>2, DataStays DEF DbPush, StepOK, Resolving, Then, Due, Caught
  <2> QED
    BY <1>1, <2>1, <2>2 DEF DbPush
<1>2. CASE DropPartialTable
  <2>1. ~Settled(rows["accounting"]) /\ ledgerUsed # "whole" /\ found \subseteq ToSet(LedgerTables)
    BY <1>2 DEF DropPartialTable, StepOK, Due
  <2>2. UNCHANGED <<rows, ledgerUsed, todo>>
    BY <1>2 DEF DropPartialTable
  <2>3. CASE UNCHANGED <<schema, found>>
    BY <1>2, <2>3, DataStays DEF DropPartialTable, StepOK, Resolving, Then, Due, Caught
  <2>4. CASE ~UNCHANGED <<schema, found>>
    <3>1. PICK t \in found : schema' = schema \ {t} /\ found' = found \ {t} /\ UNCHANGED step
      BY <1>2, <2>4 DEF DropPartialTable, IsFirst
    <3>2. \A m \in Migration \ {"accounting"} : t \notin Files[m].makes
      BY <2>1, FilesAre DEF PurchaseStock, FolderPrefix, PriceTables
    <3>3. \A m \in Migration : Settled(rows[m]) => There(m)'
      BY <2>1, <3>1, <3>2 DEF DataOK, There
    <3>4. KeysThere'
      BY <2>1, <3>1, FilesAre DEF DataOK, KeysThere, PriceTables
    <3>5. DataOK'
      BY <2>1, <2>2, <3>3, <3>4 DEF DataOK
    <3> QED
      BY <1>2, <2>1, <2>2, <3>1, <3>5 DEF StepOK, DropPartialTable, Due, Resolving
  <2> QED
    BY <2>3, <2>4
<1>3. CASE DeployRuns
  <2>1. todo.of \in Migration /\ UNCHANGED <<rows, ledgerUsed, todo>>
    BY <1>3 DEF DeployRuns, StepOK
  <2>2. CASE schema' = schema \cup Files[todo.of].makes /\ step' = "finish"
    <3>1. KeysThere'
      <4>1. CASE todo.of = "priceLists"
        BY <2>2, <4>1, FilesAre DEF KeysThere
      <4>2. CASE todo.of # "priceLists"
        <5>1. "PriceList" \notin Files[todo.of].makes /\ "PriceListItem" \notin Files[todo.of].makes
                /\ "PriceListItemOverride" \notin Files[todo.of].makes
          BY <2>1, <4>2, FilesAre DEF Accounting, PurchaseStock, FolderPrefix
        <5> QED
          BY <2>2, <5>1 DEF DataOK, KeysThere, PriceTables
      <4> QED
        BY <4>1, <4>2
    <3>2. DataOK' /\ There(todo.of)'
      BY <2>1, <2>2, <3>1, SchemaGrows DEF There
    <3> QED
      BY <2>1, <2>2, <3>2 DEF StepOK, Resolving, There
  <2>3. CASE UNCHANGED schema /\ step' = "down"
    BY <2>1, <2>3, DataStays DEF StepOK, Resolving
  <2> QED
    BY <1>3, <2>2, <2>3 DEF DeployRuns, Then, Dies
<1>4. CASE RepairByHand
  <2>1. UNCHANGED <<rows, ledgerUsed, step, todo, found>> /\ schema \subseteq schema'
    BY <1>4 DEF RepairByHand
  <2>2. KeysThere'
    BY <1>4 DEF RepairByHand, PurchaseStock, DataOK, KeysThere, PriceTables
  <2>3. DataOK'
    BY <2>1, <2>2, SchemaGrows
  <2> QED
    BY <2>1, <2>3 DEF StepOK, There
<1>5. CASE UseLedger
  <2>1. LedgerThere
    BY <1>5, FilesAre DEF UseLedger, Due, StepOK, DataOK, There, LedgerThere
  <2> QED
    BY <1>5, <2>1 DEF UseLedger, Due, StepOK, DataOK, There, LedgerThere, KeysThere, Resolving
<1> QED
  BY <1>1, <1>2, <1>3, <1>4, <1>5

(* prisma migrate deploy records a migration before it runs the file and   *)
(* finishes the record after.                                              *)
LEMMA DeployStep ==
    ASSUME MigrationsInv, DeployBegins \/ DeployFinishes
    PROVE  MigrationsInv'
<1> USE DEF MigrationsInv
<1>1. CASE DeployBegins /\ Undeployed = {} /\ UNCHANGED rows
  <2>1. \A m \in Migration : Settled(rows[m])
    BY <1>1 DEF Undeployed, AnyRowIs, DataOK, Fine
  <2> QED
    BY <1>1, <2>1, DataStays DEF DeployBegins, IsFirst, StepOK, Resolving, Then, Due
<1>2. CASE DeployBegins /\ ~(Undeployed = {} /\ UNCHANGED rows)
  <2>1. PICK i \in DOMAIN Order : Order[i] \in Undeployed /\ rows' = [rows EXCEPT ![Order[i]] = Append(@, "failed")]
                                  /\ Resolve(Order[i], "applied", "run")
    BY <1>2 DEF DeployBegins, IsFirst
  <2> DEFINE m == Order[i]
             s == Append(rows[m], "failed")
  <2>2. m \in Migration /\ ~AnyRowIs(m, "applied") /\ Fine(rows[m])
    BY <2>1 DEF Undeployed, DataOK
  <2>3. Fine(s) /\ ~Settled(s)
    BY <2>2, RowsBecome DEF AnyRowIs
  <2>4. rows' = [rows EXCEPT ![m] = s] /\ todo' = [of |-> m, as |-> "applied"] /\ step' = "run" /\ UNCHANGED <<schema, ledgerUsed>>
    BY <1>2, <2>1, <2>2 DEF DeployBegins, Resolve, Then, DataOK
  <2> HIDE DEF m, s
  <2>5. DataOK'
    BY <2>2, <2>3, <2>4, RowsChange
  <2> QED
    BY <2>2, <2>4, <2>5 DEF StepOK, Resolving
<1>3. CASE DeployFinishes
  <2> DEFINE m == todo.of
             s == Append(Front(rows[m]), "applied")
  <2>1. m \in Migration /\ There(m)
    BY <1>3 DEF DeployFinishes, StepOK, Due
  <2>2. Fine(s)
    BY <2>1, RowsBecome DEF DataOK
  <2>3. rows' = [rows EXCEPT ![m] = s] /\ step' = "deploy" /\ UNCHANGED <<schema, ledgerUsed, todo>>
    BY <1>3, <2>1 DEF DeployFinishes, Then, DataOK
  <2> HIDE DEF s
  <2>4. DataOK'
    BY <2>1, <2>2, <2>3, RowsChange
  <2> QED
    BY <2>1, <2>3, <2>4 DEF StepOK, Resolving
<1> QED
  BY <1>1, <1>2, <1>3

-----------------------------------------------------------------------------

-----------------------------------------------------------------------------
(* Types.                                                                  *)
TodoType == [of : Migration, as : {"none", "applied", "rolledBack"}]
Findable == Migration \cup ToSet(LedgerTables)

(* Where a start goes on.                                                  *)
LEMMA StepStays ==
    ASSUME MigrationsNext
    PROVE  step' = step \/ step' \in Steps
<1> USE DEF Then, Dies, Caught, Resolve, Steps
<1>1. ASSUME Recover PROVE step' = step \/ step' \in Steps
  BY <1>1 DEF Recover, AuditDatabase, DbPush, CheckP3018, ResolvePriceLists, P3018Resolved, RunCli, Cli, ListFailed, RecoverPriceLists,
     PriceListsResolved, RecoverPurchaseStock, PurchaseStockResolved, RecoverTarget, TargetResolved, DropPartialTable, RollBackTarget,
     ForceRollback, QueryFails
<1> QED
  BY <1>1 DEF MigrationsNext, ResolveFolderPrefix, PrefixResolved, RunCli, Cli, PreMigrateCleanup, MarkRolledBack, DeployBegins,
     DeployRuns, DeployFinishes, UseLedger, StartAgain, Crash, RepairByHand, ResolveByHand, ResolveFailed

(* What it has found.                                                      *)
LEMMA FoundStays ==
    ASSUME MigrationsNext, found \subseteq Findable
    PROVE  found' \subseteq Findable
<1>1. Failed \subseteq Findable /\ ToSet(LedgerTables) \cap schema \subseteq Findable
  BY DEF Failed, Findable
<1>2. ASSUME Recover PROVE found' = found \/ found' = Failed \/ found' = ToSet(LedgerTables) \cap schema \/ \E x : found' = found \ {x}
  BY <1>2 DEF Recover, AuditDatabase, DbPush, CheckP3018, P3018Resolved, RunCli, ListFailed, RecoverPriceLists,
     PriceListsResolved, RecoverPurchaseStock, PurchaseStockResolved, RecoverTarget, TargetResolved, DropPartialTable, RollBackTarget,
     ForceRollback, QueryFails
<1>3. found' = found \/ found' = Failed \/ found' = ToSet(LedgerTables) \cap schema \/ \E x : found' = found \ {x}
  BY <1>2 DEF MigrationsNext, ResolveFolderPrefix, PrefixResolved, RunCli, PreMigrateCleanup, MarkRolledBack, DeployBegins,
     DeployRuns, DeployFinishes, UseLedger, StartAgain, Crash, RepairByHand, ResolveByHand, ResolveFailed
<1> QED
  BY <1>1, <1>3

(* What it is about to resolve.                                            *)
LEMMA TodoStays ==
    ASSUME MigrationsNext, todo \in TodoType
    PROVE  todo' \in TodoType
<1>1. \A i \in DOMAIN Order : Order[i] \in Migration
  BY DEF Migration, ToSet
<1>2. ASSUME NEW m \in Migration, NEW as \in {"applied", "rolledBack"} PROVE [of |-> m, as |-> as] \in TodoType
  BY DEF TodoType
<1>3. ASSUME NEW m, NEW as, NEW next, Resolve(m, as, next) PROVE todo' = [of |-> m, as |-> as]
  BY <1>3 DEF Resolve
<1>4. \/ todo' = todo
      \/ \E m \in Migration, as \in {"applied", "rolledBack"} : todo' = [of |-> m, as |-> as]
  <2> USE FilesAre DEF Resolve
  <2>1. ASSUME Recover PROVE todo' = todo \/ \E m \in Migration, as \in {"applied", "rolledBack"} : todo' = [of |-> m, as |-> as]
    BY <2>1 DEF Recover, AuditDatabase, DbPush, CheckP3018, ResolvePriceLists, P3018Resolved, RunCli, ListFailed, RecoverPriceLists,
       PriceListsResolved, RecoverPurchaseStock, PurchaseStockResolved, RecoverTarget, TargetResolved, DropPartialTable, RollBackTarget,
       ForceRollback, QueryFails
  <2> QED
    BY <1>1, <2>1 DEF MigrationsNext, ResolveFolderPrefix, PrefixResolved, RunCli, PreMigrateCleanup, MarkRolledBack, DeployBegins,
       DeployRuns, DeployFinishes, UseLedger, StartAgain, Crash, RepairByHand, ResolveByHand, ResolveFailed
<1> QED
  BY <1>2, <1>4

(* The objects there are.                                                  *)
LEMMA SchemaStays ==
    ASSUME MigrationsNext, schema \subseteq Everything, todo \in TodoType
    PROVE  schema' \subseteq Everything
<1>1. \A m \in Migration : Files[m].makes \subseteq Everything
  BY DEF Everything
<1>2. todo.of \in Migration /\ PurchaseStock.makes \subseteq Everything
  BY <1>1, FilesAre DEF TodoType
<1>3. ASSUME Recover PROVE schema' = Everything \/ schema' \subseteq schema
  BY <1>3 DEF Recover, AuditDatabase, DbPush, CheckP3018, P3018Resolved, RunCli, ListFailed, RecoverPriceLists,
     PriceListsResolved, RecoverPurchaseStock, PurchaseStockResolved, RecoverTarget, TargetResolved, DropPartialTable, RollBackTarget,
     ForceRollback, QueryFails
<1>4. \/ schema' = Everything \/ schema' \subseteq schema \/ schema' = schema \cup Files[todo.of].makes
      \/ \E o \in PurchaseStock.makes : schema' = schema \cup {o}
  BY <1>3 DEF MigrationsNext, ResolveFolderPrefix, PrefixResolved, RunCli, PreMigrateCleanup, MarkRolledBack, DeployBegins,
     DeployRuns, DeployFinishes, UseLedger, StartAgain, Crash, RepairByHand, ResolveByHand, ResolveFailed
<1> QED
  BY <1>1, <1>2, <1>4

(* How often it was started, and whether the ledger was used.              *)
LEMMA StartsStay ==
    ASSUME MigrationsNext, starts \in Nat, ledgerUsed \in {"no", "half", "whole"}, instructed \in BOOLEAN
    PROVE  starts' \in Nat /\ ledgerUsed' \in {"no", "half", "whole"} /\ instructed' \in BOOLEAN
<1>1. ASSUME Recover PROVE starts' = starts /\ ledgerUsed' = ledgerUsed /\ (instructed' = instructed \/ instructed' = TRUE)
  BY <1>1 DEF Recover, AuditDatabase, DbPush, CheckP3018, P3018Resolved, RunCli, ListFailed, RecoverPriceLists,
     PriceListsResolved, RecoverPurchaseStock, PurchaseStockResolved, RecoverTarget, TargetResolved, DropPartialTable, RollBackTarget,
     ForceRollback, QueryFails
<1>2. /\ starts' = starts \/ starts' = starts + 1
      /\ ledgerUsed' = ledgerUsed \/ ledgerUsed' = "whole"
      /\ instructed' = instructed \/ instructed' = TRUE \/ instructed' = FALSE
  BY <1>1 DEF MigrationsNext, ResolveFolderPrefix, PrefixResolved, RunCli, PreMigrateCleanup, MarkRolledBack, DeployBegins,
     DeployRuns, DeployFinishes, UseLedger, StartAgain, Crash, RepairByHand, ResolveByHand, ResolveFailed
<1>3. starts' \in Nat
  BY <1>2
<1>4. ledgerUsed' \in {"no", "half", "whole"} /\ instructed' \in BOOLEAN
  BY <1>2, Zenon
<1> QED
  BY <1>3, <1>4, Zenon

(* A start, a person and a crash keep the invariant.                       *)
LEMMA MigrationsStep ==
    ASSUME MigrationsInv, [MigrationsNext /\ UNCHANGED calm]_<<migrationVars, calm>>
    PROVE  MigrationsInv'
<1>1. CASE MigrationsNext
  BY <1>1, LookStep, RowsStep, SchemaStep, DeployStep DEF MigrationsNext, Recover
<1>2. CASE UNCHANGED <<migrationVars, calm>>
  <2>1. DataOK'
    BY <1>2, DataStays DEF MigrationsInv, migrationVars
  <2> QED
    BY <1>2, <2>1 DEF MigrationsInv, migrationVars, StepOK, There
<1> QED
  BY <1>1, <1>2

(* Whatever the database was when the first container started, a ledger    *)
(* pushed half and filled included, and wherever containers died: the      *)
(* record of migrations agrees with the schema, the API serves only a      *)
(* database migrated to the end, and accounts made in a whole ledger stay. *)
THEOREM SchemaAlwaysKept == MigrationsSpec => []SchemaKept
<1>1. MigrationsInv => SchemaKept
  BY FilesAre DEF MigrationsInv, SchemaKept, DataOK, StepOK, Settled, Is, There, LedgerThere, Accounting
<1> QED
  BY <1>1, InvInit, MigrationsStep, PTL DEF MigrationsSpec

(* The database there is at the start has only objects that are pushed or  *)
(* that some file makes.                                                   *)
LEMMA MigrationsTypesStart == MigrationsInit => MigrationsTypeOK
<1> SUFFICES ASSUME MigrationsInit PROVE MigrationsTypeOK
  OBVIOUS
<1>1. MigrationsInv
  BY InvInit
<1>2. rows \in [Migration -> Seq({"failed", "rolledBack", "applied"})]
  BY <1>1 DEF MigrationsInv, DataOK, Outcome
<1>3. schema \subseteq Everything
  <2>1. ASSUME NEW M \in SUBSET Migration, NEW missing, schema = (Pushed \cup UNION {Files[m].makes : m \in M}) \ missing
        PROVE  schema \subseteq Everything
    BY <2>1 DEF Everything
  <2>2. ASSUME NEW applied \in SUBSET Migration,
               \/ \E extra \in SUBSET Migration, notYet \in {{}, {"purchaseColumns"}, {"LedgerCategory"}} :
                    schema = (Pushed \cup UNION {Files[m].makes : m \in applied \cup extra})
                                \ (IF "accounting" \in applied THEN {} ELSE notYet)
               \/ applied = {} /\ schema = {}
        PROVE  schema \subseteq Everything
    <3>1. CASE schema = {}
      BY <3>1
    <3>2. ASSUME NEW extra \in SUBSET Migration, NEW notYet,
                 schema = (Pushed \cup UNION {Files[m].makes : m \in applied \cup extra})
                              \ (IF "accounting" \in applied THEN {} ELSE notYet)
          PROVE  schema \subseteq Everything
      <4>1. applied \cup extra \in SUBSET Migration
        OBVIOUS
      <4> QED
        BY <2>1, <3>2, <4>1
    <3> QED
      BY <2>2, <3>1, <3>2
  <2> QED
    BY <2>2 DEF MigrationsInit
<1>4. ledgerUsed \in {"no", "half", "whole"}
  BY Zenon DEF MigrationsInit, LedgerThere
<1>5. instructed \in BOOLEAN
  BY Zenon DEF MigrationsInit
<1>6. starts = 1 /\ step \in Steps /\ found = {} /\ todo \in TodoType
  BY FilesAre DEF MigrationsInit, NoTodo, TodoType, Steps
<1> QED
  BY <1>2, <1>3, <1>4, <1>5, <1>6 DEF MigrationsTypeOK, TodoType

(* The variables of a start keep to their types.                           *)
LEMMA MigrationsTypesStep ==
    ASSUME MigrationsInv, MigrationsTypeOK, [MigrationsNext /\ UNCHANGED calm]_<<migrationVars, calm>>
    PROVE  MigrationsTypeOK'
<1>1. rows' \in [Migration -> Seq({"failed", "rolledBack", "applied"})]
  BY MigrationsStep DEF MigrationsInv, DataOK, Outcome
<1>2. CASE MigrationsNext
  <2>1. schema' \subseteq Everything /\ todo' \in TodoType
    BY <1>2, SchemaStays, TodoStays DEF MigrationsTypeOK, TodoType
  <2>2. found' \subseteq Migration \cup ToSet(LedgerTables)
    BY <1>2, FoundStays DEF MigrationsTypeOK, Findable
  <2>3. step' \in Steps
    BY <1>2, StepStays DEF MigrationsTypeOK
  <2>4. starts' \in Nat /\ ledgerUsed' \in {"no", "half", "whole"} /\ instructed' \in BOOLEAN
    BY <1>2, StartsStay DEF MigrationsTypeOK
  <2> QED
    BY <1>1, <2>1, <2>2, <2>3, <2>4 DEF MigrationsTypeOK, TodoType
<1>3. CASE UNCHANGED <<migrationVars, calm>>
  BY <1>1, <1>3 DEF MigrationsTypeOK, migrationVars
<1> QED
  BY <1>2, <1>3

(* Whatever died where, the database has only objects that are pushed or   *)
(* that some file makes, and no start deals with a migration or a table    *)
(* that no file defines.                                                   *)
THEOREM MigrationsTypeCorrect == MigrationsSpec => []MigrationsTypeOK
<1>1. MigrationsInv /\ MigrationsTypeOK /\ [MigrationsNext /\ UNCHANGED calm]_<<migrationVars, calm>>
        => MigrationsInv' /\ MigrationsTypeOK'
  BY MigrationsStep, MigrationsTypesStep
<1> QED
  BY <1>1, InvInit, MigrationsTypesStart, PTL DEF MigrationsSpec

-----------------------------------------------------------------------------
(* Side by side.  A behaviour of the back office is one of each part, so   *)
(* that every theorem above, and those of the browser, hold of it as well. *)
THEOREM BackOfficeRunsEach ==
    BackOfficeSpec => /\ AccountsSpec /\ CatalogueSpec /\ PricingSpec /\ NumbersSpec
                      /\ FormSpec /\ WebSpec /\ MigrationsSpec /\ ListsSpec
  <1>1. BackOfficeInit => /\ AccountsInit /\ CatalogueInit /\ PricingInit /\ NumbersInit
                          /\ FormInit /\ WebInit /\ MigrationsInit /\ ListsInit
    BY DEF BackOfficeInit
  <1>2. [BackOfficeNext]_backOfficeVars => /\ [AccountsNext /\ UNCHANGED calm]_<<accountVars, calm>>
                                           /\ [CatalogueNext /\ UNCHANGED calm]_<<catalogueVars, calm>>
                                           /\ [PricingNext /\ UNCHANGED calm]_<<pricingVars, calm>>
                                           /\ [NumbersNext /\ UNCHANGED calm]_<<numberVars, calm>>
                                           /\ [FormNext /\ UNCHANGED calm]_<<formVars, calm>>
                                           /\ [WebNext /\ UNCHANGED calm]_<<webVars, calm>>
                                           /\ [MigrationsNext /\ UNCHANGED calm]_<<migrationVars, calm>>
                                           /\ [ListsNext /\ UNCHANGED calm]_<<listVars, calm>>
    BY DEF BackOfficeNext, backOfficeVars, AccountsRun, CatalogueRuns, PricingRuns, NumbersRun, FormRuns, WebRuns,
       MigrationsRun, ListsRun
  <1> QED
    BY <1>1, <1>2, PTL DEF BackOfficeSpec, AccountsSpec, CatalogueSpec, PricingSpec, NumbersSpec, FormSpec, WebSpec,
       MigrationsSpec, ListsSpec

(* Every variable of the back office keeps to its type, whatever fails.    *)
THEOREM BackOfficeTypeCorrect == BackOfficeSpec => []BackOfficeTypeOK
  <1>1. CatalogueInv => CatalogueTypeOK
    <2> SUFFICES ASSUME CatalogueInv PROVE CatalogueTypeOK
      OBVIOUS
    <2>1. \A l \in Lists : list[l].name \in ListNames /\ \A g \in DOMAIN list[l].price : list[l].price[g] \in Prices \cup {NoPrice}
      BY DEF CatalogueInv, CatalogueTypes, ListRow, PriceLines
    <2>2. \A c \in Clerks : clerk[c].row \in ItemRow /\ clerk[c].old \subseteq Items
      BY DEF CatalogueInv, CatalogueTypes, Clerk
    <2> QED
      BY <2>1, <2>2 DEF CatalogueInv, CatalogueTypes, CatalogueTypeOK, FolderRow
  <1>2. PricingInv => PricingTypeOK
    BY DEF PricingInv, PricingTypes, PricingTypeOK, RuleRow, Desk, Quote, Quoted
  <1>3. FormInv => FormTypeOK
    <2> SUFFICES ASSUME FormInv PROVE FormTypeOK
      OBVIOUS
    <2>1. form \in Dialogs /\ form.rows \in Seq(BulkRow)
      BY DEF FormInv, FormTypes, Dialogs
    <2>2. \A i \in DOMAIN form.rows : form.rows[i] \in BulkRow
      BY <2>1
    <2> QED
      BY <2>1, <2>2 DEF FormInv, FormTypes, FormTypeOK, Dialogs, BulkRow
  <1>4. WebInv => WebTypeOK
    <2> SUFFICES ASSUME WebInv PROVE WebTypeOK
      OBVIOUS
    <2>1. \A k \in Keys : cache[k].by \in 0 .. Len(sent)
      <3> TAKE k \in Keys
      <3>1. cache[k].by \in Nat /\ sent \in Seq(WebRequests)
        BY DEF WebInv, WebTypes, CacheLine
      <3>2. cache[k].by # 0 => cache[k].by \in DOMAIN sent
        BY DEF WebInv, CacheFits, LineFits
      <3> QED
        BY <3>1, <3>2
    <2> QED
      BY <2>1 DEF WebInv, WebTypes, WebTypeOK, Tokens, Heads
  <1>5. ListsInv => ListsTypeOK
    BY DEF ListsInv
  <1> QED
    BY <1>1, <1>2, <1>3, <1>4, <1>5, BackOfficeRunsEach, AccountsTypeCorrect, CatalogueInvariant, PricingInvariant,
       NumbersTypeCorrect, FormInvariant, WebInvariant, MigrationsTypeCorrect, ListsInvariant, PTL DEF BackOfficeTypeOK
=============================================================================
