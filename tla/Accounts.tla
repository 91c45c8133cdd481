------------------------------ MODULE Accounts ------------------------------
(***************************************************************************)
(* AuthService, OrganizationsService and the writing part of               *)
(* SellersService: users, organizations, memberships and invitations, and  *)
(* the tokens with which clients act on them.  A handler first reads (the  *)
(* "check" of an action) and then writes, in one transaction; requests of  *)
(* other sessions come between the two, and all that protects the write    *)
(* are the unique indexes of the schema: one user per email, one           *)
(* organization per slug, one membership per user and organization, one    *)
(* invitation per organization, email and status.                          *)
(*                                                                         *)
(* Roles other than OWNER and SELLER exist only where somebody wrote them  *)
(* into the database: an organization founded through the API has nobody   *)
(* who may add members, change roles or invite anyone but sellers.         *)
(*                                                                         *)
(* In calm weather a request is handled before the next is looked at, and  *)
(* no transaction fails.                                                   *)
(***************************************************************************)
EXTENDS Naturals, FiniteSets, Weather

CONSTANTS
    Emails, Orgs,       \* a user is known by email, an organization by slug
    Seeded,             \* organizations that did not come into being through the API
    Invites,            \* rows of Invitation
    Sessions,           \* browsers; each handles one request at a time
    NoEmail, NoOrg, NoInvite,
    AutoPromoted,       \* AUTO_PROMOTE_OWNER_EMAIL, or NoEmail
    OwnerEmail, OwnerOrg,   \* OWNER_EMAIL and OWNER_ORG_SLUG, or NoEmail
    DevEmail, DevOrg,       \* who the development login logs in, or NoEmail
    GivenRoles          \* roles that requests ask for

ASSUME AccountsAssumption ==
    /\ Seeded \subseteq Orgs /\ NoEmail \notin Emails /\ NoOrg \notin Orgs /\ NoInvite \notin Invites
    /\ OwnerOrg \in Orgs /\ DevOrg \in Orgs /\ GivenRoles \subseteq {"OWNER", "ADMIN", "MANAGER", "SELLER"}

VARIABLES
    user,       \* User: registered or not, and who chose the password
    exists,     \* the organizations
    role,       \* Membership: the role of each user in each organization
    invite,     \* Invitation
    session,    \* the tokens of each browser, and the request it waits for
    boot        \* how far a starting server is with seedOwnerOnBoot

accountVars == <<user, exists, role, invite, session, boot>>

Roles == {"OWNER", "ADMIN", "MANAGER", "SELLER"}
Managers == {"ADMIN", "MANAGER"}
Operators == {"OWNER", "ADMIN", "MANAGER"}

Stranger == [known |-> FALSE, password |-> "none", verified |-> FALSE]
NoInvitation == [status |-> "none", org |-> NoOrg, email |-> NoEmail, role |-> "SELLER", expired |-> FALSE]
(* A request: its operation, the row, user and role it is about, and       *)
(* whether the user was known when the handler looked.                     *)
NoAsk == [op |-> "none", org |-> NoOrg, email |-> NoEmail, role |-> "SELLER", inv |-> NoInvite, seen |-> FALSE]
SignedOut == [pc |-> "out", email |-> NoEmail, org |-> NoOrg, role |-> "SELLER", req |-> NoAsk]

Member(e, o) == role[o][e] # "none"
MemberOf(e) == {o \in Orgs : Member(e, o)}
Pending(o, e) == {i \in Invites : invite[i].status = "PENDING" /\ invite[i].org = o /\ invite[i].email = e}
StatusTaken(i, status) ==
    \E j \in Invites \ {i} : invite[j].status = status /\ invite[j].org = invite[i].org /\ invite[j].email = invite[i].email

InFlight(s) == session[s].req # NoAsk
MayStart(s) == ~InFlight(s) /\ (calm => \A t \in Sessions : ~InFlight(t))

(* Tokens carry email, organization and role; generateTokens also stores   *)
(* the refresh token.                                                      *)
SignIn(s, e, o, r) ==
    session' = [session EXCEPT ![s] = [pc |-> "in", email |-> e, org |-> o, role |-> r, req |-> NoAsk]]
Closes(s) == session' = [session EXCEPT ![s].req = NoAsk]
Asks(s, req) == session' = [session EXCEPT ![s].req = req]

-----------------------------------------------------------------------------
(* register: the email and the slug are free ...                           *)
RegisterCheck(s) ==
    /\ session[s].pc = "out" /\ MayStart(s)
    /\ \E e \in Emails, o \in Orgs \ Seeded :
          /\ ~user[e].known /\ o \notin exists
          /\ Asks(s, [NoAsk EXCEPT !.op = "register", !.email = e, !.org = o])
    /\ UNCHANGED <<user, exists, role, invite, boot>>

(* ... then organization, user and OWNER membership in one transaction,    *)
(* unless somebody was faster (the transaction is rolled back).            *)
Register(s) ==
    LET e == session[s].req.email  o == session[s].req.org
    IN  /\ session[s].req.op = "register"
        /\ IF user[e].known \/ o \in exists
             THEN Closes(s) /\ UNCHANGED <<user, exists, role>>
             ELSE /\ user' = [user EXCEPT ![e] = [known |-> TRUE, password |-> "own", verified |-> FALSE]]
                  /\ exists' = exists \cup {o}
                  /\ role' = [role EXCEPT ![o][e] = "OWNER"]
                  /\ SignIn(s, e, o, "OWNER")
        /\ UNCHANGED <<invite, boot>>

(* register with an invitation: refused for a known user, so that someone  *)
(* made known by createSeller can never choose a password.                 *)
InvitedCheck(s) ==
    /\ session[s].pc = "out" /\ MayStart(s)
    /\ \E i \in Invites :
          /\ invite[i].status = "PENDING" /\ ~invite[i].expired /\ ~user[invite[i].email].known
          /\ Asks(s, [op |-> "invited", org |-> invite[i].org, email |-> invite[i].email, role |-> invite[i].role, inv |-> i,
                     seen |-> FALSE])
    /\ UNCHANGED <<user, exists, role, invite, boot>>

(* In the transaction a user who has come up since gets the new password   *)
(* and, if not a member, the membership; the invitation becomes ACCEPTED   *)
(* whatever its status is by now.                                          *)
RegisterInvited(s) ==
    LET q == session[s].req
    IN  /\ q.op = "invited"
        /\ IF StatusTaken(q.inv, "ACCEPTED")
             THEN Closes(s) /\ UNCHANGED <<user, role, invite>>
             ELSE /\ user' = [user EXCEPT ![q.email] = [known |-> TRUE, password |-> "own", verified |-> TRUE]]
                  /\ role' = [role EXCEPT ![q.org][q.email] = IF Member(q.email, q.org) THEN @ ELSE q.role]
                  /\ invite' = [invite EXCEPT ![q.inv].status = "ACCEPTED"]
                  /\ SignIn(s, q.email, q.org, q.role)
        /\ UNCHANGED <<exists, boot>>

(* login: tokens for the only organization, or a temporary token to choose *)
(* one with; the password must be known to somebody.                       *)
Login(s) ==
    /\ session[s].pc = "out" /\ ~InFlight(s)
    /\ \E e \in Emails :
          /\ user[e].password = "own" /\ MemberOf(e) # {}
          /\ IF Cardinality(MemberOf(e)) = 1
               THEN \E o \in MemberOf(e) : SignIn(s, e, o, role[o][e])
               ELSE session' = [session EXCEPT ![s].pc = "choosing", ![s].email = e]
    /\ UNCHANGED <<user, exists, role, invite, boot>>

SelectOrganization(s) ==
    /\ session[s].pc = "choosing"
    /\ \E o \in Orgs : IF Member(session[s].email, o)
                         THEN SignIn(s, session[s].email, o, role[o][session[s].email])
                         ELSE session' = [session EXCEPT ![s] = SignedOut]
    /\ UNCHANGED <<user, exists, role, invite, boot>>

(* refreshToken: a new access token for the first membership the database  *)
(* returns, with the role of today.                                        *)
RefreshToken(s) ==
    /\ session[s].pc = "in" /\ ~InFlight(s)
    /\ \E o \in MemberOf(session[s].email) : SignIn(s, session[s].email, o, role[o][session[s].email])
    /\ UNCHANGED <<user, exists, role, invite, boot>>

Logout(s) ==
    /\ session[s].pc = "in" /\ ~InFlight(s)
    /\ session' = [session EXCEPT ![s] = SignedOut]
    /\ UNCHANGED <<user, exists, role, invite, boot>>

-----------------------------------------------------------------------------
(* JwtStrategy.validate: still a member, and in the role of the token.     *)
Authentic(s) ==
    session[s].pc = "in" /\ MayStart(s) /\ role[session[s].org][session[s].email] = session[s].role

(* The user AUTO_PROMOTE_OWNER_EMAIL names becomes OWNER everywhere with   *)
(* the first request.                                                      *)
AutoPromote(s) ==
    LET e == session[s].email
    IN  /\ session[s].pc = "in" /\ MayStart(s) /\ e = AutoPromoted
        /\ Member(e, session[s].org) /\ role[session[s].org][e] # "OWNER"
        /\ role' = [o \in Orgs |-> IF Member(e, o) THEN [role[o] EXCEPT ![e] = "OWNER"] ELSE role[o]]
        /\ session' = [session EXCEPT ![s].role = "OWNER"]
        /\ UNCHANGED <<user, exists, invite, boot>>

(* The guard of the route looks at the role of the token, the service at   *)
(* the role in the organization the request is about.                      *)
(* Fault: OWNER may do what MANAGER may.                                   *)
OwnerMayToo(op) == IF op \in {"updateRole", "remove"} THEN {"ADMIN"} ELSE Operators

ServiceRoles(op) ==
    CASE op \in {"updateRole", "remove"} -> {"ADMIN"}
      [] op \in {"add", "invite", "cancel"} -> Managers
      [] op \in {"inviteSeller", "createSeller"} -> Operators

RouteRoles(op) == IF op \in {"inviteSeller", "createSeller"} THEN Operators
                  ELSE IF op \in {"updateRole", "remove"} THEN {"ADMIN"} ELSE Managers

(* The organization is in the path, or is that of the token or of the      *)
(* header X-Organization-Id, which must be one of the user's.              *)
Permitted(s, op, o) == Authentic(s) /\ session[s].role \in RouteRoles(op) /\ role[o][session[s].email] \in ServiceRoles(op)

CreateOrgCheck(s) ==
    /\ Authentic(s)
    /\ \E o \in Orgs \ (exists \cup Seeded) : Asks(s, [NoAsk EXCEPT !.op = "createOrg", !.org = o])
    /\ UNCHANGED <<user, exists, role, invite, boot>>

CreateOrg(s) ==
    LET o == session[s].req.org
    IN  /\ session[s].req.op = "createOrg"
        /\ IF o \in exists THEN UNCHANGED <<exists, role>>
           ELSE exists' = exists \cup {o} /\ role' = [role EXCEPT ![o][session[s].email] = "OWNER"]
        /\ Closes(s) /\ UNCHANGED <<user, invite, boot>>

(* Fault: nothing keeps a member from removing itself.                     *)
AnyoneElseOrSelf(s, e) == TRUE

NotSelf(s, e) == e # session[s].email

MemberCheck(s) ==
    /\ \E op \in {"updateRole", "remove"}, o \in Orgs, e \in Emails, r \in GivenRoles :
          /\ Permitted(s, op, o) /\ Member(e, o) /\ NotSelf(s, e)
          /\ op = "remove" => r = "SELLER"
          /\ Asks(s, [NoAsk EXCEPT !.op = op, !.org = o, !.email = e, !.role = r])
    /\ UNCHANGED <<user, exists, role, invite, boot>>

(* update and delete by id: an error if the row has gone.                  *)
UpdateMemberRole(s) ==
    LET q == session[s].req
    IN  /\ q.op = "updateRole"
        /\ role' = [role EXCEPT ![q.org][q.email] = IF @ = "none" THEN @ ELSE q.role]
        /\ Closes(s) /\ UNCHANGED <<user, exists, invite, boot>>

RemoveMember(s) ==
    LET q == session[s].req
    IN  /\ q.op = "remove"
        /\ role' = [role EXCEPT ![q.org][q.email] = "none"]
        /\ Closes(s) /\ UNCHANGED <<user, exists, invite, boot>>

AddMemberCheck(s) ==
    /\ \E o \in Orgs, e \in Emails, r \in GivenRoles :
          /\ Permitted(s, "add", o) /\ user[e].known /\ ~Member(e, o)
          /\ Asks(s, [NoAsk EXCEPT !.op = "add", !.org = o, !.email = e, !.role = r])
    /\ UNCHANGED <<user, exists, role, invite, boot>>

AddMember(s) ==
    LET q == session[s].req
    IN  /\ q.op = "add"
        /\ role' = [role EXCEPT ![q.org][q.email] = IF @ = "none" THEN q.role ELSE @]
        /\ Closes(s) /\ UNCHANGED <<user, exists, invite, boot>>

-----------------------------------------------------------------------------
(* inviteUser, inviteSeller and createSeller: not a member, and no pending *)
(* invitation that has not expired.                                        *)
InviteCheck(s) ==
    /\ \E op \in {"invite", "inviteSeller", "createSeller"}, o \in Orgs, e \in Emails, r \in GivenRoles, i \in Invites :
          /\ Permitted(s, op, o) /\ ~Member(e, o)
          /\ \A p \in Pending(o, e) : invite[p].expired
          /\ invite[i].status = "none"
          /\ op # "invite" => r = "SELLER"
          /\ Asks(s, [op |-> op, org |-> o, email |-> e, role |-> r, inv |-> i, seen |-> user[e].known])
    /\ UNCHANGED <<user, exists, role, invite, boot>>

(* The unique index also counts invitations that have expired: as long as  *)
(* one is PENDING the create fails.                                        *)
NewInvitation(q) ==
    invite' = [invite EXCEPT ![q.inv] = [status |-> "PENDING", org |-> q.org, email |-> q.email, role |-> q.role,
                                         expired |-> FALSE]]
(* Fault: no unique index on the pending invitation.                       *)
InsertableAnyway(q) == invite[q.inv].status = "none"

Insertable(q) == Pending(q.org, q.email) = {} /\ invite[q.inv].status = "none"

InviteUser(s) ==
    LET q == session[s].req
    IN  /\ q.op \in {"invite", "inviteSeller"}
        /\ IF Insertable(q) THEN NewInvitation(q) ELSE UNCHANGED invite
        /\ Closes(s) /\ UNCHANGED <<user, exists, role, boot>>

(* createSeller: user with a random password if none was seen, membership  *)
(* and invitation in one transaction.                                      *)
CreateSeller(s) ==
    LET q == session[s].req
    IN  /\ q.op = "createSeller"
        /\ IF Insertable(q) /\ ~Member(q.email, q.org) /\ user[q.email].known = q.seen
             THEN /\ NewInvitation(q)
                  /\ user' = [user EXCEPT ![q.email] =
                                IF @.known THEN @ ELSE [known |-> TRUE, password |-> "random", verified |-> FALSE]]
                  /\ role' = [role EXCEPT ![q.org][q.email] = "SELLER"]
             ELSE UNCHANGED <<user, role, invite>>
        /\ Closes(s) /\ UNCHANGED <<exists, boot>>

CancelCheck(s) ==
    /\ \E i \in Invites :
          /\ invite[i].status = "PENDING" /\ Permitted(s, "cancel", invite[i].org)
          /\ Asks(s, [NoAsk EXCEPT !.op = "cancel", !.inv = i])
    /\ UNCHANGED <<user, exists, role, invite, boot>>

(* update by id, whatever the status is by now; a second CANCELLED row for *)
(* the same address violates the unique index.                             *)
CancelInvitation(s) ==
    LET i == session[s].req.inv
    IN  /\ session[s].req.op = "cancel"
        /\ invite' = [invite EXCEPT ![i].status = IF StatusTaken(i, "CANCELLED") THEN @ ELSE "CANCELLED"]
        /\ Closes(s) /\ UNCHANGED <<user, exists, role, boot>>

InvitationExpires(i) ==
    /\ invite[i].status = "PENDING" /\ ~invite[i].expired
    /\ invite' = [invite EXCEPT ![i].expired = TRUE]
    /\ UNCHANGED <<user, exists, role, session, boot>>

(* A transaction fails, or the answer is lost with its process.            *)
RequestFails(s) ==
    /\ ~calm /\ InFlight(s)
    /\ Closes(s) /\ UNCHANGED <<user, exists, role, invite, boot>>

-----------------------------------------------------------------------------
(* devLogin: user, organization and membership are found or made in one    *)
(* transaction.                                                            *)
DevLogin(s) ==
    /\ session[s].pc = "out" /\ MayStart(s) /\ DevEmail \in Emails
    /\ user' = [user EXCEPT ![DevEmail] =
                  IF @.known THEN @ ELSE [known |-> TRUE, password |-> "own", verified |-> FALSE]]
    /\ exists' = exists \cup {DevOrg}
    /\ role' = [role EXCEPT ![DevOrg][DevEmail] = IF @ = "none" THEN "OWNER" ELSE @]
    /\ SignIn(s, DevEmail, DevOrg, role'[DevOrg][DevEmail])
    /\ UNCHANGED <<invite, boot>>

(* seedOwnerOnBoot and the script seed-owner: three upserts, each on its   *)
(* own; an error of one is logged and ends the rest.                       *)
BootGoes(pc) == boot' = pc

SeedUser ==
    /\ boot = "user" /\ BootGoes("organization")
    /\ user' = [user EXCEPT ![OwnerEmail] =
                  IF @.known THEN @ ELSE [known |-> TRUE, password |-> "own", verified |-> TRUE]]
    /\ UNCHANGED <<exists, role, invite, session>>

SeedOrganization ==
    /\ boot = "organization" /\ BootGoes("membership")
    /\ exists' = exists \cup {OwnerOrg}
    /\ UNCHANGED <<user, role, invite, session>>

SeedMembership ==
    /\ boot = "membership" /\ BootGoes("done")
    /\ role' = [role EXCEPT ![OwnerOrg][OwnerEmail] = "OWNER"]
    /\ UNCHANGED <<user, exists, invite, session>>

SeedFails ==
    /\ ~calm /\ boot # "done" /\ BootGoes("done")
    /\ UNCHANGED <<user, exists, role, invite, session>>

-----------------------------------------------------------------------------
(* The database holds the organizations of Seeded and their members; each  *)
(* has somebody to administer it.                                          *)
Administers(o, e) == role[o][e] \in {"OWNER", "ADMIN"}

AccountsInit ==
    /\ exists = Seeded
    /\ role \in [Orgs -> [Emails -> Roles \cup {"none"}]]
    /\ \A o \in Orgs : IF o \in Seeded THEN \E e \in Emails : Administers(o, e)
                                      ELSE \A e \in Emails : ~Member(e, o)
    /\ user = [e \in Emails |-> IF MemberOf(e) = {} THEN Stranger
                                ELSE [known |-> TRUE, password |-> "own", verified |-> TRUE]]
    /\ invite = [i \in Invites |-> NoInvitation]
    /\ session = [s \in Sessions |-> SignedOut]
    /\ boot = IF OwnerEmail \in Emails THEN "user" ELSE "done"

SignInStep(s) ==
    \/ RegisterCheck(s) \/ Register(s) \/ InvitedCheck(s) \/ RegisterInvited(s) \/ DevLogin(s)
    \/ Login(s) \/ SelectOrganization(s) \/ RefreshToken(s) \/ Logout(s)

MemberStep(s) ==
    \/ AutoPromote(s) \/ CreateOrgCheck(s) \/ CreateOrg(s)
    \/ MemberCheck(s) \/ UpdateMemberRole(s) \/ RemoveMember(s) \/ AddMemberCheck(s) \/ AddMember(s)

InviteStep(s) == InviteCheck(s) \/ InviteUser(s) \/ CreateSeller(s) \/ CancelCheck(s) \/ CancelInvitation(s)

AccountsNext ==
    \/ \E s \in Sessions : SignInStep(s) \/ MemberStep(s) \/ InviteStep(s) \/ RequestFails(s)
    \/ \E i \in Invites : InvitationExpires(i)
    \/ SeedUser \/ SeedOrganization \/ SeedMembership \/ SeedFails

AccountsSpec == AccountsInit /\ [][AccountsNext /\ UNCHANGED calm]_<<accountVars, calm>>

-----------------------------------------------------------------------------
Requests == [op : {"none", "register", "invited", "createOrg", "updateRole", "remove", "add", "invite", "inviteSeller",
                   "createSeller", "cancel"},
             org : Orgs \cup {NoOrg}, email : Emails \cup {NoEmail}, role : Roles,
             inv : Invites \cup {NoInvite}, seen : BOOLEAN]

AccountsTypeOK ==
    /\ user \in [Emails -> [known : BOOLEAN, password : {"none", "own", "random"}, verified : BOOLEAN]]
    /\ exists \subseteq Orgs
    /\ role \in [Orgs -> [Emails -> Roles \cup {"none"}]]
    /\ invite \in [Invites -> [status : {"none", "PENDING", "ACCEPTED", "CANCELLED"}, org : Orgs \cup {NoOrg},
                               email : Emails \cup {NoEmail}, role : Roles, expired : BOOLEAN]]
    /\ session \in [Sessions -> [pc : {"out", "choosing", "in"}, email : Emails \cup {NoEmail},
                                 org : Orgs \cup {NoOrg}, role : Roles, req : Requests]]
    /\ boot \in {"user", "organization", "membership", "done"}

(* Whatever requests meet, fail and overtake each other, an organization   *)
(* founded through the API never has a member that is neither OWNER nor    *)
(* SELLER, nor a pending invitation to become one: nobody there can give a *)
(* role away, so nobody can ever be an administrator for a second person.  *)
FoundedHaveNoAdmins ==
    \A o \in Orgs \ Seeded :
        /\ \A e \in Emails : role[o][e] \in {"OWNER", "SELLER", "none"}
        /\ \A i \in Invites : invite[i].org = o => invite[i].role = "SELLER"

(* In calm weather an organization that exists keeps an OWNER or an ADMIN, *)
(* whoever removes, demotes or promotes whom.                              *)
SomebodyAdministers ==
    calm => \A o \in exists : (\E e \in Emails : Administers(o, e)) \/ (o = OwnerOrg /\ boot = "membership")

(* Under every interleaving: an accepted invitation has made its addressee *)
(* a user with a password and a verified address, an address has at most   *)
(* one invitation of each status in an organization, and whoever is signed *)
(* in or a member is a known user.                                         *)
InvitationsConsistent ==
    /\ \A i \in Invites : invite[i].status = "ACCEPTED" =>
          user[invite[i].email].verified /\ user[invite[i].email].password = "own"
    /\ \A i \in Invites : invite[i].status # "none" => ~StatusTaken(i, invite[i].status)
    /\ \A e \in Emails : MemberOf(e) # {} \/ (\E s \in Sessions : session[s].pc = "in" /\ session[s].email = e)
                          => user[e].known
=============================================================================
