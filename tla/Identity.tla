------------------------------ MODULE Identity ------------------------------
(***************************************************************************)
(* The identity manager of the API server: organizations, users, sessions  *)
(* and single sign-on with just-in-time users.  Each operator is what one  *)
(* method does while it holds the manager's lock; a login takes the lock   *)
(* twice, once to find the user and once to create the session.            *)
(***************************************************************************)
EXTENDS Naturals, Sequences

CONSTANTS
  OrgName,  \* organization names
  Second    \* suffixes that tell organizations of one name apart

VARIABLES
  orgs,     \* organization identifiers
  users,    \* users in order of creation; a user's identifier is its place
  sessions  \* sessions in order of creation

identityVars == <<orgs, users, sessions>>

OrgId == OrgName \X ({0} \cup Second)

Role == {"viewer", "analyst", "admin"}

\* An address as it may be spelled; CreateUser folds case, sign-on does not.
Email == {"ann", "Ann"}

Lower(email) == IF email = "Ann" THEN "ann" ELSE email

User == [org: OrgId, email: Email, role: Role, via: {"local", "oidc", "saml"}]

Session == [user: Nat \ {0}, org: OrgId, role: Role, revoked: BOOLEAN]

\* The part of a user that a handler carries from the first lock to the second.
Carried(id, org, role) == [id |-> id, org |-> org, role |-> role]

IdentityInit == orgs = {} /\ users = <<>> /\ sessions = <<>>

\* A second organization of one name gets the clock's seconds as a suffix.
CreateOrganization(name) ==
  \E s \in Second :
    orgs' = orgs \cup {IF <<name, 0>> \in orgs THEN <<name, s>> ELSE <<name, 0>>}

CreateUser(org, email, role) ==
  /\ org \in orgs
  /\ users' = Append(users, [org |-> org, email |-> Lower(email), role |-> role, via |-> "local"])

\* Users an address and tenant of a claim may stand for.
Known(email, org) == {u \in DOMAIN users : users[u].email = email /\ users[u].org = org}

Provision(email, org, role, via) ==
  /\ orgs' = orgs \cup {org}
  /\ users' = Append(users, [org |-> org, email |-> email, role |-> role, via |-> via])

\* Mutant: the role of the claim is handed on for a user that exists.
SignOnAs(email, org, role, via, user) ==
  IF Known(email, org) # {}
  THEN (\E u \in Known(email, org) : user = Carried(u, org, role)) /\ UNCHANGED <<orgs, users>>
  ELSE user = Carried(Len(users) + 1, org, role) /\ Provision(email, org, role, via)

\* ValidateOIDCClaims and ValidateSAMLAssertion: an existing user, any of several,
\* keeps its role; otherwise a user, and if need be the tenant, is provisioned.
SignOn(email, org, role, via, user) ==
  IF Known(email, org) # {}
  THEN (\E u \in Known(email, org) : user = Carried(u, org, users[u].role)) /\ UNCHANGED <<orgs, users>>
  ELSE user = Carried(Len(users) + 1, org, role) /\ Provision(email, org, role, via)

OIDCRole(roles) == IF "admin" \in roles THEN "admin" ELSE "analyst"

SAMLRole(role) == IF role \in Role THEN role ELSE "analyst"

\* From the copy of the user that the first lock gave.
CreateSession(user) ==
  sessions' = Append(sessions, [user |-> user.id, org |-> user.org, role |-> user.role, revoked |-> FALSE])

RevokeSession(s) == sessions' = [sessions EXCEPT ![s].revoked = TRUE]

----------------------------------------------------------------------------

IdentityTypeOK ==
  /\ orgs \subseteq OrgId
  /\ \A u \in DOMAIN users : users[u] \in User
  /\ \A s \in DOMAIN sessions : sessions[s] \in Session

\* However logins interleave, single sign-on provisions at most one user for an
\* address and tenant, whichever provider vouches for it (ValidateOIDCClaims,
\* ValidateSAMLAssertion look the user up and add it under one lock).
OneUserPerClaim ==
  \A u, v \in DOMAIN users :
    users[u].via # "local" /\ users[v].via # "local"
      /\ users[u].email = users[v].email /\ users[u].org = users[v].org => u = v

\* A session carries the tenant and role of its stored user, whatever the claims
\* of the login said and whatever happened between the two locks.
SessionOfUser ==
  \A s \in DOMAIN sessions :
    /\ sessions[s].user \in DOMAIN users
    /\ sessions[s].org = users[sessions[s].user].org
    /\ sessions[s].role = users[sessions[s].user].role

\* Users and sessions agree with the claims that made them: OneUserPerClaim and
\* SessionOfUser together.
IdentitySound == IdentityTypeOK /\ OneUserPerClaim /\ SessionOfUser

============================================================================
