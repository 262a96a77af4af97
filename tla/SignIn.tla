-------------------------------- MODULE SignIn --------------------------------
(***************************************************************************)
(* Who is signed in to a tenant of the platform: password and single       *)
(* sign-on, sessions, roles, and administrators who manage the users.  A   *)
(* handler is split where it waits -- for the body of its request, for     *)
(* scrypt, for the identity provider -- and goes on with what it read      *)
(* before.  A password is a version: 0 is none or a wrong one.             *)
(***************************************************************************)
EXTENDS Naturals, FiniteSets

CONSTANTS User, Session, Request, Ticket,
          Founders,       \* which administrators the tenant may be seeded with
          Provisioning,   \* whether SSO creates the users it does not find
          MaxFailures,    \* wrong guesses before an address is locked (8 in the code)
          MaxResets,      \* times a user's password is set anew (bound)
          MaxSpells,      \* times a user is disabled (bound)
          MaxServed       \* requests that wait for something (bound)

\* A tenant is set up with an administrator (scripts/seed.ts).
ASSUME SignInAssumption ==
  /\ Founders \subseteq (SUBSET User) \ {{}}
  /\ "nobody" \notin User

VARIABLES
  accounts,   \* users, with how often each was disabled so far (spell)
  sessions,   \* live rows, with what was in force when each was issued
  failures,   \* failed attempts at an address in the last quarter of an hour
  requests,   \* handlers that wait, with what they read
  tickets,    \* oidc_states
  served,
  crossed     \* history: a request of an administrator was carried out after
              \* its sender had stopped being one

signVars == <<accounts, sessions, failures, requests, tickets, served, crossed>>

Idle == [kind |-> "none"]

------------------------------------------------------------------------------
(* Roles and permissions.                                                  *)

Matrix ==
  [ READ_ONLY |-> {"read"},
    MSP_USER  |-> {"read", "analyse", "execute", "halt"},
    MSP_ADMIN |-> {"read", "analyse", "execute", "halt", "authorise", "administer"} ]

Can(role, permission) == permission \in Matrix[role]

Assignable == DOMAIN Matrix

IsAdministrator(u) ==
  accounts[u].exists /\ accounts[u].active /\ accounts[u].role = "MSP_ADMIN"

------------------------------------------------------------------------------
(* Sessions.                                                               *)

NoSession == [user |-> "nobody"]

\* A session resolves while its row is live and its user is active.
Resolves(s) == sessions[s] # NoSession /\ accounts[sessions[s].user].active

\* guardRoute(): the role is read from the user's row on each request.
Allowed(s, permission) == Resolves(s) /\ Can(accounts[sessions[s].user].role, permission)

\* Mutant: a reset revokes only the sessions issued with the previous password.
RevokedOfOlder(u) ==
  [s \in Session |-> IF sessions[s] # NoSession /\ sessions[s].user = u
                          /\ sessions[s].password + 1 < accounts[u].password
                     THEN NoSession ELSE sessions[s]]

\* revokeAllForUser()
RevokedOf(u) ==
  [s \in Session |-> IF sessions[s].user = u THEN NoSession ELSE sessions[s]]

\* issueSession() of a user whose row was read earlier.
Issued(s, u, row) ==
  sessions' = [sessions EXCEPT ![s] =
    [ user |-> u, password |-> accounts[u].password, spell |-> accounts[u].spell,
      fresh |-> row.password = accounts[u].password /\ row.spell = accounts[u].spell ]]

Free(s) == sessions[s] = NoSession

SignOut(s) ==
  /\ ~ Free(s)
  /\ sessions' = [sessions EXCEPT ![s] = NoSession]
  /\ UNCHANGED <<accounts, failures, requests, tickets, crossed, served>>

------------------------------------------------------------------------------
(* Sign-in with a password.                                                *)

Done(r) == requests' = [requests EXCEPT ![r] = Idle]

Waits(r, what) ==
  /\ requests[r] = Idle /\ served < MaxServed
  /\ requests' = [requests EXCEPT ![r] = what]
  /\ served' = served + 1

\* verifyPassword(): a row without a hash matches nothing.
Verified(row, tried) == tried > 0 /\ tried = row.password

\* The lockout is looked up and the user's row read; then scrypt runs.
SignInStarts(r, u, tried) ==
  /\ failures[u] < MaxFailures
  /\ Waits(r, [kind |-> "sign-in", user |-> u, row |-> accounts[u], tried |-> tried])
  /\ UNCHANGED <<accounts, sessions, failures, tickets, crossed>>

\* The answer is the same for no user, a wrong password and a disabled user.
SignInFails(r) ==
  LET q == requests[r] IN
  /\ q.kind = "sign-in"
  /\ ~ (q.row.exists /\ q.row.active /\ Verified(q.row, q.tried))
  /\ failures' = [failures EXCEPT ![q.user] = @ + 1]
  /\ Done(r)
  /\ UNCHANGED <<accounts, sessions, tickets, crossed, served>>

SignInEnds(r, s) ==
  LET q == requests[r] IN
  /\ q.kind = "sign-in" /\ Free(s)
  /\ q.row.exists /\ q.row.active /\ Verified(q.row, q.tried)
  /\ failures' = [failures EXCEPT ![q.user] = 0]
  /\ Issued(s, q.user, q.row)
  /\ Done(r)
  /\ UNCHANGED <<accounts, tickets, crossed, served>>

WindowPasses(u) ==
  /\ failures[u] > 0
  /\ failures' = [failures EXCEPT ![u] = 0]
  /\ UNCHANGED <<accounts, sessions, requests, tickets, crossed, served>>

------------------------------------------------------------------------------
(* Single sign-on.                                                         *)

BeginAuth(x) ==
  /\ tickets[x] = "unknown"
  /\ tickets' = [tickets EXCEPT ![x] = "open"]
  /\ UNCHANGED <<accounts, sessions, failures, requests, crossed, served>>

\* consumeState(), and the code is exchanged and the id_token fetched: the
\* browser may follow the provider's redirect more than once.
CallbackStarts(r, x) ==
  /\ tickets[x] = "open"
  /\ tickets' = [tickets EXCEPT ![x] = "used"]
  /\ Waits(r, [kind |-> "callback"])
  /\ UNCHANGED <<accounts, sessions, failures, crossed>>

\* The provider refuses the code, or asserts no verified address, or nobody's.
CallbackFails(r) ==
  /\ requests[r].kind = "callback"
  /\ Done(r)
  /\ UNCHANGED <<accounts, sessions, failures, tickets, crossed, served>>

\* resolveIdentity() and the session, without a wait between them.
CallbackEnds(r, s, u) ==
  /\ requests[r].kind = "callback" /\ Free(s)
  /\ accounts[u].exists /\ accounts[u].active
  /\ Issued(s, u, accounts[u])
  /\ Done(r)
  /\ UNCHANGED <<accounts, failures, tickets, crossed, served>>

NewAccount(u, role, password) ==
  [accounts EXCEPT ![u] = [exists |-> TRUE, active |-> TRUE, role |-> role, password |-> password, spell |-> 0]]

CallbackProvisions(r, s, u) ==
  /\ requests[r].kind = "callback" /\ Free(s)
  /\ Provisioning /\ ~ accounts[u].exists
  /\ accounts' = NewAccount(u, "READ_ONLY", 0)
  /\ sessions' = [sessions EXCEPT ![s] = [user |-> u, password |-> 0, spell |-> 0, fresh |-> TRUE]]
  /\ Done(r)
  /\ UNCHANGED <<failures, tickets, crossed, served>>

------------------------------------------------------------------------------
(* User administration.  The guard comes first, then the body is awaited.  *)

Guarded(r, s, body) ==
  /\ Allowed(s, "administer")
  /\ Waits(r, [kind |-> "body", actor |-> sessions[s].user, body |-> body])
  /\ UNCHANGED <<accounts, sessions, failures, tickets, crossed>>

Arrived(r, action) == requests[r].kind = "body" /\ requests[r].body.action = action

Crossing(r) == crossed' = (crossed \/ ~ IsAdministrator(requests[r].actor))

\* Mutant: the check of one's own role is left out.
MayTakeAny(actor, target, role) == TRUE

\* An administrator keeps his or her own role.
MayTake(actor, target, role) == target # actor \/ role = "MSP_ADMIN"

SetRole(r) ==
  LET actor == requests[r].actor  b == requests[r].body IN
  /\ Arrived(r, "set-role")
  /\ accounts' = IF accounts[b.user].exists /\ b.role \in Assignable /\ MayTake(actor, b.user, b.role)
                 THEN [accounts EXCEPT ![b.user].role = b.role] ELSE accounts
  /\ Crossing(r) /\ Done(r)
  /\ UNCHANGED <<sessions, failures, tickets, served>>

\* Nobody is disabled by himself or herself, nor the last active administrator.
MayDisable(actor, target) ==
  /\ accounts[target].exists /\ target # actor
  /\ accounts[target].role = "MSP_ADMIN" => \E u \in User \ {target} : IsAdministrator(u)

Disable(r) ==
  LET actor == requests[r].actor  target == requests[r].body.user IN
  /\ Arrived(r, "disable") /\ accounts[target].spell < MaxSpells
  /\ IF MayDisable(actor, target)
     THEN /\ accounts' = [accounts EXCEPT ![target].active = FALSE, ![target].spell = @ + 1]
          /\ sessions' = RevokedOf(target)
     ELSE UNCHANGED <<accounts, sessions>>
  /\ Crossing(r) /\ Done(r)
  /\ UNCHANGED <<failures, tickets, served>>

Enable(r) ==
  LET actor == requests[r].actor  target == requests[r].body.user IN
  /\ Arrived(r, "enable")
  /\ accounts' = IF accounts[target].exists /\ target # actor
                 THEN [accounts EXCEPT ![target].active = TRUE] ELSE accounts
  /\ Crossing(r) /\ Done(r)
  /\ UNCHANGED <<sessions, failures, tickets, served>>

\* The user is looked up; then the new password is hashed.
Hashes(r) ==
  LET b == requests[r].body IN
  /\ requests[r].kind = "body" /\ b.action \in {"create", "reset-password"}
  /\ requests' = [requests EXCEPT ![r] =
       IF accounts[b.user].exists = (b.action = "reset-password")
       THEN [@ EXCEPT !.kind = "hashed"] ELSE Idle]
  /\ UNCHANGED <<accounts, sessions, failures, tickets, crossed, served>>

ResetPassword(r) ==
  LET u == requests[r].body.user IN
  /\ requests[r].kind = "hashed" /\ requests[r].body.action = "reset-password"
  /\ accounts[u].password < MaxResets
  /\ accounts' = [accounts EXCEPT ![u].password = @ + 1]
  /\ sessions' = RevokedOf(u)
  /\ Crossing(r) /\ Done(r)
  /\ UNCHANGED <<failures, tickets, served>>

\* The row of a user created meanwhile is refused by its unique address.
CreateUser(r) ==
  LET b == requests[r].body IN
  /\ requests[r].kind = "hashed" /\ b.action = "create"
  /\ accounts' = IF accounts[b.user].exists THEN accounts ELSE NewAccount(b.user, b.role, 1)
  /\ Crossing(r) /\ Done(r)
  /\ UNCHANGED <<sessions, failures, tickets, served>>

------------------------------------------------------------------------------
Bodies ==
  [action : {"set-role"}, user : User, role : {"MSP_USER", "MSP_ADMIN"}]
    \cup [action : {"disable", "enable", "reset-password"}, user : User]
    \cup [action : {"create"}, user : User, role : {"MSP_USER"}]

SignInit ==
  /\ \E founders \in Founders :
       accounts = [u \in User |->
         LET founder == u \in founders IN
         [ exists |-> founder, active |-> founder, password |-> IF founder THEN 1 ELSE 0, spell |-> 0,
           role |-> IF founder THEN "MSP_ADMIN" ELSE "READ_ONLY" ]]
  /\ sessions = [s \in Session |-> NoSession]
  /\ failures = [u \in User |-> 0]
  /\ requests = [r \in Request |-> Idle]
  /\ tickets = [x \in Ticket |-> "unknown"]
  /\ served = 0 /\ crossed = FALSE

Administer(r) ==
  \/ \E s \in Session, body \in Bodies : Guarded(r, s, body)
  \/ SetRole(r) \/ Disable(r) \/ Enable(r) \/ Hashes(r) \/ ResetPassword(r) \/ CreateUser(r)

SignNext ==
  \/ \E s \in Session : SignOut(s)
  \/ \E u \in User : WindowPasses(u)
  \/ \E r \in Request, u \in User, tried \in 0..MaxResets : SignInStarts(r, u, tried)
  \/ \E x \in Ticket : BeginAuth(x)
  \/ \E r \in Request : SignInFails(r) \/ CallbackFails(r) \/ Administer(r)
  \/ \E r \in Request, x \in Ticket : CallbackStarts(r, x)
  \/ \E r \in Request, s \in Session :
       \/ SignInEnds(r, s)
       \/ \E u \in User : CallbackEnds(r, s, u) \/ CallbackProvisions(r, s, u)

------------------------------------------------------------------------------
(* Properties.                                                             *)

\* The tenant always has an active administrator, whatever administrators do to
\* the others and to themselves, unless one's request was carried out after
\* another had taken the role from its sender (users/route.ts:50-83).
AdministratorRemains == crossed \/ \E u \in User : IsAdministrator(u)

\* Whoever is signed in was let in under the password in force and has not been
\* disabled since, unless the sign-in was being checked while that changed
\* (users.ts:82-89, 102-144; sessions.ts:71-139).
SignedInAnew ==
  \A s \in Session :
    Resolves(s) /\ sessions[s].fresh =>
      /\ sessions[s].password = accounts[sessions[s].user].password
      /\ sessions[s].spell = accounts[sessions[s].user].spell

=============================================================================
