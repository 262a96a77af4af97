------------------------ MODULE AdministrationProofs -------------------------
(***************************************************************************)
(* Theorems about the people of a tenant, the autonomy they grant and the  *)
(* plans they make, for every number of users, sessions and requests in    *)
(* flight, every grant asked for and every objective: a tenant never loses *)
(* its last administrator, a live session stands for the password in       *)
(* force, nothing may be executed that was not asked for, and what is      *)
(* planned can be done.                                                    *)
(***************************************************************************)
EXTENDS Administration, SequenceTheorems, FiniteSetTheorems, WellFoundedInduction, TLAPS

-----------------------------------------------------------------------------
(* Types.                                                                  *)

Account ==
  [exists : BOOLEAN, active : BOOLEAN, password : Nat, spell : Nat,
   role : Assignable]

LiveSession == [user : User, password : Nat, spell : Nat, fresh : BOOLEAN]

\* What the handlers that wait remember.
SignInRequest ==
  [kind : {"sign-in"}, user : User, row : Account, tried : 0..MaxResets]

AdministratorsRequest ==
  [kind : {"body", "hashed"}, actor : User, body : Bodies]

WaitingRequest ==
  {Idle, [kind |-> "callback"]} \cup SignInRequest \cup AdministratorsRequest

SignTypeOK ==
  /\ accounts \in [User -> Account]
  /\ sessions \in [Session -> LiveSession \cup {NoSession}]
  /\ requests \in [Request -> WaitingRequest]
  /\ crossed \in BOOLEAN

\* A live session is a user's, a free slot nobody's.
LEMMA LiveOrFree ==
  ASSUME NEW x \in LiveSession \cup {NoSession}
  PROVE  /\ x # NoSession => x \in LiveSession /\ x.user \in User
         /\ x = NoSession => x.user = "nobody"
  BY DEF LiveSession, NoSession

\* A body names a user, and the role it names can be assigned.
LEMMA BodyNames ==
  ASSUME NEW body \in Bodies
  PROVE  /\ body.user \in User
         /\ body.action \in {"set-role", "create"} => body.role \in Assignable
  BY DEF Bodies, Assignable, Matrix

\* What a waiting handler of each kind remembers.
LEMMA Remembered ==
  ASSUME SignTypeOK, NEW r \in Request
  PROVE  /\ requests[r].kind = "sign-in" =>
              /\ requests[r].user \in User
              /\ requests[r].row \in Account
         /\ requests[r].kind \in {"body", "hashed"} =>
              /\ requests[r] \in AdministratorsRequest
              /\ requests[r].actor \in User
              /\ requests[r].body \in Bodies
              /\ requests[r].body.user \in User
<1>1. requests[r] \in WaitingRequest
  BY DEF SignTypeOK
<1>2. Idle.kind = "none" /\ [kind |-> "callback"].kind = "callback"
  BY DEF Idle
<1>3. CASE requests[r].kind = "sign-in"
  BY <1>1, <1>2, <1>3 DEF WaitingRequest, SignInRequest, AdministratorsRequest
<1>4. CASE requests[r].kind \in {"body", "hashed"}
  <2>1. requests[r] \in AdministratorsRequest
    BY <1>1, <1>2, <1>4 DEF WaitingRequest, SignInRequest
  <2>2. requests[r].actor \in User /\ requests[r].body \in Bodies
    BY <2>1 DEF AdministratorsRequest
  <2>3. QED
    BY <1>4, <2>1, <2>2, BodyNames
<1>5. QED
  BY <1>3, <1>4

-----------------------------------------------------------------------------
(* The invariant.  It says more of sessions than SignedInAnew does, for a  *)
(* session of a disabled user may come back to life; and that whoever was  *)
(* once read from the table is still there, so that nobody is created over *)
(* a user who is signed in or signing in.                                  *)

InForce(s) ==
  LET account == accounts[sessions[s].user] IN
  /\ account.exists
  /\ sessions[s].password = account.password
  /\ sessions[s].spell = account.spell

People ==
  /\ SignTypeOK
  /\ \A s \in Session : sessions[s] # NoSession => InForce(s)
  /\ \A r \in Request : requests[r].kind = "sign-in" /\ requests[r].row.exists =>
       accounts[requests[r].user].exists
  /\ AdministratorRemains

\* A handler that starts to wait, or is done: the user it has read is still there.
Harmless(r, what) ==
  /\ what \in WaitingRequest
  /\ what.kind = "sign-in" /\ what.row.exists => accounts'[what.user].exists

\* One request changes, and the accounts do not.
LEMMA RequestFrame ==
  ASSUME People, NEW r \in Request, NEW what, Harmless(r, what),
         requests' = [requests EXCEPT ![r] = what],
         UNCHANGED <<accounts, crossed>>,
         sessions' \in [Session -> LiveSession \cup {NoSession}],
         \A s \in Session : sessions'[s] # NoSession =>
           sessions'[s] = sessions[s] \/ InForce(s)'
  PROVE  People'
<1>1. requests \in [Request -> WaitingRequest]
  BY DEF People, SignTypeOK
<1>2. SignTypeOK'
  BY <1>1 DEF People, SignTypeOK, Harmless
<1>3. \A s \in Session : sessions'[s] # NoSession => InForce(s)'
  BY DEF People, InForce
<1>4. \A q \in Request : requests'[q].kind = "sign-in" /\ requests'[q].row.exists =>
        accounts'[requests'[q].user].exists
  BY <1>1 DEF People, Harmless
<1>5. AdministratorRemains'
  BY DEF People, AdministratorRemains, IsAdministrator
<1>6. QED
  BY <1>2, <1>3, <1>4, <1>5 DEF People

\* An administrator's request is carried out on one user, and is done: those who
\* exist go on existing, whose password or spell changes has no session left,
\* and the sender stays an administrator.
LEMMA AccountFrame ==
  ASSUME People, NEW r \in Request, NEW u \in User, NEW new \in Account,
         requests' = [requests EXCEPT ![r] = Idle],
         accounts' = [accounts EXCEPT ![u] = new],
         accounts[u].exists => new.exists,
         sessions' \in [Session -> LiveSession \cup {NoSession}],
         \A s \in Session : sessions'[s] # NoSession =>
           \/ InForce(s)'
           \/ /\ sessions'[s] = sessions[s]
              /\ sessions[s].user = u =>
                   /\ new.password = accounts[u].password
                   /\ new.spell = accounts[u].spell,
         crossed' \in BOOLEAN, AdministratorRemains'
  PROVE  People'
<1>0. /\ requests \in [Request -> WaitingRequest]
      /\ accounts \in [User -> Account]
      /\ sessions \in [Session -> LiveSession \cup {NoSession}]
      /\ Idle \in WaitingRequest /\ Idle.kind = "none"
  BY DEF People, SignTypeOK, WaitingRequest, Idle
<1>1. SignTypeOK'
  BY <1>0 DEF SignTypeOK
<1>2. ASSUME NEW s \in Session, sessions'[s] # NoSession
      PROVE  InForce(s)'
  <2> SUFFICES ASSUME sessions'[s] = sessions[s],
                      sessions[s].user = u =>
                        /\ new.password = accounts[u].password
                        /\ new.spell = accounts[u].spell
               PROVE  InForce(s)'
    BY <1>2
  <2>1. sessions[s].user \in User /\ InForce(s)
    BY <1>0, <1>2, LiveOrFree DEF People
  <2>2. QED
    BY <1>0, <2>1 DEF InForce
<1>3. ASSUME NEW q \in Request, requests'[q].kind = "sign-in",
             requests'[q].row.exists
      PROVE  accounts'[requests'[q].user].exists
  <2>1. requests'[q] = requests[q]
    BY <1>0, <1>3
  <2>2. requests[q].user \in User /\ accounts[requests[q].user].exists
    BY <1>3, <2>1, Remembered DEF People
  <2>3. QED
    BY <1>0, <2>1, <2>2
<1>4. QED
  BY <1>1, <1>2, <1>3 DEF People

-----------------------------------------------------------------------------
(* The steps.                                                              *)

\* Revoking a user's sessions leaves the others as they are.
LEMMA RevokedLeaves ==
  ASSUME SignTypeOK, NEW u \in User
  PROVE  /\ RevokedOf(u) \in [Session -> LiveSession \cup {NoSession}]
         /\ \A s \in Session : RevokedOf(u)[s] # NoSession =>
              RevokedOf(u)[s] = sessions[s] /\ sessions[s].user # u
  BY DEF SignTypeOK, RevokedOf

\* A session is only ever issued to a user who exists, under what is in force.
LEMMA IssuedInForce ==
  ASSUME SignTypeOK, NEW s \in Session, NEW u \in User, NEW row,
         accounts[u].exists, accounts' = accounts, Issued(s, u, row)
  PROVE  /\ sessions' \in [Session -> LiveSession \cup {NoSession}]
         /\ \A t \in Session : sessions'[t] = sessions[t] \/ InForce(t)'
<1> DEFINE new == [user |-> u, password |-> accounts[u].password,
                   spell |-> accounts[u].spell,
                   fresh |-> row.password = accounts[u].password
                             /\ row.spell = accounts[u].spell]
<1>1. sessions' = [sessions EXCEPT ![s] = new]
  BY DEF Issued
<1>2. /\ accounts[u].password \in Nat /\ accounts[u].spell \in Nat
      /\ sessions \in [Session -> LiveSession \cup {NoSession}]
  BY DEF SignTypeOK, Account
<1>3. new \in LiveSession
  BY <1>2 DEF LiveSession
<1>4. new.user = u /\ new.password = accounts[u].password
      /\ new.spell = accounts[u].spell
  OBVIOUS
<1> HIDE DEF new
<1>5. sessions'[s] = new /\ \A t \in Session : t # s => sessions'[t] = sessions[t]
  BY <1>1, <1>2
<1>6. InForce(s)'
  BY <1>4, <1>5 DEF InForce
<1>7. QED
  BY <1>1, <1>2, <1>3, <1>5, <1>6

\* Every step keeps what is known of the people and their sessions.
LEMMA PeopleStep == People /\ [SignNext]_signVars => People'
<1> SUFFICES ASSUME People, [SignNext]_signVars
             PROVE  People'
  OBVIOUS
<1>0. /\ SignTypeOK
      /\ accounts \in [User -> Account]
      /\ sessions \in [Session -> LiveSession \cup {NoSession}]
      /\ requests \in [Request -> WaitingRequest]
      /\ Idle \in WaitingRequest /\ Idle.kind = "none"
  BY DEF People, SignTypeOK, WaitingRequest, Idle
<1>1. \A r \in Request : Harmless(r, Idle)
  BY <1>0 DEF Harmless
\* Nothing but the sessions changes, or the rest of the state.
<1>2. ASSUME UNCHANGED <<accounts, requests, crossed>>,
             sessions' \in [Session -> LiveSession \cup {NoSession}],
             \A s \in Session : sessions'[s] # NoSession =>
               sessions'[s] = sessions[s]
      PROVE  People'
  <2>1. SignTypeOK'
    BY <1>0, <1>2 DEF SignTypeOK
  <2>2. \A s \in Session : sessions'[s] # NoSession => InForce(s)'
    BY <1>2 DEF People, InForce
  <2>3. AdministratorRemains'
    BY <1>2 DEF People, AdministratorRemains, IsAdministrator
  <2>4. QED
    BY <1>2, <2>1, <2>2, <2>3 DEF People
<1>3. ASSUME NEW s \in Session, SignOut(s)
      PROVE  People'
  BY <1>0, <1>2, <1>3 DEF SignOut
<1>4. ASSUME \/ \E u \in User : WindowPasses(u)
             \/ \E x \in Ticket : BeginAuth(x)
      PROVE  People'
  BY <1>0, <1>2, <1>4 DEF WindowPasses, BeginAuth
<1>5. ASSUME NEW r \in Request, NEW u \in User, NEW tried \in 0..MaxResets,
             SignInStarts(r, u, tried)
      PROVE  People'
  <2> DEFINE what == [kind |-> "sign-in", user |-> u, row |-> accounts[u],
                      tried |-> tried]
  <2>1. what \in WaitingRequest
    BY <1>0 DEF WaitingRequest, SignInRequest
  <2>2. /\ requests' = [requests EXCEPT ![r] = what]
        /\ UNCHANGED <<accounts, sessions, crossed>>
    BY <1>5 DEF SignInStarts, Waits
  <2>3. what.user = u /\ what.row = accounts[u]
    OBVIOUS
  <2> HIDE DEF what
  <2>4. Harmless(r, what)
    BY <2>1, <2>2, <2>3 DEF Harmless
  <2>5. QED
    BY <1>0, <2>2, <2>4, RequestFrame
<1>6. ASSUME NEW r \in Request, SignInFails(r) \/ CallbackFails(r)
      PROVE  People'
  BY <1>0, <1>1, <1>6, RequestFrame DEF SignInFails, CallbackFails, Done
<1>7. ASSUME NEW r \in Request, NEW x \in Ticket, CallbackStarts(r, x)
      PROVE  People'
  <2>1. Harmless(r, [kind |-> "callback"])
    BY DEF Harmless, WaitingRequest
  <2>2. QED
    BY <1>0, <1>7, <2>1, RequestFrame DEF CallbackStarts, Waits
<1>8. ASSUME NEW r \in Request, NEW s \in Session, SignInEnds(r, s)
      PROVE  People'
  <2> DEFINE q == requests[r]
  <2>1. q.kind = "sign-in" /\ q.row.exists /\ q.user \in User
    BY <1>0, <1>8, Remembered DEF SignInEnds
  <2>2. accounts[q.user].exists
    BY <2>1 DEF People
  <2>3. /\ Issued(s, q.user, q.row) /\ UNCHANGED <<accounts, crossed>>
        /\ requests' = [requests EXCEPT ![r] = Idle]
    BY <1>8 DEF SignInEnds, Done
  <2> HIDE DEF q
  <2>4. QED
    BY <1>0, <1>1, <2>1, <2>2, <2>3, IssuedInForce, RequestFrame
<1>9. ASSUME NEW r \in Request, NEW s \in Session, NEW u \in User,
             CallbackEnds(r, s, u)
      PROVE  People'
  BY <1>0, <1>1, <1>9, IssuedInForce, RequestFrame DEF CallbackEnds, Done
<1>10. ASSUME NEW r \in Request, NEW s \in Session, NEW u \in User,
              CallbackProvisions(r, s, u)
       PROVE  People'
  <2> DEFINE new == [exists |-> TRUE, active |-> TRUE, role |-> "READ_ONLY",
                     password |-> 0, spell |-> 0]
             card == [user |-> u, password |-> 0, spell |-> 0, fresh |-> TRUE]
  <2>1. /\ accounts' = [accounts EXCEPT ![u] = new]
        /\ sessions' = [sessions EXCEPT ![s] = card]
        /\ requests' = [requests EXCEPT ![r] = Idle]
        /\ ~accounts[u].exists /\ crossed' = crossed
    BY <1>10 DEF CallbackProvisions, NewAccount, Done
  <2>2. new \in Account /\ card \in LiveSession
    BY DEF Account, LiveSession, Assignable, Matrix
  <2>3. accounts'[u] = new /\ sessions'[s] = card
        /\ \A t \in Session : t # s => sessions'[t] = sessions[t]
        /\ \A v \in User : v # u => accounts'[v] = accounts[v]
    BY <1>0, <2>1
  <2>4. InForce(s)'
    BY <2>3 DEF InForce
  <2>5. \A t \in Session : sessions[t] # NoSession => sessions[t].user # u
    BY <2>1 DEF People, InForce
  <2>6. AdministratorRemains'
    BY <2>1, <2>3 DEF People, AdministratorRemains, IsAdministrator
  <2>7. sessions' \in [Session -> LiveSession \cup {NoSession}]
    BY <1>0, <2>1, <2>2
  <2>8. new.exists
    OBVIOUS
  <2> HIDE DEF new, card
  <2>9. \A t \in Session : sessions'[t] # NoSession =>
          InForce(t)' \/ (sessions'[t] = sessions[t] /\ sessions[t].user # u)
    <3>1. ASSUME NEW t \in Session, t # s, sessions'[t] # NoSession
          PROVE  sessions'[t] = sessions[t] /\ sessions[t].user # u
      BY <2>3, <2>5, <3>1
    <3>2. QED
      BY <2>4, <3>1
  <2>10. crossed' \in BOOLEAN
    BY <1>0, <2>1 DEF SignTypeOK
  <2>11. QED
    BY <2>1, <2>2, <2>6, <2>7, <2>8, <2>9, <2>10, AccountFrame
<1>11. ASSUME NEW r \in Request, NEW s \in Session, NEW body \in Bodies,
              Guarded(r, s, body)
       PROVE  People'
  <2> DEFINE what == [kind |-> "body", actor |-> sessions[s].user, body |-> body]
  <2>1. sessions[s].user \in User
    BY <1>0, <1>11, LiveOrFree DEF Guarded, Allowed, Resolves
  <2>2. what \in WaitingRequest
    BY <2>1 DEF WaitingRequest, AdministratorsRequest
  <2>3. what.kind = "body"
    OBVIOUS
  <2>4. /\ requests' = [requests EXCEPT ![r] = what]
        /\ UNCHANGED <<accounts, sessions, crossed>>
    BY <1>11 DEF Guarded, Waits
  <2> HIDE DEF what
  <2>5. Harmless(r, what)
    BY <2>2, <2>3 DEF Harmless
  <2>6. QED
    BY <1>0, <2>4, <2>5, RequestFrame
<1>12. ASSUME NEW r \in Request, Hashes(r)
       PROVE  People'
  <2>1. requests[r] \in AdministratorsRequest
    BY <1>0, <1>12, Remembered DEF Hashes
  <2>2. [requests[r] EXCEPT !.kind = "hashed"] \in AdministratorsRequest
        /\ [requests[r] EXCEPT !.kind = "hashed"].kind = "hashed"
    BY <2>1 DEF AdministratorsRequest
  <2>3. Harmless(r, [requests[r] EXCEPT !.kind = "hashed"])
    BY <2>2 DEF Harmless, WaitingRequest
  <2>4. QED
    BY <1>0, <1>1, <1>12, <2>3, RequestFrame DEF Hashes
\* The sender is one of the tenant, and unless it is crossed an administrator.
<1>13. ASSUME NEW r \in Request, requests[r].kind \in {"body", "hashed"},
              Crossing(r)
       PROVE  /\ requests[r].actor \in User /\ requests[r].body.user \in User
              /\ requests[r].body \in Bodies
              /\ crossed' \in BOOLEAN
              /\ crossed' \/ IsAdministrator(requests[r].actor)
  BY <1>0, <1>13, Remembered DEF Crossing, SignTypeOK
\* Carried out in vain: only the request is gone.
<1>14. ASSUME NEW r \in Request, requests[r].kind \in {"body", "hashed"},
              Crossing(r), Done(r), UNCHANGED <<accounts, sessions>>
       PROVE  People'
  <2> DEFINE u == requests[r].actor
  <2>1. u \in User /\ accounts' = [accounts EXCEPT ![u] = accounts[u]]
        /\ crossed' \in BOOLEAN /\ accounts[u] \in Account
    BY <1>0, <1>13, <1>14
  <2>2. AdministratorRemains'
    BY <1>14 DEF People, AdministratorRemains, IsAdministrator, Crossing
  <2> HIDE DEF u
  <2>3. requests' = [requests EXCEPT ![r] = Idle]
    BY <1>14 DEF Done
  <2>4. /\ sessions' \in [Session -> LiveSession \cup {NoSession}]
        /\ \A s \in Session : sessions'[s] = sessions[s]
    BY <1>0, <1>14
  <2>5. \A s \in Session : sessions'[s] # NoSession =>
          \/ InForce(s)'
          \/ /\ sessions'[s] = sessions[s]
             /\ sessions[s].user = u =>
                  /\ accounts[u].password = accounts[u].password
                  /\ accounts[u].spell = accounts[u].spell
    BY <2>4
  <2>6. QED
    BY <2>1, <2>2, <2>3, <2>4, <2>5, AccountFrame
<1>15. ASSUME NEW r \in Request, SetRole(r)
       PROVE  People'
  <2> DEFINE actor == requests[r].actor
             b == requests[r].body
             new == [accounts[b.user] EXCEPT !.role = b.role]
  <2>1. requests[r].kind \in {"body", "hashed"} /\ Crossing(r) /\ Done(r)
        /\ sessions' = sessions
    BY <1>15 DEF SetRole, Arrived
  <2>2. CASE UNCHANGED accounts
    BY <1>14, <2>1, <2>2
  <2>3. CASE /\ b.role \in Assignable /\ MayTake(actor, b.user, b.role)
             /\ accounts' = [accounts EXCEPT ![b.user] = new]
    <3>1. /\ actor \in User /\ b.user \in User /\ crossed' \in BOOLEAN
          /\ crossed' \/ IsAdministrator(actor)
      BY <1>13, <2>1
    <3>2. /\ new \in Account /\ new.role = b.role
          /\ new.exists = accounts[b.user].exists
          /\ new.active = accounts[b.user].active
          /\ new.password = accounts[b.user].password
          /\ new.spell = accounts[b.user].spell
      BY <1>0, <2>3, <3>1 DEF Account
    <3> HIDE DEF actor, b, new
    <3>3. /\ accounts'[b.user] = new
          /\ \A v \in User : v # b.user => accounts'[v] = accounts[v]
      BY <1>0, <2>3, <3>1
    <3>4. AdministratorRemains'
      BY <2>3, <3>1, <3>2, <3>3 DEF AdministratorRemains, IsAdministrator, MayTake
    <3>5. requests' = [requests EXCEPT ![r] = Idle]
          /\ accounts' = [accounts EXCEPT ![b.user] = new]
      BY <2>1, <2>3 DEF Done
    <3>6. \A s \in Session : sessions'[s] # NoSession => sessions'[s] = sessions[s]
      BY <2>1
    <3>7. sessions' \in [Session -> LiveSession \cup {NoSession}]
      BY <1>0, <2>1
    <3>8. accounts[b.user].exists => new.exists
      BY <3>2
    <3>9. \A s \in Session : sessions'[s] # NoSession =>
            \/ InForce(s)'
            \/ /\ sessions'[s] = sessions[s]
               /\ sessions[s].user = b.user =>
                    /\ new.password = accounts[b.user].password
                    /\ new.spell = accounts[b.user].spell
      BY <3>2, <3>6
    <3>10. QED
      BY <3>1, <3>2, <3>4, <3>5, <3>7, <3>8, <3>9, AccountFrame
  <2>4. QED
    BY <1>15, <2>2, <2>3 DEF SetRole
<1>16. ASSUME NEW r \in Request, Disable(r)
       PROVE  People'
  <2> DEFINE actor == requests[r].actor
             target == requests[r].body.user
             new == [accounts[target] EXCEPT !.active = FALSE, !.spell = @ + 1]
  <2>1. requests[r].kind \in {"body", "hashed"} /\ Crossing(r) /\ Done(r)
    BY <1>16 DEF Disable, Arrived
  <2>2. CASE UNCHANGED <<accounts, sessions>>
    BY <1>14, <2>1, <2>2
  <2>3. CASE /\ MayDisable(actor, target)
             /\ accounts' = [accounts EXCEPT ![target].active = FALSE,
                                             ![target].spell = @ + 1]
             /\ sessions' = RevokedOf(target)
    <3>1. /\ actor \in User /\ target \in User /\ crossed' \in BOOLEAN
          /\ crossed' \/ IsAdministrator(actor)
      BY <1>13, <2>1
    <3>2. new \in Account /\ new.exists = accounts[target].exists
      <4>1. accounts[target] \in Account
        BY <1>0, <3>1
      <4>2. accounts[target].spell + 1 \in Nat
        BY <4>1 DEF Account
      <4>3. QED
        BY <4>1, <4>2 DEF Account
    <3>3. accounts' = [accounts EXCEPT ![target] = new]
      BY <1>0, <2>3, <3>1
    <3>4. target # actor
      BY <2>3 DEF MayDisable
    <3> HIDE DEF actor, target, new
    <3>5. \A v \in User : v # target => accounts'[v] = accounts[v]
      BY <1>0, <3>1, <3>3
    <3>6. AdministratorRemains'
      BY <3>1, <3>4, <3>5 DEF AdministratorRemains, IsAdministrator
    <3>7. requests' = [requests EXCEPT ![r] = Idle]
      BY <2>1 DEF Done
    <3>8. /\ sessions' \in [Session -> LiveSession \cup {NoSession}]
          /\ \A s \in Session : sessions'[s] # NoSession =>
               sessions'[s] = sessions[s] /\ sessions[s].user # target
      BY <1>0, <2>3, <3>1, RevokedLeaves
    <3>9. QED
      BY <3>1, <3>2, <3>3, <3>6, <3>7, <3>8, AccountFrame
  <2>4. QED
    BY <1>16, <2>2, <2>3 DEF Disable
<1>17. ASSUME NEW r \in Request, Enable(r)
       PROVE  People'
  <2> DEFINE target == requests[r].body.user
             new == [accounts[target] EXCEPT !.active = TRUE]
  <2>1. requests[r].kind \in {"body", "hashed"} /\ Crossing(r) /\ Done(r)
        /\ sessions' = sessions
    BY <1>17 DEF Enable, Arrived
  <2>2. CASE UNCHANGED accounts
    BY <1>14, <2>1, <2>2
  <2>3. CASE accounts' = [accounts EXCEPT ![target] = new]
    <3>1. target \in User /\ crossed' \in BOOLEAN
          /\ (crossed' \/ ~crossed)
      BY <1>0, <1>13, <2>1 DEF Crossing, SignTypeOK
    <3>2. /\ new \in Account /\ new.active /\ new.role = accounts[target].role
          /\ new.exists = accounts[target].exists
          /\ new.password = accounts[target].password
          /\ new.spell = accounts[target].spell
      BY <1>0, <3>1 DEF Account
    <3> HIDE DEF target, new
    <3>3. /\ accounts'[target] = new
          /\ \A v \in User : v # target => accounts'[v] = accounts[v]
      BY <1>0, <2>3, <3>1
    <3>4. AdministratorRemains'
      BY <2>1, <3>2, <3>3
      DEF People, AdministratorRemains, IsAdministrator, Crossing
    <3>5. requests' = [requests EXCEPT ![r] = Idle]
      BY <2>1 DEF Done
    <3>6. /\ sessions' \in [Session -> LiveSession \cup {NoSession}]
          /\ \A s \in Session : sessions'[s] = sessions[s]
      BY <1>0, <2>1
    <3>7. \A s \in Session : sessions'[s] # NoSession =>
            \/ InForce(s)'
            \/ /\ sessions'[s] = sessions[s]
               /\ sessions[s].user = target =>
                    /\ new.password = accounts[target].password
                    /\ new.spell = accounts[target].spell
      BY <3>2, <3>6
    <3>8. QED
      BY <2>3, <3>1, <3>2, <3>4, <3>5, <3>6, <3>7, AccountFrame
  <2>4. QED
    BY <1>17, <2>2, <2>3 DEF Enable
<1>18. ASSUME NEW r \in Request, ResetPassword(r)
       PROVE  People'
  <2> DEFINE u == requests[r].body.user
             new == [accounts[u] EXCEPT !.password = @ + 1]
  <2>1. /\ requests[r].kind \in {"body", "hashed"} /\ Crossing(r) /\ Done(r)
        /\ sessions' = RevokedOf(u)
        /\ accounts' = [accounts EXCEPT ![u].password = @ + 1]
    BY <1>18 DEF ResetPassword
  <2>2. u \in User /\ crossed' \in BOOLEAN
    BY <1>13, <2>1
  <2>3. /\ new \in Account /\ new.exists = accounts[u].exists
        /\ new.active = accounts[u].active /\ new.role = accounts[u].role
    BY <1>0, <2>2 DEF Account
  <2>4. accounts' = [accounts EXCEPT ![u] = new]
    BY <1>0, <2>1, <2>2
  <2> HIDE DEF u, new
  <2>5. /\ accounts'[u] = new
        /\ \A v \in User : v # u => accounts'[v] = accounts[v]
    BY <1>0, <2>2, <2>4
  <2>6. AdministratorRemains'
    BY <2>1, <2>3, <2>5
    DEF People, AdministratorRemains, IsAdministrator, Crossing
  <2>7. requests' = [requests EXCEPT ![r] = Idle]
    BY <2>1 DEF Done
  <2>8. /\ sessions' \in [Session -> LiveSession \cup {NoSession}]
        /\ \A s \in Session : sessions'[s] # NoSession =>
             sessions'[s] = sessions[s] /\ sessions[s].user # u
    BY <1>0, <2>1, <2>2, RevokedLeaves
  <2>9. QED
    BY <2>2, <2>3, <2>4, <2>6, <2>7, <2>8, AccountFrame
<1>19. ASSUME NEW r \in Request, CreateUser(r)
       PROVE  People'
  <2> DEFINE b == requests[r].body
             u == b.user
             new == [exists |-> TRUE, active |-> TRUE, role |-> b.role,
                     password |-> 1, spell |-> 0]
  <2>1. /\ requests[r].kind \in {"body", "hashed"} /\ Crossing(r) /\ Done(r)
        /\ sessions' = sessions /\ b.action = "create"
    BY <1>19 DEF CreateUser
  <2>2. CASE UNCHANGED accounts
    BY <1>14, <2>1, <2>2
  <2>3. CASE ~accounts[u].exists /\ accounts' = [accounts EXCEPT ![u] = new]
    <3>1. u \in User /\ b \in Bodies /\ crossed' \in BOOLEAN
      BY <1>13, <2>1
    <3>2. b.role \in Assignable
      BY <2>1, <3>1, BodyNames
    <3>3. new \in Account /\ new.exists
      BY <3>2 DEF Account
    <3>4. \A t \in Session : sessions[t] # NoSession => sessions[t].user # u
      BY <2>3 DEF People, InForce
    <3> HIDE DEF u, b, new
    <3>5. \A v \in User : v # u => accounts'[v] = accounts[v]
      BY <1>0, <2>3, <3>1
    <3>6. AdministratorRemains'
      BY <2>1, <2>3, <3>5
      DEF People, AdministratorRemains, IsAdministrator, Crossing
    <3>7. requests' = [requests EXCEPT ![r] = Idle]
      BY <2>1 DEF Done
    <3>8. /\ sessions' \in [Session -> LiveSession \cup {NoSession}]
          /\ \A s \in Session : sessions'[s] # NoSession =>
               sessions'[s] = sessions[s] /\ sessions[s].user # u
      BY <1>0, <2>1, <3>4
    <3>9. \A s \in Session : sessions'[s] # NoSession =>
            \/ InForce(s)'
            \/ /\ sessions'[s] = sessions[s]
               /\ sessions[s].user = u =>
                    /\ new.password = accounts[u].password
                    /\ new.spell = accounts[u].spell
      BY <3>8
    <3>10. QED
      BY <2>3, <3>1, <3>3, <3>6, <3>7, <3>8, <3>9, AccountFrame
  <2>4. QED
    BY <1>19, <2>2, <2>3 DEF CreateUser, NewAccount
<1>20. CASE UNCHANGED signVars
  BY <1>0, <1>2, <1>20 DEF signVars
<1>21. QED
  BY <1>3, <1>4, <1>5, <1>6, <1>7, <1>8, <1>9, <1>10, <1>11, <1>12, <1>15,
     <1>16, <1>17, <1>18, <1>19, <1>20
  DEF SignNext, Administer

-----------------------------------------------------------------------------
(* The theorems, of a tenant whose administrators also grant autonomy.     *)

\* So it holds always.
LEMMA PeopleInvariant == AdministrationSpec => []People
<1>1. SignInit => People
  <2> SUFFICES ASSUME SignInit PROVE People
    OBVIOUS
  <2>1. PICK founders \in Founders :
          accounts = [u \in User |->
            LET founder == u \in founders IN
            [ exists |-> founder, active |-> founder,
              password |-> IF founder THEN 1 ELSE 0, spell |-> 0,
              role |-> IF founder THEN "MSP_ADMIN" ELSE "READ_ONLY" ]]
    BY DEF SignInit
  <2>2. PICK u \in User : u \in founders
    BY SignInAssumption
  <2>3. accounts \in [User -> Account] /\ IsAdministrator(u)
    <3>1. ASSUME NEW v \in User
          PROVE  accounts[v] \in Account
      <4>1. CASE v \in founders
        <5>1. accounts[v] = [exists |-> TRUE, active |-> TRUE, password |-> 1,
                             spell |-> 0, role |-> "MSP_ADMIN"]
          BY <2>1, <4>1, Zenon
        <5>2. QED
          BY <5>1 DEF Account, Assignable, Matrix
      <4>2. CASE v \notin founders
        <5>1. accounts[v] = [exists |-> FALSE, active |-> FALSE, password |-> 0,
                             spell |-> 0, role |-> "READ_ONLY"]
          <6>1. (v \in founders) = FALSE
            BY <4>2
          <6>2. QED
            BY <2>1, <6>1, Zenon
        <5>2. QED
          BY <5>1 DEF Account, Assignable, Matrix
      <4>3. QED
        BY <4>1, <4>2
    <3>2. accounts[u] = [exists |-> TRUE, active |-> TRUE, password |-> 1,
                         spell |-> 0, role |-> "MSP_ADMIN"]
      BY <2>1, <2>2, Zenon
    <3>3. accounts \in [User -> Account]
      BY <2>1, <3>1, Zenon
    <3>4. QED
      BY <3>2, <3>3 DEF IsAdministrator
  <2>4. Idle \in WaitingRequest /\ Idle.kind = "none"
    BY DEF Idle, WaitingRequest
  <2>5. SignTypeOK
    BY <2>3, <2>4 DEF SignInit, SignTypeOK
  <2>6. QED
    BY <2>3, <2>4, <2>5 DEF SignInit, People, AdministratorRemains
<1>2. AdministrationInit => People
  <2> SUFFICES ASSUME AdministrationInit, ~SignInit PROVE People
    BY <1>1
  <2>0. PICK a \in User, u \in User, s \in Session, t \in Session :
          /\ a # u /\ s # t
          /\ accounts = [v \in User |->
               [exists |-> TRUE, active |-> TRUE, password |-> 1, spell |-> 0,
                role |-> IF v = a THEN "MSP_ADMIN" ELSE "MSP_USER"]]
          /\ sessions = [v \in Session |->
               IF v \in {s, t}
               THEN [user |-> IF v = s THEN a ELSE u, password |-> 1,
                     spell |-> 0, fresh |-> TRUE]
               ELSE NoSession]
    BY Zenon DEF AdministrationInit
  <2>idle. requests = [r \in Request |-> Idle] /\ crossed = FALSE
    BY DEF AdministrationInit
  <2>1. accounts \in [User -> Account] /\ IsAdministrator(a)
    BY <2>0 DEF Account, Assignable, Matrix, IsAdministrator
  <2>2. \A v \in Session : sessions[v] # NoSession =>
          sessions[v] \in LiveSession /\ InForce(v)
    BY <2>0 DEF LiveSession, InForce
  <2>3. sessions \in [Session -> LiveSession \cup {NoSession}]
    BY <2>0, <2>2
  <2>4. Idle \in WaitingRequest /\ Idle.kind = "none"
    BY DEF Idle, WaitingRequest
  <2>5. SignTypeOK
    BY <2>idle, <2>1, <2>3, <2>4 DEF SignTypeOK
  <2>6. QED
    BY <2>idle, <2>1, <2>2, <2>4, <2>5 DEF People, AdministratorRemains
<1>3. People /\ [AdministrationNext]_allVars => People'
  BY PeopleStep DEF AdministrationNext, allVars
<1>4. QED
  BY <1>2, <1>3, PTL DEF AdministrationSpec

\* The tenant always has an active administrator, whatever administrators do to
\* each other and to themselves at once, unless a request was carried out after
\* its sender had stopped being one (users/route.ts:50-83).
THEOREM AdministratorStays == AdministrationSpec => []AdministratorRemains
BY PeopleInvariant, PTL DEF People

\* Whoever is signed in was let in under the password in force and has not been
\* disabled since, unless the sign-in was being checked while that changed
\* (users.ts:82-89, 102-144; sessions.ts:71-139).
THEOREM SessionsAnew == AdministrationSpec => []SignedInAnew
<1>1. People => SignedInAnew
  BY DEF People, InForce, SignedInAnew, Resolves
<1>2. QED
  BY <1>1, PeopleInvariant, PTL

-----------------------------------------------------------------------------
(* Autonomy.  Of some numbers there is a least.                            *)

\* A set of numbers that is not empty has a least one ...
LEMMA LeastNumber ==
  ASSUME NEW S, S \subseteq Nat, S # {}
  PROVE  \E x \in S : \A y \in S : x <= y
<1>1. PICK x \in S : \A y \in S : ~ (<<y, x>> \in OpToRel(<, Nat))
  BY WFMin, NatLessThanWellFounded, Zenon
<1>2. \A y \in S : ~ (y < x)
  BY <1>1 DEF OpToRel
<1>3. QED
  BY <1>2

\* ... which is what Min is.
LEMMA MinIsLeast ==
  ASSUME NEW S, S \subseteq Nat, S # {}
  PROVE  Min(S) \in S /\ \A y \in S : Min(S) <= y
BY LeastNumber DEF Min

-----------------------------------------------------------------------------
(* The grant that decides.                                                 *)

Ids == GrantIds \cup {"default", "prepare-analysis"}
Named ==
  {None, "analyse-company", "toleron"}
    \cup {r.action : r \in Requests} \cup {r.capability : r \in Requests}
Risks == {"low", "medium", "high"}

GrantRow ==
  [id : Ids, action : Named, capability : Named, level : Nat, threshold : Nat,
   maxRisk : Risks]

\* No grant that applies is narrower than the one that decides, and none as
\* narrow allows less.
LEMMA NarrowestDecides ==
  ASSUME NEW granted \in Seq(GrantRow), NEW action, NEW capability,
         Applies(granted, action, capability)
  PROVE  LET d == Deciding(granted, action, capability) IN
         /\ d \in DOMAIN granted /\ Covers(granted[d], action, capability)
         /\ \A k \in DOMAIN granted :
              Covers(granted[k], action, capability) =>
                /\ Specificity(granted[k]) <= Specificity(granted[d])
                /\ Specificity(granted[k]) = Specificity(granted[d]) =>
                     granted[d].level <= granted[k].level
<1> DEFINE applicable == {i \in DOMAIN granted : Covers(granted[i], action, capability)}
           spec(i) == Specificity(granted[i])
           narrowest == {i \in applicable : \A k \in applicable : spec(k) <= spec(i)}
           lowest == {i \in narrowest : \A k \in narrowest :
                        granted[i].level <= granted[k].level}
<1>1. applicable # {}
  BY DEF Applies
<1>2. \A i \in applicable : spec(i) \in 0..3
  BY DEF Specificity
<1>3. narrowest # {}
  <2> DEFINE left == {3 - spec(i) : i \in applicable}
  <2>1. left # {} /\ left \subseteq Nat
    BY <1>1, <1>2
  <2>2. PICK least \in left : \A y \in left : least <= y
    BY <2>1, LeastNumber
  <2>3. PICK i \in applicable : least = 3 - spec(i)
    BY <2>2
  <2>4. \A k \in applicable : 3 - spec(i) <= 3 - spec(k)
    BY <2>2, <2>3
  <2>5. \A k \in applicable : spec(k) <= spec(i)
    BY <1>2, <2>3, <2>4
  <2>6. QED
    BY <2>3, <2>5
<1>4. \A i \in DOMAIN granted : granted[i].level \in Nat /\ i \in Nat
  <2>1. DOMAIN granted = 1..Len(granted) /\ Len(granted) \in Nat
    OBVIOUS
  <2>2. \A i \in 1..Len(granted) : granted[i] \in GrantRow
    BY ElementOfSeq
  <2>3. QED
    BY <2>1, <2>2 DEF GrantRow
<1>5. lowest # {}
  <2> DEFINE levels == {granted[i].level : i \in narrowest}
  <2>1. levels # {} /\ levels \subseteq Nat
    BY <1>3, <1>4
  <2>2. PICK least \in levels : \A y \in levels : least <= y
    BY <2>1, LeastNumber
  <2>3. QED
    BY <2>2
<1>6. lowest \subseteq Nat
  BY <1>4
<1>7. Deciding(granted, action, capability) = Min(lowest)
  BY DEF Deciding
<1>8. Min(lowest) \in lowest
  BY <1>5, <1>6, MinIsLeast
<1>9. \A k \in narrowest : spec(k) = spec(Min(lowest))
  BY <1>2, <1>8
<1>10. ASSUME NEW k \in applicable, spec(k) = spec(Min(lowest))
       PROVE  k \in narrowest
  BY <1>8, <1>10
<1>11. QED
  BY <1>7, <1>8, <1>10

\* A grant of just an action and a capability is as narrow as any that applies to
\* them.
LEMMA ExactIsNarrowest ==
  ASSUME NEW exact, NEW g, Covers(g, exact.action, exact.capability)
  PROVE  Specificity(g) <= Specificity(exact)
BY DEF Covers, Specificity

-----------------------------------------------------------------------------
(* The grants there are, and what was asked for.                           *)

\* Every grant is as it was asked for since the last halt, or allows nothing to be
\* executed; and what was asked for is granted.
AsAsked ==
  /\ \A i \in DOMAIN grants :
       \/ /\ grants[i].level < 3
          /\ grants[i].id \in GrantIds => asked[grants[i].id] = NotAsked
       \/ grants[i].id \in GrantIds /\ asked[grants[i].id] = grants[i]
  /\ \A id \in GrantIds :
       asked[id] # NotAsked =>
         asked[id].id = id /\ \E i \in DOMAIN grants : grants[i] = asked[id]

Authority ==
  /\ grants \in Seq(GrantRow)
  /\ \A i, k \in DOMAIN grants : grants[i].id = grants[k].id => i = k
  /\ rescoped \in BOOLEAN /\ (~ rescoped => AsAsked)

\* What may be executed stays within the limits of the grant that decides.
LEMMA WithinTheGrant ==
  ASSUME NEW granted, NEW action, NEW capability, NEW impact, NEW risk,
         Resolve(granted, action, capability, impact, risk).mayExecute
  PROVE  LET g == granted[Deciding(granted, action, capability)] IN
         /\ Applies(granted, action, capability)
         /\ ~ (impact > g.threshold) /\ ~ (Order(risk) > Order(g.maxRisk)) /\ g.level >= 3
<1> DEFINE g == granted[Deciding(granted, action, capability)]
           beyond == impact > g.threshold \/ Order(risk) > Order(g.maxRisk)
           resolved == Resolve(granted, action, capability, impact, risk)
<1>1. CASE ~ Applies(granted, action, capability)
  <2>1. resolved = [level |-> 0, mayExecute |-> FALSE]
    BY <1>1 DEF Resolve
  <2>2. resolved.mayExecute = FALSE
    BY <2>1
  <2>3. QED
    BY <2>2
<1>2. CASE Applies(granted, action, capability)
  <2>1. resolved = [ level |-> IF beyond /\ g.level > 2 THEN 2 ELSE g.level,
                     mayExecute |-> ~ beyond /\ g.level >= 3 ]
    BY <1>2, Zenon DEF Resolve
  <2> HIDE DEF g
  <2>2. resolved.mayExecute = (~ beyond /\ g.level >= 3)
    <3> HIDE DEF beyond, resolved
    <3>1. QED
      BY <2>1
  <2>3. ~ beyond /\ g.level >= 3
    BY <2>2, Zenon
  <2>4. QED
    BY <1>2, <2>3, Zenon DEF g
<1>3. QED
  BY <1>1, <1>2

\* So it is whatever the action, the capability and the risk, and any impact.
LEMMA AuthorityImplies ==
  ASSUME Authority, ~ rescoped,
         NEW action, NEW c, NEW impact \in Nat, NEW risk
  PROVE  OnlyAsAsked(action, c, impact, risk)
<1> SUFFICES ASSUME Resolve(grants, action, c, impact, risk).mayExecute
             PROVE  /\ \E id \in GrantIds :
                         /\ asked[id] # NotAsked /\ Covers(asked[id], action, c)
                         /\ asked[id].level >= 3
                         /\ impact <= asked[id].threshold
                         /\ Order(risk) <= Order(asked[id].maxRisk)
                    /\ \A id \in GrantIds :
                         asked[id] # NotAsked /\ asked[id].action = action
                           /\ asked[id].capability = c
                         => asked[id].level >= 3
  BY Zenon DEF OnlyAsAsked
<1>1. /\ grants \in Seq(GrantRow) /\ AsAsked
      /\ \A i \in DOMAIN grants : grants[i] \in GrantRow
  BY DEF Authority
<1>2. Applies(grants, action, c)
  BY WithinTheGrant
<1> DEFINE d == Deciding(grants, action, c)
<1>3. /\ d \in DOMAIN grants /\ Covers(grants[d], action, c)
      /\ \A k \in DOMAIN grants :
           Covers(grants[k], action, c) =>
             /\ Specificity(grants[k]) <= Specificity(grants[d])
             /\ Specificity(grants[k]) = Specificity(grants[d]) =>
                  grants[d].level <= grants[k].level
  BY <1>1, <1>2, NarrowestDecides
<1>4. /\ ~ (impact > grants[d].threshold)
      /\ ~ (Order(risk) > Order(grants[d].maxRisk))
      /\ grants[d].level >= 3
  BY WithinTheGrant
<1> HIDE DEF d
<1>5. grants[d] \in GrantRow
  BY <1>1, <1>3
<1>6. Order(risk) \in 0..2 /\ Order(grants[d].maxRisk) \in 0..2
  BY DEF Order
<1>7. grants[d].level \in Nat /\ grants[d].threshold \in Nat
  BY <1>5 DEF GrantRow
<1>8. PICK id \in GrantIds : id = grants[d].id /\ asked[id] = grants[d]
  BY <1>1, <1>3, <1>4, <1>7 DEF AsAsked
<1>9. asked[id] # NotAsked
  BY <1>4, <1>7, <1>8 DEF NotAsked
<1>10. impact <= asked[id].threshold /\ Order(risk) <= Order(asked[id].maxRisk)
  BY <1>4, <1>6, <1>7, <1>8
<1>11. ASSUME NEW other \in GrantIds, asked[other] # NotAsked,
              asked[other].action = action, asked[other].capability = c
       PROVE  asked[other].level >= 3
  <2>1. PICK k \in DOMAIN grants : grants[k] = asked[other]
    BY <1>1, <1>11 DEF AsAsked
  <2>2. Covers(grants[k], action, c)
    BY <1>11, <2>1 DEF Covers
  <2>3. Specificity(grants[d]) <= Specificity(grants[k])
    BY <1>3, <1>11, <2>1, ExactIsNarrowest
  <2>4. Specificity(grants[d]) \in Nat /\ Specificity(grants[k]) \in Nat
    BY DEF Specificity
  <2>5. grants[d].level <= grants[k].level /\ grants[k].level \in Nat
    BY <1>1, <1>3, <2>1, <2>2, <2>3, <2>4 DEF GrantRow
  <2>6. QED
    BY <1>4, <1>7, <2>1, <2>5
<1>12. QED
  BY <1>3, <1>4, <1>8, <1>9, <1>10, <1>11

\* A grant saved as it was asked for allows what was asked for.
LEMMA SaveGrantKeeps ==
  ASSUME Authority, NEW id \in GrantIds, NEW r \in Requests, SaveGrant(id, r),
         asked \in [GrantIds -> GrantRow \cup {NotAsked}]
  PROVE  Authority' /\ asked' \in [GrantIds -> GrantRow \cup {NotAsked}]
<1> DEFINE g == Requested(id, r)
<1>1. /\ grants' = Upserted(grants, g) /\ asked' = [asked EXCEPT ![id] = g]
      /\ rescoped' = (rescoped \/ \E i \in Stored(id) :
           <<grants[i].action, grants[i].capability>> # <<g.action, g.capability>>)
  BY DEF SaveGrant
<1>2. /\ grants \in Seq(GrantRow) /\ DOMAIN grants = 1..Len(grants)
      /\ Len(grants) \in Nat
      /\ \A i \in DOMAIN grants : grants[i] \in GrantRow
      /\ \A i, k \in DOMAIN grants : grants[i].id = grants[k].id => i = k
  BY DEF Authority
<1>3. /\ g \in GrantRow /\ g.id = id
  <2>1. /\ id \in Ids /\ r.action \in Named /\ r.capability \in Named
        /\ r.level \in Nat /\ r.threshold \in Nat /\ r.maxRisk \in Risks
    BY PlanningAssumption DEF Ids, Named, Risks
  <2>2. Stored(id) # {} => grants[Min(Stored(id))] \in GrantRow
    <3>1. Stored(id) \subseteq DOMAIN grants /\ Stored(id) \subseteq Nat
      BY <1>2 DEF Stored
    <3>2. QED
      BY <1>2, <3>1, MinIsLeast
  <2>3. /\ g.action \in Named /\ g.capability \in Named
    BY <2>1, <2>2 DEF Requested, GrantRow, Named
  <2>4. g = [id |-> id, action |-> g.action, capability |-> g.capability,
             level |-> r.level, threshold |-> r.threshold, maxRisk |-> r.maxRisk]
    BY DEF Requested
  <2> HIDE DEF g
  <2>5. QED
    BY <2>1, <2>3, <2>4 DEF GrantRow
<1>4. rescoped' \in BOOLEAN
  BY <1>1 DEF Authority
<1>5. asked' \in [GrantIds -> GrantRow \cup {NotAsked}] /\ asked'[id] = g
      /\ \A other \in GrantIds \ {id} : asked'[other] = asked[other]
  BY <1>1, <1>3
<1>6. g # NotAsked
  BY <1>3 DEF GrantRow, NotAsked
<1>7. CASE \E i \in DOMAIN grants : grants[i].id = g.id
  <2> DEFINE over(i) == [grants[i] EXCEPT !.level = g.level, !.threshold = g.threshold,
                                         !.maxRisk = g.maxRisk]
  <2>1. PICK j \in DOMAIN grants : grants[j].id = id
    BY <1>3, <1>7
  <2>2. grants' = [i \in DOMAIN grants |-> IF grants[i].id = id THEN over(i) ELSE grants[i]]
    BY <1>1, <1>3, <1>7 DEF Upserted
  <2>3. \A i \in DOMAIN grants : over(i) \in GrantRow /\ over(i).id = grants[i].id
    BY <1>2, <1>3 DEF GrantRow
  <2>4. /\ DOMAIN grants' = DOMAIN grants
        /\ grants' \in Seq(GrantRow)
    <3>1. grants' \in [1..Len(grants) -> GrantRow]
      BY <1>2, <2>2, <2>3
    <3>2. grants' \in Seq(GrantRow)
      BY <1>2, <3>1, SeqDef
    <3>3. QED
      BY <1>2, <3>1, <3>2
  <2>5. \A i \in DOMAIN grants : grants'[i].id = grants[i].id
    BY <2>2, <2>3
  <2>6. grants'[j] = over(j) /\ \A i \in DOMAIN grants \ {j} : grants'[i] = grants[i]
    BY <1>2, <2>1, <2>2
  <2>7. ~ rescoped' => ~ rescoped /\ over(j) = g
    <3>1. SUFFICES ASSUME ~ rescoped'
                   PROVE  ~ rescoped /\ over(j) = g
      OBVIOUS
    <3>2. ~ rescoped /\ grants[j].action = g.action /\ grants[j].capability = g.capability
      BY <1>1, <2>1, <3>1 DEF Stored, Authority
    <3>3. over(j) \in GrantRow
      BY <2>3
    <3>4. /\ over(j).id = g.id /\ over(j).action = g.action
          /\ over(j).capability = g.capability /\ over(j).level = g.level
          /\ over(j).threshold = g.threshold /\ over(j).maxRisk = g.maxRisk
      BY <1>2, <1>3, <2>1, <3>2 DEF GrantRow
    <3> HIDE DEF over, g
    <3>5. QED
      BY <1>3, <3>2, <3>3, <3>4 DEF GrantRow
  <2> HIDE DEF over, g
  <2>8. ASSUME ~ rescoped'
        PROVE  AsAsked'
    <3>1. AsAsked /\ grants'[j] = g
      BY <2>6, <2>7, <2>8 DEF Authority
    <3>2. \A i \in DOMAIN grants \ {j} : grants[i].id # id
      BY <1>2, <2>1
    <3>3. ASSUME NEW i \in DOMAIN grants'
          PROVE  \/ /\ grants'[i].level < 3
                    /\ grants'[i].id \in GrantIds => asked'[grants'[i].id] = NotAsked
                 \/ grants'[i].id \in GrantIds /\ asked'[grants'[i].id] = grants'[i]
      <4>1. CASE i = j
        BY <1>3, <1>5, <3>1, <4>1
      <4>2. CASE i # j
        BY <1>5, <2>4, <2>6, <3>1, <3>2, <4>2 DEF AsAsked
      <4>3. QED
        BY <4>1, <4>2
    <3>4. ASSUME NEW other \in GrantIds, asked'[other] # NotAsked
          PROVE  asked'[other].id = other
                 /\ \E i \in DOMAIN grants' : grants'[i] = asked'[other]
      <4>1. CASE other = id
        BY <1>3, <1>5, <2>4, <3>1, <4>1
      <4>2. CASE other # id
        <5>1. asked'[other] = asked[other] /\ asked[other].id = other
          BY <1>5, <3>1, <3>4, <4>2 DEF AsAsked
        <5>2. PICK i \in DOMAIN grants : grants[i] = asked[other]
          BY <3>1, <3>4, <5>1 DEF AsAsked
        <5>3. i # j
          BY <2>1, <4>2, <5>1, <5>2
        <5>4. QED
          BY <2>4, <2>6, <5>1, <5>2, <5>3
      <4>3. QED
        BY <4>1, <4>2
    <3>5. QED
      BY <3>3, <3>4 DEF AsAsked
  <2>9. QED
    BY <1>2, <1>4, <1>5, <2>4, <2>5, <2>8 DEF Authority
<1>8. CASE ~ \E i \in DOMAIN grants : grants[i].id = g.id
  <2>1. grants' = Append(grants, g)
    BY <1>1, <1>8 DEF Upserted
  <2> HIDE DEF g
  <2>2. /\ grants' \in Seq(GrantRow) /\ DOMAIN grants' = 1..(Len(grants) + 1)
        /\ grants'[Len(grants) + 1] = g
        /\ \A i \in DOMAIN grants : grants'[i] = grants[i]
    BY <1>2, <1>3, <2>1
  <2>3. \A i \in DOMAIN grants' : i = Len(grants) + 1 \/ i \in DOMAIN grants
    BY <1>2, <2>2
  <2>4. \A i, k \in DOMAIN grants' : grants'[i].id = grants'[k].id => i = k
    BY <1>2, <1>8, <2>2, <2>3
  <2>5. ASSUME ~ rescoped'
        PROVE  AsAsked'
    <3>1. AsAsked
      BY <1>1, <2>5 DEF Authority
    <3>2. ASSUME NEW i \in DOMAIN grants'
          PROVE  \/ /\ grants'[i].level < 3
                    /\ grants'[i].id \in GrantIds => asked'[grants'[i].id] = NotAsked
                 \/ grants'[i].id \in GrantIds /\ asked'[grants'[i].id] = grants'[i]
      <4>1. CASE i = Len(grants) + 1
        BY <1>3, <1>5, <2>2, <4>1
      <4>2. CASE i \in DOMAIN grants
        BY <1>3, <1>5, <1>8, <2>2, <3>1, <4>2 DEF AsAsked
      <4>3. QED
        BY <2>3, <4>1, <4>2
    <3>3. ASSUME NEW other \in GrantIds, asked'[other] # NotAsked
          PROVE  asked'[other].id = other
                 /\ \E i \in DOMAIN grants' : grants'[i] = asked'[other]
      <4>1. CASE other = id
        <5>1. Len(grants) + 1 \in DOMAIN grants'
          BY <1>2, <2>2
        <5>2. QED
          BY <1>3, <1>5, <2>2, <4>1, <5>1
      <4>2. CASE other # id
        <5>1. asked'[other] = asked[other] /\ asked[other].id = other
          BY <1>5, <3>1, <3>3, <4>2 DEF AsAsked
        <5>2. PICK i \in DOMAIN grants : grants[i] = asked[other]
          BY <3>1, <3>3, <5>1 DEF AsAsked
        <5>3. i \in DOMAIN grants'
          BY <1>2, <2>2
        <5>4. QED
          BY <2>2, <5>1, <5>2, <5>3
      <4>3. QED
        BY <4>1, <4>2
    <3>4. QED
      BY <3>2, <3>3 DEF AsAsked
  <2>6. QED
    BY <1>4, <1>5, <2>2, <2>4, <2>5 DEF Authority
<1>9. QED
  BY <1>7, <1>8

\* A halt leaves no grant that was not asked for anew.
LEMMA HaltKeeps ==
  ASSUME Authority, HaltTenant
  PROVE  Authority' /\ asked' \in [GrantIds -> GrantRow \cup {NotAsked}]
<1>1. /\ grants' = Halted(grants) /\ asked' = [id \in GrantIds |-> NotAsked]
      /\ rescoped' = rescoped
  BY DEF HaltTenant
<1>2. /\ grants \in Seq(GrantRow) /\ DOMAIN grants = 1..Len(grants)
      /\ Len(grants) \in Nat
      /\ \A i \in DOMAIN grants : grants[i] \in GrantRow
      /\ \A i, k \in DOMAIN grants : grants[i].id = grants[k].id => i = k
  BY DEF Authority
<1> DEFINE halted(i) == [grants[i] EXCEPT !.level = 0]
<1>3. \A i \in DOMAIN grants :
        halted(i) \in GrantRow /\ halted(i).id = grants[i].id /\ halted(i).level = 0
  BY <1>2 DEF GrantRow
<1>4. grants' = [i \in 1..Len(grants) |-> halted(i)]
  BY <1>1, <1>2 DEF Halted
<1> HIDE DEF halted
<1>5. grants' \in [1..Len(grants) -> GrantRow]
  BY <1>2, <1>3, <1>4
<1>6. grants' \in Seq(GrantRow) /\ DOMAIN grants' = DOMAIN grants
  BY <1>2, <1>5, SeqDef
<1>7. \A i \in DOMAIN grants : grants'[i].id = grants[i].id /\ grants'[i].level = 0
  BY <1>2, <1>3, <1>4
<1>8. asked' \in [GrantIds -> GrantRow \cup {NotAsked}]
  BY <1>1
<1>9. AsAsked'
  BY <1>1, <1>6, <1>7 DEF AsAsked
<1>10. QED
  BY <1>1, <1>2, <1>6, <1>7, <1>8, <1>9 DEF Authority

AuthorityOK ==
  Authority /\ asked \in [GrantIds -> GrantRow \cup {NotAsked}]

\* At first there are only the grants a tenant is founded with, asked for by
\* nobody.
LEMMA AuthorityStarts == Init => AuthorityOK
<1> SUFFICES ASSUME Init PROVE AuthorityOK
  OBVIOUS
<1>1. /\ grants = Seeded /\ asked = [id \in GrantIds |-> NotAsked] /\ rescoped = FALSE
  BY DEF Init
<1>2. /\ Len(Seeded) = 2 /\ DOMAIN Seeded = {1, 2}
      /\ Seeded[1].id = "default" /\ Seeded[2].id = "prepare-analysis"
      /\ Seeded[1].level = 1 /\ Seeded[2].level = 2
  BY DEF Seeded
<1>3. Seeded \in Seq(GrantRow)
  <2>1. /\ Seeded[1] = [id |-> "default", action |-> None, capability |-> None, level |-> 1,
                        threshold |-> 0, maxRisk |-> "low"]
        /\ Seeded[2] = [id |-> "prepare-analysis", action |-> "analyse-company",
                        capability |-> "toleron", level |-> 2, threshold |-> 5000,
                        maxRisk |-> "low"]
    BY DEF Seeded
  <2>2. /\ None \in Named /\ "analyse-company" \in Named /\ "toleron" \in Named
        /\ "default" \in Ids /\ "prepare-analysis" \in Ids /\ "low" \in Risks
    BY DEF Ids, Named, Risks
  <2>3. Seeded[1] \in GrantRow
    BY <2>1, <2>2 DEF GrantRow
  <2>4. Seeded[2] \in GrantRow
    BY <2>1, <2>2 DEF GrantRow
  <2>5. Seeded \in [1..2 -> GrantRow]
    <3>1. Seeded = [i \in 1..2 |-> Seeded[i]]
      BY DEF Seeded
    <3>2. \A i \in 1..2 : i = 1 \/ i = 2
      OBVIOUS
    <3> HIDE DEF Seeded
    <3>3. QED
      BY <2>3, <2>4, <3>1, <3>2
  <2>6. QED
    BY <2>5, SeqDef
<1>4. AsAsked
  BY <1>1, <1>2 DEF AsAsked
<1>5. \A i, k \in DOMAIN grants : grants[i].id = grants[k].id => i = k
  BY <1>1, <1>2
<1>6. asked \in [GrantIds -> GrantRow \cup {NotAsked}]
  BY <1>1
<1>7. QED
  BY <1>1, <1>3, <1>4, <1>5, <1>6 DEF Authority, AuthorityOK

\* A step that touches no grant changes nobody's authority.
LEMMA AuthorityUnchanged ==
  ASSUME AuthorityOK, UNCHANGED <<grants, asked, rescoped>>
  PROVE  AuthorityOK'
BY DEF AuthorityOK, Authority, AsAsked

\* So that holds always.
LEMMA AuthorityInvariant == AdministrationSpec => []AuthorityOK
<1>1. AdministrationInit => AuthorityOK
  BY AuthorityStarts, Zenon DEF AdministrationInit
<1>2. ASSUME AuthorityOK, [AdministrationNext]_allVars
      PROVE  AuthorityOK'
  <2>1. CASE UNCHANGED vars
    BY <1>2, <2>1, AuthorityUnchanged DEF vars
  <2>2. CASE \E id \in GrantIds, r \in Requests : SaveGrant(id, r)
    BY <1>2, <2>2, SaveGrantKeeps DEF AuthorityOK
  <2>3. CASE HaltTenant
    BY <1>2, <2>3, HaltKeeps DEF AuthorityOK
  <2>4. CASE \E o \in Opportunities, likeness \in Likenesses, systems \in SUBSET {"azure"} :
               PlanExecution(o, likeness, systems)
    BY <1>2, <2>4, AuthorityUnchanged DEF PlanExecution
  <2>5. QED
    BY <1>2, <2>1, <2>2, <2>3, <2>4
       DEF AdministrationNext, allVars, Grant, Halt, Plan
<1>3. QED
  BY <1>1, <1>2, PTL DEF AdministrationSpec

\* Whatever grants administrators save and whoever halts them, the platform may
\* execute only what was asked for since the last halt, in that scope and within
\* those limits, and what no grant of just that scope withholds -- unless a grant
\* was asked for in another scope than it has (autonomy.ts:33-72, 108-120).
THEOREM AuthorityHolds == AdministrationSpec => []AuthorityAsGranted
<1>1. AuthorityOK => AuthorityAsGranted
  <2> SUFFICES ASSUME AuthorityOK, ~ rescoped
               PROVE  AuthorityAsGranted
    BY DEF AuthorityAsGranted
  <2>1. \A action, c, risk : \A impact \in Nat : OnlyAsAsked(action, c, impact, risk)
    BY AuthorityImplies DEF AuthorityOK
  <2>2. \A action, c, risk : \A impact \in {0, 5000, 50000} :
          OnlyAsAsked(action, c, impact, risk)
    BY <2>1
  <2>3. QED
    BY <2>2 DEF AuthorityAsGranted
<1>2. QED
  BY <1>1, AuthorityInvariant, PTL

-----------------------------------------------------------------------------
(* The catalogues.                                                         *)

\* The scores a capability can get.
Rated(capability) ==
  /\ capability.health \in {"healthy", "unknown", "unavailable"}
  /\ capability.maturity \in {"mock", "beta"}
  /\ capability.rate \in 78..95

\* Every capability of the mesh has such.
LEMMA MeshRated == \A c \in DOMAIN Mesh : Rated(Mesh[c])
<1>1. \A c \in DOMAIN GrowthCapabilities : Rated(GrowthCapabilities[c])
  BY DEF Rated, GrowthCapabilities, Capability
<1>2. \A c \in DOMAIN DeliveryCapabilities : Rated(DeliveryCapabilities[c])
  BY DEF Rated, DeliveryCapabilities, Capability
<1>3. QED
  BY <1>1, <1>2 DEF Mesh

\* The capabilities listed are those of the mesh.
LEMMA MeshListed == DOMAIN Mesh = Range(CapabilityIds)
BY DEF Mesh, GrowthCapabilities, DeliveryCapabilities, CapabilityIds, Range

\* What the capabilities perform, of all that they do.
Performed(c) ==
  CASE c = "toleron" -> {"analyse-company", "analyse-market", "analyse-competitors"}
    [] c = "salesonic" ->
         { "define-icp", "identify-targets", "enrich-contacts", "generate-outreach",
           "execute-outreach", "qualify-leads", "book-meetings", "reactivate-dormant" }
    [] c = "listeningpost" -> {"monitor-signals", "detect-triggers"}
    [] c = "sourcingai" -> {"find-alternatives", "benchmark-pricing", "run-sourcing-event"}
    [] c = "buyonic" -> {"analyse-spend", "detect-duplication", "negotiate-renewal"}
    [] c = "grothos" -> {"proposition-review", "pricing-review", "productise-service"}
    [] c = "sixonic" -> {"map-process", "automate-process"}
    [] c = "strata-metamsp" -> {"design-service", "build-proposal", "prepare-review", "start-delivery"}
    [] OTHER -> {}

\* What is in a list is in its range.
LEMMA Listing ==
  /\ \A a, b : {a, b} \subseteq Range(<<a, b>>)
  /\ \A a, b, c : {a, b, c} \subseteq Range(<<a, b, c>>)
  /\ \A a, b, c, d : {a, b, c, d} \subseteq Range(<<a, b, c, d>>)
  /\ \A a, b, c, d, e, f, g, h : {a, b, c, d, e, f, g, h} \subseteq Range(<<a, b, c, d, e, f, g, h>>)
BY DEF Range

\* A capability of the mesh performs that.
LEMMA Performs == \A c \in DOMAIN Mesh : \A a \in Performed(c) : a \in Range(Mesh[c].actions)
<1>1. \A c \in DOMAIN GrowthCapabilities : \A a \in Performed(c) : a \in Range(GrowthCapabilities[c].actions)
  BY Listing DEF Performed, GrowthCapabilities, Capability
<1>2. \A c \in DOMAIN DeliveryCapabilities : \A a \in Performed(c) : a \in Range(DeliveryCapabilities[c].actions)
  BY Listing DEF Performed, DeliveryCapabilities, Capability
<1>3. QED
  BY <1>1, <1>2 DEF Mesh, Range

\* The mesh is of two parts.
LEMMA MeshIds == DOMAIN Mesh = DOMAIN GrowthCapabilities \cup DOMAIN DeliveryCapabilities
BY DEF Mesh

-----------------------------------------------------------------------------
(* The gates and the catalogue of actions.                                 *)

\* The capabilities that perform something a playbook asks for.
Performing ==
  { "toleron", "salesonic", "listeningpost", "sourcingai", "buyonic", "grothos", "sixonic",
    "strata-metamsp" }

\* Each action of a playbook is performed by a capability, and gated if it is external.
GatesAgree(playbook) ==
  \A i \in DOMAIN playbook.actions :
    /\ playbook.actions[i] \in External => i \in playbook.gated
    /\ \E c \in Performing : playbook.actions[i] \in Performed(c)

\* The gates of the playbooks that make more agree with the catalogue ...
LEMMA MakeMoreGates ==
  \A p \in DOMAIN MakeMorePlaybooks : GatesAgree(MakeMorePlaybooks[p])
BY DEF GatesAgree, MakeMorePlaybooks, Playbook, External, Performed, Performing

\* ... those of licences ...
LEMMA LicenceGates ==
  \A p \in DOMAIN LicencePlaybooks : GatesAgree(LicencePlaybooks[p])
BY DEF GatesAgree, LicencePlaybooks, Playbook, External, Performed, Performing

\* ... those of suppliers ...
LEMMA SupplierGates ==
  \A p \in DOMAIN SupplierPlaybooks : GatesAgree(SupplierPlaybooks[p])
BY DEF GatesAgree, SupplierPlaybooks, Playbook, External, Performed, Performing

\* ... and those of services to customers ...
LEMMA MspGates ==
  \A p \in DOMAIN MspPlaybooks : GatesAgree(MspPlaybooks[p])
BY DEF GatesAgree, MspPlaybooks, Playbook, External, Performed, Performing

\* ... and so those of all playbooks do.
LEMMA PlaybookGates == \A p \in DOMAIN Playbooks : GatesAgree(Playbooks[p])
  BY MakeMoreGates, LicenceGates, SupplierGates, MspGates DEF Playbooks

-----------------------------------------------------------------------------
(* What a plan costs.                                                      *)

\* The sums of the first costs, one after the other.
Sums(s, costs, m) == s = [n \in 0..m |-> IF n = 0 THEN 0 ELSE s[n - 1] + costs[n]]

\* There are sums for every list of costs: the least length without them would
\* be one more than a length with them.
LEMMA SumsExist ==
  ASSUME NEW costs \in Seq(Nat)
  PROVE  \E s : Sums(s, costs, Len(costs))
<1> DEFINE Failing == {m \in 0..Len(costs) : ~ \E s : Sums(s, costs, m)}
<1>1. Len(costs) \in Nat
  BY LenProperties
<1>2. ASSUME Failing # {}
      PROVE  FALSE
  <2>0. Failing \subseteq Nat
    BY <1>1
  <2>1. PICK m \in Failing : \A k \in Failing : m <= k
    BY <1>2, <2>0, LeastNumber
  <2>2. m \in 0..Len(costs) /\ ~ \E s : Sums(s, costs, m)
    BY <2>1
  <2>3. CASE m = 0
    <3>1. Sums([n \in 0..0 |-> 0], costs, 0)
      BY DEF Sums
    <3>2. QED
      BY <2>2, <2>3, <3>1
  <2>4. CASE m # 0
    <3>1. m - 1 \in 0..Len(costs) /\ m - 1 \notin Failing
      BY <1>1, <2>1, <2>2, <2>4
    <3>2. PICK s : Sums(s, costs, m - 1)
      BY <3>1
    <3>3. DOMAIN s = 0..(m - 1) /\ \A n \in 0..(m - 1) : s[n] = IF n = 0 THEN 0 ELSE s[n - 1] + costs[n]
      BY <3>2, Zenon DEF Sums
    <3> DEFINE t == [n \in 0..m |-> IF n = m THEN s[m - 1] + costs[m] ELSE s[n]]
    <3>4. \A n \in 0..m : t[n] = IF n = 0 THEN 0 ELSE t[n - 1] + costs[n]
      <4> SUFFICES ASSUME NEW n \in 0..m
                   PROVE  t[n] = IF n = 0 THEN 0 ELSE t[n - 1] + costs[n]
        OBVIOUS
      <4>1. m \in Nat /\ n \in Nat /\ n <= m
        BY <1>1, <2>2
      <4>2. CASE n = 0
        BY <2>4, <3>3, <4>1, <4>2
      <4>3. CASE n # 0
        <5>1. n - 1 \in 0..m /\ n - 1 # m /\ t[n - 1] = s[n - 1]
          BY <4>1, <4>3
        <5>2. CASE n = m
          BY <5>1, <5>2
        <5>3. CASE n # m
          <6>1. n \in 0..(m - 1) /\ t[n] = s[n]
            BY <4>1, <5>3
          <6>2. QED
            BY <3>3, <4>3, <5>1, <6>1
        <5>4. QED
          BY <5>2, <5>3
      <4>4. QED
        BY <4>2, <4>3
    <3>5. Sums(t, costs, m)
      BY <3>4, Zenon DEF Sums
    <3>6. QED
      BY <2>2, <3>5
  <2>5. QED
    BY <2>3, <2>4
<1>3. QED
  BY <1>1, <1>2

\* What is spent is at least what each thing costs.
LEMMA SpentEnough ==
  ASSUME NEW costs \in Seq(Nat)
  PROVE  Spent(costs) \in Nat /\ \A i \in DOMAIN costs : costs[i] <= Spent(costs)
<1>1. Len(costs) \in Nat /\ DOMAIN costs = 1..Len(costs) /\ \A i \in DOMAIN costs : costs[i] \in Nat
  BY LenProperties, ElementOfSeq
<1> DEFINE upTo == CHOOSE s : Sums(s, costs, Len(costs))
<1>2. Spent(costs) = upTo[Len(costs)]
  BY DEF Spent, Sums
<1>3. Sums(upTo, costs, Len(costs))
  BY SumsExist
<1>4. \A n \in 0..Len(costs) : upTo[n] = IF n = 0 THEN 0 ELSE upTo[n - 1] + costs[n]
  BY <1>3, Zenon DEF Sums
<1> HIDE DEF upTo
<1> DEFINE Exceeds(n) == upTo[n] \in Nat /\ \A i \in 1..n : costs[i] <= upTo[n]
           Failing == {m \in 0..Len(costs) : ~ Exceeds(m)}
<1>5. ASSUME Failing # {}
      PROVE  FALSE
  <2>0. Failing \subseteq Nat
    BY <1>1
  <2>1. PICK m \in Failing : \A k \in Failing : m <= k
    BY <1>5, <2>0, LeastNumber
  <2>2. m \in 0..Len(costs) /\ ~ Exceeds(m)
    BY <2>1
  <2>3. m # 0
    BY <1>1, <1>4, <2>2
  <2>4. m - 1 \in 0..Len(costs) /\ m - 1 \notin Failing
    BY <1>1, <2>1, <2>2, <2>3
  <2>5. Exceeds(m - 1)
    BY <2>4
  <2>6. upTo[m] = upTo[m - 1] + costs[m] /\ costs[m] \in Nat /\ upTo[m - 1] \in Nat
    BY <1>1, <1>4, <2>2, <2>3, <2>5
  <2>7. \A i \in 1..m : costs[i] <= upTo[m]
    <3> SUFFICES ASSUME NEW i \in 1..m
                 PROVE  costs[i] <= upTo[m]
      OBVIOUS
    <3>1. CASE i = m
      BY <2>6, <3>1
    <3>2. CASE i # m
      <4>1. i \in 1..(m - 1) /\ costs[i] \in Nat
        BY <1>1, <2>2, <3>2
      <4>2. costs[i] <= upTo[m - 1]
        BY <2>5, <4>1
      <4>3. QED
        BY <2>6, <4>1, <4>2
    <3>3. QED
      BY <3>1, <3>2
  <2>8. QED
    BY <2>2, <2>6, <2>7
<1>6. Exceeds(Len(costs))
  BY <1>1, <1>5
<1>7. QED
  BY <1>1, <1>2, <1>6

-----------------------------------------------------------------------------
(* The router.                                                             *)

Within(x, most) == x \in Nat /\ x <= most

\* No action costs more than twenty pounds.
LEMMA Costs == \A a : UnitCost(a) \in Nat /\ UnitCost(a) <= 2000
BY DEF UnitCost

\* A plan has whatever an action requires, so nothing is missing when it is
\* routed.
LEMMA InputsThere ==
  ASSUME NEW a
  PROVE  /\ RequiredInputs(a) \subseteq PlannedInputs
         /\ (15000 * Cardinality(RequiredInputs(a) \cap PlannedInputs))
              \div Cardinality(RequiredInputs(a)) = 15000
<1>1. RequiredInputs(a) \subseteq PlannedInputs
  BY DEF RequiredInputs, PlannedInputs
<1>2. RequiredInputs(a) \cap PlannedInputs = RequiredInputs(a)
  BY <1>1
<1>3. Cardinality(RequiredInputs(a)) \in {1, 2}
  <2>1. CASE a \in External
    <3>1. RequiredInputs(a) = {"companyId"} \cup {"approvalId"}
      BY <2>1 DEF RequiredInputs
    <3>2. Cardinality({"companyId"} \cup {"approvalId"}) = 2
      <4>1. IsFiniteSet({"companyId"}) /\ Cardinality({"companyId"}) = 1
        BY FS_Singleton
      <4>2. "approvalId" \notin {"companyId"}
        OBVIOUS
      <4>3. QED
        BY <4>1, <4>2, FS_AddElement
    <3>3. QED
      BY <3>1, <3>2
  <2>2. CASE a \notin External
    <3>1. RequiredInputs(a) = {"companyId"}
      BY <2>2 DEF RequiredInputs
    <3>2. QED
      BY <3>1, FS_Singleton
  <2>3. QED
    BY <2>1, <2>2
<1>4. \A n \in {1, 2} : (15000 * n) \div n = 15000
  OBVIOUS
<1>5. Cardinality(RequiredInputs(a) \cap PlannedInputs) = Cardinality(RequiredInputs(a))
  BY <1>2
<1>6. QED
  BY <1>1, <1>3, <1>4, <1>5

\* How much the proportion of cost and value can score.
LEMMA Proportion ==
  ASSUME NEW a, NEW value \in Nat
  PROVE  Within(Proportionality(UnitCost(a), value), 8000)
<1>1. PICK cost \in Nat : cost = UnitCost(a)
  BY Costs
<1>2. CASE value = 0
  BY <1>2 DEF Proportionality, Within
<1>3. CASE value # 0
  <2>1. (1600 * cost) \div value \in Nat
    BY <1>3
  <2>2. QED
    BY <1>1, <1>3, <2>1 DEF Proportionality, Within
<1>4. QED
  BY <1>2, <1>3

\* An offer that is not blocked and has the action scores more than one whose
\* text is like the objective in less than two fifths of its words.
LEMMA Scored ==
  ASSUME NEW offer \in Offers, NEW value \in Nat, NEW fitness \in 0..100,
         ~ Blocked(offer, value, PlannedInputs)
  PROVE  LET total == Total(offer, fitness, value, PlannedInputs) IN
         /\ Within(total, 1000)
         /\ fitness <= 39 => total <= 741
         /\ fitness = 100 => total >= 743
<1> DEFINE c == Mesh[offer.capability]
           raw(h, i, r, m, p, k) == 350 * fitness + 150 * h + i + 120 * r + 80 * m + p + 2000 + 30 * k
<1>1. offer.capability \in DOMAIN Mesh
  BY DEF Offers
<1>2. Rated(c) /\ c.health # "unavailable"
  BY <1>1, MeshRated DEF Blocked
<1>3. HealthScore(c.health) \in {60, 100}
  BY <1>2 DEF Rated, HealthScore
<1>4. MaturityScore(c.maturity) \in {40, 75} /\ c.rate \in 78..95
  BY <1>2 DEF Rated, MaturityScore
<1>5. Within(Proportionality(UnitCost(offer.action), value), 8000)
  BY Proportion
<1>6. RiskScore(ActionRisk(offer.action)) \in {25, 60, 100}
  BY DEF RiskScore
<1>7. Total(offer, fitness, value, PlannedInputs) =
        (raw(HealthScore(c.health), 15000, c.rate, MaturityScore(c.maturity),
             Proportionality(UnitCost(offer.action), value), RiskScore(ActionRisk(offer.action))) + 50) \div 100
  BY InputsThere DEF Total
<1> HIDE DEF c
<1>8. PICK h \in {60, 100}, r \in 78..95, m \in {40, 75}, p \in Nat, k \in {25, 60, 100} :
        /\ h = HealthScore(c.health) /\ r = c.rate /\ m = MaturityScore(c.maturity)
        /\ p <= 8000 /\ p = Proportionality(UnitCost(offer.action), value)
        /\ k = RiskScore(ActionRisk(offer.action))
  <2>1. PICK h \in {60, 100} : h = HealthScore(c.health)
    BY <1>3
  <2>2. PICK r \in 78..95 : r = c.rate
    BY <1>4
  <2>3. PICK m \in {40, 75} : m = MaturityScore(c.maturity)
    BY <1>4
  <2>4. PICK p \in Nat : p <= 8000 /\ p = Proportionality(UnitCost(offer.action), value)
    BY <1>5 DEF Within
  <2>5. PICK k \in {25, 60, 100} : k = RiskScore(ActionRisk(offer.action))
    BY <1>6
  <2>6. QED
    BY <2>1, <2>2, <2>3, <2>4, <2>5
<1> DEFINE score == raw(h, 15000, r, m, p, k)
<1>9. Total(offer, fitness, value, PlannedInputs) = (score + 50) \div 100
  BY <1>7, <1>8
<1>10. /\ score \in Nat /\ score <= 95400
       /\ fitness <= 39 => score <= 74050
       /\ fitness = 100 => score >= 74310
  BY <1>8
<1> HIDE DEF score
<1>11. QED
  BY <1>9, <1>10 DEF Within

\* The first of some capabilities is one of them.
LEMMA FirstIsOne ==
  ASSUME NEW cs, cs \subseteq DOMAIN Mesh, cs # {}
  PROVE  First(cs) \in cs
<1> DEFINE S == {i \in DOMAIN CapabilityIds : CapabilityIds[i] \in cs}
<1>1. S # {}
  BY MeshListed DEF Range
<1>2. DOMAIN CapabilityIds \subseteq Nat
  BY DEF CapabilityIds
<1>3. Min(S) \in S
  BY <1>1, <1>2, MinIsLeast
<1>4. QED
  BY <1>3 DEF First

\* A function on 1, 2, ... up to some number.
IsList(f) == \E n \in Nat : DOMAIN f = 1..n

\* What is written as a list is one.
LEMMA Lists ==
  /\ \A a, b : IsList(<<a, b>>)
  /\ \A a, b, c : IsList(<<a, b, c>>)
  /\ \A a, b, c, d : IsList(<<a, b, c, d>>)
  /\ \A a, b, c, d, e : IsList(<<a, b, c, d, e>>)
  /\ \A a, b, c, d, e, f : IsList(<<a, b, c, d, e, f>>)
  /\ \A a, b, c, d, e, f, g, h : IsList(<<a, b, c, d, e, f, g, h>>)
  /\ \A a, b, c, d, e, f, g, h, i, j : IsList(<<a, b, c, d, e, f, g, h, i, j>>)
BY DEF IsList

\* The actions of the playbooks that make more are lists ...
LEMMA MakeMoreLists == \A p \in DOMAIN MakeMorePlaybooks : IsList(MakeMorePlaybooks[p].actions)
BY Lists DEF MakeMorePlaybooks, Playbook

\* ... those of licences ...
LEMMA LicenceLists == \A p \in DOMAIN LicencePlaybooks : IsList(LicencePlaybooks[p].actions)
BY Lists DEF LicencePlaybooks, Playbook

\* ... those of suppliers ...
LEMMA SupplierLists == \A p \in DOMAIN SupplierPlaybooks : IsList(SupplierPlaybooks[p].actions)
BY Lists DEF SupplierPlaybooks, Playbook

\* ... and those of services to customers ...
LEMMA MspLists == \A p \in DOMAIN MspPlaybooks : IsList(MspPlaybooks[p].actions)
BY Lists DEF MspPlaybooks, Playbook

\* ... and so those of all playbooks are.
LEMMA PlaybookListed == \A p \in DOMAIN Playbooks : IsList(Playbooks[p].actions)
BY MakeMoreLists, LicenceLists, SupplierLists, MspLists DEF Playbooks

\* Whoever is given a task performs it, when the owner of its action is up and
\* the task is worth its cost.
LEMMA Routed ==
  ASSUME NEW likeness, likeness.percent \in Nat, likeness.percent < 40,
         NEW value \in Nat, NEW wanted, NEW c \in DOMAIN Mesh, wanted \in Range(Mesh[c].actions),
         Mesh[c].health # "unavailable", ~ Disproportionate(UnitCost(wanted), value)
  PROVE  wanted \in Range(Mesh[Route(wanted, likeness, value, PlannedInputs)].actions)
<1> DEFINE fit(offer) == Fitness(offer, wanted, likeness)
           candidates == {offer \in Offers : fit(offer) >= 34}
           viable == {offer \in candidates : ~ Blocked(offer, value, PlannedInputs)}
           score == [offer \in candidates |-> Total(offer, fit(offer), value, PlannedInputs)]
           exact == [capability |-> c, action |-> wanted]
           best == Best(viable, score)
<1>1. \A offer \in Offers : offer.capability \in DOMAIN Mesh /\ offer.action \in Range(Mesh[offer.capability].actions)
  BY DEF Offers
<1>2. exact \in viable
  <2>1. exact \in Offers /\ exact.capability = c /\ exact.action = wanted
    BY DEF Offers
  <2>2. fit(exact) = 100
    BY <2>1 DEF Fitness
  <2> HIDE DEF exact
  <2>3. ~ Blocked(exact, value, PlannedInputs)
    <3>1. RequiredInputs(wanted) \subseteq PlannedInputs
      BY DEF RequiredInputs, PlannedInputs
    <3>2. QED
      BY <2>1, <3>1 DEF Blocked
  <2>4. QED
    BY <2>1, <2>2, <2>3
<1>3. \A offer : IF offer.action = wanted THEN fit(offer) = 100 ELSE fit(offer) \in 0..39
  BY DEF Fitness
<1>4. \A offer \in viable :
        /\ score[offer] \in Nat /\ score[offer] <= 1000
        /\ IF offer.action = wanted THEN score[offer] >= 743 ELSE score[offer] <= 741
  <2> SUFFICES ASSUME NEW offer \in viable
               PROVE  /\ score[offer] \in Nat /\ score[offer] <= 1000
                      /\ IF offer.action = wanted THEN score[offer] >= 743 ELSE score[offer] <= 741
    OBVIOUS
  <2>1. offer \in Offers /\ ~ Blocked(offer, value, PlannedInputs)
        /\ score[offer] = Total(offer, fit(offer), value, PlannedInputs)
    OBVIOUS
  <2>2. fit(offer) \in 0..100
    BY <1>3
  <2> HIDE DEF fit, score
  <2>3. QED
    BY <1>3, <2>1, <2>2, Scored DEF Within
<1> HIDE DEF candidates, score, viable, exact
<1>5. best # {}
  <2> DEFINE Short == {1000 - score[offer] : offer \in viable}
  <2>1. Short \subseteq Nat /\ Short # {}
    BY <1>2, <1>4
  <2>2. PICK x \in Short : \A y \in Short : x <= y
    BY <2>1, LeastNumber
  <2>3. PICK offer \in viable : x = 1000 - score[offer]
    BY <2>2
  <2>4. \A other \in viable : 1000 - score[offer] <= 1000 - score[other]
    BY <2>2, <2>3
  <2>5. \A other \in viable : score[other] <= score[offer]
    BY <1>4, <2>4
  <2>6. QED
    BY <2>5 DEF Best
<1> DEFINE capabilities == {offer.capability : offer \in best}
<1>6. Route(wanted, likeness, value, PlannedInputs) = First(capabilities)
  BY <1>2 DEF Route, viable, candidates, score
<1>7. viable \subseteq Offers
  BY DEF viable, candidates
<1>8. First(capabilities) \in capabilities
  BY <1>1, <1>5, <1>7, FirstIsOne DEF Best
<1>9. PICK offer \in best : offer.capability = First(capabilities)
  BY <1>8
<1>10. offer \in viable /\ score[exact] <= score[offer]
  BY <1>2, <1>9 DEF Best
<1>11. exact.action = wanted
  BY DEF exact
<1>12. offer.action = wanted
  BY <1>2, <1>4, <1>10, <1>11
<1>13. QED
  BY <1>1, <1>6, <1>7, <1>9, <1>10, <1>12

\* What a task of a plan is.
LEMMA TaskIs ==
  ASSUME NEW o, NEW playbook, NEW i, NEW likeness, NEW granted
  PROVE  LET t == PlannedTask(o, playbook, i, likeness, granted) IN
         /\ t.action = playbook.actions[i]
         /\ t.capability = Route(playbook.actions[i], likeness, o.value, PlannedInputs)
         /\ i \in playbook.gated => t.gated
BY DEF PlannedTask, Gated

\* A task that reaches outside is gated.
LEMMA GatedWhenExternal ==
  ASSUME NEW o, NEW likeness, NEW granted, NEW p \in DOMAIN Playbooks,
         NEW t \in Range(Planned(o, Playbooks[p], likeness, granted))
  PROVE  RequiredInputs(t.action) \subseteq TaskInputs(t)
<1>1. PICK i \in DOMAIN Playbooks[p].actions : t = PlannedTask(o, Playbooks[p], i, likeness, granted)
  BY DEF Planned, Range
<1>2. t.action \in External => t.gated
  BY <1>1, TaskIs, PlaybookGates DEF GatesAgree
<1>3. QED
  BY <1>2 DEF RequiredInputs, TaskInputs

\* Of a plan worth its cost no task costs as much as what it is to bring.
LEMMA AffordedEach ==
  ASSUME NEW o, o.value \in Nat, NEW likeness, NEW granted, NEW p \in DOMAIN Playbooks,
         NEW i \in DOMAIN Playbooks[p].actions,
         LET tasks == Planned(o, Playbooks[p], likeness, granted)
         IN  Worth(Spent([k \in DOMAIN tasks |-> UnitCost(tasks[k].action)]), o.value)
  PROVE  ~ Disproportionate(UnitCost(Playbooks[p].actions[i]), o.value)
<1> DEFINE tasks == Planned(o, Playbooks[p], likeness, granted)
           costs == [k \in DOMAIN tasks |-> UnitCost(tasks[k].action)]
<1>1. DOMAIN tasks = DOMAIN Playbooks[p].actions
  BY DEF Planned
<1>2. PICK n \in Nat : DOMAIN tasks = 1..n
  BY <1>1, PlaybookListed DEF IsList
<1>3. \A k \in 1..n : UnitCost(tasks[k].action) \in Nat
  BY Costs
<1>4. costs \in Seq(Nat)
  BY <1>2, <1>3
<1>5. Spent(costs) \in Nat /\ costs[i] <= Spent(costs)
  BY <1>1, <1>4, SpentEnough
<1>6. costs[i] = UnitCost(Playbooks[p].actions[i])
  BY <1>1, TaskIs DEF Planned
<1>7. Worth(Spent(costs), o.value)
  OBVIOUS
<1>8. UnitCost(Playbooks[p].actions[i]) \in Nat
  BY Costs
<1> HIDE DEF costs
<1>9. QED
  BY <1>5, <1>6, <1>7, <1>8 DEF Worth, Disproportionate

\* Such a plan's tasks are given to who performs them.
LEMMA GivenWhenAfforded ==
  ASSUME NEW o, o.value \in Nat, NEW likeness, likeness.percent \in Nat, likeness.percent < 40,
         NEW granted, NEW p \in DOMAIN Playbooks,
         NEW t \in Range(Planned(o, Playbooks[p], likeness, granted)),
         LET tasks == Planned(o, Playbooks[p], likeness, granted)
         IN  Worth(Spent([k \in DOMAIN tasks |-> UnitCost(tasks[k].action)]), o.value),
         Mesh[Owner(t.action)].health # "unavailable"
  PROVE  AdapterPerforms(t.capability, t.action, PlannedInputs)
<1>1. PICK i \in DOMAIN Playbooks[p].actions : t = PlannedTask(o, Playbooks[p], i, likeness, granted)
  BY DEF Planned, Range
<1>2. t.action = Playbooks[p].actions[i]
      /\ t.capability = Route(t.action, likeness, o.value, PlannedInputs)
  BY <1>1, TaskIs
<1>3. ~ Disproportionate(UnitCost(t.action), o.value)
  BY <1>2, AffordedEach
<1> DEFINE owners == {c \in DOMAIN Mesh : t.action \in Range(Mesh[c].actions)}
<1>4. owners # {}
  BY <1>2, PlaybookGates, Performs, MeshIds DEF GatesAgree, Performing, GrowthCapabilities, DeliveryCapabilities
<1>5. Owner(t.action) \in owners
  BY <1>4, FirstIsOne DEF Owner
<1>6. t.action \in Range(Mesh[t.capability].actions)
  BY <1>2, <1>3, <1>5, Routed
<1>7. RequiredInputs(t.action) \subseteq PlannedInputs
  BY DEF RequiredInputs, PlannedInputs
<1>8. QED
  BY <1>6, <1>7 DEF AdapterPerforms

\* A plan is of an opportunity there is.
PlanMade ==
  \/ plan = NoPlan
  \/ \E o \in Opportunities, likeness \in Likenesses, systems \in SUBSET {"azure"} : \E granted :
       plan = PlanOf(o, likeness, granted, systems)

\* Its tasks can be done.
LEMMA PlanSound == PlanMade => TasksCanBeDone
<1> SUFFICES ASSUME PlanMade PROVE TasksCanBeDone
  OBVIOUS
<1>1. CASE plan = NoPlan
  BY <1>1 DEF TasksCanBeDone, ReadyWhenApproved, GivenToTheAble, Tasks
<1>2. ASSUME plan # NoPlan
      PROVE  TasksCanBeDone
  <2>1. PICK o \in Opportunities, likeness \in Likenesses, systems \in SUBSET {"azure"} : \E granted :
       plan = PlanOf(o, likeness, granted, systems)
    BY <1>2 DEF PlanMade
  <2>2. PICK granted : plan = PlanOf(o, likeness, granted, systems)
    BY <2>1
  <2>3. o.value \in Nat /\ likeness.percent \in Nat
    BY PlanningAssumption
  <2>4. CASE o.playbook \notin DOMAIN Playbooks
    <3>1. plan.tasks = << >> /\ plan.status = "DRAFT"
      BY <2>2, <2>4 DEF PlanOf
    <3>2. Tasks = {}
      BY <1>2, <3>1 DEF Tasks, Range
    <3>3. QED
      BY <3>1, <3>2 DEF TasksCanBeDone, ReadyWhenApproved, GivenToTheAble
  <2>5. CASE o.playbook \in DOMAIN Playbooks
    <3> DEFINE tasks == Planned(o, Playbooks[o.playbook], likeness, granted)
               cost == Spent([i \in DOMAIN tasks |-> UnitCost(tasks[i].action)])
    <3>1. /\ plan.tasks = tasks /\ plan.likeness = likeness
          /\ plan.status = "AWAITING_AUTHORISATION" => Worth(cost, o.value)
      BY <2>2, <2>5 DEF PlanOf
    <3>2. Tasks = Range(tasks)
      BY <1>2, <3>1 DEF Tasks
    <3>3. ReadyWhenApproved
      BY <2>5, <3>2, GatedWhenExternal DEF ReadyWhenApproved
    <3>4. GivenToTheAble
      <4> SUFFICES ASSUME plan.status = "AWAITING_AUTHORISATION", NEW t \in Range(tasks),
                          likeness.percent < 40, Mesh[Owner(t.action)].health # "unavailable"
                   PROVE  AdapterPerforms(t.capability, t.action, PlannedInputs)
        BY <2>3, <3>1, <3>2 DEF GivenToTheAble
      <4>1. Worth(cost, o.value)
        BY <3>1
      <4>2. QED
        BY <2>3, <2>5, <4>1, GivenWhenAfforded
    <3>5. QED
      BY <3>3, <3>4 DEF TasksCanBeDone
  <2>6. QED
    BY <2>4, <2>5
<1>3. QED
  BY <1>1, <1>2

-----------------------------------------------------------------------------
(* Plans as administrators and users make them.                            *)

\* There is no plan at first, and every plan is made so.
LEMMA PlansMade == AdministrationSpec => []PlanMade
<1>1. AdministrationInit => PlanMade
  BY DEF AdministrationInit, Init, PlanMade
<1>2. PlanMade /\ [AdministrationNext]_allVars => PlanMade'
  <2> SUFFICES ASSUME PlanMade, [AdministrationNext]_allVars
               PROVE  PlanMade'
    OBVIOUS
  <2>1. CASE UNCHANGED plan
    BY <2>1 DEF PlanMade
  <2>2. ASSUME NEW o \in Opportunities, NEW likeness \in Likenesses,
               NEW systems \in SUBSET {"azure"}, PlanExecution(o, likeness, systems)
        PROVE  PlanMade'
    <3>1. plan' = PlanOf(o, likeness, grants, systems)
      BY <2>2 DEF PlanExecution
    <3>2. QED
      BY <3>1 DEF PlanMade
  <2>3. QED
    BY <2>1, <2>2
       DEF AdministrationNext, allVars, vars, Grant, Halt, Plan, SaveGrant, HaltTenant
<1>3. QED
  BY <1>1, <1>2, PTL DEF AdministrationSpec

\* Whatever is granted, planned and worth its cost, a task of a plan that may be
\* authorised can be carried out once a person has approved what is gated: its
\* adapter has all it requires, and it is given to who performs it -- for every
\* value, and whatever the objective shares less than two fifths of its words with
\* (engine.ts:80-142, router.ts:83-151).
THEOREM TasksDone == AdministrationSpec => []TasksCanBeDone
<1>1. QED
  BY PlanSound, PlansMade, PTL
=============================================================================
