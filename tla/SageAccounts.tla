------------------------------ MODULE SageAccounts ------------------------------
(***************************************************************************)
(* Accounts of the Sage Halpin server (server/auth.ts and                  *)
(* server/routes/auth.ts): one email address, its account row, sessions,   *)
(* saved data and sign-in throttle, each a document of the shared store.   *)
(* Checking a password takes time (scrypt), so every request works on the  *)
(* account it read before.                                                 *)
(*                                                                         *)
(* Not modelled: field checks, cookies' signatures and flags, the per-IP   *)
(* limit, encryption of the data, names.  A clock is a step that ends a    *)
(* lock or a throttle's window.                                            *)
(***************************************************************************)
EXTENDS SageRequests

CONSTANTS
  Password,
  LOCK_AFTER,     \* failed sign-ins until the address is locked, 10 in the code
  MaxAccounts,    \* bound: accounts ever made
  MaxSessions,    \* bound: sessions ever started
  MaxGuesses      \* bound: failed sign-ins in a row

ASSUME AccountsAssumption ==
  /\ LOCK_AFTER \in Nat \ {0} /\ MaxAccounts \in Nat \ {0}
  /\ MaxSessions \in Nat /\ MaxGuesses \in Nat
  /\ Password # {}

VARIABLES
  account,     \* the row of the address: the account's id and password
  ids,         \* accounts made so far
  sessions,    \* rows of the sessions partitions: the account of each
  started,     \* sessions started so far
  data,        \* rows data-<id>: the accounts with saved data
  throttle,    \* the address's row of THROTTLE
  cookies,     \* per browser, the session its cookie names
  calls,       \* per browser, the request under way
  provedBy,    \* history: per session, the password that started it
  guesses,     \* history: failed sign-ins since the throttle last let go
  raced        \* history: what requests worked on at once or left half done

accountVars == <<account, ids, sessions, started, data, throttle, cookies, calls,
                 provedBy, guesses, raced>>

requestVars == <<issued, accountVars>>

AccountId == 0..MaxAccounts     \* 0: none
Session == 0..MaxSessions       \* 0: none

Account == [id : AccountId, password : Password]
NoAccount == [id |-> 0, password |-> CHOOSE p \in Password : TRUE]

Throttle == [fails : 0..LOCK_AFTER, locked : BOOLEAN]
NoThrottle == [fails |-> 0, locked |-> FALSE]

Call ==
  [at : {"idle", "create", "start", "verify", "count", "clear", "check", "save",
         "list", "end", "erase", "forget", "store"},
   what : {"signup", "signin", "everywhere", "password", "delete", "data", "none"},
   me : Account, given : Password, chosen : Password, rows : SUBSET Session,
   seen : Throttle]

NoCall == [at |-> "idle", what |-> "none", me |-> NoAccount,
           given |-> NoAccount.password, chosen |-> NoAccount.password,
           rows |-> {}, seen |-> NoThrottle]

AccountsTypeOK ==
  /\ issued \in 0..MaxRequests
  /\ account \in Account /\ ids \in 0..MaxAccounts
  /\ sessions \in [1..MaxSessions -> AccountId] /\ started \in 0..MaxSessions
  /\ data \subseteq 1..MaxAccounts /\ throttle \in Throttle
  /\ cookies \in [Tab -> Session] /\ calls \in [Tab -> Call]
  /\ provedBy \in [1..MaxSessions -> Password]
  /\ guesses \in 0..MaxGuesses /\ raced \subseteq {"account", "throttle", "data"}

AccountsInit ==
  /\ issued = 0 /\ account = NoAccount /\ ids = 0
  /\ sessions = [s \in 1..MaxSessions |-> 0] /\ started = 0
  /\ data = {} /\ throttle = NoThrottle
  /\ cookies = [b \in Tab |-> 0] /\ calls = [b \in Tab |-> NoCall]
  /\ provedBy = [s \in 1..MaxSessions |-> NoAccount.password]
  /\ guesses = 0 /\ raced = {}

-----------------------------------------------------------------------------
Topics(call) ==
  CASE call.at = "idle" -> {}
    [] call.at \in {"verify", "count"} /\ call.what = "signin" -> {"account", "throttle"}
    [] call.at \in {"check", "count"} /\ call.what = "password" -> {"account", "throttle"}
    [] call.what = "data" -> {"data"}
    [] call.what = "delete" -> {"account", "data"}
    [] OTHER -> {"account"}

Moves(b, call) ==
  /\ calls' = [calls EXCEPT ![b] = call]
  /\ raced' = raced \cup
       UNION {Topics(call) \cap Topics(calls[d]) : d \in Tab \ {b}}

CallEnds(b) == Moves(b, NoCall)

AtRest(b) == calls[b].at = "idle"

\* sessionIsLive(), with the account found by the cookie's row key.
Live(s) == s # 0 /\ account.id # 0 /\ sessions[s] = account.id

\* requireAccount(): the handler works on the account as it was then.
Authorised(b, call) ==
  /\ Arrive /\ AtRest(b) /\ Live(cookies[b])
  /\ Moves(b, [call EXCEPT !.me = account])

\* A session is recorded, and the browser gets its cookie with the answer.
StartSession(b, id, password) ==
  /\ started < MaxSessions /\ started' = started + 1
  /\ sessions' = [sessions EXCEPT ![started'] = id]
  /\ provedBy' = [provedBy EXCEPT ![started'] = password]
  /\ cookies' = [cookies EXCEPT ![b] = started']

SessionsStay == UNCHANGED <<sessions, started, provedBy, cookies>>

-----------------------------------------------------------------------------
(* Signing up, in and out.                                                 *)

\* POST signup: nobody has the address, and the password is hashed ...
BeginSignUp(b, p) ==
  /\ Arrive /\ AtRest(b) /\ account.id = 0
  /\ Moves(b, [NoCall EXCEPT !.at = "create", !.what = "signup", !.chosen = p])
  /\ UNCHANGED <<account, ids, data, throttle, guesses>> /\ SessionsStay

\* ... then the account is saved whoever has the address by now.
CreateAccount(b) ==
  LET made == [id |-> ids + 1, password |-> calls[b].chosen] IN
  /\ calls[b].at = "create" /\ ids < MaxAccounts
  /\ ids' = ids + 1 /\ account' = made
  /\ Moves(b, [calls[b] EXCEPT !.at = "start", !.me = made])
  /\ UNCHANGED <<issued, data, throttle, guesses>> /\ SessionsStay

Start(b) ==
  LET call == calls[b] IN
  /\ call.at = "start"
  /\ StartSession(b, call.me.id, call.me.password)
  /\ CallEnds(b)
  /\ UNCHANGED <<issued, account, ids, data, throttle, guesses>>

\* POST signin, unless the address is locked
BeginSignIn(b, p) ==
  /\ Arrive /\ AtRest(b) /\ ~ throttle.locked
  /\ Moves(b, [NoCall EXCEPT !.at = "verify", !.what = "signin", !.me = account, !.given = p])
  /\ UNCHANGED <<account, ids, data, throttle, guesses>> /\ SessionsStay

Matches(call) == call.me.id # 0 /\ call.given = call.me.password

\* recordFailedSignIn() reads the row, after the guess turned out wrong.
Miss(b) == Moves(b, [calls[b] EXCEPT !.at = "count", !.seen = throttle])

\* An unknown address costs the same check and is counted too.
Verify(b) ==
  /\ calls[b].at = "verify"
  /\ IF Matches(calls[b])
     THEN Moves(b, [calls[b] EXCEPT !.at = "clear"]) /\ UNCHANGED guesses
     ELSE /\ guesses < MaxGuesses /\ guesses' = guesses + 1
          /\ Miss(b)
  /\ UNCHANGED <<issued, account, ids, data, throttle>> /\ SessionsStay

\* Mutant: locking starts one failure late.
CountedOneLate(t) ==
  IF t.fails >= LOCK_AFTER THEN [fails |-> 0, locked |-> TRUE]
  ELSE [t EXCEPT !.fails = @ + 1]

\* One more failure, or the lock.
Counted(t) ==
  IF t.fails + 1 >= LOCK_AFTER THEN [fails |-> 0, locked |-> TRUE]
  ELSE [t EXCEPT !.fails = @ + 1]

\* The row is written back whole.
Count(b) ==
  /\ calls[b].at = "count"
  /\ throttle' = Counted(calls[b].seen)
  /\ CallEnds(b)
  /\ UNCHANGED <<issued, account, ids, data, guesses>> /\ SessionsStay

ClearThrottle(b) ==
  /\ calls[b].at = "clear"
  /\ throttle' = NoThrottle /\ guesses' = 0
  /\ Moves(b, [calls[b] EXCEPT !.at = "start"])
  /\ UNCHANGED <<issued, account, ids, data>> /\ SessionsStay

\* The window or the lock runs out.
ThrottleEnds ==
  /\ throttle # NoThrottle
  /\ throttle' = NoThrottle /\ guesses' = 0
  /\ UNCHANGED <<issued, account, ids, sessions, started, data, cookies, calls,
                 provedBy, raced>>

\* POST signout ends the session of the cookie.
SignOut(b) ==
  /\ Arrive /\ AtRest(b) /\ cookies[b] # 0
  /\ sessions' = IF Live(cookies[b]) THEN [sessions EXCEPT ![cookies[b]] = 0] ELSE sessions
  /\ cookies' = [cookies EXCEPT ![b] = 0]
  /\ UNCHANGED <<account, ids, started, data, throttle, provedBy, guesses, calls, raced>>

-----------------------------------------------------------------------------
(* What a signed-in person does.                                           *)

\* POST signout-everywhere
BeginEverywhere(b) ==
  /\ Authorised(b, [NoCall EXCEPT !.at = "list", !.what = "everywhere"])
  /\ UNCHANGED <<account, ids, data, throttle, guesses>> /\ SessionsStay

\* POST password, with the current password and the new one
BeginPassword(b, given, chosen) ==
  /\ Authorised(b, [NoCall EXCEPT !.at = "check", !.what = "password",
                      !.given = given, !.chosen = chosen])
  /\ UNCHANGED <<account, ids, data, throttle, guesses>> /\ SessionsStay

Check(b) ==
  LET call == calls[b] IN
  /\ call.at = "check"
  /\ IF Matches(call)
     THEN Moves(b, [call EXCEPT !.at = "save", !.me.password = call.chosen])
     ELSE Miss(b)
  /\ UNCHANGED <<issued, account, ids, data, throttle, guesses>> /\ SessionsStay

\* The account is written back as it was read, with the new password.
SavePassword(b) ==
  /\ calls[b].at = "save"
  /\ account' = calls[b].me
  /\ Moves(b, [calls[b] EXCEPT !.at = "list"])
  /\ UNCHANGED <<issued, ids, data, throttle, guesses>> /\ SessionsStay

\* Mutant: the session that asks is kept.
ToEndButOwn(b) ==
  {s \in 1..MaxSessions : sessions[s] = calls[b].me.id /\ s # cookies[b]}

ToEnd(b) == {s \in 1..MaxSessions : sessions[s] = calls[b].me.id}

\* endAllSessions() lists them and removes one after the other.
ListSessions(b) ==
  /\ calls[b].at = "list"
  /\ Moves(b, [calls[b] EXCEPT !.at = "end", !.rows = ToEnd(b)])
  /\ UNCHANGED <<issued, account, ids, data, throttle, guesses>> /\ SessionsStay

EndOne(b) ==
  LET call == calls[b]
      s == CHOOSE r \in call.rows : TRUE
  IN
  /\ call.at = "end" /\ call.rows # {}
  /\ sessions' = [sessions EXCEPT ![s] = 0]
  /\ Moves(b, [call EXCEPT !.rows = @ \ {s}])
  /\ UNCHANGED <<issued, account, ids, started, data, throttle, provedBy, guesses, cookies>>

\* All are ended: the password's session starts anew, the account's data go,
\* or the browser forgets its cookie.
Ended(b) ==
  LET call == calls[b] IN
  /\ call.at = "end" /\ call.rows = {}
  /\ CASE call.what = "password" ->
            Moves(b, [call EXCEPT !.at = "start"]) /\ UNCHANGED cookies
       [] call.what = "delete" ->
            Moves(b, [call EXCEPT !.at = "erase"]) /\ UNCHANGED cookies
       [] OTHER -> CallEnds(b) /\ cookies' = [cookies EXCEPT ![b] = 0]
  /\ UNCHANGED <<issued, account, ids, sessions, started, data, throttle, provedBy, guesses>>

\* DELETE /account, with the password
BeginDeleteAccount(b, p) ==
  /\ p = account.password
  /\ Authorised(b, [NoCall EXCEPT !.at = "list", !.what = "delete"])
  /\ UNCHANGED <<account, ids, data, throttle, guesses>> /\ SessionsStay

Erased(id) == data \ {id}

EraseData(b) ==
  /\ calls[b].at = "erase"
  /\ data' = Erased(calls[b].me.id)
  /\ Moves(b, [calls[b] EXCEPT !.at = "forget"])
  /\ UNCHANGED <<issued, account, ids, throttle, guesses>> /\ SessionsStay

ForgetAccount(b) ==
  /\ calls[b].at = "forget"
  /\ account' = NoAccount
  /\ cookies' = [cookies EXCEPT ![b] = 0]
  /\ CallEnds(b)
  /\ UNCHANGED <<issued, ids, sessions, started, data, throttle, provedBy, guesses>>

\* PUT /account/data
BeginStore(b) ==
  /\ Authorised(b, [NoCall EXCEPT !.at = "store", !.what = "data"])
  /\ UNCHANGED <<account, ids, data, throttle, guesses>> /\ SessionsStay

StoreData(b) ==
  /\ calls[b].at = "store"
  /\ data' = data \cup {calls[b].me.id}
  /\ CallEnds(b)
  /\ UNCHANGED <<issued, account, ids, throttle, guesses>> /\ SessionsStay

\* The store fails a call, or the process dies; the browser gets no cookie.
CallFails(b) ==
  /\ ~ AtRest(b)
  /\ calls' = [calls EXCEPT ![b] = NoCall]
  /\ raced' = raced \cup Topics(calls[b])
  /\ UNCHANGED <<issued, account, ids, data, throttle, guesses>> /\ SessionsStay

AccountRequest(b) ==
  \/ \E p \in Password : BeginSignUp(b, p) \/ BeginSignIn(b, p) \/ BeginDeleteAccount(b, p)
  \/ \E p, q \in Password : BeginPassword(b, p, q)
  \/ CreateAccount(b) \/ Start(b) \/ Verify(b) \/ Count(b) \/ ClearThrottle(b)
  \/ SignOut(b) \/ BeginEverywhere(b) \/ Check(b) \/ SavePassword(b)
  \/ ListSessions(b) \/ EndOne(b) \/ Ended(b) \/ EraseData(b) \/ ForgetAccount(b)
  \/ BeginStore(b) \/ StoreData(b) \/ CallFails(b)

AccountsNext == ThrottleEnds \/ \E b \in Tab : AccountRequest(b)

AccountsSpec == AccountsInit /\ [][AccountsNext]_requestVars

-----------------------------------------------------------------------------
(* Properties.                                                             *)

\* A session that works was started with the password of today: changing the
\* password ends every other session, unless another request on the account
\* was under way or one was cut short (auth.ts:103-105).
OnlyTodaysPassword ==
  "account" \notin raced /\ (\A b \in Tab : calls[b].what # "password")
  => \A s \in 1..MaxSessions : Live(s) => provedBy[s] = account.password

\* Nothing of a deleted account is left: no saved data and no session record,
\* unless a request on them was under way or a deletion was cut short
\* (auth.ts:234-238).
DeletedAccountLeavesNothing ==
  raced = {} /\ account.id = 0
  => data = {} /\ \A s \in 1..MaxSessions : sessions[s] = 0

\* Nothing outlives what it rests on: no session its password, no session or
\* row of data its account.
NothingOutlives == OnlyTodaysPassword /\ DeletedAccountLeavesNothing

\* The throttle counts what it should: when no two sign-ins overlapped or were
\* cut short, LOCK_AFTER failed ones lock the address and no more than that are
\* tried, however wrong passwords of a password change are counted between
\* them (auth.ts:159-164).
LockHolds ==
  "throttle" \notin raced =>
    /\ guesses <= LOCK_AFTER
    /\ guesses = LOCK_AFTER /\ (\A b \in Tab : calls[b].at # "count") => throttle.locked
=============================================================================
