--------------------------- MODULE SageAccountsProofs ---------------------------
(***************************************************************************)
(* Theorems about the accounts of Sage Halpin, for every number of         *)
(* browsers, passwords, accounts, sessions, requests, entries, edits and   *)
(* saves lost.  In the server: nothing outlives the password or the        *)
(* account it rests on, and the throttle locks when it should.  In the     *)
(* browsers: no edit of the account's data is lost.                        *)
(***************************************************************************)
EXTENDS SageAccounts, AccountSync, SequenceTheorems, FiniteSetTheorems, TLAPS

-----------------------------------------------------------------------------
(* The shape of a request under way.                                       *)

\* The steps a request of each kind goes through.
StepsOf ==
  [ signup |-> {"create", "start"},
    signin |-> {"verify", "count", "clear", "start"},
    everywhere |-> {"list", "end"},
    password |-> {"check", "count", "save", "list", "end", "start"},
    delete |-> {"list", "end", "erase", "forget"},
    data |-> {"store"},
    none |-> {"idle"} ]

\* Data are only stored of an account that was there.
Fits(call) ==
  /\ call \in Call /\ call.at \in StepsOf[call.what]
  /\ call.what = "data" => call.me.id # 0

\* What Topics says, request by request.
OnAccount(call) == call.at # "idle" /\ call.what # "data"
OnData(call) == call.what \in {"data", "delete"}
OnThrottle(call) == call.at \in {"verify", "check", "count"}

Shape == AccountsTypeOK /\ \A b \in Tab : Fits(calls[b])

-----------------------------------------------------------------------------
(* The invariants.  Each speaks of behaviours in which requests on one     *)
(* topic neither overlapped nor were cut short: then at most one request   *)
(* on it is under way, and what it has read is still true.                 *)

\* The sessions are the account's, started with its password of today unless a
\* change of the password is about to end them.
SessionsKept ==
  \A s \in 1..MaxSessions :
    /\ sessions[s] \in {0, account.id}
    /\ sessions[s] # 0 =>
         \/ provedBy[s] = account.password
         \/ \E b \in Tab : calls[b].what = "password" /\ calls[b].at \in {"list", "end"}

\* A request on the account works on the account that is there, and has every
\* session left on its list when it ends them.
WorksOn(call) ==
  /\ call.at = "create" => account.id = 0
  /\ call.at \in {"verify", "clear", "start", "check", "list", "end", "erase", "forget"} =>
       call.me = account
  /\ call.at = "save" => call.me.id = account.id
  /\ call.at = "end" => \A s \in 1..MaxSessions : sessions[s] # 0 => s \in call.rows
  /\ call.at \in {"erase", "forget"} \/ (call.at = "start" /\ call.what = "password") =>
       \A s \in 1..MaxSessions : sessions[s] = 0

AccountKept ==
  "account" \notin raced =>
    /\ SessionsKept
    /\ \A b \in Tab : OnAccount(calls[b]) =>
         /\ WorksOn(calls[b])
         /\ \A d \in Tab \ {b} : ~ OnAccount(calls[d])

\* The data are the account's, and gone before it is forgotten.
DataKept ==
  raced = {} =>
    /\ \A i \in data : i = account.id
    /\ \A b \in Tab :
         /\ calls[b].at = "store" => calls[b].me.id = account.id /\ account.id # 0
         /\ calls[b].at = "forget" => data = {}
         /\ OnData(calls[b]) => \A d \in Tab \ {b} : ~ OnData(calls[d])

\* Failed sign-ins are in the throttle, or about to be.
Accounted(t) == guesses <= LOCK_AFTER /\ (t.locked \/ guesses <= t.fails)

ThrottleKept ==
  "throttle" \notin raced =>
    /\ (\A b \in Tab : calls[b].at # "count") => Accounted(throttle)
    /\ \A b \in Tab :
         /\ calls[b].at = "count" =>
              guesses <= LOCK_AFTER
              /\ (calls[b].seen.locked \/ guesses <= calls[b].seen.fails + 1)
         /\ calls[b].at = "verify" => ~ throttle.locked
         /\ OnThrottle(calls[b]) => \A d \in Tab \ {b} : ~ OnThrottle(calls[d])

\* The lock comes in time: a count of failures stays below the limit.
BelowLimit ==
  /\ throttle.fails < LOCK_AFTER
  /\ \A b \in Tab : calls[b].seen.fails < LOCK_AFTER

-----------------------------------------------------------------------------
(* Types and shapes.                                                       *)

\* The rows that stand for none have the types of rows.
LEMMA Empties ==
  /\ NoAccount \in Account /\ NoThrottle \in Throttle /\ Fits(NoCall)
  /\ NoAccount.id = 0 /\ NoCall.at = "idle" /\ NoCall.what = "none"
  /\ NoThrottle.fails = 0 /\ ~ NoThrottle.locked /\ NoCall.seen = NoThrottle
<1>1. PICK p \in Password : NoAccount = [id |-> 0, password |-> p]
  <2>1. (CHOOSE p \in Password : TRUE) \in Password
    BY AccountsAssumption
  <2>2. QED
    BY <2>1 DEF NoAccount
<1>2. NoAccount \in Account /\ NoAccount.id = 0 /\ NoAccount.password \in Password
  BY <1>1, AccountsAssumption DEF Account, AccountId
<1>3. NoThrottle \in Throttle
  BY AccountsAssumption DEF NoThrottle, Throttle
<1>4. NoCall \in Call
  BY <1>2, <1>3 DEF NoCall, Call
<1>5. /\ NoCall.at = "idle" /\ NoCall.what = "none" /\ NoCall.seen = NoThrottle
      /\ NoThrottle.fails = 0 /\ ~ NoThrottle.locked
  BY DEF NoCall, NoThrottle
<1>6. Fits(NoCall)
  BY <1>4, <1>5 DEF Fits, StepsOf
<1>7. QED
  BY <1>2, <1>3, <1>5, <1>6

\* What a request of a given shape is about.
LEMMA TopicsAre ==
  ASSUME NEW call, Fits(call)
  PROVE  /\ Topics(call) \subseteq {"account", "throttle", "data"}
         /\ "account" \in Topics(call) <=> OnAccount(call)
         /\ "data" \in Topics(call) <=> OnData(call)
         /\ "throttle" \in Topics(call) <=> OnThrottle(call)
<1>1. /\ call.what \in {"signup", "signin", "everywhere", "password", "delete",
                        "data", "none"}
      /\ call.at \in StepsOf[call.what]
  BY DEF Fits, Call
<1>2. CASE call.what = "none"
  <2>1. call.at = "idle"
    BY <1>1, <1>2 DEF StepsOf
  <2>2. Topics(call) = {}
    BY <1>2, <2>1, Zenon DEF Topics
  <2>3. QED
    BY <1>2, <2>1, <2>2 DEF OnAccount, OnData, OnThrottle
<1>3. CASE call.what = "data"
  <2>1. call.at = "store"
    BY <1>1, <1>3 DEF StepsOf
  <2>2. Topics(call) = {"data"}
    BY <1>3, <2>1, Zenon DEF Topics
  <2>3. QED
    BY <1>3, <2>1, <2>2 DEF OnAccount, OnData, OnThrottle
<1>4. CASE call.what = "delete"
  <2>1. call.at \in {"list", "end", "erase", "forget"}
    BY <1>1, <1>4 DEF StepsOf
  <2>2. Topics(call) = {"account", "data"}
    BY <1>4, <2>1, Zenon DEF Topics
  <2>3. QED
    BY <1>4, <2>1, <2>2 DEF OnAccount, OnData, OnThrottle
<1>5. CASE call.what = "signin" /\ call.at \in {"verify", "count"}
  <2>1. Topics(call) = {"account", "throttle"}
    BY <1>5, Zenon DEF Topics
  <2>2. QED
    BY <1>5, <2>1 DEF OnAccount, OnData, OnThrottle
<1>6. CASE call.what = "password" /\ call.at \in {"check", "count"}
  <2>1. Topics(call) = {"account", "throttle"}
    BY <1>6, Zenon DEF Topics
  <2>2. QED
    BY <1>6, <2>1 DEF OnAccount, OnData, OnThrottle
<1>7. CASE \/ call.what \in {"signup", "everywhere"}
           \/ call.what = "signin" /\ call.at \in {"clear", "start"}
           \/ call.what = "password" /\ call.at \in {"save", "list", "end", "start"}
  <2>1. call.at \in {"create", "start", "clear", "save", "list", "end"}
    BY <1>1, <1>7 DEF StepsOf
  <2>2. Topics(call) = {"account"}
    BY <1>7, <2>1, Zenon DEF Topics
  <2>3. QED
    BY <1>7, <2>1, <2>2 DEF OnAccount, OnData, OnThrottle
<1>8. QED
  BY <1>1, <1>2, <1>3, <1>4, <1>5, <1>6, <1>7 DEF StepsOf

\* A request goes on, with nothing in view but what it had or the throttle.
Turns(b, at, what) ==
  /\ calls'[b].at = at /\ calls'[b].what = what
  /\ Fits(calls'[b]) /\ Moves(b, calls'[b])
  /\ calls'[b].seen \in {calls[b].seen, throttle, NoThrottle}

\* The others stay where they are, and unless they race are about something else.
LEMMA Others ==
  ASSUME Shape, NEW b \in Tab, Fits(calls'[b]), Moves(b, calls'[b])
  PROVE  /\ calls' \in [Tab -> Call]
         /\ \A d \in Tab : Fits(calls'[d])
         /\ \A d \in Tab \ {b} : calls'[d] = calls[d]
         /\ raced \subseteq raced' /\ raced' \subseteq {"account", "throttle", "data"}
         /\ "account" \notin raced' /\ OnAccount(calls'[b]) =>
              \A d \in Tab \ {b} : ~ OnAccount(calls[d])
         /\ "data" \notin raced' /\ OnData(calls'[b]) =>
              \A d \in Tab \ {b} : ~ OnData(calls[d])
         /\ "throttle" \notin raced' /\ OnThrottle(calls'[b]) =>
              \A d \in Tab \ {b} : ~ OnThrottle(calls[d])
<1> DEFINE call == calls'[b]
<1>1. /\ calls \in [Tab -> Call] /\ raced \subseteq {"account", "throttle", "data"}
      /\ \A d \in Tab : Fits(calls[d])
  BY DEF Shape, AccountsTypeOK
<1>2. /\ calls' = [calls EXCEPT ![b] = call]
      /\ raced' = raced \cup
           UNION {Topics(call) \cap Topics(calls[d]) : d \in Tab \ {b}}
  BY DEF Moves
<1>3. call \in Call /\ Fits(call)
  BY DEF Fits
<1> HIDE DEF call
<1>4. \A d \in Tab \ {b} : calls'[d] = calls[d]
  BY <1>1, <1>2
<1>5. raced \subseteq raced'
      /\ \A d \in Tab \ {b} : Topics(call) \cap Topics(calls[d]) \subseteq raced'
  BY <1>2
<1>6. raced' \subseteq {"account", "throttle", "data"}
  BY <1>1, <1>2, <1>3, TopicsAre
<1>7. \A d \in Tab \ {b} :
        /\ "account" \in Topics(calls[d]) <=> OnAccount(calls[d])
        /\ "data" \in Topics(calls[d]) <=> OnData(calls[d])
        /\ "throttle" \in Topics(calls[d]) <=> OnThrottle(calls[d])
  BY <1>1, TopicsAre
<1>8. /\ "account" \in Topics(call) <=> OnAccount(call)
      /\ "data" \in Topics(call) <=> OnData(call)
      /\ "throttle" \in Topics(call) <=> OnThrottle(call)
  BY <1>3, TopicsAre
<1>9. calls' \in [Tab -> Call] /\ \A d \in Tab : Fits(calls'[d])
  BY <1>1, <1>2, <1>3
<1>10. QED
  BY <1>4, <1>5, <1>6, <1>7, <1>8, <1>9 DEF call

-----------------------------------------------------------------------------
(* What each step makes of the request it carries on.                      *)

\* A request that ends leaves its browser idle.
LEMMA Idled ==
  ASSUME Shape, NEW b \in Tab, CallEnds(b)
  PROVE  Turns(b, "idle", "none")
<1>1. calls'[b] = NoCall
  BY DEF CallEnds, Moves, Shape, AccountsTypeOK
<1>2. QED
  BY <1>1, Empties DEF Turns, CallEnds

\* A step of a request that leads to a call of a given shape.
LEMMA Turned ==
  ASSUME Shape, NEW b \in Tab, NEW call \in Call, Moves(b, call),
         call.at \in StepsOf[call.what], call.what = "data" => call.me.id # 0,
         call.seen \in {calls[b].seen, throttle, NoThrottle}
  PROVE  Turns(b, call.at, call.what) /\ calls'[b] = call
<1>1. calls'[b] = call
  BY DEF Moves, Shape, AccountsTypeOK
<1>2. QED
  BY <1>1 DEF Turns, Fits

\* What the steps of signing up do to the request ...
LEMMA SigningUp ==
  ASSUME Shape, NEW b \in Tab
  PROVE  /\ \A p \in Password : BeginSignUp(b, p) => Turns(b, "create", "signup")
         /\ CreateAccount(b) => Turns(b, "start", "signup") /\ calls'[b].me = account'
         /\ Start(b) => Turns(b, "idle", "none")
<1>1. ASSUME NEW p \in Password, BeginSignUp(b, p)
      PROVE  Turns(b, "create", "signup")
  <2> DEFINE call == [NoCall EXCEPT !.at = "create", !.what = "signup", !.chosen = p]
  <2>1. NoCall \in Call
    BY Empties DEF Fits
  <2>2. /\ call \in Call /\ call.at = "create" /\ call.what = "signup"
        /\ call.seen = NoThrottle
    BY <2>1, Empties DEF Call
  <2>3. Moves(b, call)
    BY <1>1 DEF BeginSignUp
  <2> HIDE DEF call
  <2>4. QED
    BY <2>2, <2>3, Turned DEF StepsOf
<1>2. ASSUME CreateAccount(b)
      PROVE  Turns(b, "start", "signup") /\ calls'[b].me = account'
  <2> DEFINE made == [id |-> ids + 1, password |-> calls[b].chosen]
             call == [calls[b] EXCEPT !.at = "start", !.me = made]
  <2>1. calls[b] \in Call /\ calls[b].what = "signup"
    BY <1>2 DEF CreateAccount, Shape, Fits, StepsOf, Call
  <2>2. made \in Account
    BY <1>2, <2>1, AccountsAssumption
    DEF CreateAccount, Account, AccountId, Call, Shape, AccountsTypeOK
  <2>3. /\ call \in Call /\ call.at = "start" /\ call.what = "signup"
        /\ call.me = made /\ call.seen = calls[b].seen
    BY <2>1, <2>2 DEF Call
  <2>4. Moves(b, call) /\ account' = made
    BY <1>2 DEF CreateAccount
  <2> HIDE DEF call, made
  <2>5. QED
    BY <2>3, <2>4, Turned DEF StepsOf
<1>3. ASSUME Start(b)
      PROVE  Turns(b, "idle", "none")
  BY <1>3, Idled DEF Start
<1>4. QED
  BY <1>1, <1>2, <1>3

\* ... those of signing in ...
LEMMA SigningIn ==
  ASSUME Shape, NEW b \in Tab
  PROVE  /\ \A p \in Password : BeginSignIn(b, p) =>
              Turns(b, "verify", "signin") /\ calls'[b].me = account
         /\ Verify(b) =>
              \/ Turns(b, "clear", "signin") /\ calls'[b].me = calls[b].me
                 /\ guesses' = guesses
              \/ Turns(b, "count", "signin") /\ calls'[b].seen = throttle
                 /\ guesses < MaxGuesses /\ guesses' = guesses + 1
         /\ Count(b) => Turns(b, "idle", "none")
         /\ ClearThrottle(b) =>
              Turns(b, "start", "signin") /\ calls'[b].me = calls[b].me
<1>1. ASSUME NEW p \in Password, BeginSignIn(b, p)
      PROVE  Turns(b, "verify", "signin") /\ calls'[b].me = account
  <2> DEFINE call == [NoCall EXCEPT !.at = "verify", !.what = "signin",
                                    !.me = account, !.given = p]
  <2>1. NoCall \in Call /\ account \in Account
    BY Empties DEF Fits, Shape, AccountsTypeOK
  <2>2. /\ call \in Call /\ call.at = "verify" /\ call.what = "signin"
        /\ call.me = account /\ call.seen = NoThrottle
    BY <2>1, Empties DEF Call
  <2>3. Moves(b, call)
    BY <1>1 DEF BeginSignIn
  <2> HIDE DEF call
  <2>4. QED
    BY <2>2, <2>3, Turned DEF StepsOf
<1>2. ASSUME Verify(b)
      PROVE  \/ Turns(b, "clear", "signin") /\ calls'[b].me = calls[b].me
                /\ guesses' = guesses
             \/ Turns(b, "count", "signin") /\ calls'[b].seen = throttle
                /\ guesses < MaxGuesses /\ guesses' = guesses + 1
  <2>1. calls[b] \in Call /\ calls[b].what = "signin" /\ throttle \in Throttle
    <3>1. calls[b].at = "verify" /\ Fits(calls[b]) /\ throttle \in Throttle
      BY <1>2 DEF Verify, Shape, AccountsTypeOK
    <3>2. QED
      BY <3>1 DEF Fits, StepsOf, Call
  <2>2. CASE Matches(calls[b])
    <3> DEFINE call == [calls[b] EXCEPT !.at = "clear"]
    <3>1. /\ call \in Call /\ call.at = "clear" /\ call.what = "signin"
          /\ call.me = calls[b].me /\ call.seen = calls[b].seen
      BY <2>1 DEF Call
    <3>2. Moves(b, call) /\ guesses' = guesses
      BY <1>2, <2>2 DEF Verify
    <3> HIDE DEF call
    <3>3. QED
      BY <3>1, <3>2, Turned DEF StepsOf
  <2>3. CASE ~ Matches(calls[b])
    <3> DEFINE call == [calls[b] EXCEPT !.at = "count", !.seen = throttle]
    <3>1. /\ call \in Call /\ call.at = "count" /\ call.what = "signin"
          /\ call.seen = throttle
      BY <2>1 DEF Call
    <3>2. Moves(b, call) /\ guesses < MaxGuesses /\ guesses' = guesses + 1
      BY <1>2, <2>3 DEF Verify, Miss
    <3> HIDE DEF call
    <3>3. QED
      BY <3>1, <3>2, Turned DEF StepsOf
  <2>4. QED
    BY <2>2, <2>3
<1>3. ASSUME Count(b)
      PROVE  Turns(b, "idle", "none")
  BY <1>3, Idled DEF Count
<1>4. ASSUME ClearThrottle(b)
      PROVE  Turns(b, "start", "signin") /\ calls'[b].me = calls[b].me
  <2> DEFINE call == [calls[b] EXCEPT !.at = "start"]
  <2>1. calls[b] \in Call /\ calls[b].what = "signin"
    BY <1>4 DEF ClearThrottle, Shape, Fits, StepsOf, Call
  <2>2. /\ call \in Call /\ call.at = "start" /\ call.what = "signin"
        /\ call.me = calls[b].me /\ call.seen = calls[b].seen
    BY <2>1 DEF Call
  <2>3. Moves(b, call)
    BY <1>4 DEF ClearThrottle
  <2> HIDE DEF call
  <2>4. QED
    BY <2>2, <2>3, Turned DEF StepsOf
<1>5. QED
  BY <1>1, <1>2, <1>3, <1>4

\* ... those of changing the password up to the listing of sessions ...
LEMMA ChangingPassword ==
  ASSUME Shape, NEW b \in Tab
  PROVE  /\ \A p, q \in Password : BeginPassword(b, p, q) =>
              Turns(b, "check", "password") /\ calls'[b].me = account
         /\ Check(b) =>
              \/ Turns(b, "save", "password") /\ calls'[b].me.id = calls[b].me.id
              \/ Turns(b, "count", "password") /\ calls'[b].seen = throttle
         /\ SavePassword(b) =>
              Turns(b, "list", "password") /\ calls'[b].me = calls[b].me
<1>1. ASSUME NEW p \in Password, NEW q \in Password, BeginPassword(b, p, q)
      PROVE  Turns(b, "check", "password") /\ calls'[b].me = account
  <2> DEFINE asked == [NoCall EXCEPT !.at = "check", !.what = "password",
                                     !.given = p, !.chosen = q]
             call == [asked EXCEPT !.me = account]
  <2>1. NoCall \in Call /\ account \in Account
    BY Empties DEF Fits, Shape, AccountsTypeOK
  <2>2. /\ asked \in Call /\ asked.at = "check" /\ asked.what = "password"
        /\ asked.seen = NoThrottle
    BY <2>1, Empties DEF Call
  <2>3. /\ call \in Call /\ call.at = "check" /\ call.what = "password"
        /\ call.me = account /\ call.seen = NoThrottle
    BY <2>1, <2>2 DEF Call
  <2>4. Moves(b, call)
    BY <1>1 DEF BeginPassword, Authorised
  <2> HIDE DEF call, asked
  <2>5. QED
    BY <2>3, <2>4, Turned DEF StepsOf
<1>2. ASSUME Check(b)
      PROVE  \/ Turns(b, "save", "password") /\ calls'[b].me.id = calls[b].me.id
             \/ Turns(b, "count", "password") /\ calls'[b].seen = throttle
  <2>1. calls[b] \in Call /\ calls[b].what = "password" /\ throttle \in Throttle
    BY <1>2 DEF Check, Shape, AccountsTypeOK, Fits, StepsOf, Call
  <2>2. CASE Matches(calls[b])
    <3> DEFINE call == [calls[b] EXCEPT !.at = "save",
                                        !.me.password = calls[b].chosen]
               mine == [calls[b].me EXCEPT !.password = calls[b].chosen]
    <3>1. mine \in Account /\ mine.id = calls[b].me.id
      BY <2>1 DEF Call, Account
    <3>2. call = [calls[b] EXCEPT !.at = "save", !.me = mine]
      BY <2>1 DEF Call
    <3>3. Moves(b, call)
      BY <1>2, <2>2 DEF Check
    <3> HIDE DEF call, mine
    <3>4. /\ call \in Call /\ call.at = "save" /\ call.what = "password"
          /\ call.me = mine /\ call.seen = calls[b].seen
      BY <2>1, <3>1, <3>2 DEF Call
    <3>5. QED
      BY <3>1, <3>3, <3>4, Turned DEF StepsOf
  <2>3. CASE ~ Matches(calls[b])
    <3> DEFINE call == [calls[b] EXCEPT !.at = "count", !.seen = throttle]
    <3>1. /\ call \in Call /\ call.at = "count" /\ call.what = "password"
          /\ call.seen = throttle
      BY <2>1 DEF Call
    <3>2. Moves(b, call)
      BY <1>2, <2>3 DEF Check, Miss
    <3> HIDE DEF call
    <3>3. QED
      BY <3>1, <3>2, Turned DEF StepsOf
  <2>4. QED
    BY <2>2, <2>3
<1>3. ASSUME SavePassword(b)
      PROVE  Turns(b, "list", "password") /\ calls'[b].me = calls[b].me
  <2> DEFINE call == [calls[b] EXCEPT !.at = "list"]
  <2>1. calls[b] \in Call /\ calls[b].what = "password"
    BY <1>3 DEF SavePassword, Shape, Fits, StepsOf, Call
  <2>2. /\ call \in Call /\ call.at = "list" /\ call.what = "password"
        /\ call.me = calls[b].me /\ call.seen = calls[b].seen
    BY <2>1 DEF Call
  <2>3. Moves(b, call)
    BY <1>3 DEF SavePassword
  <2> HIDE DEF call
  <2>4. QED
    BY <2>2, <2>3, Turned DEF StepsOf
<1>4. QED
  BY <1>1, <1>2, <1>3

\* ... those of ending the sessions listed ...
LEMMA Ending ==
  ASSUME Shape, NEW b \in Tab
  PROVE  /\ BeginEverywhere(b) =>
              Turns(b, "list", "everywhere") /\ calls'[b].me = account
         /\ ListSessions(b) =>
              /\ Turns(b, "end", calls[b].what) /\ calls'[b].me = calls[b].me
              /\ calls'[b].rows = ToEnd(b)
         /\ EndOne(b) =>
              /\ Turns(b, "end", calls[b].what) /\ calls'[b].me = calls[b].me
              /\ \E s \in calls[b].rows :
                   /\ calls'[b].rows = calls[b].rows \ {s}
                   /\ sessions' = [sessions EXCEPT ![s] = 0]
         /\ Ended(b) =>
              \/ Turns(b, "start", "password") /\ calls'[b].me = calls[b].me
                 /\ cookies' = cookies
              \/ Turns(b, "erase", "delete") /\ calls'[b].me = calls[b].me
                 /\ cookies' = cookies
              \/ Turns(b, "idle", "none") /\ cookies' = [cookies EXCEPT ![b] = 0]
                 /\ calls[b].what = "everywhere"
<1>1. ASSUME BeginEverywhere(b)
      PROVE  Turns(b, "list", "everywhere") /\ calls'[b].me = account
  <2> DEFINE asked == [NoCall EXCEPT !.at = "list", !.what = "everywhere"]
             call == [asked EXCEPT !.me = account]
  <2>1. NoCall \in Call /\ account \in Account
    BY Empties DEF Fits, Shape, AccountsTypeOK
  <2>2. /\ asked \in Call /\ asked.at = "list" /\ asked.what = "everywhere"
        /\ asked.seen = NoThrottle
    BY <2>1, Empties DEF Call
  <2>3. /\ call \in Call /\ call.at = "list" /\ call.what = "everywhere"
        /\ call.me = account /\ call.seen = NoThrottle
    BY <2>1, <2>2 DEF Call
  <2>4. Moves(b, call)
    BY <1>1 DEF BeginEverywhere, Authorised
  <2> HIDE DEF call, asked
  <2>5. QED
    BY <2>3, <2>4, Turned DEF StepsOf
<1>2. ASSUME ListSessions(b)
      PROVE  /\ Turns(b, "end", calls[b].what) /\ calls'[b].me = calls[b].me
             /\ calls'[b].rows = ToEnd(b)
  <2> DEFINE call == [calls[b] EXCEPT !.at = "end", !.rows = ToEnd(b)]
  <2>1. calls[b].at = "list" /\ Fits(calls[b])
    BY <1>2 DEF ListSessions, Shape
  <2>2. calls[b] \in Call /\ calls[b].what \in {"everywhere", "password", "delete"}
    BY <2>1 DEF Fits, StepsOf, Call
  <2>3. ToEnd(b) \subseteq Session
    BY AccountsAssumption DEF ToEnd, Session
  <2>4. /\ call \in Call /\ call.at = "end" /\ call.what = calls[b].what
        /\ call.me = calls[b].me /\ call.seen = calls[b].seen
        /\ call.rows = ToEnd(b)
    BY <2>2, <2>3 DEF Call
  <2>5. Moves(b, call)
    BY <1>2 DEF ListSessions
  <2> HIDE DEF call
  <2>6. QED
    BY <2>2, <2>4, <2>5, Turned DEF StepsOf
<1>3. ASSUME EndOne(b)
      PROVE  /\ Turns(b, "end", calls[b].what) /\ calls'[b].me = calls[b].me
             /\ \E s \in calls[b].rows :
                  /\ calls'[b].rows = calls[b].rows \ {s}
                  /\ sessions' = [sessions EXCEPT ![s] = 0]
  <2> DEFINE s == CHOOSE r \in calls[b].rows : TRUE
             call == [calls[b] EXCEPT !.rows = calls[b].rows \ {s}]
  <2>1. calls[b].at = "end" /\ Fits(calls[b]) /\ calls[b].rows # {}
    BY <1>3 DEF EndOne, Shape
  <2>2. s \in calls[b].rows
    BY <2>1
  <2>3. sessions' = [sessions EXCEPT ![s] = 0]
        /\ Moves(b, [calls[b] EXCEPT !.rows = @ \ {s}])
    BY <1>3 DEF EndOne
  <2>4. calls[b] \in Call
    BY <2>1 DEF Fits
  <2>5. Moves(b, call)
    BY <2>3, <2>4 DEF Call
  <2> HIDE DEF s
  <2>6. /\ call \in Call /\ call.at = "end" /\ call.what = calls[b].what
        /\ call.me = calls[b].me /\ call.seen = calls[b].seen
        /\ call.rows = calls[b].rows \ {s}
    BY <2>1, <2>4 DEF Call
  <2> HIDE DEF call
  <2>7. Turns(b, call.at, call.what) /\ calls'[b] = call
    BY <2>1, <2>5, <2>6, Turned DEF Fits
  <2>8. QED
    BY <2>2, <2>3, <2>6, <2>7
<1>4. ASSUME Ended(b)
      PROVE  \/ Turns(b, "start", "password") /\ calls'[b].me = calls[b].me
                /\ cookies' = cookies
             \/ Turns(b, "erase", "delete") /\ calls'[b].me = calls[b].me
                /\ cookies' = cookies
             \/ Turns(b, "idle", "none") /\ cookies' = [cookies EXCEPT ![b] = 0]
                /\ calls[b].what = "everywhere"
  <2>1. calls[b].at = "end" /\ Fits(calls[b])
    BY <1>4 DEF Ended, Shape
  <2>2. calls[b] \in Call /\ calls[b].what \in {"everywhere", "password", "delete"}
    BY <2>1 DEF Fits, StepsOf, Call
  <2>3. CASE calls[b].what = "password"
    <3> DEFINE call == [calls[b] EXCEPT !.at = "start"]
    <3>1. Moves(b, call) /\ cookies' = cookies
      BY <1>4, <2>3, Zenon DEF Ended
    <3>2. /\ call \in Call /\ call.at = "start" /\ call.what = "password"
          /\ call.me = calls[b].me /\ call.seen = calls[b].seen
      BY <2>2, <2>3 DEF Call
    <3> HIDE DEF call
    <3>3. QED
      BY <3>1, <3>2, Turned DEF StepsOf
  <2>4. CASE calls[b].what = "delete"
    <3> DEFINE call == [calls[b] EXCEPT !.at = "erase"]
    <3>1. Moves(b, call) /\ cookies' = cookies
      BY <1>4, <2>4, Zenon DEF Ended
    <3>2. /\ call \in Call /\ call.at = "erase" /\ call.what = "delete"
          /\ call.me = calls[b].me /\ call.seen = calls[b].seen
      BY <2>2, <2>4 DEF Call
    <3> HIDE DEF call
    <3>3. QED
      BY <3>1, <3>2, Turned DEF StepsOf
  <2>5. CASE calls[b].what = "everywhere"
    <3>1. CallEnds(b) /\ cookies' = [cookies EXCEPT ![b] = 0]
      BY <1>4, <2>5, Zenon DEF Ended
    <3>2. QED
      BY <2>5, <3>1, Idled
  <2>6. QED
    BY <2>2, <2>3, <2>4, <2>5
<1>5. QED
  BY <1>1, <1>2, <1>3, <1>4

\* ... and those of deleting the account and of storing its data.
LEMMA Leaving ==
  ASSUME Shape, NEW b \in Tab
  PROVE  /\ \A p \in Password : BeginDeleteAccount(b, p) =>
              Turns(b, "list", "delete") /\ calls'[b].me = account
         /\ EraseData(b) =>
              Turns(b, "forget", "delete") /\ calls'[b].me = calls[b].me
         /\ ForgetAccount(b) => Turns(b, "idle", "none")
         /\ BeginStore(b) =>
              Turns(b, "store", "data") /\ calls'[b].me = account
         /\ StoreData(b) => Turns(b, "idle", "none")
<1>1. ASSUME NEW p \in Password, BeginDeleteAccount(b, p)
      PROVE  Turns(b, "list", "delete") /\ calls'[b].me = account
  <2> DEFINE asked == [NoCall EXCEPT !.at = "list", !.what = "delete"]
             call == [asked EXCEPT !.me = account]
  <2>1. NoCall \in Call /\ account \in Account
    BY Empties DEF Fits, Shape, AccountsTypeOK
  <2>2. /\ asked \in Call /\ asked.at = "list" /\ asked.what = "delete"
        /\ asked.seen = NoThrottle
    BY <2>1, Empties DEF Call
  <2>3. /\ call \in Call /\ call.at = "list" /\ call.what = "delete"
        /\ call.me = account /\ call.seen = NoThrottle
    BY <2>1, <2>2 DEF Call
  <2>4. Moves(b, call)
    BY <1>1 DEF BeginDeleteAccount, Authorised
  <2> HIDE DEF call, asked
  <2>5. QED
    BY <2>3, <2>4, Turned DEF StepsOf
<1>2. ASSUME EraseData(b)
      PROVE  Turns(b, "forget", "delete") /\ calls'[b].me = calls[b].me
  <2> DEFINE call == [calls[b] EXCEPT !.at = "forget"]
  <2>1. calls[b] \in Call /\ calls[b].what = "delete"
    BY <1>2 DEF EraseData, Shape, Fits, StepsOf, Call
  <2>2. /\ call \in Call /\ call.at = "forget" /\ call.what = "delete"
        /\ call.me = calls[b].me /\ call.seen = calls[b].seen
    BY <2>1 DEF Call
  <2>3. Moves(b, call)
    BY <1>2 DEF EraseData
  <2> HIDE DEF call
  <2>4. QED
    BY <2>2, <2>3, Turned DEF StepsOf
<1>3. ASSUME BeginStore(b)
      PROVE  Turns(b, "store", "data") /\ calls'[b].me = account
  <2> DEFINE asked == [NoCall EXCEPT !.at = "store", !.what = "data"]
             call == [asked EXCEPT !.me = account]
  <2>1. NoCall \in Call /\ account \in Account
    BY Empties DEF Fits, Shape, AccountsTypeOK
  <2>2. /\ asked \in Call /\ asked.at = "store" /\ asked.what = "data"
        /\ asked.seen = NoThrottle
    BY <2>1, Empties DEF Call
  <2>3. /\ call \in Call /\ call.at = "store" /\ call.what = "data"
        /\ call.me = account /\ call.seen = NoThrottle
    BY <2>1, <2>2 DEF Call
  <2>4. Moves(b, call) /\ account.id # 0
    BY <1>3 DEF BeginStore, Authorised, Live
  <2> HIDE DEF call, asked
  <2>5. QED
    BY <2>3, <2>4, Turned DEF StepsOf
<1>4. ASSUME ForgetAccount(b) \/ StoreData(b)
      PROVE  Turns(b, "idle", "none")
  BY <1>4, Idled DEF ForgetAccount, StoreData
<1>5. QED
  BY <1>1, <1>2, <1>3, <1>4

-----------------------------------------------------------------------------
(* Types are kept.                                                         *)

\* All of the state but the requests and what they raced for.
RestTyped ==
  /\ issued \in 0..MaxRequests
  /\ account \in Account /\ ids \in 0..MaxAccounts
  /\ sessions \in [1..MaxSessions -> AccountId] /\ started \in 0..MaxSessions
  /\ data \subseteq 1..MaxAccounts /\ throttle \in Throttle
  /\ cookies \in [Tab -> Session] /\ provedBy \in [1..MaxSessions -> Password]
  /\ guesses \in 0..MaxGuesses

\* A request that goes on keeps its shape if the rest has its type.
LEMMA ShapeFrame ==
  ASSUME Shape, NEW b \in Tab, NEW at, NEW what, Turns(b, at, what), RestTyped'
  PROVE  Shape'
<1>1. /\ calls' \in [Tab -> Call] /\ \A d \in Tab : Fits(calls'[d])
      /\ raced' \subseteq {"account", "throttle", "data"}
  BY Others DEF Turns
<1>2. QED
  BY <1>1 DEF Shape, AccountsTypeOK, RestTyped

\* Requests arrive up to their bound.
LEMMA Arrives == ASSUME Shape, Arrive PROVE issued' \in 0..MaxRequests
  BY RequestsAssumption DEF Shape, AccountsTypeOK, Arrive

\* At first everything has its shape ...
LEMMA ShapeInit == AccountsInit => Shape
<1> SUFFICES ASSUME AccountsInit PROVE Shape
  OBVIOUS
<1>1. /\ account \in Account /\ throttle \in Throttle
      /\ \A b \in Tab : calls[b] \in Call /\ Fits(calls[b])
      /\ NoAccount.password \in Password
  BY Empties DEF AccountsInit, Fits, Account
<1>2. QED
  BY <1>1, RequestsAssumption, AccountsAssumption
  DEF AccountsInit, Shape, AccountsTypeOK, AccountId, Session

\* ... and every step keeps it.
LEMMA ShapeStep == Shape /\ [AccountsNext]_requestVars => Shape'
<1> SUFFICES ASSUME Shape, [AccountsNext]_requestVars PROVE Shape'
  OBVIOUS
<1>0. RestTyped /\ (Arrive => issued' \in 0..MaxRequests)
  BY Arrives DEF Shape, AccountsTypeOK, RestTyped
<1>1. ASSUME NEW b \in Tab, NEW at, NEW what, Turns(b, at, what),
             issued' \in 0..MaxRequests,
             UNCHANGED <<account, ids, data, throttle>>, SessionsStay,
             guesses' \in 0..MaxGuesses
      PROVE  Shape'
  BY <1>0, <1>1, ShapeFrame DEF RestTyped, SessionsStay
<1>2. /\ issued \in 0..MaxRequests /\ guesses \in 0..MaxGuesses
      /\ throttle \in Throttle /\ NoThrottle \in Throttle
      /\ 0 \in AccountId /\ 0 \in Session /\ 0 \in 0..MaxGuesses
  BY <1>0, Empties, AccountsAssumption DEF RestTyped, AccountId, Session
<1>3. ASSUME NEW b \in Tab, NEW p \in Password, BeginSignUp(b, p)
      PROVE  Shape'
  BY <1>0, <1>1, <1>2, <1>3, SigningUp DEF BeginSignUp
<1>4. ASSUME NEW b \in Tab, NEW p \in Password, BeginSignIn(b, p)
      PROVE  Shape'
  BY <1>0, <1>1, <1>2, <1>4, SigningIn DEF BeginSignIn
<1>5. ASSUME NEW b \in Tab, NEW p \in Password, BeginDeleteAccount(b, p)
      PROVE  Shape'
  BY <1>0, <1>1, <1>2, <1>5, Leaving DEF BeginDeleteAccount, Authorised
<1>6. ASSUME NEW b \in Tab, NEW p \in Password, NEW q \in Password,
             BeginPassword(b, p, q)
      PROVE  Shape'
  BY <1>0, <1>1, <1>2, <1>6, ChangingPassword DEF BeginPassword, Authorised
<1>7. ASSUME NEW b \in Tab, CreateAccount(b)
      PROVE  Shape'
  <2>1. Turns(b, "start", "signup") /\ account' = calls'[b].me
    BY <1>7, SigningUp
  <2>2. account' \in Account
    BY <2>1 DEF Turns, Fits, Call
  <2>3. ids' \in 0..MaxAccounts
    BY <1>0, <1>7, AccountsAssumption DEF CreateAccount, RestTyped
  <2>4. RestTyped'
    BY <1>0, <1>7, <2>2, <2>3 DEF CreateAccount, RestTyped, SessionsStay
  <2>5. QED
    BY <2>1, <2>4, ShapeFrame
<1>8. ASSUME NEW b \in Tab, Start(b)
      PROVE  Shape'
  <2>1. Turns(b, "idle", "none")
    BY <1>8, SigningUp
  <2>2. /\ started < MaxSessions /\ started' = started + 1
        /\ sessions' = [sessions EXCEPT ![started'] = calls[b].me.id]
        /\ provedBy' = [provedBy EXCEPT ![started'] = calls[b].me.password]
        /\ cookies' = [cookies EXCEPT ![b] = started']
        /\ UNCHANGED <<issued, account, ids, data, throttle, guesses>>
    BY <1>8 DEF Start, StartSession
  <2>3. calls[b].me \in Account
    BY DEF Shape, AccountsTypeOK, Call
  <2>4. /\ calls[b].me.id \in AccountId /\ calls[b].me.password \in Password
        /\ started' \in 1..MaxSessions /\ started' \in Session
    BY <1>0, <2>2, <2>3, AccountsAssumption DEF Account, RestTyped, Session
  <2>5. RestTyped'
    BY <1>0, <2>2, <2>4 DEF RestTyped
  <2>6. QED
    BY <2>1, <2>5, ShapeFrame
<1>9. ASSUME NEW b \in Tab, Verify(b)
      PROVE  Shape'
  <2>1. UNCHANGED <<issued, account, ids, data, throttle>> /\ SessionsStay
    BY <1>9 DEF Verify
  <2>2. \/ Turns(b, "clear", "signin") /\ guesses' = guesses
        \/ Turns(b, "count", "signin") /\ guesses < MaxGuesses
           /\ guesses' = guesses + 1
    BY <1>9, SigningIn
  <2>3. guesses' \in 0..MaxGuesses
    BY <1>2, <2>2, AccountsAssumption
  <2>4. QED
    BY <1>1, <1>2, <2>1, <2>2, <2>3
<1>10. ASSUME NEW b \in Tab, Count(b)
       PROVE  Shape'
  <2>1. Turns(b, "idle", "none")
    BY <1>10, SigningIn
  <2>2. calls[b].seen \in Throttle
    BY DEF Shape, AccountsTypeOK, Call
  <2>3. Counted(calls[b].seen) \in Throttle
    BY <2>2, AccountsAssumption DEF Counted, Throttle
  <2>4. RestTyped'
    BY <1>0, <1>10, <2>3 DEF Count, RestTyped, SessionsStay
  <2>5. QED
    BY <2>1, <2>4, ShapeFrame
<1>11. ASSUME NEW b \in Tab, ClearThrottle(b)
       PROVE  Shape'
  <2>1. RestTyped'
    BY <1>0, <1>2, <1>11 DEF ClearThrottle, RestTyped, SessionsStay
  <2>2. QED
    BY <1>11, <2>1, SigningIn, ShapeFrame
<1>12. ASSUME NEW b \in Tab, SignOut(b)
       PROVE  Shape'
  <2>1. cookies' \in [Tab -> Session]
    BY <1>0, <1>2, <1>12 DEF SignOut, RestTyped
  <2>2. sessions' \in [1..MaxSessions -> AccountId]
    BY <1>0, <1>2, <1>12 DEF SignOut, RestTyped
  <2>3. QED
    BY <1>0, <1>12, <2>1, <2>2 DEF SignOut, Shape, AccountsTypeOK
<1>13. ASSUME NEW b \in Tab, BeginEverywhere(b) \/ BeginStore(b)
       PROVE  Shape'
  BY <1>0, <1>1, <1>2, <1>13, Ending, Leaving
  DEF BeginEverywhere, BeginStore, Authorised
<1>14. ASSUME NEW b \in Tab, Check(b)
       PROVE  Shape'
  BY <1>1, <1>2, <1>14, ChangingPassword DEF Check
<1>15. ASSUME NEW b \in Tab, SavePassword(b)
       PROVE  Shape'
  <2>1. calls[b].me \in Account
    BY DEF Shape, AccountsTypeOK, Call
  <2>2. RestTyped'
    BY <1>0, <1>15, <2>1 DEF SavePassword, RestTyped, SessionsStay
  <2>3. QED
    BY <1>15, <2>2, ChangingPassword, ShapeFrame
<1>16. ASSUME NEW b \in Tab, ListSessions(b)
       PROVE  Shape'
  BY <1>1, <1>2, <1>16, Ending DEF ListSessions
<1>17. ASSUME NEW b \in Tab, EndOne(b)
       PROVE  Shape'
  <2>1. sessions' \in [1..MaxSessions -> AccountId]
    <3>1. PICK s : sessions' = [sessions EXCEPT ![s] = 0]
      BY <1>17, Ending
    <3>2. QED
      BY <1>0, <1>2, <3>1 DEF RestTyped
  <2>2. RestTyped'
    BY <1>0, <1>17, <2>1 DEF EndOne, RestTyped
  <2>3. QED
    BY <1>17, <2>2, Ending, ShapeFrame
<1>18. ASSUME NEW b \in Tab, Ended(b)
       PROVE  Shape'
  <2>1. UNCHANGED <<issued, account, ids, sessions, started, data, throttle,
                    provedBy, guesses>>
    BY <1>18, Zenon DEF Ended
  <2>2. \/ Turns(b, "start", "password") /\ cookies' = cookies
        \/ Turns(b, "erase", "delete") /\ cookies' = cookies
        \/ Turns(b, "idle", "none") /\ cookies' = [cookies EXCEPT ![b] = 0]
    BY <1>18, Ending
  <2>3. cookies' \in [Tab -> Session]
    BY <1>0, <1>2, <2>2 DEF RestTyped
  <2>4. RestTyped'
    BY <1>0, <2>1, <2>3 DEF RestTyped
  <2>5. QED
    BY <2>2, <2>4, ShapeFrame
<1>19. ASSUME NEW b \in Tab, EraseData(b)
       PROVE  Shape'
  <2>1. RestTyped'
    BY <1>0, <1>19 DEF EraseData, Erased, RestTyped, SessionsStay
  <2>2. QED
    BY <1>19, <2>1, Leaving, ShapeFrame
<1>20. ASSUME NEW b \in Tab, ForgetAccount(b)
       PROVE  Shape'
  <2>1. cookies' \in [Tab -> Session] /\ account' \in Account
    BY <1>0, <1>2, <1>20, Empties DEF ForgetAccount, RestTyped
  <2>2. RestTyped'
    BY <1>0, <1>20, <2>1 DEF ForgetAccount, RestTyped
  <2>3. QED
    BY <1>20, <2>2, Leaving, ShapeFrame
<1>21. ASSUME NEW b \in Tab, StoreData(b)
       PROVE  Shape'
  <2>1. calls[b].at = "store" /\ Fits(calls[b])
    BY <1>21 DEF StoreData, Shape
  <2>2. calls[b].me.id \in 1..MaxAccounts
    <3>1. calls[b].what = "data" /\ calls[b].me.id # 0 /\ calls[b].me \in Account
      BY <2>1 DEF Fits, StepsOf, Call
    <3>2. QED
      BY <3>1, AccountsAssumption DEF Account, AccountId
  <2>3. RestTyped'
    BY <1>0, <1>21, <2>2 DEF StoreData, RestTyped, SessionsStay
  <2>4. QED
    BY <1>21, <2>3, Leaving, ShapeFrame
<1>22. ASSUME NEW b \in Tab, CallFails(b)
       PROVE  Shape'
  <2>1. Topics(calls[b]) \subseteq {"account", "throttle", "data"}
    BY TopicsAre DEF Shape
  <2>2. calls' \in [Tab -> Call] /\ \A d \in Tab : Fits(calls'[d])
    BY <1>22, Empties DEF CallFails, Shape, AccountsTypeOK, Fits
  <2>3. QED
    BY <1>22, <2>1, <2>2 DEF CallFails, Shape, AccountsTypeOK, SessionsStay
<1>23. CASE ThrottleEnds
  BY <1>2, <1>23 DEF ThrottleEnds, Shape, AccountsTypeOK
<1>24. CASE UNCHANGED requestVars
  BY <1>24 DEF requestVars, accountVars, Shape, AccountsTypeOK
<1>25. QED
  <2>1. CASE UNCHANGED requestVars
    BY <1>24, <2>1
  <2>2. CASE ThrottleEnds
    BY <1>23, <2>2
  <2>3. ASSUME NEW b \in Tab, AccountRequest(b)
        PROVE  Shape'
    <3>1. CASE \E p \in Password : BeginSignUp(b, p) \/ BeginSignIn(b, p) \/ BeginDeleteAccount(b, p)
      BY <1>3, <1>4, <1>5, <3>1
    <3>2. CASE \E p, q \in Password : BeginPassword(b, p, q)
      BY <1>6, <3>2
    <3>3. CASE \/ CreateAccount(b) \/ Start(b) \/ Verify(b) \/ Count(b)
               \/ ClearThrottle(b) \/ SignOut(b) \/ BeginEverywhere(b) \/ Check(b)
               \/ SavePassword(b) \/ ListSessions(b) \/ EndOne(b) \/ Ended(b)
               \/ EraseData(b) \/ ForgetAccount(b) \/ BeginStore(b)
               \/ StoreData(b) \/ CallFails(b)
      BY <1>7, <1>8, <1>9, <1>10, <1>11, <1>12, <1>13, <1>14, <1>15, <1>16, <1>17,
         <1>18, <1>19, <1>20, <1>21, <1>22, <3>3
    <3>4. QED
      BY <2>3, <3>1, <3>2, <3>3 DEF AccountRequest
  <2>4. QED
    BY <2>1, <2>2, <2>3 DEF AccountsNext

-----------------------------------------------------------------------------
(* Requests on the account.                                                *)

\* What is known of account and sessions, when one request goes on: it is the
\* only one on the account, or leaves it alone.
LEMMA AccountFrame ==
  ASSUME Shape, AccountKept, NEW b \in Tab, NEW at, NEW what, Turns(b, at, what),
         "account" \notin raced', SessionsKept',
         OnAccount(calls'[b]) => WorksOn(calls[b])',
         \/ OnAccount(calls'[b])
         \/ OnAccount(calls[b])
         \/ UNCHANGED <<account, sessions>>
  PROVE  AccountKept'
<1>1. /\ \A d \in Tab \ {b} : calls'[d] = calls[d]
      /\ "account" \notin raced
      /\ OnAccount(calls'[b]) => \A d \in Tab \ {b} : ~ OnAccount(calls[d])
  BY Others DEF Turns
<1>2. ASSUME NEW d \in Tab, OnAccount(calls'[d])
      PROVE  WorksOn(calls[d])' /\ \A e \in Tab \ {d} : ~ OnAccount(calls'[e])
  <2>1. CASE d = b
    BY <1>1, <1>2, <2>1
  <2>2. CASE d # b
    <3>1. OnAccount(calls[d]) /\ ~ OnAccount(calls'[b])
      BY <1>1, <1>2, <2>2
    <3>2. WorksOn(calls[d]) /\ \A e \in Tab \ {d} : ~ OnAccount(calls[e])
      BY <1>1, <3>1 DEF AccountKept
    <3>3. UNCHANGED <<account, sessions>>
      BY <2>2, <3>1, <3>2
    <3>4. \A e \in Tab \ {d} : ~ OnAccount(calls'[e])
      BY <1>1, <3>1, <3>2
    <3>5. QED
      BY <1>1, <2>2, <3>2, <3>3, <3>4 DEF WorksOn
  <2>3. QED
    BY <2>1, <2>2
<1>3. QED
  BY <1>2 DEF AccountKept

\* The step leaves account and sessions alone, and ends no change of password.
LEMMA QuietFrame ==
  ASSUME Shape, AccountKept, NEW b \in Tab, NEW at, NEW what, Turns(b, at, what),
         "account" \notin raced', UNCHANGED <<account, sessions, provedBy>>,
         calls[b].at \in {"list", "end"} => at = "end" /\ what = calls[b].what,
         OnAccount(calls'[b]) => WorksOn(calls[b])'
  PROVE  AccountKept'
<1>1. "account" \notin raced /\ \A d \in Tab \ {b} : calls'[d] = calls[d]
  BY Others DEF Turns
<1>2. SessionsKept'
  <2>1. calls'[b].at = at /\ calls'[b].what = what
    BY DEF Turns
  <2>2. \A d \in Tab : calls[d].what = "password" /\ calls[d].at \in {"list", "end"} =>
          calls'[d].what = "password" /\ calls'[d].at \in {"list", "end"}
    BY <1>1, <2>1
  <2>3. QED
    BY <1>1, <2>2 DEF AccountKept, SessionsKept
<1>3. QED
  BY <1>2, AccountFrame

\* What the request under way may rely on.
LEMMA Reliable ==
  ASSUME AccountKept, "account" \notin raced, NEW b \in Tab, OnAccount(calls[b])
  PROVE  /\ SessionsKept /\ WorksOn(calls[b])
         /\ \A d \in Tab \ {b} : ~ OnAccount(calls[d])
  BY DEF AccountKept

\* Every step keeps what is known of account and sessions.
LEMMA AccountStep == Shape /\ AccountKept /\ [AccountsNext]_requestVars => AccountKept'
<1> SUFFICES ASSUME Shape, AccountKept, [AccountsNext]_requestVars, "account" \notin raced'
             PROVE  AccountKept'
  BY DEF AccountKept
\* A request starts that reads the account, or does not touch it.
<1>1. ASSUME NEW b \in Tab, NEW at, NEW what, Turns(b, at, what), AtRest(b),
             UNCHANGED <<account, sessions, provedBy>>,
             \/ at = "create" /\ account.id = 0
             \/ at \in {"verify", "check", "list"} /\ calls'[b].me = account
             \/ what = "data"
      PROVE  AccountKept'
  <2>1. calls'[b].at = at /\ calls'[b].what = what
    BY <1>1 DEF Turns
  <2>2. OnAccount(calls'[b]) => WorksOn(calls[b])'
    BY <1>1, <2>1 DEF WorksOn, OnAccount
  <2>3. QED
    BY <1>1, <2>2, QuietFrame DEF AtRest
<1>2. ASSUME NEW b \in Tab, NEW p \in Password,
             BeginSignUp(b, p) \/ BeginSignIn(b, p) \/ BeginDeleteAccount(b, p)
      PROVE  AccountKept'
  BY <1>1, <1>2, SigningUp, SigningIn, Leaving
  DEF BeginSignUp, BeginSignIn, BeginDeleteAccount, Authorised, SessionsStay
<1>3. ASSUME NEW b \in Tab, NEW p \in Password, NEW q \in Password,
             BeginPassword(b, p, q)
      PROVE  AccountKept'
  BY <1>1, <1>3, ChangingPassword DEF BeginPassword, Authorised, SessionsStay
<1>4. ASSUME NEW b \in Tab, BeginEverywhere(b) \/ BeginStore(b)
      PROVE  AccountKept'
  BY <1>1, <1>4, Ending, Leaving
  DEF BeginEverywhere, BeginStore, Authorised, SessionsStay
\* A request goes on, and leaves account and sessions alone.
<1>5. ASSUME NEW b \in Tab, NEW at, NEW what, Turns(b, at, what)
      PROVE  "account" \notin raced
  BY <1>5, Others DEF Turns
<1>6. ASSUME NEW b \in Tab, CreateAccount(b)
      PROVE  AccountKept'
  <2>1. Turns(b, "start", "signup") /\ calls'[b].me = account'
    BY <1>6, SigningUp
  <2>2. calls[b].at = "create" /\ sessions' = sessions /\ Fits(calls[b])
    BY <1>6 DEF CreateAccount, SessionsStay, Shape
  <2>3. OnAccount(calls[b])
    BY <2>2 DEF OnAccount, Fits, StepsOf, Call
  <2>4. SessionsKept /\ account.id = 0
    BY <1>5, <2>1, <2>2, <2>3, Reliable DEF WorksOn
  <2>5. \A s \in 1..MaxSessions : sessions'[s] = 0
    BY <2>2, <2>4 DEF SessionsKept
  <2>6. calls'[b].at = "start" /\ calls'[b].what = "signup"
    BY <2>1 DEF Turns
  <2>7. SessionsKept' /\ WorksOn(calls[b])'
    BY <2>1, <2>5, <2>6 DEF SessionsKept, WorksOn
  <2>8. QED
    BY <2>1, <2>3, <2>7, AccountFrame
<1>7. ASSUME NEW b \in Tab, Start(b)
      PROVE  AccountKept'
  <2> DEFINE me == calls[b].me
  <2>1. Turns(b, "idle", "none")
    BY <1>7, SigningUp
  <2>2. /\ calls[b].at = "start" /\ Fits(calls[b]) /\ account' = account
        /\ started < MaxSessions /\ started' = started + 1
        /\ sessions' = [sessions EXCEPT ![started'] = me.id]
        /\ provedBy' = [provedBy EXCEPT ![started'] = me.password]
    BY <1>7 DEF Start, StartSession, Shape
  <2>3. OnAccount(calls[b])
    BY <2>2 DEF OnAccount, Fits, StepsOf, Call
  <2>4. /\ SessionsKept /\ me = account
        /\ \A d \in Tab \ {b} : ~ OnAccount(calls[d])
    BY <1>5, <2>1, <2>2, <2>3, Reliable DEF WorksOn
  <2>5. \A d \in Tab : ~ (calls[d].what = "password" /\ calls[d].at \in {"list", "end"})
    BY <2>2, <2>4 DEF OnAccount
  <2> HIDE DEF me
  <2>6. \A s \in 1..MaxSessions :
          /\ sessions'[s] \in {0, account.id}
          /\ sessions'[s] # 0 => provedBy'[s] = account.password
    <3>1. /\ sessions \in [1..MaxSessions -> AccountId]
          /\ provedBy \in [1..MaxSessions -> Password]
      BY DEF Shape, AccountsTypeOK
    <3>2. ASSUME NEW s \in 1..MaxSessions, s = started'
          PROVE  sessions'[s] = account.id /\ provedBy'[s] = account.password
      BY <2>2, <2>4, <3>1, <3>2
    <3>3. ASSUME NEW s \in 1..MaxSessions, s # started'
          PROVE  sessions'[s] = sessions[s] /\ provedBy'[s] = provedBy[s]
      BY <2>2, <3>1, <3>3
    <3>4. ASSUME NEW s \in 1..MaxSessions
          PROVE  /\ sessions[s] \in {0, account.id}
                 /\ sessions[s] # 0 => provedBy[s] = account.password
      BY <2>4, <2>5 DEF SessionsKept
    <3>5. QED
      BY <3>2, <3>3, <3>4
  <2>7. SessionsKept' /\ ~ OnAccount(calls'[b])
    BY <2>1, <2>2, <2>6 DEF SessionsKept, Turns, OnAccount
  <2>8. QED
    BY <2>1, <2>3, <2>7, AccountFrame
<1>8. ASSUME NEW b \in Tab, Verify(b)
      PROVE  AccountKept'
  <2>1. /\ calls[b].at = "verify" /\ Fits(calls[b])
        /\ UNCHANGED <<account, sessions, provedBy>>
    BY <1>8 DEF Verify, SessionsStay, Shape
  <2>2. CASE Turns(b, "clear", "signin") /\ calls'[b].me = calls[b].me
    <3>1. OnAccount(calls[b])
      BY <2>1 DEF OnAccount, Fits, StepsOf, Call
    <3>2. calls[b].me = account
      BY <1>5, <2>1, <2>2, <3>1, Reliable DEF WorksOn
    <3>3. WorksOn(calls[b])'
      BY <2>1, <2>2, <3>2 DEF WorksOn, Turns
    <3>4. QED
      BY <2>1, <2>2, <3>3, QuietFrame
  <2>3. CASE Turns(b, "count", "signin")
    <3>1. WorksOn(calls[b])'
      BY <2>3 DEF WorksOn, Turns
    <3>2. QED
      BY <2>1, <2>3, <3>1, QuietFrame
  <2>4. QED
    BY <1>8, <2>2, <2>3, SigningIn
<1>9. ASSUME NEW b \in Tab, Count(b) \/ StoreData(b)
      PROVE  AccountKept'
  <2>1. /\ Turns(b, "idle", "none") /\ calls[b].at \in {"count", "store"}
        /\ UNCHANGED <<account, sessions, provedBy>>
    BY <1>9, SigningIn, Leaving DEF Count, StoreData, SessionsStay
  <2>2. ~ OnAccount(calls'[b])
    BY <2>1 DEF Turns, OnAccount
  <2>3. QED
    BY <2>1, <2>2, QuietFrame
<1>10. ASSUME NEW b \in Tab, ClearThrottle(b)
       PROVE  AccountKept'
  <2>1. /\ Turns(b, "start", "signin") /\ calls'[b].me = calls[b].me
        /\ calls[b].at = "clear" /\ Fits(calls[b])
        /\ UNCHANGED <<account, sessions, provedBy>>
    BY <1>10, SigningIn DEF ClearThrottle, SessionsStay, Shape
  <2>2. OnAccount(calls[b])
    BY <2>1 DEF OnAccount, Fits, StepsOf, Call
  <2>3. calls[b].me = account
    BY <1>5, <2>1, <2>2, Reliable DEF WorksOn
  <2>4. WorksOn(calls[b])'
    BY <2>1, <2>3 DEF WorksOn, Turns
  <2>5. QED
    BY <2>1, <2>4, QuietFrame
<1>11. ASSUME NEW b \in Tab, SignOut(b)
       PROVE  AccountKept'
  <2>1. /\ UNCHANGED <<calls, raced, account, provedBy>>
        /\ \A s \in 1..MaxSessions : sessions'[s] \in {0, sessions[s]}
    BY <1>11 DEF SignOut, Shape, AccountsTypeOK
  <2>2. SessionsKept'
    BY <2>1 DEF AccountKept, SessionsKept
  <2>3. \A d \in Tab : OnAccount(calls[d]) =>
          /\ WorksOn(calls[d])'
          /\ \A e \in Tab \ {d} : ~ OnAccount(calls[e])
    BY <2>1 DEF AccountKept, WorksOn
  <2>4. QED
    BY <2>1, <2>2, <2>3 DEF AccountKept
<1>12. ASSUME NEW b \in Tab, Check(b)
       PROVE  AccountKept'
  <2>1. /\ calls[b].at = "check" /\ Fits(calls[b])
        /\ UNCHANGED <<account, sessions, provedBy>>
    BY <1>12 DEF Check, SessionsStay, Shape
  <2>2. CASE Turns(b, "save", "password") /\ calls'[b].me.id = calls[b].me.id
    <3>1. OnAccount(calls[b])
      BY <2>1 DEF OnAccount, Fits, StepsOf, Call
    <3>2. calls[b].me = account
      BY <1>5, <2>1, <2>2, <3>1, Reliable DEF WorksOn
    <3>3. WorksOn(calls[b])'
      BY <2>1, <2>2, <3>2 DEF WorksOn, Turns
    <3>4. QED
      BY <2>1, <2>2, <3>3, QuietFrame
  <2>3. CASE Turns(b, "count", "password")
    <3>1. WorksOn(calls[b])'
      BY <2>3 DEF WorksOn, Turns
    <3>2. QED
      BY <2>1, <2>3, <3>1, QuietFrame
  <2>4. QED
    BY <1>12, <2>2, <2>3, ChangingPassword
<1>13. ASSUME NEW b \in Tab, SavePassword(b)
       PROVE  AccountKept'
  <2>1. /\ Turns(b, "list", "password") /\ calls'[b].me = calls[b].me
        /\ calls[b].at = "save" /\ Fits(calls[b]) /\ account' = calls[b].me
        /\ UNCHANGED <<sessions, provedBy>>
    BY <1>13, ChangingPassword DEF SavePassword, SessionsStay, Shape
  <2>2. OnAccount(calls[b])
    BY <2>1 DEF OnAccount, Fits, StepsOf, Call
  <2>3. SessionsKept /\ account'.id = account.id
    BY <1>5, <2>1, <2>2, Reliable DEF WorksOn
  <2>4. WorksOn(calls[b])'
    BY <2>1 DEF WorksOn, Turns
  <2>5. SessionsKept'
    BY <2>1, <2>3 DEF SessionsKept, Turns
  <2>6. QED
    BY <2>1, <2>2, <2>4, <2>5, AccountFrame
<1>14. ASSUME NEW b \in Tab, ListSessions(b)
       PROVE  AccountKept'
  <2>1. /\ Turns(b, "end", calls[b].what) /\ calls'[b].me = calls[b].me
        /\ calls'[b].rows = ToEnd(b) /\ calls[b].at = "list" /\ Fits(calls[b])
        /\ UNCHANGED <<account, sessions, provedBy>>
    BY <1>14, Ending DEF ListSessions, SessionsStay, Shape
  <2>2. OnAccount(calls[b])
    BY <2>1 DEF OnAccount, Fits, StepsOf, Call
  <2>3. SessionsKept /\ calls[b].me = account
    BY <1>5, <2>1, <2>2, Reliable DEF WorksOn
  <2>4. \A s \in 1..MaxSessions : sessions[s] # 0 => s \in ToEnd(b)
    BY <2>3 DEF SessionsKept, ToEnd
  <2>5. WorksOn(calls[b])'
    BY <2>1, <2>3, <2>4 DEF WorksOn, Turns
  <2>6. QED
    BY <2>1, <2>5, QuietFrame
<1>15. ASSUME NEW b \in Tab, EndOne(b)
       PROVE  AccountKept'
  <2>1. /\ Turns(b, "end", calls[b].what) /\ calls'[b].me = calls[b].me
        /\ calls[b].at = "end" /\ Fits(calls[b])
        /\ UNCHANGED <<account, provedBy>>
    BY <1>15, Ending DEF EndOne, Shape
  <2>2. PICK s \in calls[b].rows :
          /\ calls'[b].rows = calls[b].rows \ {s}
          /\ sessions' = [sessions EXCEPT ![s] = 0]
    BY <1>15, Ending
  <2>3. OnAccount(calls[b])
    BY <2>1 DEF OnAccount, Fits, StepsOf, Call
  <2>4. /\ SessionsKept /\ calls[b].me = account
        /\ \A t \in 1..MaxSessions : sessions[t] # 0 => t \in calls[b].rows
    BY <1>5, <2>1, <2>3, Reliable DEF WorksOn
  <2>5. \A t \in 1..MaxSessions :
          sessions'[t] = IF t = s THEN 0 ELSE sessions[t]
    BY <2>2 DEF Shape, AccountsTypeOK
  <2>6. WorksOn(calls[b])'
    BY <2>1, <2>2, <2>4, <2>5 DEF WorksOn, Turns
  <2>7. SessionsKept'
    <3>1. \A d \in Tab : calls'[d].what = calls[d].what /\
            (calls[d].at \in {"list", "end"} => calls'[d].at \in {"list", "end"})
      BY <2>1, Others DEF Turns
    <3>2. QED
      BY <2>1, <2>4, <2>5, <3>1 DEF SessionsKept
  <2>8. QED
    BY <2>1, <2>3, <2>6, <2>7, AccountFrame
<1>16. ASSUME NEW b \in Tab, Ended(b)
       PROVE  AccountKept'
  <2>1. /\ calls[b].at = "end" /\ calls[b].rows = {} /\ Fits(calls[b])
        /\ UNCHANGED <<account, sessions, provedBy>>
    BY <1>16, Zenon DEF Ended, Shape
  <2>2. PICK at, what :
          /\ Turns(b, at, what)
          /\ \/ at = "start" /\ calls'[b].me = calls[b].me
             \/ at = "erase" /\ calls'[b].me = calls[b].me
             \/ at = "idle"
    BY <1>16, Ending
  <2>3. OnAccount(calls[b])
    BY <2>1 DEF OnAccount, Fits, StepsOf, Call
  <2>4. /\ SessionsKept /\ calls[b].me = account
        /\ \A t \in 1..MaxSessions : sessions[t] = 0
    BY <1>5, <2>1, <2>2, <2>3, Reliable DEF WorksOn
  <2>5. SessionsKept'
    BY <2>1, <2>4 DEF SessionsKept
  <2>6. OnAccount(calls'[b]) => WorksOn(calls[b])'
    BY <2>1, <2>2, <2>4 DEF WorksOn, Turns, OnAccount
  <2>7. QED
    BY <2>2, <2>3, <2>5, <2>6, AccountFrame
<1>17. ASSUME NEW b \in Tab, EraseData(b)
       PROVE  AccountKept'
  <2>1. /\ Turns(b, "forget", "delete") /\ calls'[b].me = calls[b].me
        /\ calls[b].at = "erase" /\ Fits(calls[b])
        /\ UNCHANGED <<account, sessions, provedBy>>
    BY <1>17, Leaving DEF EraseData, SessionsStay, Shape
  <2>2. OnAccount(calls[b])
    BY <2>1 DEF OnAccount, Fits, StepsOf, Call
  <2>3. calls[b].me = account /\ \A t \in 1..MaxSessions : sessions[t] = 0
    BY <1>5, <2>1, <2>2, Reliable DEF WorksOn
  <2>4. WorksOn(calls[b])'
    BY <2>1, <2>3 DEF WorksOn, Turns
  <2>5. QED
    BY <2>1, <2>4, QuietFrame
<1>18. ASSUME NEW b \in Tab, ForgetAccount(b)
       PROVE  AccountKept'
  <2>1. /\ Turns(b, "idle", "none") /\ calls[b].at = "forget" /\ Fits(calls[b])
        /\ sessions' = sessions
    BY <1>18, Leaving DEF ForgetAccount, Shape
  <2>2. OnAccount(calls[b])
    BY <2>1 DEF OnAccount, Fits, StepsOf, Call
  <2>3. \A t \in 1..MaxSessions : sessions[t] = 0
    BY <1>5, <2>1, <2>2, Reliable DEF WorksOn
  <2>4. SessionsKept' /\ ~ OnAccount(calls'[b])
    BY <2>1, <2>3 DEF SessionsKept, Turns, OnAccount
  <2>5. QED
    BY <2>1, <2>2, <2>4, AccountFrame
<1>19. ASSUME NEW b \in Tab, CallFails(b)
       PROVE  AccountKept'
  <2>1. /\ calls' = [calls EXCEPT ![b] = NoCall] /\ "account" \notin raced
        /\ ~ OnAccount(calls[b]) /\ calls[b].at # "idle"
        /\ UNCHANGED <<account, sessions, provedBy>>
    BY <1>19, TopicsAre DEF CallFails, SessionsStay, AtRest, Shape
  <2>2. \A d \in Tab : calls'[d] = IF d = b THEN NoCall ELSE calls[d]
    BY <2>1 DEF Shape, AccountsTypeOK
  <2>3. calls[b].what = "data" /\ ~ OnAccount(NoCall)
    BY <2>1, Empties DEF OnAccount
  <2>4. SessionsKept'
    BY <2>1, <2>2, <2>3 DEF AccountKept, SessionsKept
  <2>5. \A d \in Tab : OnAccount(calls'[d]) =>
          /\ WorksOn(calls[d])'
          /\ \A e \in Tab \ {d} : ~ OnAccount(calls'[e])
    BY <2>1, <2>2, <2>3 DEF AccountKept, WorksOn
  <2>6. QED
    BY <2>4, <2>5 DEF AccountKept
<1>20. CASE ThrottleEnds \/ UNCHANGED requestVars
  BY <1>20 DEF ThrottleEnds, requestVars, accountVars, AccountKept, SessionsKept, WorksOn
<1>21. QED
  BY <1>2, <1>3, <1>4, <1>6, <1>7, <1>8, <1>9, <1>10, <1>11, <1>12, <1>13, <1>14,
     <1>15, <1>16, <1>17, <1>18, <1>19, <1>20
  DEF AccountsNext, AccountRequest

-----------------------------------------------------------------------------
(* Requests on the data.                                                   *)

\* What is known of the data, when one request goes on: no other is on it, or
\* it stays.
LEMMA DataFrame ==
  ASSUME Shape, DataKept, NEW b \in Tab, NEW at, NEW what, Turns(b, at, what),
         raced' = {}, \A i \in data' : i = account'.id,
         at = "store" => calls'[b].me.id = account'.id /\ account'.id # 0,
         at = "forget" => data' = {},
         \/ \A d \in Tab \ {b} : ~ OnData(calls[d])
         \/ account'.id = account.id /\ data' = data
  PROVE  DataKept'
<1>1. /\ \A d \in Tab \ {b} : calls'[d] = calls[d]
      /\ raced = {} /\ calls'[b].at = at
      /\ OnData(calls'[b]) => \A d \in Tab \ {b} : ~ OnData(calls[d])
  BY Others DEF Turns
<1>2. ASSUME NEW d \in Tab
      PROVE  /\ calls'[d].at = "store" => calls'[d].me.id = account'.id /\ account'.id # 0
             /\ calls'[d].at = "forget" => data' = {}
             /\ OnData(calls'[d]) => \A e \in Tab \ {d} : ~ OnData(calls'[e])
  <2>1. CASE d = b
    BY <1>1, <2>1
  <2>2. CASE d # b
    <3>1. calls'[d] = calls[d] /\ Fits(calls[d])
      BY <1>1, <2>2 DEF Shape
    <3>2. calls[d].at \in {"store", "forget"} => OnData(calls[d])
      BY <3>1 DEF Fits, StepsOf, Call, OnData
    <3>3. OnData(calls[d]) => ~ OnData(calls'[b])
      BY <1>1, <2>2
    <3>4. CASE \A e \in Tab \ {b} : ~ OnData(calls[e])
      BY <2>2, <3>1, <3>2, <3>4
    <3>5. CASE account'.id = account.id /\ data' = data
      BY <1>1, <2>2, <3>1, <3>3, <3>5 DEF DataKept
    <3>6. QED
      BY <3>4, <3>5
  <2>3. QED
    BY <2>1, <2>2
<1>3. QED
  BY <1>2 DEF DataKept

\* Every step keeps the data that of the account there is.
LEMMA DataStep == Shape /\ AccountKept /\ DataKept /\ [AccountsNext]_requestVars => DataKept'
<1> SUFFICES ASSUME Shape, AccountKept, DataKept, [AccountsNext]_requestVars, raced' = {}
             PROVE  DataKept'
  BY DEF DataKept
<1>1. ASSUME NEW b \in Tab, NEW at, NEW what, Turns(b, at, what)
      PROVE  raced = {}
  BY <1>1, Others DEF Turns
\* The step leaves the data and the account's identity alone.
<1>2. ASSUME NEW b \in Tab, NEW at, NEW what, Turns(b, at, what),
             account'.id = account.id, data' = data, at \notin {"store", "forget"}
      PROVE  DataKept'
  <2>1. \A i \in data' : i = account'.id
    BY <1>1, <1>2 DEF DataKept
  <2>2. QED
    BY <1>2, <2>1, DataFrame
<1>3. ASSUME NEW b \in Tab, NEW p \in Password,
             BeginSignUp(b, p) \/ BeginSignIn(b, p) \/ BeginDeleteAccount(b, p)
      PROVE  DataKept'
  BY <1>2, <1>3, SigningUp, SigningIn, Leaving
  DEF BeginSignUp, BeginSignIn, BeginDeleteAccount
<1>4. ASSUME NEW b \in Tab, NEW p \in Password, NEW q \in Password,
             BeginPassword(b, p, q)
      PROVE  DataKept'
  BY <1>2, <1>4, ChangingPassword DEF BeginPassword
<1>5. ASSUME NEW b \in Tab,
             \/ Verify(b) \/ Count(b) \/ ClearThrottle(b) \/ Start(b)
             \/ BeginEverywhere(b) \/ Check(b) \/ ListSessions(b) \/ EndOne(b)
      PROVE  DataKept'
  <2>1. account' = account /\ data' = data
    BY <1>5 DEF Verify, Count, ClearThrottle, Start, BeginEverywhere, Check,
                ListSessions, EndOne
  <2>2. PICK at, what : Turns(b, at, what) /\ at \notin {"store", "forget"}
    BY <1>5, SigningIn, SigningUp, ChangingPassword, Ending
  <2>3. QED
    BY <1>2, <2>1, <2>2
<1>6. ASSUME NEW b \in Tab, Ended(b)
      PROVE  DataKept'
  <2>1. account' = account /\ data' = data
    BY <1>6, Zenon DEF Ended
  <2>2. QED
    BY <1>2, <1>6, <2>1, Ending
<1>7. ASSUME NEW b \in Tab, CreateAccount(b)
      PROVE  DataKept'
  <2>1. /\ Turns(b, "start", "signup") /\ calls[b].at = "create" /\ data' = data
        /\ Fits(calls[b])
    BY <1>7, SigningUp DEF CreateAccount, Shape
  <2>2. OnAccount(calls[b]) /\ raced = {}
    BY <1>1, <2>1 DEF OnAccount, Fits, StepsOf, Call
  <2>3. account.id = 0 /\ \A d \in Tab \ {b} : ~ OnAccount(calls[d])
    BY <2>1, <2>2, Reliable DEF WorksOn
  <2>4. data = {}
    BY <2>2, <2>3, AccountsAssumption DEF DataKept, Shape, AccountsTypeOK
  <2>5. ASSUME NEW d \in Tab \ {b}
        PROVE  ~ OnData(calls[d])
    <3>1. Fits(calls[d])
      BY DEF Shape
    <3>2. calls[d].what = "delete" => OnAccount(calls[d])
      BY <3>1 DEF Fits, StepsOf, Call, OnAccount
    <3>3. calls[d].what = "data" => calls[d].at = "store"
      BY <3>1 DEF Fits, StepsOf
    <3>4. QED
      BY <2>2, <2>3, <3>2, <3>3 DEF DataKept, OnData
  <2>6. QED
    BY <2>1, <2>4, <2>5, DataFrame
<1>8. ASSUME NEW b \in Tab, SavePassword(b)
      PROVE  DataKept'
  <2>1. /\ Turns(b, "list", "password") /\ calls[b].at = "save" /\ data' = data
        /\ Fits(calls[b]) /\ account' = calls[b].me
    BY <1>8, ChangingPassword DEF SavePassword, Shape
  <2>2. OnAccount(calls[b]) /\ raced = {}
    BY <1>1, <2>1 DEF OnAccount, Fits, StepsOf, Call
  <2>3. account'.id = account.id
    BY <2>1, <2>2, Reliable DEF WorksOn
  <2>4. QED
    BY <1>2, <2>1, <2>3
<1>9. ASSUME NEW b \in Tab, EraseData(b)
      PROVE  DataKept'
  <2>1. /\ Turns(b, "forget", "delete") /\ calls[b].at = "erase" /\ Fits(calls[b])
        /\ account' = account /\ data' = data \ {calls[b].me.id}
    BY <1>9, Leaving DEF EraseData, Erased, Shape
  <2>2. OnAccount(calls[b]) /\ OnData(calls[b]) /\ raced = {}
    BY <1>1, <2>1 DEF OnAccount, OnData, Fits, StepsOf, Call
  <2>3. calls[b].me = account
    BY <2>1, <2>2, Reliable DEF WorksOn
  <2>4. data' = {} /\ \A d \in Tab \ {b} : ~ OnData(calls[d])
    BY <2>1, <2>2, <2>3 DEF DataKept
  <2>5. QED
    BY <2>1, <2>4, DataFrame
<1>10. ASSUME NEW b \in Tab, ForgetAccount(b)
       PROVE  DataKept'
  <2>1. /\ Turns(b, "idle", "none") /\ calls[b].at = "forget" /\ Fits(calls[b])
        /\ data' = data
    BY <1>10, Leaving DEF ForgetAccount, Shape
  <2>2. OnData(calls[b]) /\ raced = {}
    BY <1>1, <2>1 DEF OnData, Fits, StepsOf, Call
  <2>3. data = {} /\ \A d \in Tab \ {b} : ~ OnData(calls[d])
    BY <2>1, <2>2 DEF DataKept
  <2>4. QED
    BY <2>1, <2>3, DataFrame
<1>11. ASSUME NEW b \in Tab, BeginStore(b)
       PROVE  DataKept'
  <2>1. /\ Turns(b, "store", "data") /\ calls'[b].me = account
        /\ account' = account /\ data' = data /\ account.id # 0
    BY <1>11, Leaving DEF BeginStore, Authorised, Live
  <2>2. \A i \in data' : i = account'.id
    BY <1>1, <2>1 DEF DataKept
  <2>3. QED
    BY <2>1, <2>2, DataFrame
<1>12. ASSUME NEW b \in Tab, StoreData(b)
       PROVE  DataKept'
  <2>1. /\ Turns(b, "idle", "none") /\ calls[b].at = "store" /\ Fits(calls[b])
        /\ account' = account /\ data' = data \cup {calls[b].me.id}
    BY <1>12, Leaving DEF StoreData, Shape
  <2>2. OnData(calls[b]) /\ raced = {}
    BY <1>1, <2>1 DEF OnData, Fits, StepsOf, Call
  <2>3. /\ \A i \in data' : i = account'.id
        /\ \A d \in Tab \ {b} : ~ OnData(calls[d])
    BY <2>1, <2>2 DEF DataKept
  <2>4. QED
    BY <2>1, <2>3, DataFrame
<1>13. ASSUME NEW b \in Tab, CallFails(b)
       PROVE  DataKept'
  <2>1. /\ calls' = [calls EXCEPT ![b] = NoCall] /\ raced = {}
        /\ account' = account /\ data' = data
    BY <1>13 DEF CallFails
  <2>2. \A d \in Tab : calls'[d] = IF d = b THEN NoCall ELSE calls[d]
    BY <2>1 DEF Shape, AccountsTypeOK
  <2>3. ~ OnData(NoCall) /\ NoCall.at \notin {"store", "forget"}
    BY Empties DEF OnData
  <2>4. QED
    BY <2>1, <2>2, <2>3 DEF DataKept
<1>14. CASE ThrottleEnds \/ UNCHANGED requestVars \/ \E b \in Tab : SignOut(b)
  BY <1>14 DEF ThrottleEnds, requestVars, accountVars, SignOut, DataKept
<1>15. QED
  BY <1>3, <1>4, <1>5, <1>6, <1>7, <1>8, <1>9, <1>10, <1>11, <1>12, <1>13, <1>14
  DEF AccountsNext, AccountRequest

-----------------------------------------------------------------------------
(* Failed sign-ins.                                                        *)

\* Every step keeps a count of failures below the limit.
LEMMA BelowStep == Shape /\ BelowLimit /\ [AccountsNext]_requestVars => BelowLimit'
<1> SUFFICES ASSUME Shape, BelowLimit, [AccountsNext]_requestVars PROVE BelowLimit'
  OBVIOUS
<1>1. NoThrottle.fails < LOCK_AFTER /\ NoCall.seen = NoThrottle
  BY Empties, AccountsAssumption
<1>2. ASSUME NEW b \in Tab, NEW at, NEW what, Turns(b, at, what),
             throttle'.fails < LOCK_AFTER
      PROVE  BelowLimit'
  BY <1>1, <1>2, Others DEF BelowLimit, Turns
<1>3. ASSUME NEW b \in Tab, Count(b)
      PROVE  BelowLimit'
  <2>1. Counted(calls[b].seen).fails < LOCK_AFTER
    <3>1. calls[b].seen \in Throttle
      BY DEF Shape, AccountsTypeOK, Call
    <3>2. QED
      BY <3>1, AccountsAssumption DEF Counted, Throttle
  <2>2. Turns(b, "idle", "none") /\ throttle' = Counted(calls[b].seen)
    BY <1>3, SigningIn DEF Count
  <2>3. QED
    BY <1>2, <2>1, <2>2
<1>4. ASSUME NEW b \in Tab, ClearThrottle(b)
      PROVE  BelowLimit'
  BY <1>1, <1>2, <1>4, SigningIn DEF ClearThrottle
<1>5. ASSUME NEW b \in Tab, NEW p \in Password,
             BeginSignUp(b, p) \/ BeginSignIn(b, p) \/ BeginDeleteAccount(b, p)
      PROVE  BelowLimit'
  BY <1>2, <1>5, SigningUp, SigningIn, Leaving
  DEF BeginSignUp, BeginSignIn, BeginDeleteAccount, BelowLimit
<1>6. ASSUME NEW b \in Tab, NEW p \in Password, NEW q \in Password,
             BeginPassword(b, p, q)
      PROVE  BelowLimit'
  BY <1>2, <1>6, ChangingPassword DEF BeginPassword, BelowLimit
<1>7. ASSUME NEW b \in Tab,
             \/ CreateAccount(b) \/ Verify(b) \/ Start(b) \/ BeginEverywhere(b)
             \/ Check(b) \/ SavePassword(b) \/ ListSessions(b) \/ EndOne(b)
             \/ EraseData(b) \/ ForgetAccount(b) \/ BeginStore(b) \/ StoreData(b)
      PROVE  BelowLimit'
  <2>1. throttle' = throttle
    BY <1>7 DEF CreateAccount, Verify, Start, BeginEverywhere, Check, SavePassword,
                ListSessions, EndOne, EraseData, ForgetAccount, BeginStore, StoreData
  <2>2. PICK at, what : Turns(b, at, what)
    BY <1>7, SigningUp, SigningIn, ChangingPassword, Ending, Leaving
  <2>3. QED
    BY <1>2, <2>1, <2>2 DEF BelowLimit
<1>8. ASSUME NEW b \in Tab, Ended(b)
      PROVE  BelowLimit'
  <2>1. throttle' = throttle
    BY <1>8, Zenon DEF Ended
  <2>2. QED
    BY <1>2, <1>8, <2>1, Ending DEF BelowLimit
<1>9. ASSUME NEW b \in Tab, CallFails(b)
      PROVE  BelowLimit'
  BY <1>1, <1>9 DEF CallFails, BelowLimit, Shape, AccountsTypeOK
<1>10. CASE ThrottleEnds \/ UNCHANGED requestVars \/ \E b \in Tab : SignOut(b)
  BY <1>1, <1>10 DEF ThrottleEnds, requestVars, accountVars, SignOut, BelowLimit
<1>11. QED
  BY <1>3, <1>4, <1>5, <1>6, <1>7, <1>8, <1>9, <1>10 DEF AccountsNext, AccountRequest

\* At most one request checks a password or counts a failure.
LEMMA AloneFrame ==
  ASSUME Shape, ThrottleKept, NEW b \in Tab, NEW at, NEW what, Turns(b, at, what),
         "throttle" \notin raced'
  PROVE  /\ "throttle" \notin raced
         /\ calls'[b].at = at /\ \A d \in Tab \ {b} : calls'[d] = calls[d]
         /\ OnThrottle(calls[b]) \/ at \in {"verify", "check", "count"} =>
              \A d \in Tab \ {b} : calls[d].at \notin {"verify", "check", "count"}
         /\ \A d \in Tab : OnThrottle(calls'[d]) =>
              \A e \in Tab \ {d} : ~ OnThrottle(calls'[e])
<1>1. /\ "throttle" \notin raced
      /\ calls'[b].at = at /\ \A d \in Tab \ {b} : calls'[d] = calls[d]
      /\ OnThrottle(calls'[b]) => \A d \in Tab \ {b} : ~ OnThrottle(calls[d])
  BY Others DEF Turns
<1>2. \A d \in Tab : OnThrottle(calls[d]) =>
        \A e \in Tab \ {d} : ~ OnThrottle(calls[e])
  BY <1>1 DEF ThrottleKept
<1>3. \A d \in Tab : OnThrottle(calls'[d]) =>
        \A e \in Tab \ {d} : ~ OnThrottle(calls'[e])
  BY <1>1, <1>2
<1>4. OnThrottle(calls[b]) \/ at \in {"verify", "check", "count"} =>
        \A d \in Tab \ {b} : calls[d].at \notin {"verify", "check", "count"}
  BY <1>1, <1>2 DEF OnThrottle
<1>5. QED
  BY <1>1, <1>3, <1>4

\* Every step keeps the count true to the guesses made.
LEMMA ThrottleStep ==
  Shape /\ BelowLimit /\ ThrottleKept /\ [AccountsNext]_requestVars => ThrottleKept'
<1> SUFFICES ASSUME Shape, BelowLimit, ThrottleKept, [AccountsNext]_requestVars,
                    "throttle" \notin raced'
             PROVE  ThrottleKept'
  BY DEF ThrottleKept
<1>0. guesses \in Nat /\ throttle.fails \in Nat
  BY DEF Shape, AccountsTypeOK, Throttle
\* The step leaves the throttle and what is counted alone.
<1>1. ASSUME NEW b \in Tab, NEW at, NEW what, Turns(b, at, what),
             UNCHANGED <<throttle, guesses>>, calls[b].at # "count", at # "count",
             at = "verify" => ~ throttle.locked
      PROVE  ThrottleKept'
  BY <1>1, AloneFrame DEF ThrottleKept, Accounted
\* A wrong password is about to be counted.
<1>2. ASSUME NEW b \in Tab, NEW what, Turns(b, "count", what),
             calls'[b].seen = throttle, throttle' = throttle,
             \/ calls[b].at = "check" /\ guesses' = guesses
             \/ calls[b].at = "verify" /\ guesses' = guesses + 1
      PROVE  ThrottleKept'
  <2>1. /\ "throttle" \notin raced
        /\ calls'[b].at = "count" /\ \A d \in Tab \ {b} : calls'[d] = calls[d]
        /\ \A d \in Tab \ {b} : calls[d].at \notin {"verify", "check", "count"}
        /\ \A d \in Tab : OnThrottle(calls'[d]) =>
             \A e \in Tab \ {d} : ~ OnThrottle(calls'[e])
    BY <1>2, AloneFrame
  <2>2. Accounted(throttle) /\ (calls[b].at = "verify" => ~ throttle.locked)
    BY <1>2, <2>1 DEF ThrottleKept
  <2>3. guesses' <= LOCK_AFTER /\ (throttle.locked \/ guesses' <= throttle.fails + 1)
    BY <1>0, <1>2, <2>2, AccountsAssumption DEF BelowLimit, Accounted
  <2>4. QED
    BY <1>2, <2>1, <2>3 DEF ThrottleKept
\* The throttle lets go.
<1>3. ASSUME throttle' = NoThrottle, guesses' = 0,
             \A d \in Tab : OnThrottle(calls'[d]) =>
               \A e \in Tab \ {d} : ~ OnThrottle(calls'[e]),
             \A d \in Tab : calls'[d].seen.fails \in Nat
      PROVE  ThrottleKept'
  BY <1>3, Empties, AccountsAssumption DEF ThrottleKept, Accounted
<1>4. Shape'
  BY ShapeStep
<1>5. \A d \in Tab : calls'[d].seen.fails \in Nat
  BY <1>4 DEF Shape, AccountsTypeOK, Call, Throttle
<1>6. ASSUME NEW b \in Tab, NEW p \in Password,
             BeginSignUp(b, p) \/ BeginSignIn(b, p) \/ BeginDeleteAccount(b, p)
      PROVE  ThrottleKept'
  <2>1. /\ UNCHANGED <<throttle, guesses>> /\ calls[b].at = "idle"
        /\ BeginSignIn(b, p) => ~ throttle.locked
    BY <1>6 DEF BeginSignUp, BeginSignIn, BeginDeleteAccount, Authorised, AtRest
  <2>2. QED
    BY <1>1, <1>6, <2>1, SigningUp, SigningIn, Leaving
<1>7. ASSUME NEW b \in Tab, NEW p \in Password, NEW q \in Password,
             BeginPassword(b, p, q)
      PROVE  ThrottleKept'
  BY <1>1, <1>7, ChangingPassword DEF BeginPassword, Authorised, AtRest
<1>8. ASSUME NEW b \in Tab,
             \/ CreateAccount(b) \/ Start(b) \/ BeginEverywhere(b)
             \/ SavePassword(b) \/ ListSessions(b) \/ EndOne(b)
             \/ EraseData(b) \/ ForgetAccount(b) \/ BeginStore(b) \/ StoreData(b)
      PROVE  ThrottleKept'
  <2>1. UNCHANGED <<throttle, guesses>> /\ calls[b].at # "count"
    BY <1>8 DEF CreateAccount, Start, BeginEverywhere, SavePassword, ListSessions,
                EndOne, EraseData, ForgetAccount, BeginStore, StoreData, Authorised,
                AtRest
  <2>2. PICK at, what : Turns(b, at, what) /\ at \notin {"count", "verify"}
    BY <1>8, SigningUp, ChangingPassword, Ending, Leaving
  <2>3. QED
    BY <1>1, <2>1, <2>2
<1>9. ASSUME NEW b \in Tab, Ended(b)
      PROVE  ThrottleKept'
  <2>1. throttle' = throttle /\ guesses' = guesses /\ calls[b].at = "end"
    BY <1>9, Zenon DEF Ended
  <2>2. QED
    BY <1>1, <1>9, <2>1, Ending
<1>10. ASSUME NEW b \in Tab, Verify(b)
       PROVE  ThrottleKept'
  <2>1. calls[b].at = "verify" /\ throttle' = throttle
    BY <1>10 DEF Verify
  <2>2. QED
    BY <1>1, <1>2, <1>10, <2>1, SigningIn
<1>11. ASSUME NEW b \in Tab, Check(b)
       PROVE  ThrottleKept'
  <2>1. calls[b].at = "check" /\ throttle' = throttle /\ guesses' = guesses
    BY <1>11 DEF Check
  <2>2. QED
    BY <1>1, <1>2, <1>11, <2>1, ChangingPassword
<1>12. ASSUME NEW b \in Tab, Count(b)
       PROVE  ThrottleKept'
  <2> DEFINE seen == calls[b].seen
  <2>1. /\ Turns(b, "idle", "none") /\ calls[b].at = "count"
        /\ throttle' = Counted(seen) /\ guesses' = guesses
    BY <1>12, SigningIn DEF Count
  <2>2. OnThrottle(calls[b])
    BY <2>1 DEF OnThrottle
  <2>3. /\ "throttle" \notin raced
        /\ calls'[b].at = "idle" /\ \A d \in Tab \ {b} : calls'[d] = calls[d]
        /\ \A d \in Tab \ {b} : calls[d].at \notin {"verify", "check", "count"}
        /\ \A d \in Tab : OnThrottle(calls'[d]) =>
             \A e \in Tab \ {d} : ~ OnThrottle(calls'[e])
    BY <2>1, <2>2, AloneFrame
  <2>4. guesses <= LOCK_AFTER /\ (seen.locked \/ guesses <= seen.fails + 1)
    BY <2>1, <2>3 DEF ThrottleKept
  <2>5. seen \in Throttle
    BY DEF Shape, AccountsTypeOK, Call
  <2> HIDE DEF seen
  <2>6. Accounted(throttle)'
    <3>1. CASE seen.fails + 1 >= LOCK_AFTER
      <4>1. throttle'.locked = TRUE
        BY <2>1, <3>1 DEF Counted
      <4>2. QED
        BY <2>1, <2>4, <4>1 DEF Accounted
    <3>2. CASE ~ (seen.fails + 1 >= LOCK_AFTER)
      <4>1. throttle'.fails = seen.fails + 1 /\ throttle'.locked = seen.locked
        BY <2>1, <2>5, <3>2 DEF Counted, Throttle
      <4>2. QED
        BY <2>1, <2>4, <4>1 DEF Accounted
    <3>3. QED
      BY <3>1, <3>2
  <2>7. QED
    BY <2>3, <2>6 DEF ThrottleKept
<1>13. ASSUME NEW b \in Tab, ClearThrottle(b)
       PROVE  ThrottleKept'
  <2>1. /\ Turns(b, "start", "signin") /\ throttle' = NoThrottle /\ guesses' = 0
    BY <1>13, SigningIn DEF ClearThrottle
  <2>2. QED
    BY <1>3, <1>5, <2>1, AloneFrame
<1>14. CASE ThrottleEnds
  <2>1. /\ throttle' = NoThrottle /\ guesses' = 0 /\ UNCHANGED <<calls, raced>>
    BY <1>14 DEF ThrottleEnds
  <2>2. QED
    BY <1>3, <1>5, <2>1 DEF ThrottleKept
<1>15. ASSUME NEW b \in Tab, CallFails(b)
       PROVE  ThrottleKept'
  <2>1. /\ calls' = [calls EXCEPT ![b] = NoCall] /\ "throttle" \notin raced
        /\ ~ OnThrottle(calls[b]) /\ UNCHANGED <<throttle, guesses>>
    BY <1>15, TopicsAre DEF CallFails, Shape
  <2>2. \A d \in Tab : calls'[d] = IF d = b THEN NoCall ELSE calls[d]
    BY <2>1 DEF Shape, AccountsTypeOK
  <2>3. NoCall.at \notin {"verify", "check", "count"}
    BY Empties
  <2>4. \A d \in Tab : OnThrottle(calls'[d]) =>
          \A e \in Tab \ {d} : ~ OnThrottle(calls'[e])
    BY <2>1, <2>2, <2>3 DEF ThrottleKept, OnThrottle
  <2>5. QED
    BY <2>1, <2>2, <2>3, <2>4 DEF ThrottleKept, OnThrottle, Accounted
<1>16. CASE UNCHANGED requestVars \/ \E b \in Tab : SignOut(b)
  BY <1>16 DEF requestVars, accountVars, SignOut, ThrottleKept, Accounted
<1>17. QED
  BY <1>6, <1>7, <1>8, <1>9, <1>10, <1>11, <1>12, <1>13, <1>14, <1>15, <1>16
  DEF AccountsNext, AccountRequest

-----------------------------------------------------------------------------
(* The theorems.                                                           *)

\* So the inductive invariant holds always.
LEMMA AccountsInvariant ==
  AccountsSpec => [](Shape /\ AccountKept /\ DataKept /\ BelowLimit /\ ThrottleKept)
<1>1. AccountsInit => Shape /\ AccountKept /\ DataKept /\ BelowLimit /\ ThrottleKept
  <2> SUFFICES ASSUME AccountsInit
               PROVE  AccountKept /\ DataKept /\ BelowLimit /\ ThrottleKept
    BY ShapeInit
  <2>1. /\ account.id = 0 /\ data = {} /\ throttle = NoThrottle /\ guesses = 0
        /\ \A s \in 1..MaxSessions : sessions[s] = 0
        /\ \A b \in Tab : calls[b] = NoCall
    BY Empties DEF AccountsInit
  <2>2. \A b \in Tab :
          /\ calls[b].at = "idle" /\ calls[b].what = "none"
          /\ calls[b].seen = NoThrottle
    BY <2>1, Empties
  <2>3. AccountKept
    BY <2>1, <2>2 DEF AccountKept, SessionsKept, OnAccount
  <2>4. DataKept
    BY <2>1, <2>2 DEF DataKept, OnData
  <2>5. BelowLimit
    BY <2>1, <2>2, Empties, AccountsAssumption DEF BelowLimit
  <2>6. ThrottleKept
    BY <2>1, <2>2, Empties, AccountsAssumption
    DEF ThrottleKept, Accounted, OnThrottle
  <2>7. QED
    BY <2>3, <2>4, <2>5, <2>6
<1>2. Shape /\ AccountKept /\ DataKept /\ BelowLimit /\ ThrottleKept /\ [AccountsNext]_requestVars
        => (Shape /\ AccountKept /\ DataKept /\ BelowLimit /\ ThrottleKept)'
  BY ShapeStep, AccountStep, DataStep, BelowStep, ThrottleStep
<1>3. QED
  BY <1>1, <1>2, PTL DEF AccountsSpec

\* The state keeps its types whatever requests overlap or fail.
THEOREM AccountTypes == AccountsSpec => []AccountsTypeOK
BY AccountsInvariant, PTL DEF Shape

\* No session outlives its password and neither session nor data their account,
\* unless requests on them overlapped or were cut short (auth.ts:103-105,
\* 234-238).
THEOREM NothingIsLeft == AccountsSpec => []NothingOutlives
<1>1. Shape /\ AccountKept => OnlyTodaysPassword
  BY DEF AccountKept, SessionsKept, OnlyTodaysPassword, Live
<1>2. Shape /\ AccountKept /\ DataKept => DeletedAccountLeavesNothing
  <2> SUFFICES ASSUME Shape, AccountKept, DataKept, raced = {}, account.id = 0
               PROVE  data = {} /\ \A s \in 1..MaxSessions : sessions[s] = 0
    BY DEF DeletedAccountLeavesNothing
  <2>1. data = {}
    BY AccountsAssumption DEF DataKept, Shape, AccountsTypeOK
  <2>2. QED
    BY <2>1 DEF AccountKept, SessionsKept
<1>3. QED
  BY <1>1, <1>2, AccountsInvariant, PTL DEF NothingOutlives

\* The throttle locks an address in time, unless two attempts on it overlapped or
\* one was cut short (auth.ts:159-164).
THEOREM LockInTime == AccountsSpec => []LockHolds
<1>1. Shape /\ BelowLimit /\ ThrottleKept => LockHolds
  <2> SUFFICES ASSUME Shape, BelowLimit, ThrottleKept, "throttle" \notin raced
               PROVE  /\ guesses <= LOCK_AFTER
                      /\ guesses = LOCK_AFTER /\ (\A b \in Tab : calls[b].at # "count")
                           => throttle.locked
    BY DEF LockHolds
  <2>1. CASE \A b \in Tab : calls[b].at # "count"
    <3>1. Accounted(throttle)
      BY <2>1 DEF ThrottleKept
    <3>2. throttle.fails < LOCK_AFTER /\ throttle.fails \in Nat
      BY DEF BelowLimit, Shape, AccountsTypeOK, Throttle
    <3>3. guesses = LOCK_AFTER => throttle.locked
      BY <3>1, <3>2, AccountsAssumption DEF Accounted
    <3>4. QED
      BY <3>1, <3>3 DEF Accounted
  <2>2. CASE \E b \in Tab : calls[b].at = "count"
    BY <2>2 DEF ThrottleKept
  <2>3. QED
    BY <2>1, <2>2
<1>2. QED
  BY <1>1, AccountsInvariant, PTL

-----------------------------------------------------------------------------
(* The account's data in the browsers.  While one page is open at a time   *)
(* its calls are in turn, and the invariant follows, entry by entry, where *)
(* its last edit is; a step that lets a copy win puts the entries in doubt.*)

\* The entries of which nothing is promised.
Doubtful == excused \cup setBack \cup overtaken \cup leftOver

\* A browser holds an entry for newer than what it last saved or loaded.
Apart(b, e) == local[b][e] # baseline[b][e]

\* The last edit of an entry was made in another browser, now closed, and not saved.
Elsewhere(b, e) ==
  \E c \in Browser \ {b} : page[c] = "closed" /\ local[c][e] = newest[e] /\ Apart(c, e)

\* The types the invariant needs.
SyncTyped ==
  /\ server \in Content /\ newest \in Content
  /\ local \in [Browser -> Content]
  /\ baseline \in [Browser -> Content \cup {NoBaseline}]
  /\ page \in [Browser -> {"closed", "open", "leaving"}]
  /\ lastSaved \in [Browser -> Content]
  /\ saves \in [Browser -> Seq(Save)]
  /\ saving \in [Browser -> Nat]
  /\ stray \subseteq Content
  /\ unheard \in [Browser -> SUBSET Entry]

\* One page is open at a time, and none while a save of a closed page is on its
\* way: opening in any other case puts every entry in doubt.
OnePage ==
  /\ \A b, c \in Browser : page[b] # "closed" /\ page[c] # "closed" => b = c
  /\ stray # {} => \A b \in Browser : page[b] = "closed"

\* The first call of a page is under way, and the others wait for it.
InTurn(b) ==
  /\ saving[b] = IF Len(saves[b]) = 0 THEN 0 ELSE 1
  /\ \A i \in 1..Len(saves[b]) : saves[b][i].at = "waiting" <=> i # 1

\* A save that has arrived and is not answered is what the account has, and a
\* browser that has neither saved nor loaded holds nothing.
Calls(b) ==
  /\ InTurn(b)
  /\ page[b] = "closed" => Len(saves[b]) = 0
  /\ \A i \in 1..Len(saves[b]) : saves[b][i].at = "stored" => server = saves[b][i].data
  /\ baseline[b] = NoBaseline => page[b] = "closed" /\ local[b] = Empty

\* A page takes for saved what its baseline is of, and the account has that, but
\* for entries stored without its hearing so.
Based(b) ==
  page[b] # "closed" =>
    /\ lastSaved[b] = baseline[b]
    /\ \A e \in Entry :
         server[e] # baseline[b][e] =>
           e \in unheard[b] \/ \E i \in 1..Len(saves[b]) : saves[b][i].at = "stored"

\* Where the last edit of an entry is, seen from one browser: what it holds apart
\* from its baseline is the last edit, and so is its text where a save has another.
Tracked(b, e) ==
  /\ baseline[b] # NoBaseline /\ Apart(b, e) => local[b][e] = newest[e]
  /\ \A i \in 1..Len(saves[b]) :
       saves[b][i].data[e] # local[b][e] => local[b][e] = newest[e]
  /\ newest[e] # Absent /\ page[b] # "closed" => local[b][e] = newest[e] \/ Elsewhere(b, e)

\* The last edit of an entry is in the account or pending in a browser, also when
\* the saves still on their way arrive.
Kept(e) ==
  newest[e] # Absent =>
    /\ server[e] = newest[e] \/ \E b \in Browser : local[b][e] = newest[e] /\ Pending(b, e)
    /\ (\A b \in Browser : page[b] = "closed") =>
         \A d \in stray :
           d[e] = newest[e] \/ \E b \in Browser : local[b][e] = newest[e] /\ Apart(b, e)

\* The invariant while some entry is not in doubt.
Synced ==
  /\ SyncTyped /\ OnePage
  /\ \A b \in Browser : Calls(b) /\ Based(b)
  /\ \A e \in Entry \ Doubtful : Kept(e) /\ \A b \in Browser : Tracked(b, e)

\* The inductive invariant: until every entry is in doubt, one page at a time saves
\* in turn, and the last edit of an entry not in doubt can be found.
SyncInv == Doubtful \subseteq Entry /\ (Doubtful # Entry => Synced)

-----------------------------------------------------------------------------
\* What a list of calls is.
LEMMA ListFacts ==
  ASSUME NEW s \in Seq(Save)
  PROVE  /\ Len(s) \in Nat /\ DOMAIN s = 1..Len(s) /\ s \in [1..Len(s) -> Save]
         /\ \A i \in 1..Len(s) : /\ s[i] \in Save /\ s[i].data \in Content
                                 /\ s[i].at \in {"waiting", "sent", "stored"}
         /\ s = <<>> <=> Len(s) = 0
<1>1. Len(s) \in Nat /\ DOMAIN s = 1..Len(s) /\ s \in [1..Len(s) -> Save]
  BY LenProperties
<1>2. s = <<>> <=> Len(s) = 0
  BY <1>1, EmptySeq
<1>3. \A i \in 1..Len(s) : s[i] \in Save
  BY <1>1
<1>. QED  BY <1>1, <1>2, <1>3 DEF Save

\* A step changes the calls of one browser only ...
ListsFrom(b) ==
  /\ saves' \in [Browser -> Seq(Save)] /\ saving' \in [Browser -> Nat]
  /\ \A c \in Browser \ {b} : saves'[c] = saves[c] /\ saving'[c] = saving[c]

\* ... at most appending one, of a copy ...
Lengthened(b, copy) ==
  /\ Len(saves'[b]) \in Nat /\ Len(saves'[b]) >= Len(saves[b])
  /\ \A i \in 1..Len(saves[b]) : saves'[b][i] = saves[b][i]
  /\ \A i \in 1..Len(saves'[b]) :
       i > Len(saves[b]) =>
         i = Len(saves'[b]) /\ saves'[b][i].data = copy /\ saves'[b][i].at # "stored"

\* What saveNow() does to the calls of a page whose calls are in turn.
LEMMA Queued ==
  ASSUME SyncTyped, NEW b \in Browser, InTurn(b), NEW copy \in Content, NEW saved,
         Queue(b, copy, saved)
  PROVE  ListsFrom(b) /\ InTurn(b)' /\ Lengthened(b, copy)
<1> DEFINE at == IF saving[b] = 0 THEN "sent" ELSE "waiting"
           new == [data |-> copy, at |-> at]
           n == Len(saves[b])
<1>1. saves[b] \in Seq(Save) /\ saving[b] \in Nat
  BY DEF SyncTyped
<1>2. n \in Nat
  BY <1>1, ListFacts
<1>3. CASE UNCHANGED <<saves, saving>>
  BY <1>2, <1>3 DEF ListsFrom, Lengthened, InTurn, SyncTyped
<1>4. CASE /\ saves' = [saves EXCEPT ![b] = Append(saves[b], new)]
           /\ saving' = [saving EXCEPT ![b] = IF saving[b] = 0 THEN n + 1 ELSE saving[b]]
  <2>1. new \in Save /\ new.data = copy /\ new.at = at
    BY DEF Save
  <2> HIDE DEF new
  <2>2. /\ Append(saves[b], new) \in Seq(Save) /\ Len(Append(saves[b], new)) = n + 1
        /\ \A i \in 1..n : Append(saves[b], new)[i] = saves[b][i]
        /\ Append(saves[b], new)[n + 1] = new
    BY <1>1, <2>1, AppendProperties
  <2>3. saves'[b] = Append(saves[b], new) /\ saves' \in [Browser -> Seq(Save)]
    BY <1>4, <2>2 DEF SyncTyped
  <2>4. /\ saving'[b] = IF saving[b] = 0 THEN n + 1 ELSE saving[b]
        /\ saving' \in [Browser -> Nat]
    BY <1>2, <1>4 DEF SyncTyped
  <2>5. ListsFrom(b)
    BY <1>4, <2>3, <2>4 DEF ListsFrom, SyncTyped
  <2>6. /\ Len(saves'[b]) = n + 1 /\ \A i \in 1..n : saves'[b][i] = saves[b][i]
        /\ saves'[b][n + 1] = new
    BY <2>2, <2>3
  <2>7. Lengthened(b, copy)
    BY <1>2, <2>1, <2>6 DEF Lengthened
  <2>8. InTurn(b)'
    <3>1. (n = 0 => saving[b] = 0) /\ (n # 0 => saving[b] = 1)
          /\ \A i \in 1..n : saves[b][i].at = "waiting" <=> i # 1
      BY <1>2 DEF InTurn
    <3>2. saving'[b] = 1
      BY <1>2, <2>4, <3>1
    <3>3. at = "waiting" <=> n + 1 # 1
      BY <1>2, <3>1
    <3>4. ASSUME NEW i \in 1..(n + 1)
          PROVE  saves'[b][i].at = "waiting" <=> i # 1
      <4>1. CASE i = n + 1
        BY <2>1, <2>6, <3>3, <4>1
      <4>2. CASE i \in 1..n
        BY <2>6, <3>1, <4>2
      <4>. QED  BY <1>2, <4>1, <4>2
    <3>. QED  BY <1>2, <2>6, <3>2, <3>4 DEF InTurn
  <2>. QED  BY <2>5, <2>7, <2>8
<1>. QED  BY <1>3, <1>4 DEF Queue

\* ... or taking off the first, after which the others are sent.
Shortened(b) ==
  /\ Len(saves'[b]) \in Nat /\ Len(saves[b]) = Len(saves'[b]) + 1
  /\ \A i \in 1..Len(saves'[b]) :
       saves'[b][i].data = saves[b][i + 1].data /\ saves'[b][i].at = "sent"

\* The size of 1..m.
LEMMA IntervalSize ==
  \A m \in Int : m >= 0 => Cardinality(1..m) = m
<1>1. \A m \in Int : Cardinality(1..m) = IF 1 > m THEN 0 ELSE m - 1 + 1
  BY FS_Interval
<1>. QED  BY <1>1

\* What the end of a call does to them: it was the first, and when no more than
\* one is in flight after it they are in turn again.
LEMMA Overed ==
  ASSUME SyncTyped, NEW b \in Browser, InTurn(b), NEW i \in 1..Len(saves[b]),
         saves[b][i].at # "waiting", Over(b, i)
  PROVE  /\ ListsFrom(b) /\ Shortened(b) /\ i = 1
         /\ ~ Cardinality(InFlight(saves'[b])) > 1 => InTurn(b)'
<1> DEFINE n == Len(saves[b])
           rest == RemoveAt(saves[b], i)
           waiting == Waiting(rest)
           sent == [j \in DOMAIN rest |->
                     [rest[j] EXCEPT !.at = IF j \in waiting THEN "sent" ELSE @]]
<1>1. saves[b] \in Seq(Save) /\ saving[b] \in Nat
  BY DEF SyncTyped
<1>2. n \in Nat \ {0} /\ \A j \in 1..n : saves[b][j] \in Save
  BY <1>1, ListFacts
<1>3. i = 1 /\ saving[b] = 1
  BY <1>2 DEF InTurn
<1>4. /\ rest \in Seq(Save) /\ Len(rest) = n - 1
      /\ \A j \in 1..(n - 1) : rest[j] = saves[b][j + 1]
  <2>1. SubSeq(saves[b], 1, 0) = <<>>
    BY SubSeqEmpty
  <2>2. /\ SubSeq(saves[b], 2, n) \in Seq(Save)
        /\ Len(SubSeq(saves[b], 2, n)) = n - 1
        /\ \A j \in 1..(n - 1) : SubSeq(saves[b], 2, n)[j] = saves[b][j + 1]
    <3>1. \A j \in 2..n : saves[b][j] \in Save
      BY <1>2
    <3>2. /\ SubSeq(saves[b], 2, n) \in Seq(Save)
          /\ Len(SubSeq(saves[b], 2, n)) = IF 2 <= n THEN n - 2 + 1 ELSE 0
          /\ \A j \in 1..(n - 2 + 1) : SubSeq(saves[b], 2, n)[j] = saves[b][2 + j - 1]
      BY <1>2, <3>1, SubSeqProperties
    <3>. QED  BY <1>2, <3>2
  <2>3. <<>> \o SubSeq(saves[b], 2, n) = SubSeq(saves[b], 2, n)
    BY <2>2, ConcatEmptySeq
  <2>4. rest = SubSeq(saves[b], 2, n)
    BY <1>3, <2>1, <2>3 DEF RemoveAt
  <2>. QED  BY <2>2, <2>4
<1> HIDE DEF rest
<1>5. DOMAIN rest = 1..(n - 1) /\ \A j \in 1..(n - 1) : rest[j] \in Save
  BY <1>4, ListFacts
<1>6. \A j \in 1..(n - 1) : rest[j].at = "waiting"
  BY <1>2, <1>3, <1>4 DEF InTurn
<1>7. /\ saves' = [saves EXCEPT ![b] = sent]
      /\ saving' = [saving EXCEPT ![b] = IF waiting = {} THEN 0 ELSE Max(waiting)]
  <2>1. InFlight(rest) = {}
    BY <1>5, <1>6 DEF InFlight, Waiting
  <2>. QED  BY <2>1 DEF Over, rest
<1>10. waiting = 1..(n - 1)
  BY <1>5, <1>6 DEF Waiting
<1>8. sent \in [1..(n - 1) -> Save]
      /\ \A j \in 1..(n - 1) : sent[j].data = rest[j].data /\ sent[j].at = "sent"
  BY <1>5, <1>10 DEF Save
<1> HIDE DEF sent
<1>9. sent \in Seq(Save) /\ Len(sent) = n - 1
  <2>1. n - 1 \in Nat
    BY <1>2
  <2>2. sent \in Seq(Save)
    BY <1>8, <2>1, SeqDef
  <2>. QED  BY <1>8, <2>1, <2>2, LenProperties
<1> HIDE DEF waiting
<1>11. waiting # {} => Max(waiting) = n - 1
  BY <1>2, <1>10 DEF Max
<1>12. saves'[b] = sent /\ saves' \in [Browser -> Seq(Save)]
  BY <1>7, <1>9 DEF SyncTyped
<1>13. saving'[b] = n - 1 /\ saving' \in [Browser -> Nat]
  <2>1. saving'[b] = IF waiting = {} THEN 0 ELSE Max(waiting)
    BY <1>7 DEF SyncTyped
  <2>2. saving'[b] = n - 1
    <3>1. CASE n = 1
      <4>1. n - 1 = 0 /\ 1..0 = {}
        BY <3>1
      <4>2. waiting = {}
        BY <1>10, <4>1, Zenon
      <4>. QED  BY <2>1, <3>1, <4>2
    <3>2. CASE n # 1
      <4>0. n \in Nat /\ n # 0
        BY <1>2
      <4>1. 1 \in waiting
        <5>1. \A m \in Nat : m # 0 /\ m # 1 => 1 \in 1..(m - 1)
          OBVIOUS
        <5>2. 1 \in 1..(n - 1)
          BY <3>2, <4>0, <5>1, Zenon
        <5>. QED  BY <1>10, <5>2, Zenon
      <4>2. waiting # {}
        BY <4>1
      <4>. QED  BY <1>11, <2>1, <4>2
    <3>. QED  BY <3>1, <3>2
  <2>. QED  BY <1>2, <1>7, <2>1, <2>2 DEF SyncTyped
<1>14. ListsFrom(b)
  BY <1>7, <1>12, <1>13 DEF ListsFrom, SyncTyped
<1>15. Shortened(b)
  <2>1. Len(saves'[b]) = n - 1 /\ n - 1 \in Nat
    BY <1>2, <1>9, <1>12
  <2>2. ASSUME NEW j \in 1..(n - 1)
        PROVE  saves'[b][j].data = saves[b][j + 1].data /\ saves'[b][j].at = "sent"
    BY <1>4, <1>8, <1>12
  <2>. QED  BY <1>2, <2>1, <2>2 DEF Shortened
<1>16. ASSUME ~ Cardinality(InFlight(saves'[b])) > 1
       PROVE  InTurn(b)'
  <2>1. InFlight(saves'[b]) = 1..(n - 1)
    BY <1>8, <1>9, <1>12, ListFacts DEF InFlight, Waiting
  <2>2. Cardinality(1..(n - 1)) = n - 1
    BY <1>2, IntervalSize
  <2>3. n - 1 <= 1
    BY <1>2, <1>16, <2>1, <2>2
  <2>. QED  BY <1>2, <1>8, <1>9, <1>12, <1>13, <2>3 DEF InTurn
<1>. QED  BY <1>3, <1>14, <1>15, <1>16

-----------------------------------------------------------------------------
\* The types, browser by browser, and the empty copy.
LEMMA TypesAre ==
  ASSUME SyncTyped
  PROVE  /\ \A b \in Browser :
              /\ local[b] \in Content /\ Len(saves[b]) \in Nat
              /\ saves[b] \in Seq(Save)
              /\ \A i \in 1..Len(saves[b]) :
                   /\ saves[b][i].data \in Content
                   /\ saves[b][i].at \in {"waiting", "sent", "stored"}
         /\ NoBaseline \notin Content
         /\ Empty \in Content /\ \A e \in Entry : Empty[e] = Absent
<1>1. ASSUME NEW b \in Browser
      PROVE  /\ local[b] \in Content /\ Len(saves[b]) \in Nat
             /\ saves[b] \in Seq(Save)
             /\ \A i \in 1..Len(saves[b]) :
                  /\ saves[b][i].data \in Content
                  /\ saves[b][i].at \in {"waiting", "sent", "stored"}
  <2>1. saves[b] \in Seq(Save) /\ local[b] \in Content
    BY DEF SyncTyped
  <2>. QED  BY <2>1, ListFacts
<1>2. NoBaseline \notin Content /\ Empty \in Content /\ \A e \in Entry : Empty[e] = Absent
  BY SyncAssumption DEF Empty, Content
<1>. QED  BY <1>1, <1>2

\* A browser a step leaves alone.
Still(c) ==
  /\ saves'[c] = saves[c] /\ saving'[c] = saving[c]
  /\ local'[c] = local[c] /\ baseline'[c] = baseline[c]
  /\ page'[c] = "closed" <=> page[c] = "closed"

\* Its calls stay as they are ...
LEMMA StillCalls ==
  ASSUME NEW c \in Browser, Calls(c), Still(c), Len(saves[c]) = 0 \/ server' = server
  PROVE  Calls(c)'
<1>1. InTurn(c)'
  BY DEF InTurn, Still, Calls
<1>2. \A i \in 1..Len(saves'[c]) : saves'[c][i].at = "stored" => server' = saves'[c][i].data
  <2>1. CASE server' = server
    BY <2>1 DEF Still, Calls
  <2>2. CASE Len(saves[c]) = 0
    <3>1. \A i \in 1..0 : FALSE
      OBVIOUS
    <3>. QED  BY <2>2, <3>1 DEF Still
  <2>. QED  BY <2>1, <2>2
<1>. QED  BY <1>1, <1>2 DEF Still, Calls

\* ... and so does where the last edit is, seen from it.
LEMMA StillTracked ==
  ASSUME NEW c \in Browser, NEW e, Tracked(c, e), Still(c),
         newest'[e] = newest[e],
         page[c] # "closed" /\ Elsewhere(c, e) => Elsewhere(c, e)'
  PROVE  Tracked(c, e)'
<1>1. baseline'[c] # NoBaseline /\ Apart(c, e)' => local'[c][e] = newest'[e]
  BY DEF Tracked, Still, Apart
<1>2. \A i \in 1..Len(saves'[c]) :
        saves'[c][i].data[e] # local'[c][e] => local'[c][e] = newest'[e]
  BY DEF Tracked, Still
<1>3. ASSUME newest[e] # Absent, page[c] # "closed"
      PROVE  local'[c][e] = newest'[e] \/ Elsewhere(c, e)'
  BY <1>3 DEF Tracked, Still
<1>4. newest'[e] = newest[e] /\ (page'[c] = "closed" <=> page[c] = "closed")
  BY DEF Still
<1>. QED  BY <1>1, <1>2, <1>3, <1>4 DEF Tracked

\* The timer and the save before signing out.
LEMMA QueueKeeps ==
  ASSUME Synced, NEW b \in Browser, page[b] # "closed",
         page' \in [Browser -> {"closed", "open", "leaving"}],
         page'[b] # "closed", \A c \in Browser \ {b} : page'[c] = page[c],
         NEW saved, Queue(b, local[b], saved),
         UNCHANGED <<server, local, baseline, lastSaved, stray, newest, unheard, excuses>>
  PROVE  Synced'
<1>1. SyncTyped /\ OnePage /\ (\A c \in Browser : Calls(c) /\ Based(c))
      /\ (\A e \in Entry \ Doubtful : Kept(e) /\ \A c \in Browser : Tracked(c, e))
  BY DEF Synced
<1>2. ListsFrom(b) /\ InTurn(b)' /\ Lengthened(b, local[b])
  BY <1>1, Queued, TypesAre DEF Calls
<1>3. \A c \in Browser : page'[c] = "closed" <=> page[c] = "closed"
  OBVIOUS
<1>4. UNCHANGED <<server, local, baseline, lastSaved, stray, newest, unheard, Doubtful>>
  BY DEF excuses, Doubtful
<1>5. \A c \in Browser \ {b} : Still(c) /\ page'[c] = "closed"
  BY <1>1, <1>2, <1>3, <1>4 DEF Still, ListsFrom, OnePage
<1>6. SyncTyped'
  BY <1>1, <1>2, <1>4 DEF SyncTyped, ListsFrom, Content, Save
<1>7. OnePage'
  BY <1>1, <1>3, <1>4 DEF OnePage
<1>8. \A i \in 1..Len(saves'[b]) :
        \/ i \in 1..Len(saves[b]) /\ saves'[b][i] = saves[b][i]
        \/ i = Len(saves'[b]) /\ saves'[b][i].data = local[b] /\ saves'[b][i].at # "stored"
  BY <1>1, <1>2, TypesAre DEF Lengthened
<1>9. baseline[b] # NoBaseline
  BY <1>1 DEF Calls
<1>10. ASSUME NEW c \in Browser PROVE Calls(c)'
  <2>1. CASE c = b
    <3>0. Calls(b)
      BY <1>1
    <3>1. \A i \in 1..Len(saves'[b]) : saves'[b][i].at = "stored" => server' = saves'[b][i].data
      BY <1>4, <1>8, <3>0 DEF Calls
    <3>2. baseline'[b] # NoBaseline
      BY <1>4, <1>9
    <3>3. InTurn(b)'
      BY <1>2
    <3>4. Calls(b)'
      BY <3>1, <3>2, <3>3 DEF Calls
    <3>. QED  BY <2>1, <3>4
  <2>2. CASE c # b
    BY <1>1, <1>4, <1>5, <2>2, StillCalls
  <2>. QED  BY <2>1, <2>2
<1>11. ASSUME NEW c \in Browser PROVE Based(c)'
  <2>1. CASE c = b
    <3>1. Based(b) /\ Len(saves[b]) \in Nat
      BY <1>1, TypesAre
    <3>2. \A i \in 1..Len(saves[b]) : i \in 1..Len(saves'[b]) /\ saves'[b][i] = saves[b][i]
      BY <1>2, <3>1 DEF Lengthened
    <3>3. Based(b)'
      BY <1>4, <3>1, <3>2 DEF Based
    <3>. QED  BY <2>1, <3>3
  <2>2. CASE c # b
    BY <1>5, <2>2 DEF Based
  <2>. QED  BY <2>1, <2>2
<1>12. ASSUME NEW e \in Entry \ Doubtful PROVE Kept(e)'
  BY <1>1, <1>3, <1>4 DEF Kept, Pending, Apart
<1>13. ASSUME NEW e \in Entry \ Doubtful, NEW c \in Browser PROVE Tracked(c, e)'
  <2>1. Elsewhere(c, e) => Elsewhere(c, e)'
    BY <1>3, <1>4 DEF Elsewhere, Apart
  <2>2. CASE c # b
    <3>1. Tracked(c, e) /\ Still(c)
      BY <1>1, <1>5, <2>2
    <3>. QED  BY <1>4, <2>1, <3>1, StillTracked
  <2>3. CASE c = b
    <3>0. Tracked(b, e)
      BY <1>1
    <3>1. \A i \in 1..Len(saves'[b]) :
            saves'[b][i].data[e] # local[b][e] => local[b][e] = newest[e]
      BY <1>8, <3>0 DEF Tracked
    <3>. QED  BY <1>4, <2>1, <2>3, <3>0, <3>1 DEF Tracked, Apart
  <2>. QED  BY <2>2, <2>3
<1>. QED  BY <1>4, <1>6, <1>7, <1>10, <1>11, <1>12, <1>13 DEF Synced

\* An answer, and a save that fails.
LEMMA OverKeeps ==
  ASSUME Doubtful \subseteq Entry, Synced, NEW b \in Browser, NEW i \in DOMAIN saves[b],
         Answered(b, i) \/ Lost(b, i), Doubtful' # Entry
  PROVE  Synced'
<1>1. SyncTyped /\ OnePage /\ (\A c \in Browser : Calls(c) /\ Based(c))
      /\ (\A e \in Entry \ Doubtful : Kept(e) /\ \A c \in Browser : Tracked(c, e))
  BY DEF Synced
<1>2. saves[b] \in Seq(Save) /\ i \in 1..Len(saves[b])
  BY <1>1, TypesAre, ListFacts
<1>3. /\ saves[b][i].at \in {"sent", "stored"} /\ Over(b, i) /\ Crossing(b)
      /\ UNCHANGED <<server, local, page, stray, newest, setBack, overtaken, leftOver>>
  BY DEF Answered, Lost
<1>4. /\ excused' = excused /\ Doubtful' = Doubtful
      /\ ~ Cardinality(InFlight(saves'[b])) > 1
  <2>1. excused' # Entry
    BY <1>1, <1>3 DEF Crossing, Doubtful
  <2>. QED  BY <1>3, <2>1 DEF Crossing, Doubtful
<1>5. ListsFrom(b) /\ Shortened(b) /\ i = 1 /\ InTurn(b)'
  BY <1>1, <1>2, <1>3, <1>4, Overed DEF Calls
<1>6. page[b] # "closed" /\ lastSaved[b] = baseline[b] /\ baseline[b] # NoBaseline
  BY <1>1, <1>2 DEF Calls, Based
<1>7. saves[b][1] \in Save /\ saves[b][1].data \in Content /\ 1 \in 1..Len(saves[b])
  BY <1>2, <1>5, ListFacts
\* Either the baseline is what the account has, or it stays.
<1>8. \/ /\ saves[b][1].at = "stored" /\ server = saves[b][1].data
         /\ baseline' = [baseline EXCEPT ![b] = saves[b][1].data]
         /\ lastSaved' = [lastSaved EXCEPT ![b] = saves[b][1].data]
         /\ unheard' = [unheard EXCEPT ![b] = {}]
      \/ /\ baseline' = baseline /\ lastSaved' = lastSaved
         /\ unheard' = [unheard EXCEPT ![b] =
              IF saves[b][1].at = "stored" THEN @ \cup Unlike(b, <<saves[b][1]>>) ELSE @]
  <2>1. saves[b][1].at = "stored" => server = saves[b][1].data
    BY <1>1, <1>7 DEF Calls
  <2>2. CASE Answered(b, i)
    BY <1>5, <2>1, <2>2 DEF Answered, SavedCopy
  <2>3. CASE Lost(b, i)
    BY <1>5, <2>3 DEF Lost
  <2>. QED  BY <2>2, <2>3
<1>9. /\ baseline' \in [Browser -> Content \cup {NoBaseline}]
      /\ lastSaved' \in [Browser -> Content] /\ unheard' \in [Browser -> SUBSET Entry]
      /\ \A c \in Browser \ {b} : baseline'[c] = baseline[c]
  <2>1. Unlike(b, <<saves[b][1]>>) \subseteq Entry
    BY DEF Unlike
  <2> HIDE DEF Unlike
  <2>. QED  BY <1>1, <1>7, <1>8, <2>1 DEF SyncTyped
<1>10. \A c \in Browser \ {b} : Still(c) /\ page'[c] = "closed"
  BY <1>1, <1>3, <1>5, <1>6, <1>9 DEF Still, ListsFrom, OnePage
<1>11. SyncTyped'
  BY <1>1, <1>3, <1>5, <1>9 DEF SyncTyped, ListsFrom
<1>12. OnePage'
  BY <1>1, <1>3 DEF OnePage
<1>13. \A j \in 1..Len(saves'[b]) :
         /\ j + 1 \in 1..Len(saves[b])
         /\ saves'[b][j].data = saves[b][j + 1].data /\ saves'[b][j].at = "sent"
  BY <1>5 DEF Shortened
<1>14. \/ baseline'[b] = baseline[b]
       \/ baseline'[b] = saves[b][1].data /\ saves[b][1].at = "stored"
  BY <1>1, <1>8 DEF SyncTyped
<1>15. ASSUME NEW c \in Browser PROVE Calls(c)'
  <2>1. CASE c # b
    BY <1>1, <1>3, <1>10, <2>1, StillCalls
  <2>2. CASE c = b
    <3>1. \A j \in 1..Len(saves'[b]) : saves'[b][j].at = "stored" => server' = saves'[b][j].data
      BY <1>13
    <3>2. baseline'[b] # NoBaseline
      BY <1>1, <1>6, <1>7, <1>14, TypesAre
    <3>3. Calls(b)'
      BY <1>3, <1>5, <1>6, <3>1, <3>2 DEF Calls
    <3>. QED  BY <2>2, <3>3
  <2>. QED  BY <2>1, <2>2
<1>16. ASSUME NEW c \in Browser PROVE Based(c)'
  <2>1. CASE c # b
    BY <1>10, <2>1 DEF Based
  <2>2. CASE c = b /\ server = saves[b][1].data
             /\ baseline' = [baseline EXCEPT ![b] = saves[b][1].data]
             /\ lastSaved' = [lastSaved EXCEPT ![b] = saves[b][1].data]
    <3>1. baseline'[b] = server' /\ lastSaved'[b] = server'
      BY <1>1, <1>3, <2>2 DEF SyncTyped
    <3>. QED  BY <2>2, <3>1 DEF Based
  <2>3. CASE /\ c = b /\ baseline' = baseline /\ lastSaved' = lastSaved
             /\ unheard' = [unheard EXCEPT ![b] =
                  IF saves[b][1].at = "stored" THEN @ \cup Unlike(b, <<saves[b][1]>>) ELSE @]
    <3>1. unheard'[b] = IF saves[b][1].at = "stored"
                        THEN unheard[b] \cup Unlike(b, <<saves[b][1]>>) ELSE unheard[b]
      BY <1>1, <2>3 DEF SyncTyped
    <3>2. \A j \in 1..Len(saves[b]) : saves[b][j].at = "stored" => j = 1
      BY <1>1 DEF Calls, InTurn
    <3>3. ASSUME NEW e \in Entry, server[e] # baseline[b][e]
          PROVE  e \in unheard'[b]
      <4>1. CASE saves[b][1].at = "stored"
        <5>1. saves[b][1].data[e] # lastSaved[b][e]
          BY <1>1, <1>6, <1>7, <3>3, <4>1 DEF Calls
        <5>2. 1 \in InFlight(<<saves[b][1]>>) /\ <<saves[b][1]>>[1] = saves[b][1]
          BY <4>1 DEF InFlight, Waiting
        <5>. QED  BY <3>1, <4>1, <5>1, <5>2 DEF Unlike
      <4>2. CASE saves[b][1].at # "stored"
        BY <1>1, <1>6, <3>1, <3>2, <3>3, <4>2 DEF Based
      <4>. QED  BY <4>1, <4>2
    <3>. QED  BY <1>3, <1>6, <2>3, <3>3 DEF Based
  <2>. QED  BY <1>8, <2>1, <2>2, <2>3
<1>17. ASSUME NEW e \in Entry \ Doubtful' PROVE Kept(e)'
  <2>1. Kept(e)
    BY <1>1, <1>4
  <2>. QED  BY <1>3, <1>6, <1>9, <2>1 DEF Kept, Pending, Apart
<1>18. ASSUME NEW e \in Entry \ Doubtful', NEW c \in Browser PROVE Tracked(c, e)'
  <2>0. Tracked(c, e)
    BY <1>1, <1>4
  <2>1. Elsewhere(c, e) => Elsewhere(c, e)'
    BY <1>3, <1>6, <1>9 DEF Elsewhere, Apart
  <2>2. CASE c # b
    BY <1>3, <1>10, <2>0, <2>1, <2>2, StillTracked
  <2>3. CASE c = b
    <3>1. \A j \in 1..Len(saves'[b]) :
            saves'[b][j].data[e] # local[b][e] => local[b][e] = newest[e]
      BY <1>13, <2>0, <2>3 DEF Tracked
    <3>2. saves[b][1].data[e] # local[b][e] => local[b][e] = newest[e]
      BY <1>7, <2>0, <2>3 DEF Tracked
    <3>3. Apart(b, e)' => local[b][e] = newest[e]
      BY <1>3, <1>6, <1>14, <2>0, <2>3, <3>2 DEF Tracked, Apart
    <3>. QED  BY <1>3, <2>0, <2>1, <2>3, <3>1, <3>3 DEF Tracked
  <2>. QED  BY <2>2, <2>3
<1>. QED  BY <1>11, <1>12, <1>15, <1>16, <1>17, <1>18 DEF Synced

\* What the arrival of a save does to the calls of its page.
LEMMA Marked ==
  ASSUME SyncTyped, NEW b \in Browser, NEW i \in 1..Len(saves[b]),
         saves' = [saves EXCEPT ![b][i].at = "stored"]
  PROVE  /\ saves' \in [Browser -> Seq(Save)]
         /\ \A c \in Browser \ {b} : saves'[c] = saves[c]
         /\ Len(saves'[b]) = Len(saves[b])
         /\ \A j \in 1..Len(saves[b]) :
              /\ saves'[b][j].data = saves[b][j].data
              /\ saves'[b][j].at = IF j = i THEN "stored" ELSE saves[b][j].at
<1> DEFINE m == [saves[b][i] EXCEPT !.at = "stored"]
           list == [saves[b] EXCEPT ![i] = m]
<1>1. saves[b] \in Seq(Save)
  BY DEF SyncTyped
<1>2. saves[b][i] \in Save
  BY <1>1, ListFacts
<1>3. m \in Save /\ m.data = saves[b][i].data /\ m.at = "stored"
  BY <1>2 DEF Save
<1>4. saves' = [saves EXCEPT ![b] = list]
  OBVIOUS
<1> HIDE DEF m
<1>5. list \in Seq(Save) /\ Len(list) = Len(saves[b])
      /\ \A j \in 1..Len(saves[b]) : list[j] = IF j = i THEN m ELSE saves[b][j]
  BY <1>1, <1>3, ExceptSeq
<1> HIDE DEF list
<1>6. saves'[b] = list /\ saves' \in [Browser -> Seq(Save)]
      /\ \A c \in Browser \ {b} : saves'[c] = saves[c]
  BY <1>4, <1>5 DEF SyncTyped
<1>. QED  BY <1>3, <1>5, <1>6

\* A save of an open page arrives: the account has its copy.
LEMMA PutKeeps ==
  ASSUME Synced, NEW b \in Browser, NEW i \in DOMAIN saves[b], Put(b, i)
  PROVE  Synced'
<1>1. SyncTyped /\ OnePage /\ (\A c \in Browser : Calls(c) /\ Based(c))
      /\ (\A e \in Entry \ Doubtful : Kept(e) /\ \A c \in Browser : Tracked(c, e))
  BY DEF Synced
<1>2. saves[b] \in Seq(Save) /\ i \in 1..Len(saves[b])
  BY <1>1, TypesAre, ListFacts
<1>3. /\ saves[b][i].at = "sent" /\ server' = saves[b][i].data
      /\ saves' = [saves EXCEPT ![b][i].at = "stored"]
      /\ UNCHANGED <<local, baseline, page, lastSaved, saving, stray, newest, unheard, Doubtful>>
  BY DEF Put, excuses, Doubtful
<1>4. i = 1 /\ \A j \in 1..Len(saves[b]) : saves[b][j].at = "waiting" <=> j # 1
  BY <1>1, <1>2, <1>3 DEF Calls, InTurn
<1>5. /\ saves' \in [Browser -> Seq(Save)]
      /\ \A c \in Browser \ {b} : saves'[c] = saves[c]
      /\ Len(saves'[b]) = Len(saves[b])
      /\ \A j \in 1..Len(saves[b]) :
           /\ saves'[b][j].data = saves[b][j].data
           /\ saves'[b][j].at = IF j = i THEN "stored" ELSE saves[b][j].at
  BY <1>1, <1>2, <1>3, Marked
<1>6. page[b] # "closed"
  BY <1>1, <1>2 DEF Calls
<1>7. \A c \in Browser \ {b} : Still(c) /\ page[c] = "closed" /\ Len(saves[c]) = 0
  BY <1>1, <1>3, <1>5, <1>6 DEF Still, OnePage, Calls
<1>8. SyncTyped'
  BY <1>1, <1>2, <1>3, <1>5, TypesAre DEF SyncTyped, Content, Save
<1>9. OnePage'
  BY <1>1, <1>3 DEF OnePage
<1>10. ASSUME NEW c \in Browser PROVE Calls(c)'
  <2>1. CASE c # b
    BY <1>1, <1>7, <2>1, StillCalls
  <2>2. CASE c = b
    <3>1. InTurn(b)'
      BY <1>1, <1>3, <1>4, <1>5 DEF Calls, InTurn
    <3>2. \A j \in 1..Len(saves'[b]) : saves'[b][j].at = "stored" => j = 1
      BY <1>4, <1>5
    <3>3. \A j \in 1..Len(saves'[b]) : saves'[b][j].at = "stored" => server' = saves'[b][j].data
      BY <1>2, <1>3, <1>4, <1>5, <3>2
    <3>4. baseline[b] # NoBaseline
      BY <1>1, <1>6 DEF Calls
    <3>5. Calls(b)'
      BY <1>3, <1>6, <3>1, <3>3, <3>4 DEF Calls
    <3>. QED  BY <2>2, <3>5
  <2>. QED  BY <2>1, <2>2
<1>11. ASSUME NEW c \in Browser PROVE Based(c)'
  <2>1. CASE c # b
    BY <1>3, <1>7, <2>1 DEF Based
  <2>2. CASE c = b
    BY <1>1, <1>2, <1>3, <1>5, <1>6, <2>2 DEF Based
  <2>. QED  BY <2>1, <2>2
<1>12. ASSUME NEW e \in Entry \ Doubtful PROVE Kept(e)'
  <2>0. Tracked(b, e) /\ Kept(e)
    BY <1>1
  <2>1. newest[e] # Absent => local[b][e] = newest[e] \/ Elsewhere(b, e)
    BY <1>6, <2>0 DEF Tracked
  <2>. QED  BY <1>3, <1>6, <2>0, <2>1 DEF Kept, Pending, Elsewhere, Apart
<1>13. ASSUME NEW e \in Entry \ Doubtful, NEW c \in Browser PROVE Tracked(c, e)'
  <2>0. Tracked(c, e)
    BY <1>1
  <2>1. Elsewhere(c, e) => Elsewhere(c, e)'
    BY <1>3 DEF Elsewhere, Apart
  <2>2. CASE c # b
    BY <1>3, <1>7, <2>0, <2>1, <2>2, StillTracked
  <2>3. CASE c = b
    <3>1. \A j \in 1..Len(saves'[b]) :
            j \in 1..Len(saves[b]) /\ saves'[b][j].data[e] = saves[b][j].data[e]
      BY <1>5
    <3>. QED  BY <1>3, <2>0, <2>1, <2>3, <3>1 DEF Tracked, Apart
  <2>. QED  BY <2>2, <2>3
<1>. QED  BY <1>3, <1>8, <1>9, <1>10, <1>11, <1>12, <1>13 DEF Synced

\* A save of a closed page arrives, or is lost.
LEMMA StrayKeeps ==
  ASSUME Synced, NEW d \in stray, PutStray(d) \/ LoseStray(d)
  PROVE  Synced'
<1>1. SyncTyped /\ OnePage /\ (\A c \in Browser : Calls(c) /\ Based(c))
      /\ (\A e \in Entry \ Doubtful : Kept(e) /\ \A c \in Browser : Tracked(c, e))
  BY DEF Synced
<1>2. /\ stray' = stray \ {d} /\ server' \in {server, d}
      /\ UNCHANGED <<local, baseline, page, lastSaved, saves, saving, newest, unheard, Doubtful>>
  BY DEF PutStray, LoseStray, excuses, Doubtful
<1>3. \A c \in Browser : Still(c) /\ page[c] = "closed" /\ Len(saves[c]) = 0
  BY <1>1, <1>2 DEF Still, OnePage, Calls
<1>4. SyncTyped'
  BY <1>1, <1>2 DEF SyncTyped, Content, Save
<1>5. OnePage'
  BY <1>1, <1>2 DEF OnePage
<1>6. ASSUME NEW c \in Browser PROVE Calls(c)' /\ Based(c)'
  <2>1. Calls(c)'
    BY <1>1, <1>3, StillCalls
  <2>. QED  BY <1>2, <1>3, <2>1 DEF Based
<1>7. ASSUME NEW e \in Entry \ Doubtful PROVE Kept(e)'
  <2>0. Kept(e)
    BY <1>1
  <2>1. \A c \in Browser : page[c] = "closed"
    BY <1>3
  <2>. QED  BY <1>2, <2>0, <2>1 DEF Kept, Pending, Apart
<1>8. ASSUME NEW e \in Entry \ Doubtful, NEW c \in Browser PROVE Tracked(c, e)'
  <2>0. Tracked(c, e)
    BY <1>1
  <2>. QED  BY <1>2, <1>3, <2>0, StillTracked
<1>. QED  BY <1>2, <1>4, <1>5, <1>6, <1>7, <1>8 DEF Synced

\* An edit: the copy has it, and so has no other browser anything apart.
LEMMA EditKeeps ==
  ASSUME Synced, NEW b \in Browser, NEW x \in Entry, Edit(b, x)
  PROVE  Synced'
<1>1. SyncTyped /\ OnePage /\ (\A c \in Browser : Calls(c) /\ Based(c))
      /\ (\A e \in Entry \ Doubtful : Kept(e) /\ \A c \in Browser : Tracked(c, e))
  BY DEF Synced
<1>2. PICK v \in (Text \cup {Absent}) \ {local[b][x]} :
        /\ local' = [local EXCEPT ![b][x] = v] /\ newest' = [newest EXCEPT ![x] = v]
  BY DEF Edit
<1>3. /\ page[b] = "open"
      /\ UNCHANGED <<server, baseline, page, lastSaved, saves, saving, stray, unheard>>
      /\ Doubtful \subseteq Doubtful'
      /\ x \notin Doubtful' =>
           \A c \in Browser \ {b} : baseline[c] = NoBaseline \/ local[c][x] = baseline[c][x]
  <2>1. /\ overtaken' = overtaken \cup {d \in {x} : ChangedToo(b, d, TRUE)}
        /\ excused' = excused \cup {d \in {x} \ overtaken : ChangedToo(b, d, FALSE)}
        /\ setBack' = setBack /\ leftOver' = leftOver
    BY DEF Edit
  <2>2. ASSUME x \notin Doubtful', NEW c \in Browser \ {b}
        PROVE  baseline[c] = NoBaseline \/ local[c][x] = baseline[c][x]
    <3>1. ~ ChangedToo(b, x, TRUE) /\ ~ ChangedToo(b, x, FALSE)
      BY <2>1, <2>2 DEF Doubtful
    <3>. QED  BY <3>1 DEF ChangedToo
  <2>3. Doubtful \subseteq Doubtful'
    BY <2>1 DEF Doubtful
  <2>. QED  BY <2>2, <2>3 DEF Edit
<1>4. /\ local[b] \in Content /\ newest \in Content
      /\ local'[b] = [local[b] EXCEPT ![x] = v]
      /\ \A c \in Browser \ {b} : local'[c] = local[c]
      /\ local' \in [Browser -> Content] /\ newest' \in Content
  BY <1>1, <1>2 DEF SyncTyped, Content
<1>5. /\ local'[b][x] = v /\ newest'[x] = v
      /\ \A e \in Entry \ {x} : local'[b][e] = local[b][e] /\ newest'[e] = newest[e]
  BY <1>2, <1>4 DEF Content
<1>6. SyncTyped'
  BY <1>1, <1>3, <1>4 DEF SyncTyped
<1>7. OnePage'
  BY <1>1, <1>3 DEF OnePage
<1>8. ASSUME NEW c \in Browser PROVE Calls(c)' /\ Based(c)'
  <2>0. Calls(c) /\ Based(c)
    BY <1>1
  <2>1. baseline'[c] = NoBaseline => page'[c] = "closed" /\ local'[c] = Empty
    BY <1>3, <1>4, <2>0 DEF Calls
  <2>2. Based(c)'
    BY <1>3, <2>0 DEF Based
  <2>. QED  BY <1>3, <2>0, <2>1, <2>2 DEF Calls, InTurn
<1>9. ASSUME NEW e \in Entry \ Doubtful' PROVE Kept(e)'
  <2>0. Kept(e)
    BY <1>1, <1>3
  <2>1. page'[b] # "closed"
    BY <1>3
  <2>2. CASE e = x
    BY <1>5, <2>1, <2>2 DEF Kept, Pending
  <2>3. CASE e # x
    <3>1. newest'[e] = newest[e] /\ \A c \in Browser : local'[c][e] = local[c][e]
      BY <1>4, <1>5, <2>3
    <3>. QED  BY <1>3, <2>0, <2>1, <3>1 DEF Kept, Pending
  <2>. QED  BY <2>2, <2>3
<1>10. ASSUME NEW e \in Entry \ Doubtful', NEW c \in Browser PROVE Tracked(c, e)'
  <2>0. Tracked(c, e)
    BY <1>1, <1>3
  <2>1. CASE e # x
    <3>1. newest'[e] = newest[e] /\ \A d \in Browser : local'[d][e] = local[d][e]
      BY <1>4, <1>5, <2>1
    <3>2. Elsewhere(c, e) => Elsewhere(c, e)'
      BY <1>3, <3>1 DEF Elsewhere, Apart
    <3>. QED  BY <1>3, <2>0, <3>1, <3>2 DEF Tracked, Apart
  <2>2. CASE e = x /\ c # b
    <3>1. page[c] = "closed" /\ Len(saves[c]) = 0
      BY <1>1, <1>3, <2>2 DEF OnePage, Calls
    <3>2. baseline[c] # NoBaseline => ~ Apart(c, x)
      BY <1>3, <2>2 DEF Apart
    <3>3. local'[c] = local[c]
      BY <1>4, <2>2
    <3>4. \A i \in 1..0 : FALSE
      OBVIOUS
    <3>. QED  BY <1>3, <2>2, <3>1, <3>2, <3>3, <3>4 DEF Tracked, Apart
  <2>3. CASE e = x /\ c = b
    <3>1. local'[b][x] = newest'[x]
      BY <1>5
    <3>. QED  BY <2>3, <3>1 DEF Tracked
  <2>. QED  BY <2>1, <2>2, <2>3
<1>. QED  BY <1>3, <1>6, <1>7, <1>8, <1>9, <1>10 DEF Synced

\* An entry a page leaves as its baseline has it, and not set back, is in the account
\* as it is in the copy, and in what the page still has on its way.
LEMMA LeftAsSaved ==
  ASSUME SyncTyped, NEW b \in Browser, Calls(b), Based(b), page[b] # "closed",
         NEW e \in Entry, e \notin SetBackTo(b), local[b][e] = baseline[b][e]
  PROVE  /\ server[e] = local[b][e]
         /\ \A i \in 1..Len(saves[b]) :
              saves[b][i].at = "sent" => saves[b][i].data[e] = local[b][e]
<1>1. lastSaved[b] = baseline[b]
  BY DEF Based
<1>2. e \notin unheard[b] /\ e \notin Unlike(b, saves[b])
  BY <1>1 DEF SetBackTo
<1>3. DOMAIN saves[b] = 1..Len(saves[b])
  BY TypesAre, ListFacts
<1>4. \A i \in 1..Len(saves[b]) :
        saves[b][i].at # "waiting" => saves[b][i].data[e] = local[b][e]
  BY <1>1, <1>2, <1>3 DEF Unlike, InFlight, Waiting
<1>5. server[e] = local[b][e]
  <2>1. SUFFICES ASSUME server[e] # baseline[b][e] PROVE FALSE
    OBVIOUS
  <2>2. PICK i \in 1..Len(saves[b]) : saves[b][i].at = "stored"
    BY <1>2, <2>1 DEF Based
  <2>3. server = saves[b][i].data
    BY <2>2 DEF Calls
  <2>. QED  BY <1>4, <2>1, <2>2, <2>3
<1>. QED  BY <1>4, <1>5

\* A page closes: what it had in flight is on its way.
LEMMA CloseKeeps ==
  ASSUME Synced, NEW b \in Browser, Close(b)
  PROVE  Synced'
<1>1. SyncTyped /\ OnePage /\ (\A c \in Browser : Calls(c) /\ Based(c))
      /\ (\A e \in Entry \ Doubtful : Kept(e) /\ \A c \in Browser : Tracked(c, e))
  BY DEF Synced
<1>2. /\ page[b] # "closed" /\ page' = [page EXCEPT ![b] = "closed"]
      /\ saves' = [saves EXCEPT ![b] = <<>>] /\ saving' = [saving EXCEPT ![b] = 0]
      /\ lastSaved' = [lastSaved EXCEPT ![b] = Empty]
      /\ unheard' = [unheard EXCEPT ![b] = {}]
      /\ UNCHANGED <<server, local, baseline, newest>>
      /\ \A d \in stray' : \/ d \in stray \/ d = local[b]
                           \/ \E i \in DOMAIN saves[b] :
                                saves[b][i].at = "sent" /\ d = saves[b][i].data
  BY DEF Close, Leaves
<1>3. stray = {} /\ \A c \in Browser \ {b} : page[c] = "closed"
  BY <1>1, <1>2 DEF OnePage
<1>4. \A d \in stray' :
        d = local[b] \/ \E i \in 1..Len(saves[b]) : saves[b][i].at = "sent" /\ d = saves[b][i].data
  BY <1>1, <1>2, <1>3, TypesAre, ListFacts
<1>5. /\ saves' \in [Browser -> Seq(Save)] /\ saving' \in [Browser -> Nat]
      /\ Len(saves'[b]) = 0 /\ saving'[b] = 0
      /\ \A c \in Browser \ {b} : saves'[c] = saves[c] /\ saving'[c] = saving[c]
  BY <1>1, <1>2, EmptySeq DEF SyncTyped
<1>6. /\ page' \in [Browser -> {"closed", "open", "leaving"}]
      /\ \A c \in Browser : page'[c] = "closed"
  BY <1>1, <1>2, <1>3 DEF SyncTyped
<1>7. \A c \in Browser \ {b} : Still(c)
  BY <1>2, <1>3, <1>5, <1>6 DEF Still
<1>8. \A i \in 1..0 : FALSE
  OBVIOUS
<1>9. SyncTyped'
  <2>1. stray' \subseteq Content
    BY <1>1, <1>4, TypesAre
  <2>2. lastSaved' \in [Browser -> Content] /\ unheard' \in [Browser -> SUBSET Entry]
    BY <1>1, <1>2, TypesAre DEF SyncTyped
  <2>. QED  BY <1>1, <1>2, <1>5, <1>6, <2>1, <2>2 DEF SyncTyped
<1>10. OnePage'
  BY <1>6 DEF OnePage
<1>11. ASSUME NEW c \in Browser PROVE Calls(c)' /\ Based(c)'
  <2>1. CASE c # b
    BY <1>1, <1>2, <1>6, <1>7, <2>1, StillCalls DEF Based
  <2>2. CASE c = b
    <3>1. baseline'[b] # NoBaseline
      BY <1>1, <1>2 DEF Calls
    <3>2. Calls(b)'
      BY <1>5, <1>8, <3>1 DEF Calls, InTurn
    <3>. QED  BY <1>6, <2>2, <3>2 DEF Based
  <2>. QED  BY <2>1, <2>2
<1>12. Doubtful \subseteq Doubtful' /\ \A e \in Entry \ Doubtful' : e \notin SetBackTo(b)
  BY DEF Close, Doubtful
<1>13. ASSUME NEW e \in Entry \ Doubtful' PROVE Kept(e)'
  <2>0. Kept(e) /\ Tracked(b, e)
    BY <1>1, <1>12
  <2>1. SUFFICES ASSUME newest[e] # Absent PROVE Kept(e)'
    BY <1>2 DEF Kept
  <2>2. local[b][e] = newest[e] \/ Elsewhere(b, e)
    BY <1>2, <2>0, <2>1 DEF Tracked
  <2>3. CASE \E c \in Browser : local[c][e] = newest[e] /\ Apart(c, e)
    BY <1>2, <2>3 DEF Kept, Pending, Apart
  <2>4. CASE local[b][e] = newest[e] /\ ~ Apart(b, e)
    <3>1. /\ server[e] = newest[e]
          /\ \A i \in 1..Len(saves[b]) :
               saves[b][i].at = "sent" => saves[b][i].data[e] = newest[e]
      BY <1>1, <1>2, <1>12, <2>4, LeftAsSaved DEF Apart
    <3>. QED  BY <1>2, <1>4, <2>4, <3>1 DEF Kept
  <2>. QED  BY <2>2, <2>3, <2>4 DEF Elsewhere
<1>14. ASSUME NEW e \in Entry \ Doubtful', NEW c \in Browser PROVE Tracked(c, e)'
  <2>0. Tracked(c, e)
    BY <1>1, <1>12
  <2>1. CASE c # b
    BY <1>2, <1>3, <1>7, <2>0, <2>1, StillTracked
  <2>2. CASE c = b
    BY <1>2, <1>5, <1>6, <1>8, <2>0, <2>2 DEF Tracked, Apart
  <2>. QED  BY <2>1, <2>2
<1>. QED  BY <1>9, <1>10, <1>11, <1>12, <1>13, <1>14 DEF Synced

\* The copy of a browser is removed: the entries it held apart from what was saved
\* are in doubt, and all of them where a late answer leaves a baseline.
LEMMA EndSignOutKeeps ==
  ASSUME Synced, NEW b \in Browser, EndSignOut(b), Doubtful \subseteq Entry, Doubtful' # Entry
  PROVE  Synced'
<1>1. SyncTyped /\ OnePage /\ (\A c \in Browser : Calls(c) /\ Based(c))
      /\ (\A e \in Entry \ Doubtful : Kept(e) /\ \A c \in Browser : Tracked(c, e))
  BY DEF Synced
<1>2. \A e \in Entry \ Doubtful' :
        e \notin Doubtful /\ e \notin SetBackTo(b) /\ local[b][e] = lastSaved[b][e]
  BY DEF EndSignOut, Doubtful
<1>3. /\ page[b] # "closed" /\ page' = [page EXCEPT ![b] = "closed"]
      /\ saves' = [saves EXCEPT ![b] = <<>>] /\ saving' = [saving EXCEPT ![b] = 0]
      /\ lastSaved' = [lastSaved EXCEPT ![b] = Empty]
      /\ unheard' = [unheard EXCEPT ![b] = {}]
      /\ local' = [local EXCEPT ![b] = Empty]
      /\ UNCHANGED <<server, newest>>
      /\ \A d \in stray' : \/ d \in stray
                           \/ \E i \in DOMAIN saves[b] :
                                saves[b][i].at = "sent" /\ d = saves[b][i].data
  BY DEF EndSignOut, Leaves
<1>4. baseline' = [baseline EXCEPT ![b] = NoBaseline]
  <2>1. leftOver' # Entry
    <3>1. Doubtful' \subseteq Entry
      BY DEF EndSignOut, Doubtful, SetBackTo
    <3>. QED  BY <3>1 DEF Doubtful
  <2>. QED  BY <2>1 DEF EndSignOut
<1>5. stray = {} /\ \A c \in Browser \ {b} : page[c] = "closed"
  BY <1>1, <1>3 DEF OnePage
<1>6. \A d \in stray' :
        \E i \in 1..Len(saves[b]) : saves[b][i].at = "sent" /\ d = saves[b][i].data
  BY <1>1, <1>3, <1>5, TypesAre, ListFacts
<1>7. /\ saves' \in [Browser -> Seq(Save)] /\ saving' \in [Browser -> Nat]
      /\ Len(saves'[b]) = 0 /\ saving'[b] = 0
      /\ \A c \in Browser \ {b} : saves'[c] = saves[c] /\ saving'[c] = saving[c]
  BY <1>1, <1>3, EmptySeq DEF SyncTyped
<1>8. /\ page' \in [Browser -> {"closed", "open", "leaving"}]
      /\ \A c \in Browser : page'[c] = "closed"
  BY <1>1, <1>3, <1>5 DEF SyncTyped
<1>9. /\ local'[b] = Empty /\ baseline'[b] = NoBaseline
      /\ \A c \in Browser \ {b} : local'[c] = local[c] /\ baseline'[c] = baseline[c]
  BY <1>1, <1>3, <1>4 DEF SyncTyped
<1>10. \A c \in Browser \ {b} : Still(c)
  BY <1>5, <1>7, <1>8, <1>9 DEF Still
<1>11. SyncTyped'
  <2>1. stray' \subseteq Content
    BY <1>1, <1>6, TypesAre
  <2>2. lastSaved' \in [Browser -> Content] /\ unheard' \in [Browser -> SUBSET Entry]
    BY <1>1, <1>3, TypesAre DEF SyncTyped
  <2>. QED  BY <1>1, <1>3, <1>4, <1>7, <1>8, <2>1, <2>2, TypesAre DEF SyncTyped
<1>12. OnePage'
  BY <1>8 DEF OnePage
<1>13. ASSUME NEW c \in Browser PROVE Calls(c)' /\ Based(c)'
  <2>1. CASE c # b
    BY <1>1, <1>3, <1>8, <1>10, <2>1, StillCalls DEF Based
  <2>2. CASE c = b
    <3>1. \A i \in 1..0 : FALSE
      OBVIOUS
    <3>2. Calls(b)'
      BY <1>7, <1>8, <1>9, <3>1 DEF Calls, InTurn
    <3>. QED  BY <1>8, <2>2, <3>2 DEF Based
  <2>. QED  BY <2>1, <2>2
<1>14. ASSUME NEW e \in Entry \ Doubtful' PROVE Kept(e)'
  <2>0. Tracked(b, e)
    BY <1>1, <1>2
  <2>1. SUFFICES ASSUME newest[e] # Absent PROVE Kept(e)'
    BY <1>3 DEF Kept
  <2>2. local[b][e] = newest[e] \/ Elsewhere(b, e)
    BY <1>3, <2>0, <2>1 DEF Tracked
  <2>3. CASE Elsewhere(b, e)
    <3>1. PICK c \in Browser \ {b} : local[c][e] = newest[e] /\ Apart(c, e)
      BY <2>3 DEF Elsewhere
    <3>2. local'[c][e] = newest'[e] /\ Apart(c, e)'
      BY <1>3, <1>9, <3>1 DEF Apart
    <3>. QED  BY <3>2 DEF Kept, Pending, Apart
  <2>4. CASE local[b][e] = newest[e]
    <3>1. local[b][e] = baseline[b][e]
      BY <1>1, <1>2, <1>3 DEF Based
    <3>2. /\ server[e] = newest[e]
          /\ \A i \in 1..Len(saves[b]) :
               saves[b][i].at = "sent" => saves[b][i].data[e] = newest[e]
      BY <1>1, <1>2, <1>3, <2>4, <3>1, LeftAsSaved
    <3>. QED  BY <1>3, <1>6, <3>2 DEF Kept
  <2>. QED  BY <2>2, <2>3, <2>4
<1>15. ASSUME NEW e \in Entry \ Doubtful', NEW c \in Browser PROVE Tracked(c, e)'
  <2>0. Tracked(c, e)
    BY <1>1, <1>2
  <2>1. CASE c # b
    BY <1>3, <1>5, <1>10, <2>0, <2>1, StillTracked
  <2>2. CASE c = b
    <3>1. \A i \in 1..0 : FALSE
      OBVIOUS
    <3>. QED  BY <1>7, <1>8, <1>9, <2>2, <3>1 DEF Tracked
  <2>. QED  BY <2>1, <2>2
<1>. QED  BY <1>11, <1>12, <1>13, <1>14, <1>15 DEF Synced

\* A page opens and merges: what it held apart from its baseline is kept.
LEMMA OpenKeeps ==
  ASSUME Doubtful \subseteq Entry, Synced, NEW b \in Browser, Open(b), Doubtful' # Entry
  PROVE  Synced'
<1>1. SyncTyped /\ OnePage /\ (\A c \in Browser : Calls(c) /\ Based(c))
      /\ (\A e \in Entry \ Doubtful : Kept(e) /\ \A c \in Browser : Tracked(c, e))
  BY DEF Synced
<1>2. /\ page[b] = "closed" /\ page' = [page EXCEPT ![b] = "open"]
      /\ local' = [local EXCEPT ![b] = Loaded(b)]
      /\ baseline' = [baseline EXCEPT ![b] = server]
      /\ lastSaved' = [lastSaved EXCEPT ![b] = server]
      /\ Queue(b, local'[b], server)
      /\ UNCHANGED <<server, stray, newest, unheard, setBack, overtaken, leftOver>>
  BY DEF Open, MayOpen
<1>3. /\ stray = {} /\ \A c \in Browser \ {b} : page[c] = "closed"
      /\ excused' = IF server = Empty THEN excused \cup {e \in Entry : local[b][e] # Absent}
                    ELSE excused
  <2>1. excused' # Entry
    BY <1>2 DEF Doubtful
  <2>. QED  BY <2>1 DEF Open
<1>4. (\A c \in Browser : page[c] = "closed") /\ Doubtful \subseteq Doubtful'
  BY <1>2, <1>3 DEF Doubtful
<1>5. Len(saves[b]) = 0 /\ \A i \in 1..0 : FALSE
  BY <1>1, <1>2 DEF Calls
<1>6. Loaded(b) \in Content
  <2>1. local[b] \in Content /\ server \in Content
    BY <1>1 DEF SyncTyped
  <2>2. Merge(server, local[b], baseline[b]) \in Content
    BY <2>1 DEF Merge, Content
  <2>. QED  BY <2>1, <2>2 DEF Loaded
<1>7. /\ local'[b] = Loaded(b) /\ baseline'[b] = server /\ page'[b] = "open"
      /\ lastSaved'[b] = server
      /\ \A c \in Browser \ {b} : /\ local'[c] = local[c] /\ baseline'[c] = baseline[c]
                                  /\ page'[c] = page[c]
      /\ local' \in [Browser -> Content] /\ baseline' \in [Browser -> Content \cup {NoBaseline}]
      /\ page' \in [Browser -> {"closed", "open", "leaving"}]
      /\ lastSaved' \in [Browser -> Content]
  BY <1>1, <1>2, <1>6 DEF SyncTyped
<1>8. ListsFrom(b) /\ InTurn(b)' /\ Lengthened(b, Loaded(b))
  <2>1. Queue(b, Loaded(b), server)
    BY <1>2, <1>7
  <2>. QED  BY <1>1, <1>6, <2>1, Queued DEF Calls
<1>9. \A i \in 1..Len(saves'[b]) :
        saves'[b][i].data = Loaded(b) /\ saves'[b][i].at # "stored"
  <2>1. \A i \in 1..Len(saves'[b]) : i > 0
    OBVIOUS
  <2>. QED  BY <1>5, <1>8, <2>1 DEF Lengthened
<1>10. \A c \in Browser \ {b} : Still(c)
  BY <1>7, <1>8 DEF Still, ListsFrom
<1>11. SyncTyped'
  BY <1>1, <1>2, <1>7, <1>8 DEF SyncTyped, ListsFrom
<1>12. OnePage'
  BY <1>2, <1>3, <1>7 DEF OnePage
<1>13. server # NoBaseline
  BY <1>1, TypesAre DEF SyncTyped
<1>14. ASSUME NEW c \in Browser PROVE Calls(c)' /\ Based(c)'
  <2>1. CASE c # b
    BY <1>1, <1>2, <1>3, <1>7, <1>10, <2>1, StillCalls DEF Based
  <2>2. CASE c = b
    <3>1. Calls(b)' /\ Based(b)'
      BY <1>2, <1>7, <1>8, <1>9, <1>13 DEF Calls, Based
    <3>. QED  BY <2>2, <3>1
  <2>. QED  BY <2>1, <2>2
\* What the page comes to show: the newest, where the account or the browser has it.
<1>15. ASSUME NEW e \in Entry \ Doubtful'
       PROVE  /\ e \in Entry \ Doubtful
              /\ Loaded(b)[e] # server[e] => Loaded(b)[e] = newest[e]
              /\ newest[e] # Absent /\ (\/ server[e] = newest[e]
                                        \/ local[b][e] = newest[e] /\ Apart(b, e))
                   => Loaded(b)[e] = newest[e]
  <2>0. Tracked(b, e) /\ e \in Entry \ Doubtful
    BY <1>1, <1>4
  <2>1. baseline[b] # NoBaseline /\ Apart(b, e) => local[b][e] = newest[e]
    BY <2>0 DEF Tracked
  <2>2. baseline[b] = NoBaseline => local[b][e] = Absent
    BY <1>1, TypesAre DEF Calls
  <2>3. CASE server = Empty
    <3>1. local[b][e] = Absent /\ server[e] = Absent /\ Loaded(b)[e] = Absent
      BY <1>1, <1>3, <2>3, TypesAre DEF Loaded, Doubtful
    <3>. QED  BY <2>0, <3>1
  <2>4. CASE server # Empty /\ baseline[b] = NoBaseline
    <3>1. Loaded(b)[e] = server[e] /\ local[b][e] = Absent
      BY <2>2, <2>4 DEF Loaded
    <3>. QED  BY <2>0, <3>1
  <2>5. CASE server # Empty /\ baseline[b] # NoBaseline
    <3>1. Loaded(b)[e] =
            IF local[b][e] # Absent /\ local[b][e] # baseline[b][e] THEN local[b][e]
            ELSE IF local[b][e] = Absent /\ baseline[b][e] # Absent /\ server[e] = baseline[b][e]
            THEN Absent
            ELSE server[e]
      BY <2>5 DEF Loaded, Merge
    <3>. QED  BY <2>0, <2>1, <2>5, <3>1 DEF Apart
  <2>. QED  BY <2>3, <2>4, <2>5
<1>16. ASSUME NEW e \in Entry \ Doubtful' PROVE Kept(e)'
  <2>0. Kept(e)
    BY <1>1, <1>15
  <2>1. SUFFICES ASSUME newest[e] # Absent, server[e] # newest[e]
                 PROVE  \E c \in Browser : local'[c][e] = newest'[e] /\ Pending(c, e)'
    BY <1>2, <1>7 DEF Kept
  <2>2. PICK c \in Browser : local[c][e] = newest[e] /\ Pending(c, e)
    BY <2>0, <2>1 DEF Kept
  <2>3. Apart(c, e)
    BY <1>4, <2>2 DEF Pending, Apart
  <2>4. CASE c = b
    BY <1>2, <1>7, <1>15, <2>1, <2>2, <2>3, <2>4 DEF Pending
  <2>5. CASE c # b
    BY <1>2, <1>7, <2>2, <2>3, <2>5 DEF Pending, Apart
  <2>. QED  BY <2>4, <2>5
<1>17. ASSUME NEW e \in Entry \ Doubtful', NEW c \in Browser PROVE Tracked(c, e)'
  <2>0. Tracked(c, e) /\ Kept(e)
    BY <1>1, <1>15
  <2>1. CASE c # b
    BY <1>2, <1>4, <1>10, <2>0, <2>1, StillTracked
  <2>2. CASE c = b
    <3>1. Apart(b, e)' => local'[b][e] = newest'[e]
      BY <1>2, <1>7, <1>15 DEF Apart
    <3>2. \A i \in 1..Len(saves'[b]) : saves'[b][i].data[e] = local'[b][e]
      BY <1>7, <1>9
    <3>3. ASSUME newest[e] # Absent
          PROVE  local'[b][e] = newest'[e] \/ Elsewhere(b, e)'
      <4>1. CASE server[e] = newest[e]
        BY <1>2, <1>7, <1>15, <3>3, <4>1
      <4>2. CASE \E d \in Browser : local[d][e] = newest[e] /\ Pending(d, e)
        <5>1. PICK d \in Browser : local[d][e] = newest[e] /\ Apart(d, e)
          BY <1>4, <4>2 DEF Pending, Apart
        <5>2. CASE d = b
          BY <1>2, <1>7, <1>15, <3>3, <5>1, <5>2
        <5>3. CASE d # b
          BY <1>2, <1>3, <1>7, <5>1, <5>3 DEF Elsewhere, Apart
        <5>. QED  BY <5>2, <5>3
      <4>. QED  BY <2>0, <3>3, <4>1, <4>2 DEF Kept
    <3>4. Tracked(b, e)'
      BY <1>2, <3>1, <3>2, <3>3 DEF Tracked
    <3>. QED  BY <2>2, <3>4
  <2>. QED  BY <2>1, <2>2
<1>. QED  BY <1>11, <1>12, <1>14, <1>16, <1>17 DEF Synced

-----------------------------------------------------------------------------
\* At first no entry has been edited.
LEMMA SyncInit == Init => SyncInv
<1> SUFFICES ASSUME Init PROVE SyncInv
  OBVIOUS
<1>1. /\ server = Empty /\ newest = Empty
      /\ local = [b \in Browser |-> Empty] /\ baseline = [b \in Browser |-> NoBaseline]
      /\ page = [b \in Browser |-> "closed"] /\ lastSaved = [b \in Browser |-> Empty]
      /\ saves = [b \in Browser |-> <<>>] /\ saving = [b \in Browser |-> 0]
      /\ stray = {} /\ unheard = [b \in Browser |-> {}] /\ Doubtful = {}
  BY DEF Init, Doubtful
<1>2. Empty \in Content /\ \A e \in Entry : Empty[e] = Absent
  BY DEF Empty, Content
<1>3. \A b \in Browser : saves[b] = <<>> /\ Len(saves[b]) = 0
  BY <1>1, EmptySeq
<1>4. \A i \in 1..0 : FALSE
  OBVIOUS
<1>5. SyncTyped
  BY <1>1, <1>2, EmptySeq DEF SyncTyped
<1>6. OnePage
  BY <1>1 DEF OnePage
<1>7. \A b \in Browser : Calls(b) /\ Based(b)
  BY <1>1, <1>3, <1>4 DEF Calls, InTurn, Based
<1>8. \A e \in Entry : Kept(e) /\ \A b \in Browser : Tracked(b, e)
  BY <1>1, <1>2, <1>3, <1>4 DEF Kept, Tracked
<1>. QED  BY <1>1, <1>5, <1>6, <1>7, <1>8 DEF SyncInv, Synced

\* Entries come into doubt, and none goes out of it.
LEMMA DoubtGrows ==
  ASSUME Doubtful \subseteq Entry, [Next]_vars
  PROVE  Doubtful \subseteq Doubtful' /\ Doubtful' \subseteq Entry
<1>1. \A b \in Browser : SetBackTo(b) \subseteq Entry
  BY DEF SetBackTo
<1> HIDE DEF SetBackTo
<1>. QED
  BY <1>1 DEF Doubtful, Next, vars, excuses, Open, Tick, Close, BeginSignOut, EndSignOut, Edit,
              Put, Answered, Lost, PutStray, LoseStray, Crossing

\* Every step keeps the invariant.
LEMMA SyncStep == SyncInv /\ [Next]_vars => SyncInv'
<1> SUFFICES ASSUME SyncInv, [Next]_vars PROVE SyncInv'
  OBVIOUS
<1>1. Doubtful \subseteq Doubtful' /\ Doubtful' \subseteq Entry
  BY DoubtGrows DEF SyncInv
<1>2. SUFFICES ASSUME Doubtful' # Entry PROVE Synced'
  BY <1>1 DEF SyncInv
<1>3. Synced /\ Doubtful \subseteq Entry
  BY <1>1, <1>2 DEF SyncInv
<1>4. ASSUME NEW b \in Browser, Tick(b) \/ BeginSignOut(b) PROVE Synced'
  <2>1. page \in [Browser -> {"closed", "open", "leaving"}]
    BY <1>3 DEF Synced, SyncTyped
  <2>2. page[b] = "open" /\ Queue(b, local[b], lastSaved[b])
        /\ UNCHANGED <<server, local, baseline, lastSaved, stray, newest, unheard, excuses>>
    BY <1>4 DEF Tick, BeginSignOut
  <2>3. /\ page' \in [Browser -> {"closed", "open", "leaving"}] /\ page'[b] # "closed"
        /\ \A c \in Browser \ {b} : page'[c] = page[c]
    BY <1>4, <2>1, <2>2 DEF Tick, BeginSignOut
  <2>. QED  BY <1>3, <2>2, <2>3, QueueKeeps
<1>5. CASE UNCHANGED vars
  BY <1>3, <1>5 DEF vars, copies, excuses, Synced, SyncTyped, OnePage, Calls, InTurn, Based, Kept,
                    Pending, Apart, Tracked, Elsewhere, Doubtful
<1>. QED
  BY <1>2, <1>3, <1>4, <1>5, OpenKeeps, CloseKeeps, EndSignOutKeeps, EditKeeps, PutKeeps,
     OverKeeps, StrayKeeps DEF Next

\* No edit is lost on its way from a browser to the account, through saves lost and
\* delayed and pages closed at any moment: unless browsers overlapped or worked apart,
\* a failed save was signed out of or the account was empty, and but for a text set
\* back to the one saved last, a change saved unheard and edited over elsewhere, and an
\* answer that arrives after signing out (saveNow, merge, activate and signOut,
\* account.ts:101-242).
THEOREM NoEditLost == Spec => []EditsKept
<1>1. SyncInv => EditsKept
  BY DEF SyncInv, Synced, Kept, EditsKept, LastKept, Doubtful
<1>. QED  BY <1>1, SyncInit, SyncStep, PTL DEF Spec
=============================================================================
