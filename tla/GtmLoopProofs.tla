---------------------------- MODULE GtmLoopProofs ----------------------------
(***************************************************************************)
(* Theorems about the go-to-market loop, for every number of passes,       *)
(* records, rules, lost answers, refusals and restarts, while passes do    *)
(* not overlap: a record is made in the CRM once, and once more at most    *)
(* for each write whose answer was lost; and the autopilot logs a rule for *)
(* a deal once a day.                                                      *)
(***************************************************************************)
EXTENDS GtmLoop, FiniteSetTheorems, TLAPS

-----------------------------------------------------------------------------
(* The invariant.                                                          *)

\* The kinds of record the CRM makes anew, having no way to tell one it has.
MadeOnce == {"deal", "activity", "task"}

\* The fields of a call.
CallFields == {"record", "content", "answer", "id"}

\* The fields of a pass.
PassFields == {"at", "alone", "todo", "now", "seen", "due", "listed", "deal", "task", "rules"}

\* What the proofs need of the shape of passes, calls and what the CRM holds.
PassRows ==
  /\ DOMAIN run = Runs /\ DOMAIN call = Runs
  /\ \A r \in Runs : DOMAIN run[r] = PassFields /\ DOMAIN call[r] = CallFields
  /\ DOMAIN link = Records /\ DOMAIN external = Records /\ DOMAIN lost = Records
  /\ \A e \in Records : DOMAIN link[e] = {"id", "content"}

\* As long as passes do not overlap there is one, and it makes the calls.
OnePass ==
  /\ \A r, s \in Runs : run[r].at # "off" /\ run[s].at # "off" => r = s
  /\ \A r \in Runs : Calling(r) => run[r].at # "off"

\* An answer is there that says the record was written.
Confirming(e) == \E r \in Runs : call[r].answer = "ok" /\ call[r].record = e

\* The CRM has of a record one more than answers were lost, at most, and no more
\* than those until it is linked or the answer is there; the id a call goes out with
\* is that of the link, and the id it comes back with is one the CRM has.
Counted(e) ==
  /\ lost[e] \in Nat /\ link[e].id \in Nat /\ \E S : external[e] \in Seq(S)
  /\ link[e].id <= Len(external[e])
  /\ Len(external[e]) <= lost[e] + 1
  /\ link[e].id = 0 /\ ~Confirming(e) => Len(external[e]) <= lost[e]
  /\ \A r \in Runs :
       call[r].record = e =>
         /\ call[r].answer = "awaited" => call[r].id = link[e].id
         /\ call[r].answer = "ok" => call[r].id \in 1..Len(external[e])

\* The inductive invariant.
CrmInv ==
  ~overlapped => PassRows /\ OnePass /\ \A e \in Records : e[1] \in MadeOnce => Counted(e)

-----------------------------------------------------------------------------
(* Steps of passes.                                                        *)

\* Changing one field leaves the others ...
LEMMA RowKept ==
  ASSUME NEW f, NEW a, NEW b, NEW x, a # b, b \in DOMAIN f
  PROVE  /\ DOMAIN [f EXCEPT ![a] = x] = DOMAIN f
         /\ [f EXCEPT ![a] = x][b] = f[b]
  OBVIOUS

\* ... and sets that one.
LEMMA RowSet ==
  ASSUME NEW f, NEW a, NEW x, a \in DOMAIN f
  PROVE  [f EXCEPT ![a] = x][a] = x
  OBVIOUS

\* The part of the store that matters.
CrmStill == UNCHANGED <<call, link, external, lost>>

\* A pass after a step, the other passes being as they were.
Carries(r, changed) ==
  /\ DOMAIN run' = Runs /\ DOMAIN run'[r] = PassFields
  /\ \A s \in Runs \ {r} : run'[s] = run[s]
  /\ \A field \in PassFields \ changed : run'[r][field] = run[r][field]

\* A step of a pass under way.
Works(r) ==
  /\ run[r].at # "off" /\ ~Calling(r) /\ UNCHANGED overlapped
  /\ DOMAIN run' = Runs /\ DOMAIN run'[r] = PassFields
  /\ \A s \in Runs \ {r} : run'[s] = run[s]
  /\ \/ CrmStill
     \/ run'[r].at # "off" /\ \E e, content : Send(r, e, content)

\* Writing a record as it is now is a write or nothing.
LEMMA Sends ==
  ASSUME NEW r \in Runs, NEW e, SendLive(r, e)
  PROVE  CrmStill \/ \E x, content : Send(r, x, content)
  BY DEF SendLive, CrmStill, crmVars

\* Going on with a list ...
LEMMA Listing ==
  ASSUME PassRows, NEW r \in Runs, NEW x, run' = [run EXCEPT ![r].todo = x]
  PROVE  Carries(r, {"todo"})
<1> DEFINE p == [run[r] EXCEPT !.todo = x]
<1>1. r \in DOMAIN run /\ DOMAIN run[r] = PassFields /\ DOMAIN run = Runs /\ "todo" \in PassFields
  BY DEF PassRows, PassFields
<1>2. DOMAIN p = PassFields /\ \A field \in PassFields \ {"todo"} : p[field] = run[r][field]
  BY <1>1, RowKept
<1>3. run'[r] = p /\ DOMAIN run' = DOMAIN run /\ \A s \in Runs \ {r} : run'[s] = run[s]
  BY <1>1, Zenon
<1> HIDE DEF p
<1>. QED  BY <1>1, <1>2, <1>3 DEF Carries

\* ... to the next stage ...
LEMMA Turning ==
  ASSUME PassRows, NEW r \in Runs, NEW at, NEW x, run' = [run EXCEPT ![r].at = at, ![r].todo = x]
  PROVE  Carries(r, {"at", "todo"}) /\ run'[r].at = at
<1> DEFINE p == [run[r] EXCEPT !.at = at]
           q == [p EXCEPT !.todo = x]
<1>1. /\ r \in DOMAIN run /\ DOMAIN run[r] = PassFields /\ DOMAIN run = Runs
      /\ {"at", "todo"} \subseteq PassFields
  BY DEF PassRows, PassFields
<1>2. /\ DOMAIN p = PassFields /\ p["at"] = at
      /\ \A field \in PassFields \ {"at"} : p[field] = run[r][field]
  BY <1>1, RowKept, RowSet
<1>3. run'[r] = q /\ DOMAIN run' = DOMAIN run /\ \A s \in Runs \ {r} : run'[s] = run[s]
  BY <1>1, Zenon
<1> HIDE DEF p
<1>4. DOMAIN q = PassFields /\ \A field \in PassFields \ {"todo"} : q[field] = p[field]
  BY <1>1, <1>2, RowKept
<1> HIDE DEF q
<1>. QED  BY <1>1, <1>2, <1>3, <1>4 DEF Carries

\* ... to the autopilot ...
LEMMA Piloting ==
  ASSUME PassRows, NEW r \in Runs, NEW at, NEW x, NEW y,
         run' = [run EXCEPT ![r].at = at, ![r].seen = x, ![r].listed = y]
  PROVE  Carries(r, {"at", "seen", "listed"}) /\ run'[r].at = at /\ run'[r].seen = x
<1> DEFINE p == [run[r] EXCEPT !.at = at]
           q == [p EXCEPT !.seen = x]
           t == [q EXCEPT !.listed = y]
<1>1. /\ r \in DOMAIN run /\ DOMAIN run[r] = PassFields /\ DOMAIN run = Runs
      /\ {"at", "seen", "listed"} \subseteq PassFields
  BY DEF PassRows, PassFields
<1>2. /\ DOMAIN p = PassFields /\ p["at"] = at
      /\ \A field \in PassFields \ {"at"} : p[field] = run[r][field]
  BY <1>1, RowKept, RowSet
<1>3. run'[r] = t /\ DOMAIN run' = DOMAIN run /\ \A s \in Runs \ {r} : run'[s] = run[s]
  BY <1>1, Zenon
<1> HIDE DEF p
<1>4. /\ DOMAIN q = PassFields /\ q["seen"] = x
      /\ \A field \in PassFields \ {"seen"} : q[field] = p[field]
  BY <1>1, <1>2, RowKept, RowSet
<1> HIDE DEF q
<1>5. DOMAIN t = PassFields /\ \A field \in PassFields \ {"listed"} : t[field] = q[field]
  BY <1>1, <1>4, RowKept
<1> HIDE DEF t
<1>. QED  BY <1>1, <1>2, <1>3, <1>4, <1>5 DEF Carries

\* ... and with a deal.
Dealt(r, x, y, z, l) ==
  run' = [run EXCEPT ![r].deal = x, ![r].task = y, ![r].rules = z, ![r].listed = l]

\* What a pass is about after a deal was given it.
LEMMA Dealing ==
  ASSUME PassRows, NEW r \in Runs, NEW x, NEW y, NEW z, NEW l, Dealt(r, x, y, z, l)
  PROVE  /\ Carries(r, {"deal", "task", "rules", "listed"})
         /\ run'[r].deal = x /\ run'[r].task = y /\ run'[r].rules = z /\ run'[r].listed = l
<1> DEFINE p == [run[r] EXCEPT !.deal = x]
           q == [p EXCEPT !.task = y]
           t == [q EXCEPT !.rules = z]
           u == [t EXCEPT !.listed = l]
<1>1. /\ r \in DOMAIN run /\ DOMAIN run[r] = PassFields /\ DOMAIN run = Runs
      /\ {"deal", "task", "rules", "listed"} \subseteq PassFields
  BY DEF PassRows, PassFields
<1>2. /\ DOMAIN p = PassFields /\ p["deal"] = x
      /\ \A field \in PassFields \ {"deal"} : p[field] = run[r][field]
  BY <1>1, RowKept, RowSet
<1>3. run'[r] = u /\ DOMAIN run' = DOMAIN run /\ \A s \in Runs \ {r} : run'[s] = run[s]
  BY <1>1, Zenon DEF Dealt
<1> HIDE DEF p
<1>4. /\ DOMAIN q = PassFields /\ q["task"] = y
      /\ \A field \in PassFields \ {"task"} : q[field] = p[field]
  BY <1>1, <1>2, RowKept, RowSet
<1> HIDE DEF q
<1>5. /\ DOMAIN t = PassFields /\ t["rules"] = z
      /\ \A field \in PassFields \ {"rules"} : t[field] = q[field]
  BY <1>1, <1>4, RowKept, RowSet
<1> HIDE DEF t
<1>6. /\ DOMAIN u = PassFields /\ u["listed"] = l
      /\ \A field \in PassFields \ {"listed"} : u[field] = t[field]
  BY <1>1, <1>5, RowKept, RowSet
<1> HIDE DEF u
<1>. QED  BY <1>1, <1>2, <1>3, <1>4, <1>5, <1>6 DEF Carries

\* A pass that begins has seen the log, and has nothing at hand.
LEMMA Beginning ==
  ASSUME PassRows, NEW r \in Runs, NEW at, NEW todo, NEW listed, BeginPass(r, at, todo, listed)
  PROVE  /\ Carries(r, PassFields)
         /\ run'[r].at = at /\ run'[r].now = day /\ run'[r].seen = FiredSince(day)
         /\ run'[r].deal = None /\ run'[r].task = None /\ run'[r].rules = {}
<1> DEFINE due == {e \in Records : outbox[e] = "due"}
           seen == FiredSince(day)
           alone == at = "pilot"
           p == [Off EXCEPT !.at = at, !.alone = alone, !.todo = todo, !.listed = listed,
                            !.now = day, !.seen = seen, !.due = due]
<1>1. run' = [run EXCEPT ![r] = p]
  BY Zenon DEF BeginPass
<1> HIDE DEF due, seen, alone
<1>2. /\ p.at = at /\ p.now = day /\ p.seen = seen
      /\ p.deal = None /\ p.task = None /\ p.rules = {}
  BY DEF Off
<1>3. DOMAIN p = PassFields
  BY DEF Off, PassFields
<1> HIDE DEF p
<1>4. run'[r] = p /\ DOMAIN run' = Runs /\ \A s \in Runs \ {r} : run'[s] = run[s]
  BY <1>1 DEF PassRows
<1>. QED  BY <1>2, <1>3, <1>4 DEF Carries, seen

\* Working on a deal: of its rules some act, one may wait for its task, and those
\* that are left are others.
WorkedOn(r, k, rules, answered, listed) ==
  \E acting, x, y, z :
    /\ acting \subseteq rules /\ fired' = Logged(k, answered \union acting)
    /\ Dealt(r, x, y, z, listed)
    /\ z \subseteq rules \ acting /\ y \notin z
    /\ x = None \/ (x[1] = k /\ y \in rules \ acting)

\* Working on a deal sends one record at most and lets no day pass.
LEMMA WorkingOn ==
  ASSUME NEW r, NEW k, NEW d, NEW rules, NEW answered, NEW listed,
         WorkOn(r, k, d, rules, answered, listed)
  PROVE  /\ WorkedOn(r, k, rules, answered, listed)
         /\ UNCHANGED <<overlapped, day>> /\ \E e, content : Send(r, e, content)
<1> DEFINE now == run[r].now
           tasks == rules \intersect TaskRules
           acting == {rule \in rules \ TaskRules : \A task \in tasks : Precedes(rule, task)}
           w == FoldLeft(LAMBDA x, rule : ByRule(k, now, x, rule),
                         [deal |-> d, saved |-> FALSE, messages |-> messages],
                         SelectSeq(RuleOrder, LAMBDA rule : rule \in acting))
<1>1. fired' = Logged(k, answered \union acting) /\ UNCHANGED <<overlapped, day>>
  BY Zenon DEF WorkOn
<1>2. \/ \E task \in tasks :
           /\ Send(r, <<"task", <<k, task>>>>, TaskContent(w.deal, now))
           /\ run' = [run EXCEPT ![r].deal = <<k, w.deal>>, ![r].task = task,
                                 ![r].rules = rules \ (acting \union {task}), ![r].listed = listed]
      \/ /\ Send(r, <<"deal", k>>, DealContent(w.deal))
         /\ run' = [run EXCEPT ![r].deal = None, ![r].task = None, ![r].rules = {}, ![r].listed = listed]
  BY Zenon DEF WorkOn
<1>3. acting \subseteq rules /\ tasks \subseteq rules \ acting
  OBVIOUS
<1> HIDE DEF w, acting, tasks, now
<1>4. ASSUME NEW x, NEW y, NEW z, z \subseteq rules \ acting, y \notin z,
             x = None \/ (x[1] = k /\ y \in rules \ acting),
             Dealt(r, x, y, z, listed)
      PROVE  WorkedOn(r, k, rules, answered, listed)
  BY <1>1, <1>3, <1>4, Zenon DEF WorkedOn
<1>5. ASSUME NEW task \in tasks,
             Send(r, <<"task", <<k, task>>>>, TaskContent(w.deal, now)),
             run' = [run EXCEPT ![r].deal = <<k, w.deal>>, ![r].task = task,
                                ![r].rules = rules \ (acting \union {task}), ![r].listed = listed]
      PROVE  WorkedOn(r, k, rules, answered, listed) /\ \E e, content : Send(r, e, content)
  <2> DEFINE x == <<k, w.deal>>
             z == rules \ (acting \union {task})
  <2>1. x[1] = k /\ z \subseteq rules \ acting /\ task \notin z /\ task \in rules \ acting
    BY <1>3
  <2>2. Dealt(r, x, task, z, listed)
    BY <1>5 DEF Dealt
  <2> HIDE DEF x, z
  <2>3. WorkedOn(r, k, rules, answered, listed)
    BY <1>4, <2>1, <2>2, Zenon
  <2>. QED  BY <1>5, <2>3, Zenon
<1>6. CASE /\ Send(r, <<"deal", k>>, DealContent(w.deal))
           /\ run' = [run EXCEPT ![r].deal = None, ![r].task = None, ![r].rules = {}, ![r].listed = listed]
  <2> DEFINE x == None
             z == {}
  <2>1. z \subseteq rules \ acting /\ x \notin z /\ x = None
    OBVIOUS
  <2>2. Dealt(r, x, x, z, listed)
    BY <1>6 DEF Dealt
  <2> HIDE DEF x, z
  <2>3. WorkedOn(r, k, rules, answered, listed)
    BY <1>4, <2>1, <2>2, Zenon
  <2>. QED  BY <1>1, <1>6, <2>3, Zenon
<1>. QED  BY <1>1, <1>2, <1>5, <1>6, Zenon

\* Taking the next of a list keeps a pass under way.
LEMMA Onwards ==
  ASSUME PassRows, NEW r \in Runs, NEW at, at # "off", Onward(r, at)
  PROVE  /\ run[r].at # "off" /\ ~Calling(r) /\ Carries(r, {"todo"}) /\ run'[r].at = at
<1>1. run' = [run EXCEPT ![r].todo = Tail(run[r].todo)] /\ run[r].at = at /\ ~Calling(r)
  BY DEF Onward, At
<1>2. Carries(r, {"todo"})
  BY <1>1, Listing, Zenon
<1>. QED  BY <1>1, <1>2 DEF Carries, PassFields

\* Every step of a pass is a write, or leaves links, calls and the CRM alone.
LEMMA Worked ==
  ASSUME PassRows, NEW r \in Runs, Step(r) \/ ResearchFails(r)
  PROVE  Works(r)
<1>0. SUFFICES run[r].at # "off" /\ ~Calling(r) => Works(r)
  <2>1. ASSUME TakeDeal(r) \/ TaskAnswered(r) PROVE run[r].at # "off" /\ ~Calling(r)
    BY <2>1 DEF TakeDeal, TaskAnswered, At
  <2>. QED
    BY <2>1 DEF Step, Research, ResearchFails, Plan, Drain, DrainOne, Ends, Reconcile, ReconcileAccount,
                ListDeals, ReconcileDeal, ListSent, ReconcileSent, Learn, Onward, At
<1>1. CASE DrainOne(r)
  BY <1>1, Onwards, Sends DEF DrainOne, Works, Carries
<1>2. CASE ReconcileAccount(r)
  BY <1>2, Onwards, Sends DEF ReconcileAccount, Works, Carries
<1>3. CASE ReconcileDeal(r)
  BY <1>3, Onwards DEF ReconcileDeal, Works, Carries
<1>4. CASE ReconcileSent(r)
  BY <1>4, Onwards DEF ReconcileSent, Works, Carries
<1>5. CASE \E f \in Findings : Research(r, f)
  <2>1. run' = [run EXCEPT ![r].todo = Tail(run[r].todo)] /\ run[r].at # "off" /\ ~Calling(r)
        /\ CrmStill /\ UNCHANGED overlapped
    BY <1>5 DEF Research, At, crmVars, CrmStill
  <2>. QED  BY <2>1, Listing DEF Works, Carries
<1>6. CASE ResearchFails(r)
  <2>1. run' = [run EXCEPT ![r].todo = Tail(run[r].todo)] /\ run[r].at # "off" /\ ~Calling(r)
        /\ CrmStill /\ UNCHANGED overlapped
    BY <1>6 DEF ResearchFails, At, crmVars, CrmStill
  <2>. QED  BY <2>1, Listing DEF Works, Carries
<1>7. CASE Plan(r)
  <2>1. run[r].at # "off" /\ ~Calling(r) /\ CrmStill /\ UNCHANGED overlapped
    BY <1>7 DEF Plan, At, crmVars, CrmStill
  <2>2. PICK x, y : run' = [run EXCEPT ![r].at = "pilot", ![r].seen = x, ![r].listed = y]
    BY <1>7, Zenon DEF Plan
  <2>3. Carries(r, {"at", "seen", "listed"})
    BY <2>2, Piloting, Zenon
  <2>. QED  BY <2>1, <2>3 DEF Works, Carries
<1>8. CASE TakeDeal(r) \/ TaskAnswered(r)
  <2>1. /\ run[r].at = "pilot" /\ ~Calling(r)
        /\ \E k, d, rules, answered, listed : WorkOn(r, k, d, rules, answered, listed)
    BY <1>8, Zenon DEF TakeDeal, TaskAnswered, At
  <2>2. PICK k, d, rules, answered, listed : WorkOn(r, k, d, rules, answered, listed)
    BY <2>1, Zenon
  <2>3. /\ WorkedOn(r, k, rules, answered, listed)
        /\ UNCHANGED overlapped /\ \E e, content : Send(r, e, content)
    BY <2>2, WorkingOn
  <2>4. PICK acting, x, y, z :
          /\ acting \subseteq rules /\ fired' = Logged(k, answered \union acting)
          /\ Dealt(r, x, y, z, listed)
          /\ z \subseteq rules \ acting /\ y \notin z
          /\ x = None \/ (x[1] = k /\ y \in rules \ acting)
    BY <2>3, Zenon DEF WorkedOn
  <2>5. Carries(r, {"deal", "task", "rules", "listed"})
    BY <2>4, Dealing
  <2>6. run'[r]["at"] = run[r]["at"]
    BY <2>5 DEF Carries, PassFields
  <2>. QED  BY <2>1, <2>3, <2>5, <2>6 DEF Works, Carries
<1>9. CASE Drain(r) \/ Reconcile(r) \/ ListDeals(r) \/ ListSent(r)
  <2>1. /\ run[r].at # "off" /\ ~Calling(r) /\ CrmStill /\ UNCHANGED overlapped
        /\ \E at, x : at # "off" /\ run' = [run EXCEPT ![r].at = at, ![r].todo = x]
    BY <1>9 DEF Drain, Reconcile, ListDeals, ListSent, Go, At, crmVars, CrmStill
  <2>2. PICK at, x : at # "off" /\ run' = [run EXCEPT ![r].at = at, ![r].todo = x]
    BY <2>1, Zenon
  <2>3. Carries(r, {"at", "todo"})
    BY <2>2, Turning, Zenon
  <2>. QED  BY <2>1, <2>3 DEF Works, Carries
<1>10. CASE Ends(r) \/ Learn(r)
  <2>1. /\ run[r].at # "off" /\ ~Calling(r) /\ CrmStill /\ UNCHANGED overlapped
        /\ run' = [run EXCEPT ![r] = Off]
    BY <1>10 DEF Ends, Learn, At, crmVars, CrmStill
  <2>2. DOMAIN Off = PassFields
    BY DEF Off, PassFields
  <2>. QED  BY <2>1, <2>2 DEF Works, PassRows
<1>. QED
  BY <1>1, <1>2, <1>3, <1>4, <1>5, <1>6, <1>7, <1>8, <1>9, <1>10 DEF Step

-----------------------------------------------------------------------------
(* Calls, one at a time.                                                   *)

\* The part of PassRows that is about calls and the CRM.
CallRows ==
  /\ DOMAIN call = Runs /\ \A r \in Runs : DOMAIN call[r] = CallFields
  /\ DOMAIN link = Records /\ DOMAIN external = Records /\ DOMAIN lost = Records
  /\ \A e \in Records : DOMAIN link[e] = {"id", "content"}

\* While a pass is under way no other one calls.
LEMMA CallsAlone ==
  ASSUME OnePass, NEW r \in Runs, run[r].at # "off"
  PROVE  \A s \in Runs \ {r} : call[s].answer = "none"
  BY DEF OnePass, Calling

\* A write that leaves takes the id of the link with it.
LEMMA SendKeeps ==
  ASSUME CallRows, NEW r \in Runs, \A s \in Runs : call[s].answer = "none",
         NEW e, NEW content, Send(r, e, content)
  PROVE  /\ CallRows'
         /\ \A s \in Runs \ {r} : call'[s] = call[s]
         /\ \A x \in Records : Counted(x) => Counted(x)'
<1>1. external' = external /\ lost' = lost
  BY DEF Send
<1>2. CASE UNCHANGED <<link, call>>
  BY <1>1, <1>2 DEF CallRows, Counted, Confirming
<1>3. CASE link' = [link EXCEPT ![e].content = content] /\ call' = call
  <2>1. link' = [link EXCEPT ![e] = [link[e] EXCEPT !.content = content]]
    BY <1>3
  <2>2. \A x \in Records : link'[x] = IF x = e THEN [link[e] EXCEPT !.content = content] ELSE link[x]
    BY <2>1 DEF CallRows
  <2>3. e \in Records => /\ DOMAIN [link[e] EXCEPT !.content = content] = {"id", "content"}
                         /\ [link[e] EXCEPT !.content = content]["id"] = link[e]["id"]
    BY RowKept DEF CallRows
  <2>4. \A x \in Records : DOMAIN link'[x] = {"id", "content"} /\ link'[x].id = link[x].id
    BY <2>2, <2>3 DEF CallRows
  <2>5. DOMAIN link' = Records
    BY <2>1 DEF CallRows
  <2>. QED  BY <1>1, <1>3, <2>4, <2>5 DEF CallRows, Counted, Confirming
<1>4. CASE /\ call' = [call EXCEPT ![r] = [record |-> e, content |-> content,
                                           answer |-> "awaited", id |-> link[e].id]]
           /\ link' = link
  <2>1. DOMAIN call' = Runs /\ \A s \in Runs \ {r} : call'[s] = call[s]
    BY <1>4 DEF CallRows
  <2>2. call'[r] = [record |-> e, content |-> content, answer |-> "awaited", id |-> link[e].id]
    BY <1>4 DEF CallRows
  <2>3. /\ DOMAIN call'[r] = CallFields /\ call'[r].answer = "awaited"
        /\ call'[r].record = e /\ call'[r].id = link[e].id
    BY <2>2 DEF CallFields
  <2>4. CallRows'
    BY <1>1, <1>4, <2>1, <2>3 DEF CallRows
  <2>5. ASSUME NEW x \in Records, Counted(x) PROVE Counted(x)'
    <3>1. ~Confirming(x) /\ ~Confirming(x)'
      BY <2>1, <2>3 DEF Confirming
    <3>2. \A s \in Runs : call'[s].record = x =>
            /\ call'[s].answer = "awaited" => call'[s].id = link'[x].id
            /\ call'[s].answer # "ok"
      BY <1>4, <2>1, <2>3
    <3>. QED  BY <1>1, <1>4, <2>5, <3>1, <3>2 DEF Counted
  <2>. QED  BY <2>1, <2>4, <2>5
<1>. QED
  BY <1>1, <1>2, <1>3, <1>4 DEF Send

\* What an answer does to a call.
LEMMA Replied ==
  ASSUME CallRows, NEW r \in Runs, NEW answer, call' = [call EXCEPT ![r].answer = answer]
  PROVE  /\ DOMAIN call' = Runs /\ \A s \in Runs \ {r} : call'[s] = call[s]
         /\ DOMAIN call'[r] = CallFields
         /\ call'[r].answer = answer /\ call'[r].id = call[r].id /\ call'[r].record = call[r].record
<1> DEFINE p == [call[r] EXCEPT !.answer = answer]
<1>1. DOMAIN call[r] = CallFields /\ DOMAIN call = Runs
      /\ {"answer", "id", "record"} \subseteq CallFields
  BY DEF CallRows, CallFields
<1>2. DOMAIN p = CallFields /\ p["answer"] = answer /\ p["id"] = call[r]["id"]
      /\ p["record"] = call[r]["record"]
  BY <1>1, RowKept, RowSet
<1> HIDE DEF p
<1>3. call'[r] = p /\ DOMAIN call' = Runs /\ \A s \in Runs \ {r} : call'[s] = call[s]
  BY <1>1, Zenon DEF p
<1>. QED  BY <1>2, <1>3

\* The same for an answer that also names the record it was written to.
LEMMA RepliedWith ==
  ASSUME CallRows, NEW r \in Runs, NEW answer, NEW id,
         call' = [call EXCEPT ![r].answer = answer, ![r].id = id]
  PROVE  /\ DOMAIN call' = Runs /\ \A s \in Runs \ {r} : call'[s] = call[s]
         /\ DOMAIN call'[r] = CallFields
         /\ call'[r].answer = answer /\ call'[r].id = id /\ call'[r].record = call[r].record
<1> DEFINE p == [call[r] EXCEPT !.answer = answer]
           q == [p EXCEPT !.id = id]
<1>1. DOMAIN call[r] = CallFields /\ DOMAIN call = Runs
      /\ {"answer", "id", "record"} \subseteq CallFields
  BY DEF CallRows, CallFields
<1>2. DOMAIN p = CallFields /\ p["answer"] = answer /\ p["record"] = call[r]["record"]
  BY <1>1, RowKept, RowSet
<1>3. call'[r] = q /\ DOMAIN call' = Runs /\ \A s \in Runs \ {r} : call'[s] = call[s]
  BY <1>1, Zenon DEF p, q
<1> HIDE DEF p
<1>4. DOMAIN q = CallFields /\ q["id"] = id /\ q["answer"] = p["answer"] /\ q["record"] = p["record"]
  BY <1>1, <1>2, RowKept, RowSet
<1> HIDE DEF q
<1>. QED  BY <1>2, <1>3, <1>4

\* Writing over a record, and appending one.
LEMMA HeldAfter ==
  ASSUME NEW S, NEW held \in Seq(S), NEW id \in Nat, id <= Len(held), NEW shown
  PROVE  /\ id > 0 => \E T : /\ [held EXCEPT ![id] = shown] \in Seq(T)
                             /\ Len([held EXCEPT ![id] = shown]) = Len(held)
         /\ \E T : /\ Append(held, shown) \in Seq(T)
                   /\ Len(Append(held, shown)) = Len(held) + 1
<1> DEFINE T == S \cup {shown}
<1>1. held \in Seq(T) /\ shown \in T /\ Len(held) \in Nat
  OBVIOUS
<1> HIDE DEF T
<1>2. Append(held, shown) \in Seq(T) /\ Len(Append(held, shown)) = Len(held) + 1
  BY <1>1
<1>3. ASSUME id > 0
      PROVE  [held EXCEPT ![id] = shown] \in Seq(T) /\ Len([held EXCEPT ![id] = shown]) = Len(held)
  BY <1>1, <1>3
<1>. QED  BY <1>2, <1>3

\* What a write does in the CRM: one record more when it was not linked, else none.
LEMMA Lands ==
  ASSUME CallRows, NEW r \in Runs, InFlight(r), external' = Applied(call[r]),
         \A s \in Runs \ {r} : call[s].answer = "none",
         NEW x \in Records, x[1] \in MadeOnce, Counted(x)
  PROVE  /\ DOMAIN external' = Records
         /\ call[r].record # x => external'[x] = external[x]
         /\ call[r].record = x =>
              /\ Target(call[r]) \in 1..Len(external'[x])
              /\ \E T : external'[x] \in Seq(T)
              /\ link[x].id > 0 => Len(external'[x]) = Len(external[x])
              /\ link[x].id = 0 => /\ Len(external[x]) <= lost[x]
                                   /\ Len(external'[x]) = Len(external[x]) + 1
<1> DEFINE c == call[r]
           held == external[c.record]
           shown == Shown(c.record, c.content)
           t == Target(c)
           v == IF t > Len(held) THEN Append(held, shown) ELSE [held EXCEPT ![t] = shown]
<1>1. external' = [external EXCEPT ![c.record] = v]
  BY DEF Applied
<1> HIDE DEF v
<1>2. DOMAIN external' = Records /\ (c.record # x => external'[x] = external[x])
      /\ (c.record = x => external'[x] = v)
  BY <1>1 DEF CallRows
<1>3. c.record = x => held = external[x]
  OBVIOUS
<1>4. t = IF c.id > 0 THEN c.id
          ELSE IF c.record[1] \in {"company", "contact"} /\ held # <<>> THEN 1
          ELSE Len(held) + 1
  BY DEF Target
<1>5. v = IF t > Len(held) THEN Append(held, shown) ELSE [held EXCEPT ![t] = shown]
  BY DEF v
<1> HIDE DEF t, held, shown
<1>6. ASSUME c.record = x
      PROVE  /\ t \in 1..Len(v)
             /\ \E T : v \in Seq(T)
             /\ link[x].id > 0 => Len(v) = Len(held)
             /\ link[x].id = 0 => Len(held) <= lost[x] /\ Len(v) = Len(held) + 1
  <2>1. /\ lost[x] \in Nat /\ c.id \in Nat /\ c.id = link[x].id
        /\ c.id <= Len(held) /\ Len(held) <= lost[x] + 1
        /\ c.id = 0 /\ ~Confirming(x) => Len(held) <= lost[x]
    BY <1>3, <1>6 DEF Counted, InFlight
  <2>2. ~Confirming(x)
    BY DEF Confirming, InFlight
  <2>3. PICK S : held \in Seq(S)
    BY <1>3, <1>6 DEF Counted
  <2>4. Len(held) \in Nat
    BY <2>3
  <2>5. t = IF c.id > 0 THEN c.id ELSE Len(held) + 1
    BY <1>4, <1>6 DEF MadeOnce
  <2>6. CASE c.id > 0
    <3>1. v = [held EXCEPT ![t] = shown] /\ t = c.id
      BY <1>5, <2>1, <2>4, <2>5, <2>6
    <3>2. (\E T : v \in Seq(T)) /\ Len(v) = Len(held)
      BY <2>1, <2>3, <2>6, <3>1, HeldAfter
    <3>3. t \in 1..Len(held)
      BY <2>1, <2>4, <2>6, <3>1
    <3>. QED  BY <2>1, <2>6, <3>2, <3>3
  <2>7. CASE c.id = 0
    <3>1. v = Append(held, shown) /\ t = Len(held) + 1
      BY <1>5, <2>4, <2>5, <2>7
    <3>2. (\E T : v \in Seq(T)) /\ Len(v) = Len(held) + 1
      BY <2>1, <2>3, <3>1, HeldAfter
    <3>. QED  BY <2>1, <2>2, <2>4, <2>7, <3>1, <3>2
  <2>8. c.id > 0 \/ c.id = 0
    BY <2>1
  <2>. QED  BY <2>6, <2>7, <2>8
<1>. QED  BY <1>2, <1>3, <1>6 DEF t

\* The CRM applies a write; when the answer is lost, that is counted.
LEMMA LandKeeps ==
  ASSUME CallRows, NEW r \in Runs, \A s \in Runs \ {r} : call[s].answer = "none",
         Land(r) \/ LandHalf(r)
  PROVE  /\ CallRows' /\ \A s \in Runs \ {r} : call'[s] = call[s]
         /\ \A x \in Records : x[1] \in MadeOnce /\ Counted(x) => Counted(x)'
<1>1. /\ InFlight(r) /\ external' = Applied(call[r]) /\ link' = link
  BY DEF Land, LandHalf
<1>2. DOMAIN external' = Records
  BY <1>1 DEF Applied, CallRows
<1>3. PICK answer :
        /\ answer \in {"ok", "retry"}
        /\ DOMAIN call' = Runs /\ \A s \in Runs \ {r} : call'[s] = call[s]
        /\ DOMAIN call'[r] = CallFields
        /\ call'[r].answer = answer /\ call'[r].record = call[r].record
        /\ answer = "ok" => call'[r].id = Target(call[r]) /\ lost' = lost
        /\ answer = "retry" => lost' = [lost EXCEPT ![call[r].record] = lost[call[r].record] + 1]
  <2>1. CASE Land(r)
    <3> DEFINE wrote == Target(call[r])
    <3>1. call' = [call EXCEPT ![r].answer = "ok", ![r].id = wrote] /\ lost' = lost
      BY <2>1 DEF Land
    <3> HIDE DEF wrote
    <3>2. /\ DOMAIN call' = Runs /\ \A s \in Runs \ {r} : call'[s] = call[s]
          /\ DOMAIN call'[r] = CallFields
          /\ call'[r].answer = "ok" /\ call'[r].id = wrote /\ call'[r].record = call[r].record
      BY <3>1, RepliedWith, Zenon
    <3>. QED  BY <3>1, <3>2 DEF wrote
  <2>2. CASE LandHalf(r)
    <3>1. call' = [call EXCEPT ![r].answer = "retry"]
          /\ lost' = [lost EXCEPT ![call[r].record] = lost[call[r].record] + 1]
      BY <2>2 DEF LandHalf
    <3>2. /\ DOMAIN call' = Runs /\ \A s \in Runs \ {r} : call'[s] = call[s]
          /\ DOMAIN call'[r] = CallFields
          /\ call'[r].answer = "retry" /\ call'[r].record = call[r].record
      BY <3>1, Replied, Zenon
    <3>. QED  BY <3>1, <3>2
  <2>. QED  BY <2>1, <2>2
<1>4. DOMAIN lost' = Records
  BY <1>3 DEF CallRows
<1>5. CallRows'
  BY <1>1, <1>2, <1>3, <1>4 DEF CallRows
<1>6. ASSUME NEW x \in Records, x[1] \in MadeOnce, Counted(x) PROVE Counted(x)'
  <2>1. CASE call[r].record # x
    <3>1. external'[x] = external[x] /\ lost'[x] = lost[x]
      BY <1>1, <1>3, <1>6, <2>1, Lands DEF CallRows
    <3>2. \A s \in Runs : call'[s].record = x => s # r /\ call'[s] = call[s]
      BY <1>3, <2>1
    <3>3. Confirming(x)' <=> Confirming(x)
      BY <1>3, <2>1 DEF Confirming
    <3>. QED  BY <1>1, <1>6, <3>1, <3>2, <3>3 DEF Counted
  <2>2. CASE call[r].record = x
    <3>1. /\ Target(call[r]) \in 1..Len(external'[x])
          /\ \E T : external'[x] \in Seq(T)
          /\ link[x].id > 0 => Len(external'[x]) = Len(external[x])
          /\ link[x].id = 0 => /\ Len(external[x]) <= lost[x]
                               /\ Len(external'[x]) = Len(external[x]) + 1
      BY <1>1, <1>6, <2>2, Lands
    <3>2. /\ lost[x] \in Nat /\ link[x].id \in Nat /\ link[x].id <= Len(external[x])
          /\ Len(external[x]) \in Nat /\ Len(external'[x]) \in Nat
          /\ Len(external[x]) <= lost[x] + 1
      <4>1. lost[x] \in Nat /\ link[x].id \in Nat /\ link[x].id <= Len(external[x])
            /\ Len(external[x]) <= lost[x] + 1
        BY <1>6 DEF Counted
      <4>2. PICK S : external[x] \in Seq(S)
        BY <1>6 DEF Counted
      <4>3. PICK T : external'[x] \in Seq(T)
        BY <3>1
      <4>. QED  BY <4>1, <4>2, <4>3
    <3>3. lost'[x] = IF answer = "ok" THEN lost[x] ELSE lost[x] + 1
      BY <1>3, <2>2 DEF CallRows
    <3>4. Confirming(x)' <=> answer = "ok"
      BY <1>3, <2>2 DEF Confirming
    <3>5. \A s \in Runs : call'[s].record = x /\ call'[s].answer \in {"awaited", "ok"} =>
            call'[s].answer = "ok" /\ call'[s].id \in 1..Len(external'[x])
      BY <1>3, <3>1
    <3>6. /\ link[x].id <= Len(external'[x])
          /\ Len(external'[x]) <= lost'[x] + 1
          /\ link[x].id = 0 /\ answer # "ok" => Len(external'[x]) <= lost'[x]
      <4>1. CASE link[x].id > 0
        <5>1. Len(external[x]) <= lost[x] + 1 /\ Len(external'[x]) = Len(external[x])
          BY <3>1, <3>2, <4>1
        <5>. QED  BY <3>2, <3>3, <4>1, <5>1
      <4>2. CASE link[x].id = 0
        <5>1. Len(external[x]) <= lost[x] /\ Len(external'[x]) = Len(external[x]) + 1
          BY <3>1, <3>2, <4>2
        <5>. QED  BY <3>2, <3>3, <4>2, <5>1
      <4>. QED  BY <3>2, <4>1, <4>2
    <3>7. lost'[x] \in Nat
      BY <3>2, <3>3
    <3>. QED  BY <1>1, <3>1, <3>2, <3>4, <3>5, <3>6, <3>7 DEF Counted
  <2>. QED  BY <2>1, <2>2
<1>. QED  BY <1>3, <1>5, <1>6

\* A write that fails changes nothing.
LEMMA FailKeeps ==
  ASSUME CallRows, NEW r \in Runs, NEW how \in {"retry", "rejected"}, FailCall(r, how)
  PROVE  /\ CallRows' /\ \A s \in Runs \ {r} : call'[s] = call[s]
         /\ \A x \in Records : Counted(x) => Counted(x)'
<1>1. /\ call' = [call EXCEPT ![r].answer = how] /\ call[r].answer = "awaited"
      /\ external' = external /\ link' = link /\ lost' = lost
  BY DEF FailCall, InFlight
<1>2. /\ DOMAIN call' = Runs /\ \A s \in Runs \ {r} : call'[s] = call[s]
      /\ DOMAIN call'[r] = CallFields
      /\ call'[r].answer = how /\ call'[r].record = call[r].record
  BY <1>1, Replied, Zenon
<1>3. \A x : Confirming(x)' <=> Confirming(x)
  BY <1>1, <1>2 DEF Confirming
<1>4. \A s \in Runs : call'[s].answer \in {"awaited", "ok"} => call'[s] = call[s]
  BY <1>2
<1>. QED  BY <1>1, <1>2, <1>3, <1>4 DEF CallRows, Counted

\* The answer is handled: a record that was written is linked.
LEMMA AnswerKeeps ==
  ASSUME CallRows, NEW r \in Runs, \A s \in Runs \ {r} : call[s].answer = "none", Answer(r)
  PROVE  /\ CallRows' /\ \A s \in Runs \ {r} : call'[s] = call[s]
         /\ \A x \in Records : Counted(x) => Counted(x)'
<1> DEFINE c == call[r]
<1>1. /\ call' = [call EXCEPT ![r] = NoCall] /\ external' = external /\ lost' = lost
      /\ c.answer # "ok" => link' = link
      /\ c.answer = "ok" => link' = [link EXCEPT ![c.record] = [id |-> c.id, content |-> c.content]]
  BY DEF Answer
<1>2. /\ DOMAIN call' = Runs /\ call'[r] = NoCall /\ \A s \in Runs \ {r} : call'[s] = call[s]
  BY <1>1 DEF CallRows
<1>3. DOMAIN NoCall = CallFields /\ NoCall.answer = "none"
  BY DEF NoCall, CallFields
<1>4. DOMAIN link' = Records /\ \A x \in Records : DOMAIN link'[x] = {"id", "content"}
  BY <1>1 DEF CallRows
<1>5. \A s \in Runs : call'[s].answer = "none"
  BY <1>2, <1>3
<1>6. CallRows'
  BY <1>1, <1>2, <1>3, <1>4 DEF CallRows
<1>7. ASSUME NEW x \in Records, Counted(x) PROVE Counted(x)'
  <2>1. ~Confirming(x)' /\ \A s \in Runs : call'[s].answer \notin {"awaited", "ok"}
    BY <1>5 DEF Confirming
  <2>2. CASE c.answer = "ok" /\ c.record = x
    <3>1. link'[x].id = c.id /\ c.id \in 1..Len(external[x])
      BY <1>1, <1>7, <2>2 DEF CallRows, Counted
    <3>2. PICK S : external[x] \in Seq(S)
      BY <1>7 DEF Counted
    <3>3. link'[x].id \in Nat /\ link'[x].id # 0 /\ link'[x].id <= Len(external[x])
      BY <3>1, <3>2
    <3>. QED  BY <1>1, <1>7, <2>1, <3>3 DEF Counted
  <2>3. CASE ~(c.answer = "ok" /\ c.record = x)
    <3>1. link'[x] = link[x]
      BY <1>1, <2>3 DEF CallRows
    <3>2. ~Confirming(x)
      BY <2>3 DEF Confirming
    <3>. QED  BY <1>1, <1>7, <2>1, <3>1, <3>2 DEF Counted
  <2>. QED  BY <2>2, <2>3
<1>. QED  BY <1>2, <1>6, <1>7

\* The process dies: the answer that was there, one at most, is lost.
LEMMA LossKeeps ==
  ASSUME CallRows, \A r, s \in Runs : Calling(r) /\ Calling(s) => r = s, CallsLost
  PROVE  /\ CallRows' /\ \A r \in Runs : ~Calling(r)'
         /\ \A x \in Records : Counted(x) => Counted(x)'
<1> DEFINE ended(x) == {r \in Runs : call[r].answer = "ok" /\ call[r].record = x}
<1>1. /\ call' = [r \in Runs |-> NoCall] /\ external' = external /\ link' = link
  BY DEF CallsLost
<1>6. DOMAIN lost' = Records /\ \A x \in Records : lost'[x] = lost[x] + Cardinality(ended(x))
  BY Zenon DEF CallsLost
<1>2. DOMAIN NoCall = CallFields /\ NoCall.answer = "none"
  BY DEF NoCall, CallFields
<1>3. \A r \in Runs : call'[r] = NoCall
  BY <1>1
<1>4. CallRows' /\ \A r \in Runs : ~Calling(r)'
  BY <1>1, <1>2, <1>3, <1>6 DEF CallRows, Calling
<1>5. ASSUME NEW x \in Records, Counted(x) PROVE Counted(x)'
  <2>1. Cardinality(ended(x)) = IF Confirming(x) THEN 1 ELSE 0
    <3>1. CASE Confirming(x)
      <4>1. PICK r \in Runs : call[r].answer = "ok" /\ call[r].record = x
        BY <3>1 DEF Confirming
      <4>2. ended(x) = {r}
        BY <4>1 DEF Calling
      <4>. QED  BY <3>1, <4>2, FS_Singleton
    <3>2. CASE ~Confirming(x)
      <4>1. ended(x) = {}
        BY <3>2 DEF Confirming
      <4>. QED  BY <3>2, <4>1, FS_EmptySet
    <3>. QED  BY <3>1, <3>2
  <2>2. lost'[x] = lost[x] + Cardinality(ended(x))
    BY <1>6
  <2> HIDE DEF ended
  <2>3. PICK S : external[x] \in Seq(S)
    BY <1>5 DEF Counted
  <2>4. /\ lost[x] \in Nat /\ Len(external[x]) \in Nat /\ Len(external[x]) <= lost[x] + 1
        /\ link[x].id = 0 /\ ~Confirming(x) => Len(external[x]) <= lost[x]
    BY <1>5, <2>3 DEF Counted
  <2>5. /\ lost'[x] \in Nat /\ Len(external[x]) <= lost'[x] + 1
        /\ link[x].id = 0 => Len(external[x]) <= lost'[x]
    <3>1. CASE Confirming(x)
      BY <2>1, <2>2, <2>4, <3>1
    <3>2. CASE ~Confirming(x)
      BY <2>1, <2>2, <2>4, <3>2
    <3>. QED  BY <3>1, <3>2
  <2>6. \A r \in Runs : call'[r].answer \notin {"awaited", "ok"}
    BY <1>2, <1>3
  <2>. QED  BY <1>1, <1>5, <2>5, <2>6 DEF Counted
<1>. QED  BY <1>4, <1>5

-----------------------------------------------------------------------------
(* The invariant holds.                                                    *)

\* At first nothing is linked, and no record of these kinds is in the CRM.
LEMMA CrmStarts == Init => CrmInv
<1> SUFFICES ASSUME Init PROVE CrmInv
  OBVIOUS
<1>1. /\ run = [r \in Runs |-> Off] /\ call = [r \in Runs |-> NoCall]
      /\ link = [e \in Records |-> Unlinked] /\ lost = [e \in Records |-> 0]
  BY DEF Init, CrmInit
<1>2. /\ DOMAIN external = Records
      /\ \A e \in Records : e[1] \in MadeOnce => external[e] = <<>>
  BY DEF Init, CrmInit, MadeOnce
<1>3. /\ DOMAIN Off = PassFields /\ Off.at = "off"
      /\ DOMAIN NoCall = CallFields /\ NoCall.answer = "none"
      /\ DOMAIN Unlinked = {"id", "content"} /\ Unlinked.id = 0
  BY DEF Off, NoCall, Unlinked, CallFields, PassFields
<1>4. PassRows /\ OnePass
  BY <1>1, <1>2, <1>3 DEF PassRows, OnePass, Calling
<1>5. ASSUME NEW e \in Records, e[1] \in MadeOnce PROVE Counted(e)
  <2>1. lost[e] = 0 /\ link[e].id = 0 /\ external[e] = <<>>
    BY <1>1, <1>2, <1>3, <1>5
  <2>2. external[e] \in Seq({}) /\ Len(external[e]) = 0
    BY <2>1
  <2>3. \A r \in Runs : call[r].answer = "none"
    BY <1>1, <1>3
  <2>. QED  BY <2>1, <2>2, <2>3 DEF Counted, Confirming
<1>. QED  BY <1>4, <1>5 DEF CrmInv

\* Passes that overlapped have overlapped for good.
LEMMA OverlapStays ==
  ASSUME [Next]_gtmVars, ~overlapped'
  PROVE  ~overlapped
<1>1. CASE \E r \in Runs : Start(r) \/ StartAutopilot(r)
  BY <1>1 DEF Start, StartAutopilot, BeginPass
<1>2. CASE \E r \in Runs : Step(r)
  <2>1. CASE \E r \in Runs : (\E f \in Findings : Research(r, f)) \/ Plan(r)
    BY <2>1 DEF Research, Plan
  <2>2. ASSUME NEW r \in Runs, TakeDeal(r) \/ TaskAnswered(r) PROVE UNCHANGED overlapped
    BY <2>2, Zenon DEF TakeDeal, TaskAnswered, WorkOn
  <2>3. CASE \E r \in Runs : Drain(r) \/ DrainOne(r) \/ Ends(r) \/ Reconcile(r) \/ ListDeals(r)
    BY <2>3 DEF Drain, DrainOne, Ends, Reconcile, ListDeals
  <2>4. CASE \E r \in Runs : \/ ReconcileAccount(r) \/ ReconcileDeal(r) \/ ListSent(r)
                             \/ ReconcileSent(r) \/ Learn(r)
    BY <2>4 DEF ReconcileAccount, ReconcileDeal, ListSent, ReconcileSent, Learn
  <2>. QED  BY <1>2, <2>1, <2>2, <2>3, <2>4 DEF Step
<1>3. CASE \E r \in Runs : ResearchFails(r)
  BY <1>3 DEF ResearchFails
<1>4. CASE \/ \E r \in Runs : \/ Landed(r) \/ Answered(r) \/ AnswerLost(r)
                              \/ \E how \in {"retry", "rejected"} : CallFails(r, how)
           \/ \E e \in Records : Queued(e)
           \/ \E days \in Jumps : Tick(days)
           \/ People \/ Restart
  BY <1>4 DEF Landed, Answered, AnswerLost, CallFails, Queued, Tick, People, Restart, StoreStays,
              Move, Intake, AddPerson, Suppress, Reanalysed, Approve, SendMessage, EditDeal,
              RecordMeeting, ResolveDecision
<1>5. CASE UNCHANGED gtmVars
  BY <1>5 DEF gtmVars
<1>. QED  BY <1>1, <1>2, <1>3, <1>4, <1>5 DEF Next

\* Every step keeps the invariant.
LEMMA CrmStep == CrmInv /\ [Next]_gtmVars => CrmInv'
<1> SUFFICES ASSUME CrmInv, [Next]_gtmVars, ~overlapped' PROVE CrmInv'
  BY DEF CrmInv
<1>1. CASE UNCHANGED gtmVars
  BY <1>1 DEF gtmVars, crmVars, storeVars, CrmInv, PassRows, OnePass, Calling, Counted, Confirming
<1>2. ~overlapped
  BY OverlapStays
<1>3. /\ PassRows /\ OnePass /\ CallRows
      /\ \A e \in Records : e[1] \in MadeOnce => Counted(e)
  BY <1>2 DEF CrmInv, PassRows, CallRows
<1>4. SUFFICES ASSUME Next
               PROVE  /\ DOMAIN run' = Runs /\ \A r \in Runs : DOMAIN run'[r] = PassFields
                      /\ CallRows' /\ OnePass'
                      /\ \A e \in Records : e[1] \in MadeOnce /\ Counted(e) => Counted(e)'
  BY <1>1, <1>3 DEF CrmInv, PassRows, CallRows
<1>5. ASSUME NEW r \in Runs, Step(r) \/ ResearchFails(r)
      PROVE  /\ DOMAIN run' = Runs /\ \A s \in Runs : DOMAIN run'[s] = PassFields
             /\ CallRows' /\ OnePass'
             /\ \A e \in Records : Counted(e) => Counted(e)'
  <2>1. Works(r)
    BY <1>3, <1>5, Worked
  <2>2. \A s \in Runs \ {r} : run[s].at = "off" /\ call[s].answer = "none"
    BY <1>3, <2>1 DEF Works, OnePass, Calling
  <2>3. \A s \in Runs : call[s].answer = "none"
    BY <2>1, <2>2 DEF Works, Calling
  <2>4. /\ CallRows' /\ \A s \in Runs \ {r} : call'[s] = call[s]
        /\ \A e \in Records : Counted(e) => Counted(e)'
        /\ run'[r].at # "off" \/ call' = call
    <3>1. CASE CrmStill
      BY <1>3, <3>1 DEF CrmStill, CallRows, Counted, Confirming
    <3>2. CASE run'[r].at # "off" /\ \E e, content : Send(r, e, content)
      BY <1>3, <2>3, <3>2, SendKeeps
    <3>. QED  BY <2>1, <3>1, <3>2 DEF Works
  <2>5. DOMAIN run' = Runs /\ \A s \in Runs : DOMAIN run'[s] = PassFields
    BY <1>3, <2>1 DEF Works, PassRows
  <2>6. OnePass'
    BY <2>1, <2>2, <2>3, <2>4 DEF OnePass, Works, Calling
  <2>. QED  BY <2>4, <2>5, <2>6
<1>6. ASSUME NEW r \in Runs, Start(r) \/ StartAutopilot(r)
      PROVE  /\ DOMAIN run' = Runs /\ \A s \in Runs : DOMAIN run'[s] = PassFields
             /\ CallRows' /\ OnePass'
             /\ \A e \in Records : Counted(e) => Counted(e)'
  <2>1. PICK at, todo, listed : BeginPass(r, at, todo, listed)
    BY <1>6 DEF Start, StartAutopilot
  <2>2. UNCHANGED <<call, link, external, lost>> /\ \A s \in Runs : run[s].at = "off"
    BY <2>1 DEF BeginPass, crmVars, UnderWay
  <2>3. Carries(r, PassFields)
    BY <1>3, <2>1, Beginning
  <2>4. \A s \in Runs : ~Calling(s) /\ ~Calling(s)'
    BY <1>3, <2>2 DEF OnePass, Calling
  <2>5. OnePass' /\ \A s \in Runs : DOMAIN run'[s] = PassFields
    BY <1>3, <2>2, <2>3, <2>4 DEF OnePass, PassRows, Carries
  <2>. QED  BY <1>3, <2>2, <2>3, <2>5 DEF CallRows, Counted, Confirming, Carries
<1>7. ASSUME NEW r \in Runs,
             \/ Landed(r) \/ Answered(r) \/ AnswerLost(r)
             \/ \E how \in {"retry", "rejected"} : CallFails(r, how)
      PROVE  /\ run' = run /\ CallRows' /\ OnePass'
             /\ \A e \in Records : e[1] \in MadeOnce /\ Counted(e) => Counted(e)'
  <2>1. Calling(r) /\ run' = run
    BY <1>7 DEF Landed, Answered, AnswerLost, CallFails, Land, LandHalf, Answer, FailCall, InFlight,
                Calling, StoreStays
  <2>2. \A s \in Runs \ {r} : call[s].answer = "none"
    BY <1>3, <2>1, CallsAlone DEF OnePass
  <2>3. /\ CallRows' /\ \A s \in Runs \ {r} : call'[s] = call[s]
        /\ \A e \in Records : e[1] \in MadeOnce /\ Counted(e) => Counted(e)'
    <3>1. CASE Landed(r) \/ AnswerLost(r)
      BY <1>3, <2>2, <3>1, LandKeeps DEF Landed, AnswerLost
    <3>2. CASE Answered(r)
      BY <1>3, <2>2, <3>2, AnswerKeeps DEF Answered
    <3>3. CASE \E how \in {"retry", "rejected"} : CallFails(r, how)
      BY <1>3, <3>3, FailKeeps DEF CallFails
    <3>. QED  BY <1>7, <3>1, <3>2, <3>3
  <2>4. OnePass'
    BY <1>3, <2>1, <2>3 DEF OnePass, Calling
  <2>. QED  BY <2>1, <2>3, <2>4
<1>8. CASE Restart
  <2>1. CallsLost /\ run' = [r \in Runs |-> Off]
    BY <1>8 DEF Restart
  <2>2. \A r, s \in Runs : Calling(r) /\ Calling(s) => r = s
    BY <1>3 DEF OnePass
  <2>3. DOMAIN Off = PassFields /\ Off.at = "off"
    BY DEF Off, PassFields
  <2>4. DOMAIN run' = Runs /\ \A r \in Runs : DOMAIN run'[r] = PassFields /\ run'[r].at = "off"
    BY <2>1, <2>3
  <2>5. /\ CallRows' /\ \A r \in Runs : ~Calling(r)'
        /\ \A x \in Records : Counted(x) => Counted(x)'
    BY <1>3, <2>1, <2>2, LossKeeps
  <2>6. OnePass'
    BY <2>4, <2>5 DEF OnePass
  <2>. QED  BY <2>4, <2>5, <2>6
<1>9. CASE \/ \E e \in Records : Queued(e)
           \/ \E days \in Jumps : Tick(days)
           \/ People
  <2>1. UNCHANGED <<call, link, external, lost, run>>
    BY <1>9 DEF Queued, Due, Tick, People, Intake, AddPerson, Suppress, Reanalysed, Approve,
                SendMessage, EditDeal, RecordMeeting, ResolveDecision, Move, StoreStays, crmVars
  <2>. QED  BY <1>3, <2>1 DEF PassRows, CallRows, OnePass, Calling, Counted, Confirming
<1>. QED
  BY <1>3, <1>4, <1>5, <1>6, <1>7, <1>8, <1>9 DEF Next, PassRows

\* A deal, an activity or a task is made in the CRM once, and once more at most for
\* each write whose answer was lost (writeOne, gtm/crm/sync.ts:168-224), for any
\* number of passes of which no two overlap, of records, refusals and restarts.
THEOREM RecordOnce == Spec => []OneRecordEach
<1>1. CrmInv => OneRecordEach
  <2> SUFFICES ASSUME CrmInv, ~overlapped, NEW e \in Records, e[1] \in MadeOnce
               PROVE  Len(external[e]) <= 1 + lost[e]
    BY DEF OneRecordEach, MadeOnce
  <2>1. PICK S : external[e] \in Seq(S)
    BY DEF CrmInv, Counted
  <2>. QED  BY <2>1 DEF CrmInv, Counted
<1>. QED  BY <1>1, CrmStarts, CrmStep, PTL DEF Spec

-----------------------------------------------------------------------------
(* The log of the autopilot.                                               *)

\* Every entry was made once, and none is of a day to come.
LogOnce ==
  /\ day \in Nat
  /\ \A x \in DOMAIN fired : fired[x] = 1 /\ x[3] \in Int /\ x[3] <= day

\* What a pass may still do it has not done since the morning of its day: of a deal it
\* has listed it has seen all that was done by then, and of the one at hand nothing
\* was done of what is left.
Unfired(p) ==
  /\ p.at # "pilot" => p.deal = None
  /\ p.task \notin p.rules
  /\ p.at = "pilot" /\ p.deal # None => p.deal[1] \notin DOMAIN p.listed
  /\ p.at = "pilot" => \A x \in DOMAIN fired : x[3] >= p.now =>
       /\ x[1] \in DOMAIN p.listed => <<x[1], x[2]>> \in p.seen
       /\ p.deal # None /\ x[1] = p.deal[1] => x[2] \notin p.rules \union {p.task}

\* The same of each pass, none of which is of a day to come.
PassLog(r) ==
  /\ run[r].at # "off" => run[r].now \in Int /\ run[r].now <= day
  /\ Unfired(run[r])

\* The inductive invariant, next to CrmInv.
LogInv == ~overlapped => LogOnce /\ \A r \in Runs : PassLog(r)

\* As long as a pass is not the autopilot's, nothing is at hand.
LEMMA Unconcerned ==
  ASSUME NEW r, run'[r].at # "pilot", run'[r].deal = None, run'[r].task \notin run'[r].rules,
         run'[r].at # "off" => run'[r].now \in Int /\ run'[r].now <= day'
  PROVE  PassLog(r)'
  BY DEF PassLog, Unfired

\* The entries a step adds to the log are new.
LEMMA WorkLogs ==
  ASSUME PassRows, LogOnce, NEW r \in Runs, run[r].at = "pilot",
         run[r].now \in Int, run[r].now <= day,
         NEW k, NEW d, NEW rules, NEW answered, NEW listed,
         WorkOn(r, k, d, rules, answered, listed),
         answered \intersect rules = {}, k \notin DOMAIN listed,
         \A x \in DOMAIN fired : x[3] >= run[r].now =>
           /\ x[1] = k => x[2] \notin rules \union answered
           /\ x[1] \in DOMAIN listed => <<x[1], x[2]>> \in run[r].seen
  PROVE  LogOnce' /\ PassLog(r)' /\ \A s \in Runs \ {r} : run'[s] = run[s]
<1>1. WorkedOn(r, k, rules, answered, listed) /\ day' = day
  BY WorkingOn
<1>2. PICK acting, x, y, z :
        /\ acting \subseteq rules /\ fired' = Logged(k, answered \union acting)
        /\ Dealt(r, x, y, z, listed)
        /\ z \subseteq rules \ acting /\ y \notin z
        /\ x = None \/ (x[1] = k /\ y \in rules \ acting)
  BY <1>1, Zenon DEF WorkedOn
<1>3. /\ Carries(r, {"deal", "task", "rules", "listed"})
      /\ run'[r].deal = x /\ run'[r].task = y /\ run'[r].rules = z /\ run'[r].listed = listed
  BY <1>2, Dealing
<1>4. /\ run'[r]["at"] = "pilot" /\ run'[r]["now"] = run[r]["now"] /\ run'[r]["seen"] = run[r]["seen"]
      /\ \A s \in Runs \ {r} : run'[s] = run[s]
  BY <1>3 DEF Carries, PassFields
<1> DEFINE added == {<<k, rule, day>> : rule \in answered \union acting}
<1>5. \A e \in added : /\ e[1] = k /\ e[2] \in answered \union acting /\ e[3] = day
                      /\ e \notin DOMAIN fired
  <2> SUFFICES ASSUME NEW rule \in answered \union acting PROVE <<k, rule, day>> \notin DOMAIN fired
    OBVIOUS
  <2> DEFINE e == <<k, rule, day>>
  <2>1. e[1] = k /\ e[2] = rule /\ e[3] = day /\ rule \in rules \union answered
    BY <1>2
  <2> HIDE DEF e
  <2>2. e \notin DOMAIN fired
    BY <2>1 DEF LogOnce
  <2>. QED  BY <2>2 DEF e
<1>6. /\ DOMAIN fired' = DOMAIN fired \union added
      /\ \A e \in DOMAIN fired' : fired'[e] = 1
  BY <1>2, <1>5 DEF Logged, LogOnce
<1> HIDE DEF added
<1>7. LogOnce'
  BY <1>1, <1>5, <1>6 DEF LogOnce
<1>8. ASSUME NEW e \in DOMAIN fired', e[3] >= run[r].now
      PROVE  /\ e[1] \in DOMAIN listed => <<e[1], e[2]>> \in run[r].seen
             /\ x # None /\ e[1] = x[1] => e[2] \notin z \union {y}
  <2>1. CASE e \in DOMAIN fired
    BY <1>2, <1>8, <2>1
  <2>2. CASE e \in added
    BY <1>2, <1>5, <2>2
  <2>. QED  BY <1>6, <2>1, <2>2
<1>9. x # None => x[1] \notin DOMAIN listed
  BY <1>2
<1>10. PassLog(r)'
  BY <1>1, <1>2, <1>3, <1>4, <1>8, <1>9 DEF PassLog, Unfired
<1>. QED  BY <1>4, <1>7, <1>10

\* Every step of a pass keeps what it may still do undone.
LEMMA StepLogs ==
  ASSUME PassRows, LogOnce, NEW r \in Runs, PassLog(r), Step(r) \/ ResearchFails(r)
  PROVE  /\ run[r].at # "off" /\ LogOnce' /\ PassLog(r)' /\ day' = day
         /\ \A s \in Runs \ {r} : run'[s] = run[s]
<1>1. /\ run[r].at # "off" /\ \A s \in Runs \ {r} : run'[s] = run[s]
  BY Worked DEF Works
<1>2. run[r].now \in Int /\ run[r].now <= day /\ Unfired(run[r])
  BY <1>1 DEF PassLog
<1>3. CASE TakeDeal(r)
  <2> DEFINE p == run[r]
  <2>1. PICK k \in Heaviest(p.listed) :
          WorkOn(r, k, p.listed[k], {rule \in EvaluateRules(k, p.listed[k], p.now) : <<k, rule>> \notin p.seen},
                 {}, [j \in DOMAIN p.listed \ {k} |-> p.listed[j]])
    BY <1>3, Zenon DEF TakeDeal
  <2> DEFINE rules == {rule \in EvaluateRules(k, p.listed[k], p.now) : <<k, rule>> \notin p.seen}
             listed == [j \in DOMAIN p.listed \ {k} |-> p.listed[j]]
             none == {}
  <2>2. WorkOn(r, k, p.listed[k], rules, none, listed)
    BY <2>1
  <2>3. p.at = "pilot" /\ k \in DOMAIN p.listed
    BY <1>3, <2>1 DEF TakeDeal, At, Heaviest
  <2>4. /\ none \intersect rules = {} /\ DOMAIN listed = DOMAIN p.listed \ {k} /\ k \notin DOMAIN listed
        /\ \A rule \in rules \union none : <<k, rule>> \notin p.seen
    OBVIOUS
  <2> HIDE DEF rules, listed, none
  <2>5. \A x \in DOMAIN fired : x[3] >= p.now =>
          /\ x[1] = k => x[2] \notin rules \union none
          /\ x[1] \in DOMAIN listed => <<x[1], x[2]>> \in p.seen
    BY <1>2, <2>3, <2>4 DEF Unfired
  <2>6. LogOnce' /\ PassLog(r)'
    BY <1>2, <2>2, <2>3, <2>4, <2>5, WorkLogs
  <2>. QED  BY <1>1, <2>2, <2>6, WorkingOn
<1>4. CASE TaskAnswered(r)
  <2> DEFINE p == run[r]
             answered == {p.task}
  <2>1. /\ p.at = "pilot" /\ p.deal # None
        /\ WorkOn(r, p.deal[1], p.deal[2], p.rules, answered, p.listed)
    BY <1>4 DEF TaskAnswered, At
  <2>2. answered \intersect p.rules = {} /\ p.deal[1] \notin DOMAIN p.listed
    BY <1>2, <2>1 DEF Unfired
  <2>3. \A x \in DOMAIN fired : x[3] >= p.now =>
          /\ x[1] = p.deal[1] => x[2] \notin p.rules \union answered
          /\ x[1] \in DOMAIN p.listed => <<x[1], x[2]>> \in p.seen
    BY <1>2, <2>1 DEF Unfired
  <2> HIDE DEF answered
  <2>4. LogOnce' /\ PassLog(r)'
    BY <1>2, <2>1, <2>2, <2>3, WorkLogs
  <2>. QED  BY <1>1, <2>1, <2>4, WorkingOn
<1>5. CASE Plan(r)
  <2> DEFINE seen == FiredSince(run[r].now)
  <2>1. PICK x : run' = [run EXCEPT ![r].at = "pilot", ![r].seen = seen, ![r].listed = x]
    BY <1>5, Zenon DEF Plan
  <2> HIDE DEF seen
  <2>2. UNCHANGED <<fired, day>> /\ run[r].at = "research"
    BY <1>5 DEF Plan, At
  <2>3. /\ Carries(r, {"at", "seen", "listed"})
        /\ run'[r].at = "pilot" /\ run'[r].seen = seen
    BY <2>1, Piloting, Zenon
  <2>4. /\ run'[r]["now"] = run[r]["now"] /\ run'[r]["deal"] = run[r]["deal"]
        /\ run'[r]["task"] = run[r]["task"] /\ run'[r]["rules"] = run[r]["rules"]
    BY <2>3 DEF Carries, PassFields
  <2>5. \A e \in DOMAIN fired : e[3] >= run[r].now => <<e[1], e[2]>> \in seen
    BY DEF FiredSince, seen
  <2>6. PassLog(r)'
    BY <1>2, <2>2, <2>3, <2>4, <2>5 DEF PassLog, Unfired
  <2>. QED  BY <1>1, <2>2, <2>6 DEF LogOnce
<1>6. CASE Ends(r) \/ Learn(r)
  <2>1. run' = [run EXCEPT ![r] = Off] /\ UNCHANGED <<fired, day>>
    BY <1>6 DEF Ends, Learn, storeVars
  <2>2. /\ Off.at = "off" /\ Off.deal = None /\ Off.task \notin Off.rules
    BY DEF Off
  <2>3. run'[r] = Off
    BY <2>1 DEF PassRows
  <2>4. PassLog(r)'
    BY <2>2, <2>3, Unconcerned
  <2>. QED  BY <1>1, <2>1, <2>4 DEF LogOnce
<1>7. CASE \/ Drain(r) \/ DrainOne(r) \/ Reconcile(r) \/ ReconcileAccount(r) \/ ListDeals(r)
           \/ ReconcileDeal(r) \/ ListSent(r) \/ ReconcileSent(r)
           \/ (\E f \in Findings : Research(r, f)) \/ ResearchFails(r)
  <2>1. UNCHANGED <<fired, day>>
    BY <1>7 DEF Drain, DrainOne, Reconcile, ReconcileAccount, ListDeals, ReconcileDeal, ListSent,
                ReconcileSent, Research, ResearchFails, storeVars
  <2>2. run[r].deal = None
    BY <1>2, <1>7 DEF Drain, DrainOne, Reconcile, ReconcileAccount, ListDeals, ReconcileDeal, ListSent,
                      ReconcileSent, Research, ResearchFails, Onward, At, Unfired
  <2>3. Carries(r, {"at", "todo"}) /\ run'[r].at # "pilot"
    <3>1. CASE DrainOne(r) \/ ReconcileAccount(r) \/ ReconcileDeal(r) \/ ReconcileSent(r)
      <4>1. PICK at \in {"drain", "accounts", "deals", "sent"} : Onward(r, at)
        BY <3>1 DEF DrainOne, ReconcileAccount, ReconcileDeal, ReconcileSent
      <4>2. Carries(r, {"todo"}) /\ run'[r].at = at
        BY <4>1, Onwards
      <4>. QED  BY <4>1, <4>2 DEF Carries
    <3>2. CASE Drain(r) \/ Reconcile(r) \/ ListDeals(r) \/ ListSent(r)
      <4>1. \E at, x : at # "pilot" /\ run' = [run EXCEPT ![r].at = at, ![r].todo = x]
        BY <3>2 DEF Drain, Reconcile, ListDeals, ListSent, Go
      <4>2. PICK at, x : at # "pilot" /\ run' = [run EXCEPT ![r].at = at, ![r].todo = x]
        BY <4>1, Zenon
      <4>. QED  BY <4>2, Turning, Zenon
    <3>3. CASE (\E f \in Findings : Research(r, f)) \/ ResearchFails(r)
      <4>1. run' = [run EXCEPT ![r].todo = Tail(run[r].todo)] /\ run[r].at = "research"
        BY <3>3 DEF Research, ResearchFails, At
      <4>2. Carries(r, {"todo"})
        BY <4>1, Listing, Zenon
      <4>3. run'[r]["at"] = run[r]["at"]
        BY <4>2 DEF Carries, PassFields
      <4>. QED  BY <4>1, <4>2, <4>3 DEF Carries
    <3>. QED  BY <1>7, <3>1, <3>2, <3>3
  <2>4. /\ run'[r]["now"] = run[r]["now"] /\ run'[r]["deal"] = run[r]["deal"]
        /\ run'[r]["task"] = run[r]["task"] /\ run'[r]["rules"] = run[r]["rules"]
    BY <2>3 DEF Carries, PassFields
  <2>5. PassLog(r)'
    BY <1>2, <2>1, <2>2, <2>3, <2>4, Unconcerned DEF Unfired
  <2>. QED  BY <1>1, <2>1, <2>5 DEF LogOnce
<1>. QED
  BY <1>3, <1>4, <1>5, <1>6, <1>7 DEF Step

\* At first the log is empty.
LEMMA LogStarts == Init => LogInv
<1> SUFFICES ASSUME Init PROVE LogInv
  OBVIOUS
<1>1. run = [r \in Runs |-> Off] /\ fired = << >> /\ day = 0
  BY DEF Init
<1>2. Off.at = "off" /\ Off.deal = None /\ Off.task \notin Off.rules
  BY DEF Off
<1>. QED  BY <1>1, <1>2 DEF LogInv, LogOnce, PassLog, Unfired

\* Every step keeps the log without repetition.
LEMMA LogStep == CrmInv /\ LogInv /\ [Next]_gtmVars => LogInv'
<1> SUFFICES ASSUME CrmInv, LogInv, [Next]_gtmVars, ~overlapped' PROVE (LogOnce /\ \A r \in Runs : PassLog(r))'
  BY DEF LogInv
<1>1. PassRows /\ OnePass /\ LogOnce /\ \A r \in Runs : PassLog(r)
  BY OverlapStays DEF CrmInv, LogInv
<1>2. CASE UNCHANGED <<fired, day, run>>
  BY <1>1, <1>2 DEF LogOnce, PassLog, Unfired
<1>3. ASSUME NEW r \in Runs, Step(r) \/ ResearchFails(r)
      PROVE  (LogOnce /\ \A s \in Runs : PassLog(s))'
  <2>1. /\ run[r].at # "off" /\ LogOnce' /\ PassLog(r)' /\ day' = day
        /\ \A s \in Runs \ {r} : run'[s] = run[s]
    BY <1>1, <1>3, StepLogs
  <2>2. \A s \in Runs \ {r} : run[s].at = "off"
    BY <1>1, <2>1 DEF OnePass
  <2>3. \A s \in Runs \ {r} : PassLog(s)'
    BY <1>1, <2>1, <2>2 DEF PassLog, Unfired
  <2>. QED  BY <2>1, <2>3
<1>4. ASSUME NEW r \in Runs, Start(r) \/ StartAutopilot(r)
      PROVE  (LogOnce /\ \A s \in Runs : PassLog(s))'
  <2>1. PICK at, todo, listed : BeginPass(r, at, todo, listed)
    BY <1>4 DEF Start, StartAutopilot
  <2>2. UNCHANGED <<fired, day>> /\ \A s \in Runs : run[s].at = "off"
    BY <2>1 DEF BeginPass, storeVars, UnderWay
  <2>3. /\ Carries(r, PassFields)
        /\ run'[r].at = at /\ run'[r].now = day /\ run'[r].seen = FiredSince(day)
        /\ run'[r].deal = None /\ run'[r].task = None /\ run'[r].rules = {}
    BY <1>1, <2>1, Beginning
  <2>4. \A x \in DOMAIN fired : x[3] >= day => <<x[1], x[2]>> \in FiredSince(day)
    BY DEF FiredSince
  <2>5. PassLog(r)'
    BY <1>1, <2>2, <2>3, <2>4 DEF PassLog, Unfired, LogOnce
  <2>6. \A s \in Runs \ {r} : PassLog(s)'
    BY <1>1, <2>2, <2>3 DEF PassLog, Unfired, Carries
  <2>. QED  BY <1>1, <2>2, <2>5, <2>6 DEF LogOnce
<1>5. CASE \E days \in Jumps : Tick(days)
  <2>1. PICK days \in Jumps : UNCHANGED <<fired, run>> /\ day' = day + days
    BY <1>5 DEF Tick, storeVars
  <2>2. days \in Nat
    BY GtmAssumption
  <2>. QED  BY <1>1, <2>1, <2>2 DEF LogOnce, PassLog, Unfired
<1>6. CASE Restart
  <2>1. run' = [r \in Runs |-> Off] /\ UNCHANGED <<fired, day>>
    BY <1>6 DEF Restart, storeVars
  <2>2. Off.at = "off" /\ Off.deal = None /\ Off.task \notin Off.rules
    BY DEF Off
  <2>3. \A r \in Runs : PassLog(r)'
    BY <2>1, <2>2, Unconcerned
  <2>. QED  BY <1>1, <2>1, <2>3 DEF LogOnce
<1>7. CASE \/ \E r \in Runs : \/ Landed(r) \/ Answered(r) \/ AnswerLost(r)
                              \/ \E how \in {"retry", "rejected"} : CallFails(r, how)
           \/ \E e \in Records : Queued(e)
           \/ People
           \/ UNCHANGED gtmVars
  <2>1. UNCHANGED <<fired, day, run>>
    BY <1>7 DEF Landed, Answered, AnswerLost, CallFails, Queued, People, StoreStays, storeVars, gtmVars,
                Move, Intake, AddPerson, Suppress, Reanalysed, Approve, SendMessage, EditDeal,
                RecordMeeting, ResolveDecision
  <2>. QED  BY <1>2, <2>1
<1>. QED  BY <1>3, <1>4, <1>5, <1>6, <1>7 DEF Next

\* A rule of the autopilot acts on a deal once in a day (runAutopilot, gtm/pipeline.ts:214-383),
\* for any number of passes of which no two overlap, of deals, days, tasks that wait for the
\* CRM over midnight, and restarts between a rule and the next.
THEOREM ActsOnce == Spec => []OncePerDay
<1>1. LogInv => OncePerDay
  BY DEF LogInv, LogOnce, OncePerDay
<1>. QED  BY <1>1, CrmStarts, CrmStep, LogStarts, LogStep, PTL DEF Spec
=============================================================================
