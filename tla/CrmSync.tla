------------------------------ MODULE CrmSync ------------------------------
(***************************************************************************)
(* The write path from the engine's own records to the customer's CRM      *)
(* (gtm/crm/sync.ts, local.ts, hubspot.ts).                                *)
(*                                                                         *)
(* A record is <<kind, key>>.  Every write goes first to the local system  *)
(* of record, at once, and then, when a CRM is connected, as a call: the   *)
(* request leaves (Send), the CRM may or may not apply it (Land and its    *)
(* failures), and the answer is handled (Answer).  `link` remembers, per   *)
(* record, the CRM's id and the content last confirmed; `outbox` is the    *)
(* queue of writes to try again.                                           *)
(***************************************************************************)
EXTENDS Integers, Sequences, FiniteSets

CONSTANTS
  Runs,       \* passes of the loop that may be under way at the same time
  Records,    \* the <<kind, key>> that may be written
  Connected,  \* TRUE when a customer CRM is configured
  Stages,     \* the stages of a deal
  Mapped,     \* the stages the CRM's stage map knows
  None        \* no content, record, account: a model value

VARIABLES
  local,      \* [Records -> content | None]: the engine's own record
  external,   \* [Records -> Seq(content)]: what the CRM holds for a record
  link,       \* [Records -> [id, content]], the id 0 for a record not linked
  outbox,     \* [Records -> {"none", "waiting", "due"}]
  call,       \* [Runs -> the call a run is waiting for, answer "none" when there is none]
  lost        \* [Records -> Nat]: writes applied whose answer was lost (history)

crmVars == <<local, external, link, outbox, call, lost>>

(* What the CRM is sent of a content: a deal's next action stays behind.    *)
Shown(record, content) ==
  IF record[1] = "deal" THEN [stage |-> content.stage, value |-> content.value, close |-> content.close]
  ELSE content

Unlinked == [id |-> 0, content |-> None]
NoCall == [record |-> None, content |-> None, answer |-> "none", id |-> 0]

Linked(e) == link[e].id > 0
Calling(r) == call[r].answer # "none"

CrmInit(found) ==
  /\ local = [e \in Records |-> None]
  /\ external = found
  /\ link = [e \in Records |-> Unlinked]
  /\ outbox = [e \in Records |-> "none"]
  /\ call = [r \in Runs |-> NoCall]
  /\ lost = [e \in Records |-> 0]

\* Mutant: a record the CRM has is never sent again.
UnchangedOnceThere(e, content) == Linked(e)

(* Nothing is sent for content that was confirmed before. *)
Unchanged(e, content) == Linked(e) /\ link[e].content = content

(* A deal in a stage the CRM has no name for is refused before any call. *)
Refused(e, content) == e[1] = "deal" /\ content.stage \notin Mapped

(* Activities are facts: one that was written is never written again. *)
WrittenOnce(e) == e[1] = "activity" /\ Linked(e)

(* The local write, and the call that follows it when there is one. *)
Send(r, e, content) ==
  /\ local' = [local EXCEPT ![e] = content]
  /\ IF ~Connected \/ Unchanged(e, content) \/ Refused(e, content)
     THEN UNCHANGED <<link, outbox, call>>
     ELSE IF WrittenOnce(e)
     THEN /\ link' = [link EXCEPT ![e].content = content]
          /\ outbox' = [outbox EXCEPT ![e] = "none"]
          /\ call' = call
     ELSE /\ call' = [call EXCEPT ![r] = [record |-> e, content |-> content, answer |-> "awaited", id |-> link[e].id]]
          /\ UNCHANGED <<link, outbox>>
  /\ UNCHANGED <<external, lost>>

InFlight(r) == call[r].answer = "awaited"

\* Mutant: the id the CRM gave a record is not used.
TargetAnew(c) ==
  IF c.record[1] \in {"company", "contact"} /\ external[c.record] # <<>> THEN 1 ELSE Len(external[c.record]) + 1

(* A company or a person the CRM already has is adopted, not made again. *)
Target(c) ==
  IF c.id > 0 THEN c.id
  ELSE IF c.record[1] \in {"company", "contact"} /\ external[c.record] # <<>> THEN 1
  ELSE Len(external[c.record]) + 1

Applied(c) ==
  LET held == external[c.record]
      shown == Shown(c.record, c.content)
  IN [external EXCEPT ![c.record] =
        IF Target(c) > Len(held) THEN Append(held, shown) ELSE [held EXCEPT ![Target(c)] = shown]]

(* The CRM applies the write and says so. *)
Land(r) ==
  /\ InFlight(r)
  /\ external' = Applied(call[r])
  /\ call' = [call EXCEPT ![r].answer = "ok", ![r].id = Target(call[r])]
  /\ UNCHANGED <<local, link, outbox, lost>>

(* The CRM applies it, and then the association or the answer fails. *)
LandHalf(r) ==
  /\ InFlight(r)
  /\ external' = Applied(call[r])
  /\ lost' = [lost EXCEPT ![call[r].record] = @ + 1]
  /\ call' = [call EXCEPT ![r].answer = "retry"]
  /\ UNCHANGED <<local, link, outbox>>

(* The CRM cannot be reached, or refuses the write for good. *)
FailCall(r, how) ==
  /\ InFlight(r)
  /\ call' = [call EXCEPT ![r].answer = how]
  /\ UNCHANGED <<local, external, link, outbox, lost>>

(* The answer, when it comes: linked, queued for later, or dropped. *)
Answer(r) ==
  /\ call[r].answer \notin {"none", "awaited"}
  /\ LET c == call[r] IN
       /\ link' = IF c.answer = "ok" THEN [link EXCEPT ![c.record] = [id |-> c.id, content |-> c.content]] ELSE link
       /\ outbox' = [outbox EXCEPT ![c.record] = CASE c.answer = "ok" -> "none" [] c.answer = "retry" -> "waiting" [] OTHER -> @]
  /\ call' = [call EXCEPT ![r] = NoCall]
  /\ UNCHANGED <<local, external, lost>>

(* A queued write's pause is over. *)
Due(e) ==
  /\ outbox[e] = "waiting"
  /\ outbox' = [outbox EXCEPT ![e] = "due"]
  /\ UNCHANGED <<local, external, link, call, lost>>

(* The process dies: what was asked and not answered is forgotten. *)
CallsLost ==
  /\ lost' = [e \in Records |->
                lost[e] + Cardinality({r \in Runs : call[r].answer = "ok" /\ call[r].record = e})]
  /\ call' = [r \in Runs |-> NoCall]
  /\ UNCHANGED <<local, external, link, outbox>>

(* The content confirmed last is what the engine holds now, and what the    *)
(* CRM shows is that.                                                      *)
Confirmed(e, content) == IF Connected THEN Linked(e) /\ link[e].content = content ELSE local[e] = content

ShownNow(e, content) == Connected => Linked(e) /\ external[e][link[e].id] = Shown(e, content)
=============================================================================
