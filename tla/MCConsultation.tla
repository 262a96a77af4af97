---------------------------- MODULE MCConsultation ----------------------------
(* A board question for TLC, with two requests at a time.                  *)
EXTENDS Consultation, TLC

CONSTANTS t1, t2, p1, p2

MCTab == {t1, t2}
MCPerson == {p1, p2}
MCPermanent == {p1}

\* People are invited, one has answered and the agents have opined once.
Asked ==
  /\ meta = [there |-> TRUE, closed |-> FALSE, mode |-> "collaborative",
             linked |-> TRUE, links |-> (p1 :> 1 @@ p2 :> 2)]
  /\ drawn = 2
  /\ tokens = [k \in 1..MaxLinks |-> CASE k = 1 -> p1 [] k = 2 -> p2 [] OTHER -> Nobody]
  /\ responses = (p1 :> 0 @@ p2 :> 1) /\ shadow = 2
  /\ challenge = NoChallenge /\ views = {} /\ decision = NoDecision
  /\ record = NoRecord /\ rated = FALSE /\ attached = FALSE /\ taught = FALSE
  /\ expired = FALSE /\ calls = [t \in Tab |-> NoCall]
  /\ failures = 0 /\ raced = {}

\* Two requests have been served, and two are to come.
MCInit == issued = 2 /\ (Asked \/ Empty)

MCSpec == MCInit /\ [][Next]_vars /\ Fairness
=============================================================================
