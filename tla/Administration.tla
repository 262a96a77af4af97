---------------------------- MODULE Administration ----------------------------
(***************************************************************************)
(* The people of a tenant and the autonomy they grant and halt: the routes *)
(* of Planning's actions behind the guard of SignIn.  The two share the    *)
(* users only, so a behaviour looks closely at one of them (bound): at     *)
(* sign-in and user administration, or at grants and plans while an        *)
(* administrator and a user stay signed in.                                *)
(***************************************************************************)
EXTENDS Planning, SignIn

VARIABLE focus

allVars == <<vars, signVars, focus>>

AdministrationInit ==
  \/ Init /\ SignInit /\ focus = "people"
  \/ /\ Init /\ focus = "plans"
     /\ \E a \in User, u \in User, s \in Session, t \in Session :
          /\ a # u /\ s # t
          /\ accounts = [v \in User |->
               [exists |-> TRUE, active |-> TRUE, password |-> 1, spell |-> 0,
                role |-> IF v = a THEN "MSP_ADMIN" ELSE "MSP_USER"]]
          /\ sessions = [v \in Session |->
               IF v \in {s, t} THEN [user |-> IF v = s THEN a ELSE u, password |-> 1, spell |-> 0, fresh |-> TRUE]
               ELSE NoSession]
     /\ failures = [u \in User |-> 0] /\ requests = [r \in Request |-> Idle]
     /\ tickets = [x \in Ticket |-> "unknown"] /\ served = 0 /\ crossed = FALSE

\* POST /api/autonomy reads its body first: nothing is awaited after the guard.
Grant(s, id, r) == Allowed(s, "administer") /\ SaveGrant(id, r)

\* Whoever can act may halt.
Halt(s) == Allowed(s, "halt") /\ HaltTenant

\* POST /api/execution, for the action that plans.
Plan(s) ==
  /\ Allowed(s, "execute")
  /\ \E o \in Opportunities, likeness \in Likenesses, systems \in SUBSET {"azure"} :
       PlanExecution(o, likeness, systems)

AdministrationNext ==
  \/ focus = "people" /\ SignNext /\ UNCHANGED <<vars, focus>>
  \/ /\ focus = "plans" /\ UNCHANGED <<signVars, focus>>
     /\ \E s \in Session :
          \/ \E id \in GrantIds, r \in Requests : Grant(s, id, r)
          \/ Halt(s)
          \/ Plan(s)

AdministrationSpec == AdministrationInit /\ [][AdministrationNext]_allVars
=============================================================================
