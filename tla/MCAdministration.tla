------------------------------ MODULE MCAdministration ------------------------------
(***************************************************************************)
(* Two administrators and what they do to each other; and every playbook,  *)
(* at a value it is eligible at, with no other text like the objective or  *)
(* one that shares some of its words.                                      *)
(***************************************************************************)
EXTENDS Administration

CONSTANTS ann, ben, s1, s2, r1, r2, x1

People == {ann, ben}
Symmetry == Permutations(People) \cup Permutations({s1, s2}) \cup Permutations({r1, r2})

Seeds == SUBSET People \ {{}}

Ids == {"default", "renewals"}

Scopes == {<<None, None>>, <<"negotiate-renewal", None>>, <<"negotiate-renewal", "buyonic">>}

Asking ==
  {[action |-> s[1], capability |-> s[2], level |-> l, threshold |-> limit[1], maxRisk |-> limit[2]] :
     s \in Scopes, l \in {2, 3}, limit \in {<<5000, "high">>, <<50000, "low">>}}

Found(playbook, confidence, value, status) ==
  [ playbook |-> playbook, confidence |-> confidence, readiness |-> 50, value |-> value,
    status |-> status, risk |-> "medium" ]

Ready == {Found(p, 60, 20000, "NOT_STARTED") : p \in DOMAIN Playbooks}

Edges ==
  { Found("contract-renewal", 60, 40, "FAILED"), Found("contract-renewal", 34, 20000, "STOPPED"),
    Found("contract-renewal", 60, 2000, "EXECUTING"), Found("proposition-review", 60, 0, "NOT_STARTED"),
    Found(None, 60, 20000, "NOT_STARTED") }

Everything == Ready \cup Edges

Like(capability, action, percent) ==
  [offer |-> [capability |-> capability, action |-> action], percent |-> percent]

Alike ==
  {Like("jojo", "plan-objective", f) : f \in {39, 42}}
    \cup {Like("listeningpost", "detect-triggers", 100)}
=============================================================================
