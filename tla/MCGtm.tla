-------------------------------- MODULE MCGtm --------------------------------
(***************************************************************************)
(* One company, of which research finds enough for one deal or next to     *)
(* nothing.                                                                *)
(***************************************************************************)
EXTENDS GtmLoop

CONSTANTS acme, r1, r2

(* An IT firm that is hiring for delivery: augmentation, and nothing else. *)
Hiring == [Icp!Nothing EXCEPT !.understanding = 55, !.employees = 60, !.terms = {"itFirm"}, !.signals = {"deliveryHiring"},
                              !.roles = 2, !.openRoles = 2, !.tools = 3, !.sector = "served", !.url = TRUE]

MCFindings == {Hiring, Icp!Nothing}

MCDeals == {<<acme, "augmentation">>}

(* The tasks a deal that is identified, proposed or stalled can lead to. *)
MCTasks == {"proposal-ageing", "high-value-needs-owner"}

MCRecords ==
  {<<"company", acme>>, <<"contact", acme>>}
    \union {<<"deal", k>> : k \in MCDeals}
    \union {<<"activity", <<k, step>>>> : k \in MCDeals, step \in 1 .. 2}
    \union {<<"task", <<k, rule>>>> : k \in MCDeals, rule \in MCTasks}

MCStages == {"identified", "contacted", "responded", "meeting-booked", "qualified", "proposal", "won", "lost", "stalled"}

(* A deal that went quiet is known to the CRM by no name. *)
MCMapped == MCStages \ {"stalled"}

(* A deal becomes a proposal with no owner, and is late from then on. *)
MCEdits == {[stage |-> "proposal", nextAt |-> 1]}
=============================================================================
