--------------------------- MODULE MCCompanyAnalysis ---------------------------
(***************************************************************************)
(* A small instance of the analysis of a company for TLC: one instance of  *)
(* the server, a website as it was and as it is rebuilt, and a company the *)
(* connected systems of which count what the website leaves to benchmarks. *)
(***************************************************************************)
EXTENDS CompanyAnalysis

CONSTANTS w1, j1, j2, t1, domain

OneWorker == {w1}
TwoJobs == {j1, j2}
OneTwin == {t1}
TwoAttempts == [j \in Job |-> 2]

Plain ==
  [ domain |-> domain, description |-> "thin", services |-> {"managed-hosting", "consulting"},
    sectors |-> {"professional"}, postcodes |-> 2, technology |-> {"microsoft"},
    certificates |-> {} ]

Rebuilt ==
  [ Plain EXCEPT !.description = "full", !.sectors = {"software", "financial"},
                 !.technology = {"cloud", "security"}, !.certificates = {"iso-27001"} ]

WebsiteVersions == {Plain}

User(enabled, days) == [enabled |-> enabled, licensed |-> TRUE, signedIn |-> days]

Bill(supplier, category, total) ==
  [ supplier |-> supplier, category |-> category, software |-> category = "software",
    total |-> total, void |-> FALSE ]

Deal(account, amount, closed) ==
  [won |-> TRUE, done |-> TRUE, account |-> account, amount |-> amount, closed |-> closed]

ConnectedSystems ==
  [ tenant |-> [ users |-> [i \in 1..30 |-> User(i > 4, IF i > 24 THEN 90 ELSE 1)],
                 skus |-> <<[purchased |-> 40, assigned |-> 30, monthly |-> 18]>> ],
    books |-> [ turnover |-> 2400000,
                payable |-> <<Bill("a", "software", 9000), Bill("b", "software", 7000),
                              Bill("c", "hosting", 12000)>>,
                receivable |-> <<[customer |-> "x", total |-> 40000, void |-> FALSE],
                                 [customer |-> "y", total |-> 20000, void |-> FALSE]>> ],
    crm |-> [ deals |-> <<Deal("x", 30000, 700), Deal("y", 20000, 600), Deal("z", 10000, 650),
                          Deal("x", 9000, 30)>> ] ]

WhoAnswers == {{}, {"website", "microsoft-365", "accounting", "crm"}}

Recorded == {{"managed-microsoft"}, {"managed-microsoft", "cyber-essentials"}}

FirstService == {<<"MSP_EXPAND", 1>>}

(* The last one proposed to a customer that buys one service. *)
LastService == {<<"MSP_EXPAND", 8>>}
=============================================================================
