---------------------------- MODULE ConnectorFacts ----------------------------
(***************************************************************************)
(* What the discovery connectors make of a company's systems               *)
(* (src/lib/discovery): claims about the fields of its twin, and the       *)
(* counted facts the engines prefer to claims.                             *)
(*                                                                         *)
(* What a connector would find is a record: the website's pages, the users *)
(* and subscriptions of a Microsoft tenant, the report and the invoices of *)
(* an accounting system, the deals of a CRM.  Pounds are whole, rates are  *)
(* percent, an age is in days.  Paging, tokens and the text a page is      *)
(* searched for are left out, and so are claims of fields no engine reads. *)
(***************************************************************************)
LOCAL INSTANCE Integers
LOCAL INSTANCE Sequences
LOCAL INSTANCE FiniteSets
LOCAL INSTANCE SequencesExt
LOCAL INSTANCE FiniteSetsExt
LOCAL INSTANCE CompanyTwin

Unknown == -1

(* The sum over a sequence of what Of says of its elements. *)
Summed(Of(_), seq) == FoldLeft(LAMBDA total, x : total + Of(x), 0, seq)

Least(S) == CHOOSE x \in S : \A y \in S : x <= y

Says(field, value, method, confidence, source) ==
  [field |-> field, claim |-> ClaimOf(value, method, confidence, source)]

SaysIf(condition, said) == IF condition THEN <<said>> ELSE << >>

(***************************************************************************)
(* The website, as crawled: the domain its pages ended up at, how the      *)
(* homepage describes the company ("none", "thin" or "full"), and the      *)
(* services, sectors, postcodes, technologies and certificates found.      *)
(***************************************************************************)
WebsiteClaims(site) ==
  LET says(field, value, method, confidence) ==
        Says(field, value, method, confidence, "website")
  IN <<says("domain", site.domain, "observed", 98)>>
     \o SaysIf(site.description # "none",
               says("valuePropositions", site.description, "observed", 72))
     \o SaysIf(site.services # {},
               says("services", site.services, "inferred",
                    IF Cardinality(site.services) >= 4 THEN 70 ELSE 50))
     \o SaysIf(site.sectors # {},
               says("sectors", site.sectors, "inferred",
                    IF Cardinality(site.sectors) = 1 THEN 70 ELSE 55))
     \o SaysIf(site.postcodes > 1,
               says("locations", site.postcodes, "inferred", 45))
     \o SaysIf(site.technology # {},
               says("technologyEstate", site.technology, "observed", 75))
     \o SaysIf(site.certificates # {},
               says("cyberIndicators", site.certificates, "observed", 70))

(***************************************************************************)
(* Microsoft 365.                                                          *)
(***************************************************************************)
Unassigned(sku) == IF sku.purchased > sku.assigned THEN sku.purchased - sku.assigned ELSE 0

(* computeLicenceFacts(): an account that never signed in is not dormant. *)
LicenceFacts(tenant) ==
  LET licensed == SelectSeq(tenant.users, LAMBDA u : u.licensed)
      leavers == SelectSeq(licensed, LAMBDA u : ~u.enabled)
      dormant == SelectSeq(licensed, LAMBDA u : u.enabled /\ u.signedIn > 60)
      seats == Summed(LAMBDA s : s.assigned, tenant.skus)
      cost == Summed(LAMBDA s : s.assigned * s.monthly * 12, tenant.skus)
      unused == Summed(LAMBDA s : Unassigned(s) * s.monthly * 12, tenant.skus)
      idle == Len(leavers) + Len(dormant)
  IN [ enabledUsers |-> Len(SelectSeq(tenant.users, LAMBDA u : u.enabled)),
       recoverable |-> unused + IF seats = 0 THEN 0 ELSE (idle * cost) \div seats ]

MicrosoftClaims(tenant) ==
  LET says(field, value, confidence) ==
        Says(field, value, "connected-data", confidence, "microsoft-365")
  IN IF tenant.users = << >> /\ tenant.skus = << >> THEN << >>
     ELSE <<says("employeesEstimate", LicenceFacts(tenant).enabledUsers, 96)>>
          \o SaysIf(tenant.skus # << >>,
                    says("technologyEstate", {"microsoft", "productivity"}, 99))

(***************************************************************************)
(* Xero.  A bill names its supplier, the supplier's category and whether   *)
(* it sells software; a deleted or voided one does not count.              *)
(***************************************************************************)
Standing(invoices) == SelectSeq(invoices, LAMBDA i : ~i.void)

Spent(bills, Which(_)) ==
  Summed(LAMBDA i : i.total, SelectSeq(bills, LAMBDA i : Which(i)))

(* aggregateByCategory(): per category the suppliers and what they get. *)
ByCategory(bills) ==
  LET standing == Standing(bills)
  IN [c \in {standing[i].category : i \in DOMAIN standing} |->
       [ suppliers |-> Cardinality({standing[i].supplier : i \in
                         {j \in DOMAIN standing : standing[j].category = c}}),
         spend |-> Spent(standing, LAMBDA b : b.category = c) ]]

FinancialFacts(books) ==
  LET bills == Standing(books.payable)
      sales == Standing(books.receivable)
      customers == {sales[i].customer : i \in DOMAIN sales}
      counted == Cardinality(customers)
  IN [ turnover |-> books.turnover,
       softwareSuppliers |-> Cardinality({bills[i].supplier : i \in
                               {j \in DOMAIN bills : bills[j].software}}),
       softwareSpend |-> Spent(bills, LAMBDA b : b.software),
       categories |-> ByCategory(books.payable),
       customerCount |-> IF counted = 0 THEN Unknown ELSE counted,
       averageCustomerValue |-> IF counted = 0 THEN Unknown
                                ELSE Spent(sales, LAMBDA b : TRUE) \div counted ]

AccountingClaims(books) ==
  <<Says("turnoverEstimate", books.turnover, "connected-data", 97, "accounting")>>

(***************************************************************************)
(* HubSpot.  A deal says whether it is closed and won, of which account,   *)
(* for how much and how long ago it was closed.                            *)
(***************************************************************************)
DormantDays == 18 * 30

CrmFacts(crm) ==
  LET won == {i \in DOMAIN crm.deals : crm.deals[i].won}
      bought(a) == Least({crm.deals[i].closed : i \in {j \in won : crm.deals[j].account = a}})
      recent == SelectSeq(crm.deals, LAMBDA d : d.done /\ d.closed <= 365)
      wins == SelectSeq(recent, LAMBDA d : d.won)
  IN [ dormantAccounts |-> Cardinality({a \in {crm.deals[i].account : i \in won} :
                                          bought(a) > DormantDays}),
       conversionRate |-> IF Len(recent) < 5 THEN Unknown
                          ELSE (100 * Len(wins)) \div Len(recent),
       averageDealValue |-> IF wins = << >> THEN Unknown
                            ELSE Summed(LAMBDA d : d.amount, wins) \div Len(wins) ]

CrmClaims(crm) ==
  <<Says("salesChannels", {"direct"}, "connected-data", 90, "crm")>>

(***************************************************************************)
(* A reading of the connectors that answered, in the registry's order.     *)
(***************************************************************************)
ClaimsOf(world, answered) ==
  (IF "website" \in answered THEN WebsiteClaims(world.site) ELSE << >>)
  \o (IF "microsoft-365" \in answered THEN MicrosoftClaims(world.tenant) ELSE << >>)
  \o (IF "accounting" \in answered THEN AccountingClaims(world.books) ELSE << >>)
  \o (IF "crm" \in answered THEN CrmClaims(world.crm) ELSE << >>)

(* putFacts() of every connected system that answered; a system that is not *)
(* connected any more leaves its last facts behind.                        *)
FactsOf(old, world, answered) ==
  [ licence |-> IF "microsoft-365" \in answered THEN <<LicenceFacts(world.tenant)>> ELSE old.licence,
    financial |-> IF "accounting" \in answered THEN <<FinancialFacts(world.books)>> ELSE old.financial,
    crm |-> IF "crm" \in answered THEN <<CrmFacts(world.crm)>> ELSE old.crm ]

NoFacts == [licence |-> << >>, financial |-> << >>, crm |-> << >>]
=============================================================================
