------------------------- MODULE MCConfigurationUpdate -------------------------
(* Finite instances of ConfigurationUpdate for TLC. *)
EXTENDS ConfigurationUpdate, TLC

CONSTANTS u1, u2

Requests2 == {u1, u2}
Symmetry == Permutations(Callers)

French == {"75002", "69001"}

Settings(regime, basis, rate, debits, due, days, early, percent, within) ==
  [vat_regime |-> regime, franchise_legal_basis |-> basis,
   default_vat_rate_percent |-> rate, vat_on_debits |-> debits,
   payment_due_rule |-> due, payment_net_days |-> days,
   early_discount_kind |-> early, early_discount_rate_percent |-> percent,
   early_discount_days_after_issue |-> within]

\* Both regimes, two bases, two rates, debits on and off; every due rule, two
\* numbers of days; no discount and three.
SomeSettings ==
  { Settings("franchise", "293_b", None, FALSE, "due_on_issue", None, "none", None, None),
    Settings("franchise", "293_b_bis", None, FALSE, "net_days", 30, "percentage", 2, 10),
    Settings("taxable", None, 20, TRUE, "net_days", 45, "percentage", 3, 10),
    Settings("taxable", None, 20, FALSE, "month_end", None, "none", None, None),
    Settings("taxable", None, 10, FALSE, "net_days", 30, "percentage", 2, 8) }

\* Addresses: first and second line, postal code, city, country
Nowhere == <<None, None, None, None, None>>
InLyon == <<"1 rue A", None, "69001", "Lyon", "FR">>

Seller(kind, siren, number, vat, form, capital, currency, postal, billing) ==
  [legal_entity_kind |-> kind, siren |-> siren, siret |-> <<siren, number>>, vat_number |-> vat,
   legal_form |-> form, share_capital |-> capital, share_capital_currency |-> currency,
   legal_country_code |-> "FR", legal_postal_code |-> postal,
   billing_line1 |-> billing[1], billing_line2 |-> billing[2],
   billing_postal_code |-> billing[3], billing_city |-> billing[4],
   billing_country_code |-> billing[5]]

\* An individual and companies, moves to another establishment and another SIREN;
\* all with a billing address, in France.
SomeSellers ==
  { Seller("individual", "s1", 1, None, None, None, None, "75002", InLyon),
    Seller("individual", "s1", 2, "s1", None, None, None, "69001", InLyon),
    Seller("company", "s1", 1, "s1", "SARL", 1000, "EUR", "75002", InLyon),
    Seller("company", "s1", 2, None, "SAS", 1000, "EUR", "69001",
           <<"2 rue B", "3e", "75002", "Paris", "FR">>),
    Seller("company", "s2", 1, "s2", "SARL", 2000, "CHF", "69001", InLyon) }

Profile(siren, vat, country, postal, billing) ==
  [siren |-> siren, vat_number |-> vat,
   legal_country_code |-> country, legal_postal_code |-> postal,
   billing_line1 |-> billing[1], billing_line2 |-> billing[2],
   billing_postal_code |-> billing[3], billing_city |-> billing[4],
   billing_country_code |-> billing[5]]

\* With and without a distinct billing address
SomeProfiles ==
  { Profile("s1", "s1", "FR", "75002", Nowhere),
    Profile("s1", None, "FR", "75002", InLyon),
    Profile("s1", None, "FR", "75002", <<"2 rue B", "3e", "69001", "Lyon", "FR">>) }

SettingsAndSellers == ("settings" :> SomeSettings) @@ ("seller" :> SomeSellers)
ClientProfiles == "client" :> SomeProfiles
=============================================================================
