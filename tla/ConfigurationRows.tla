--------------------------- MODULE ConfigurationRows ---------------------------
(***************************************************************************)
(* Rows of mutable billing configuration: the workspace's invoice settings, *)
(* the seller's and a client's billing profile.  Twice validated: by the    *)
(* domain classes, whenever a row is read or a request is built, and by     *)
(* CHECK constraints, whenever a row is written.  The two do not say the same, because SQL has *)
(* three truth values and a CHECK refuses FALSE only: comparing NULL gives  *)
(* unknown, and unknown passes.                                             *)
(*                                                                         *)
(* A truth value is 0 (false), 1 (unknown) or 2 (true), so AND is the least *)
(* and OR the greatest operand.  Every value a column holds here is valid   *)
(* by itself; what matters is which values stand together.                  *)
(*                                                                         *)
(* Left out: columns that stand alone (names, the legal address's lines and *)
(* city, the penalty rate, the time zone); checksums (a VAT number is the   *)
(* SIREN it contains, a SIRET is a SIREN and a number).                      *)
(***************************************************************************)
EXTENDS Naturals, FiniteSetsExt

CONSTANTS
  None,           \* SQL NULL, Python None
  FrenchCodes     \* the postal codes that are five digits

And(S) == Min(S)
Or(S)  == Max(S)

Holds(p) == IF p THEN 2 ELSE 0
IsNull(v) == Holds(v = None)
IsNotNull(v) == Holds(v # None)

\* A comparison, a BETWEEN, a pattern match or a length of column value v.
Compared(v, p) == IF v = None THEN 1 ELSE Holds(p)

-----------------------------------------------------------------------------
(* The columns that stand together *)

SettingsColumns ==
  {"vat_regime", "franchise_legal_basis", "default_vat_rate_percent", "vat_on_debits",
   "payment_due_rule", "payment_net_days", "early_discount_kind",
   "early_discount_rate_percent", "early_discount_days_after_issue"}

BillingColumns ==
  {"billing_line1", "billing_line2", "billing_postal_code", "billing_city",
   "billing_country_code"}

ProfileColumns ==
  {"siren", "vat_number", "legal_postal_code", "legal_country_code"} \cup BillingColumns

SellerColumns ==
  {"siret", "legal_entity_kind", "legal_form", "share_capital", "share_capital_currency"}
    \cup ProfileColumns

-----------------------------------------------------------------------------
(* Invoice settings *)

\* Mutant of FiscalCheck: the rate alone decides.
FiscalCheckLoose(r) ==
  Or({And({Holds(r.vat_regime = "franchise"), IsNull(r.default_vat_rate_percent)}),
      And({Holds(r.vat_regime = "taxable"), IsNotNull(r.default_vat_rate_percent)})})

\* consistent_vat_configuration
FiscalCheck(r) ==
  Or({And({Holds(r.vat_regime = "franchise"), Compared(r.franchise_legal_basis, TRUE),
           IsNull(r.default_vat_rate_percent), Holds(~r.vat_on_debits)}),
      And({Holds(r.vat_regime = "taxable"), IsNull(r.franchise_legal_basis),
           IsNotNull(r.default_vat_rate_percent)})})

\* Mutant of TermsCheck: the 45-day rules were forgotten.
TermsCheckShort(r) ==
  Or({And({Holds(r.payment_due_rule = "due_on_issue"), IsNull(r.payment_net_days)}),
      And({Holds(r.payment_due_rule = "net_days"), Compared(r.payment_net_days, TRUE)})})

\* valid_payment_terms
TermsCheck(r) ==
  Or({And({Holds(r.payment_due_rule = "due_on_issue"), IsNull(r.payment_net_days)}),
      And({Holds(r.payment_due_rule = "net_days"), Compared(r.payment_net_days, TRUE)}),
      And({Holds(r.payment_due_rule = "month_end"), IsNull(r.payment_net_days)})})

\* valid_early_discount
DiscountCheck(r) ==
  Or({And({Holds(r.early_discount_kind = "none"), IsNull(r.early_discount_rate_percent),
           IsNull(r.early_discount_days_after_issue)}),
      And({Holds(r.early_discount_kind = "percentage"),
           IsNotNull(r.early_discount_rate_percent),
           Compared(r.early_discount_days_after_issue, TRUE)})})

SettingsCheck(r) == And({FiscalCheck(r), TermsCheck(r), DiscountCheck(r)})

\* FiscalSettings
FiscalValid(r) ==
  /\ r.vat_regime \in {"franchise", "taxable"}
  /\ IF r.vat_regime = "franchise"
     THEN /\ r.franchise_legal_basis # None
          /\ r.default_vat_rate_percent = None
          /\ ~r.vat_on_debits
     ELSE /\ r.franchise_legal_basis = None
          /\ r.default_vat_rate_percent # None

\* PaymentTerms
TermsValid(r) ==
  /\ r.payment_due_rule \in {"due_on_issue", "net_days", "month_end"}
  /\ (r.payment_due_rule = "net_days") <=> (r.payment_net_days # None)

\* EarlyPaymentDiscount
DiscountValid(r) ==
  LET set(v) == (r.early_discount_kind = "percentage") <=> (v # None)
  IN /\ r.early_discount_kind \in {"none", "percentage"}
     /\ set(r.early_discount_rate_percent) /\ set(r.early_discount_days_after_issue)

SettingsValid(r) == FiscalValid(r) /\ TermsValid(r) /\ DiscountValid(r)

-----------------------------------------------------------------------------
(* Billing profiles *)

AddressCheck(line1, postal_code, city, country_code) ==
  And({Compared(line1, TRUE), Compared(city, TRUE), Compared(country_code, TRUE),
       Or({Compared(country_code, country_code # "FR"),
           Compared(postal_code, postal_code \in FrenchCodes)})})

\* A required address: NOT NULL columns and valid_legal_address.
LegalCheck(r) ==
  And({AddressCheck("line", r.legal_postal_code, "city", r.legal_country_code),
       Or({Compared(r.legal_country_code, r.legal_country_code # "FR"), IsNotNull(r.siren)})})

BillingCheck(r) ==
  Or({And({IsNull(r.billing_line1), IsNull(r.billing_line2),
           IsNull(r.billing_postal_code), IsNull(r.billing_city),
           IsNull(r.billing_country_code)}),
      AddressCheck(r.billing_line1, r.billing_postal_code,
                   r.billing_city, r.billing_country_code)})

VatCheck(r) ==
  Or({IsNull(r.vat_number),
      And({IsNotNull(r.siren), Compared(r.vat_number, r.vat_number = r.siren)})})

\* legal_form_and_capital
CompanyCheck(r) ==
  Or({And({Holds(r.legal_entity_kind = "individual"), IsNull(r.legal_form),
           IsNull(r.share_capital), IsNull(r.share_capital_currency)}),
      And({Holds(r.legal_entity_kind = "company"), Compared(r.legal_form, TRUE),
           IsNotNull(r.share_capital), Compared(r.share_capital_currency, TRUE)})})

\* The seller's SIREN and SIRET are NOT NULL; the country is in french_legal_address.
SellerCheck(r) ==
  And({CompanyCheck(r), BillingCheck(r), Holds(r.legal_country_code = "FR"),
       AddressCheck("line", r.legal_postal_code, "city", r.legal_country_code),
       Holds(r.siret[1] = r.siren),
       Or({IsNull(r.vat_number), Compared(r.vat_number, r.vat_number = r.siren)})})

ProfileCheck(r) == And({LegalCheck(r), BillingCheck(r), VatCheck(r)})

\* BillingAddress
AddressValid(line1, postal_code, city, country_code) ==
  /\ line1 # None /\ city # None /\ country_code # None
  /\ country_code = "FR" => postal_code \in FrenchCodes

\* _address_from_row: without a first line there is no billing address.
BillingValid(r) ==
  r.billing_line1 # None =>
    AddressValid(r.billing_line1, r.billing_postal_code, r.billing_city, r.billing_country_code)

\* ClientBillingProfile
ProfileValid(r) ==
  /\ AddressValid("line", r.legal_postal_code, "city", r.legal_country_code)
  /\ BillingValid(r)
  /\ r.legal_country_code = "FR" => r.siren # None
  /\ r.vat_number # None => r.siren # None /\ r.vat_number = r.siren

\* WorkspaceBillingProfile
SellerValid(r) ==
  /\ AddressValid("line", r.legal_postal_code, "city", r.legal_country_code)
  /\ BillingValid(r)
  /\ r.legal_country_code = "FR"
  /\ r.siret[1] = r.siren
  /\ r.vat_number # None => r.vat_number = r.siren
  /\ r.legal_entity_kind \in {"individual", "company"}
  /\ LET set(v) == (r.legal_entity_kind = "company") <=> (v # None)
     IN set(r.legal_form) /\ set(r.share_capital) /\ set(r.share_capital_currency)
=============================================================================
