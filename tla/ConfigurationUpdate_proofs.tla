----------------------- MODULE ConfigurationUpdate_proofs -----------------------
(***************************************************************************)
(* Proofs about ConfigurationUpdate and the rows it replaces, for every set *)
(* of valid submissions and every number of concurrent requests.           *)
(*                                                                         *)
(* First, what the CHECK constraints let through, in two truth values.      *)
(* Then the argument that every blend that passes them can be read: what a  *)
(* row's kind requires, a blend of valid rows has, since whoever changes    *)
(* the kind writes what goes with it; what a kind excludes, the CHECKs      *)
(* refuse.  That argument fails for an optional address, which has no kind: *)
(* there a comparison with NULL passes.                                     *)
(***************************************************************************)
EXTENDS ConfigurationUpdate, TLAPS

(* The inductive invariants *)

\* A row of this behaviour's table: exactly its columns.
HasColumns(r) == r = [k \in Columns(table) |-> r[k]]

\* Rows, and what a request has read, have the table's columns; what it wants was
\* submitted.
ShapeInv ==
  /\ table \in DOMAIN Submissions
  /\ row # None => HasColumns(row)
  /\ replacing = [c \in Callers |-> replacing[c]]
  /\ \A c \in Callers : replacing[c] # None =>
       HasColumns(replacing[c].read) /\ replacing[c].wanted \in Submissions[table]

\* Two profiles both have a billing address or both have none, and so with their
\* postal codes.
Alike(r, s) ==
  \A k \in {"billing_line1", "billing_postal_code", "legal_postal_code"} :
    r[k] = None <=> s[k] = None

\* No replacement adds or removes an address or a postal code; settings have none.
AddressesStay == table # "settings" => \A r, s \in Submissions[table] : Alike(r, s)

\* The domain accepts the row, and a profile has the addresses all others have.
Sound(r) == Valid(table, r) /\ (table # "settings" => \A s \in Submissions[table] : Alike(r, s))

\* So it is with the row and with all that was read of it; nothing is replaced
\* before there is a row.
SoundInv ==
  /\ row # None => Sound(row)
  /\ \A c \in Callers : replacing[c] # None => Sound(row) /\ Sound(replacing[c].read)

ConfigurationInv == ShapeInv /\ (AddressesStay => SoundInv)

-----------------------------------------------------------------------------
(* Three truth values *)

Truths == {0, 1, 2}

\* A conjunction is one of its operands, and false if one of them is.
LEMMA AndIs ==
  ASSUME NEW S \in SUBSET Truths, S # {}
  PROVE  And(S) \in Truths /\ (And(S) = 0 <=> 0 \in S)
<1>1. \E x \in S : \A y \in S : x =< y
  <2>1. \A y \in S : y = 0 \/ y = 1 \/ y = 2
    BY DEF Truths
  <2>2. CASE 0 \in S
    BY <2>1, <2>2
  <2>3. CASE 0 \notin S /\ 1 \in S
    BY <2>1, <2>3
  <2>4. CASE 0 \notin S /\ 1 \notin S
    <3>1. PICK x \in S : TRUE
      OBVIOUS
    <3>2. \A y \in S : y = 2
      BY <2>1, <2>4
    <3>3. QED
      BY <3>1, <3>2
  <2>5. QED
    BY <2>2, <2>3, <2>4
<1>2. And(S) \in S /\ \A y \in S : And(S) =< y
  BY <1>1 DEF And, Min
<1>3. And(S) = 0 \/ And(S) = 1 \/ And(S) = 2
  BY <1>2 DEF Truths
<1>4. QED
  BY <1>2, <1>3

\* A disjunction is one of its operands, and false if all of them are.
LEMMA OrIs ==
  ASSUME NEW S \in SUBSET Truths, S # {}
  PROVE  Or(S) \in Truths /\ (Or(S) = 0 <=> \A y \in S : y = 0)
<1>1. \E x \in S : \A y \in S : x >= y
  <2>1. \A y \in S : y = 0 \/ y = 1 \/ y = 2
    BY DEF Truths
  <2>2. CASE 2 \in S
    BY <2>1, <2>2
  <2>3. CASE 2 \notin S /\ 1 \in S
    BY <2>1, <2>3
  <2>4. CASE 2 \notin S /\ 1 \notin S
    <3>1. PICK x \in S : TRUE
      OBVIOUS
    <3>2. \A y \in S : y = 0
      BY <2>1, <2>4
    <3>3. QED
      BY <3>1, <3>2
  <2>5. QED
    BY <2>2, <2>3, <2>4
<1>2. Or(S) \in S /\ \A y \in S : Or(S) >= y
  BY <1>1 DEF Or, Max
<1>3. \A y \in S : y = 0 \/ y = 1 \/ y = 2
  BY DEF Truths
<1>4. Or(S) = 0 => \A y \in S : y = 0
  BY <1>2, <1>3
<1>5. QED
  BY <1>2, <1>4

\* Disjunctions of two and three operands, written out.
LEMMA OrOf ==
  ASSUME NEW a \in Truths, NEW b \in Truths, NEW c \in Truths
  PROVE  /\ Or({a, b}) \in Truths /\ (Or({a, b}) # 0 <=> a # 0 \/ b # 0)
         /\ Or({a, b, c}) \in Truths /\ (Or({a, b, c}) # 0 <=> a # 0 \/ b # 0 \/ c # 0)
<1>1. Or({a, b}) \in Truths /\ (Or({a, b}) = 0 <=> \A y \in {a, b} : y = 0)
  BY OrIs
<1>2. Or({a, b, c}) \in Truths /\ (Or({a, b, c}) = 0 <=> \A y \in {a, b, c} : y = 0)
  BY OrIs
<1>3. QED
  BY <1>1, <1>2

-----------------------------------------------------------------------------
(* What the CHECK constraints let through *)

\* Franchise needs no basis to pass, only no rate and no debits.
LEMMA FiscalCheckIs ==
  ASSUME NEW r
  PROVE  /\ FiscalCheck(r) \in Truths
         /\ FiscalCheck(r) # 0 <=>
              \/ /\ r.vat_regime = "franchise" /\ r.default_vat_rate_percent = None
                 /\ ~r.vat_on_debits
              \/ /\ r.vat_regime = "taxable" /\ r.franchise_legal_basis = None
                 /\ r.default_vat_rate_percent # None
<1> DEFINE A == {Holds(r.vat_regime = "franchise"), Compared(r.franchise_legal_basis, TRUE),
                 IsNull(r.default_vat_rate_percent), Holds(~r.vat_on_debits)}
           B == {Holds(r.vat_regime = "taxable"), IsNull(r.franchise_legal_basis),
                 IsNotNull(r.default_vat_rate_percent)}
<1>1. /\ A \in SUBSET Truths /\ A # {}
      /\ 0 \notin A <=> /\ r.vat_regime = "franchise" /\ r.default_vat_rate_percent = None
                        /\ ~r.vat_on_debits
  BY DEF Truths, Holds, Compared, IsNull
<1>2. /\ B \in SUBSET Truths /\ B # {}
      /\ 0 \notin B <=> /\ r.vat_regime = "taxable" /\ r.franchise_legal_basis = None
                        /\ r.default_vat_rate_percent # None
  BY DEF Truths, Holds, IsNull, IsNotNull
<1>3. FiscalCheck(r) = Or({And(A), And(B)})
  BY DEF FiscalCheck
<1> HIDE DEF A, B
<1>4. QED
  BY <1>1, <1>2, <1>3, AndIs, OrOf
\* Agreed days may be missing.
LEMMA TermsCheckIs ==
  ASSUME NEW r
  PROVE  /\ TermsCheck(r) \in Truths
         /\ TermsCheck(r) # 0 <=>
              \/ r.payment_due_rule \in {"due_on_issue", "month_end"} /\ r.payment_net_days = None
              \/ r.payment_due_rule = "net_days"
<1> DEFINE A == {Holds(r.payment_due_rule = "due_on_issue"), IsNull(r.payment_net_days)}
           B == {Holds(r.payment_due_rule = "net_days"), Compared(r.payment_net_days, TRUE)}
           C == {Holds(r.payment_due_rule = "month_end"), IsNull(r.payment_net_days)}
<1>1. /\ A \in SUBSET Truths /\ A # {}
      /\ 0 \notin A <=> r.payment_due_rule = "due_on_issue" /\ r.payment_net_days = None
  BY DEF Truths, Holds, IsNull
<1>2. /\ B \in SUBSET Truths /\ B # {}
      /\ 0 \notin B <=> r.payment_due_rule = "net_days"
  BY DEF Truths, Holds, Compared
<1>3. /\ C \in SUBSET Truths /\ C # {}
      /\ 0 \notin C <=> r.payment_due_rule = "month_end" /\ r.payment_net_days = None
  BY DEF Truths, Holds, IsNull
<1>4. TermsCheck(r) = Or({And(A), And(B), And(C)})
  BY DEF TermsCheck
<1> HIDE DEF A, B, C
<1>5. QED
  BY <1>1, <1>2, <1>3, <1>4, AndIs, OrOf

\* A discount needs no number of days to pass.
LEMMA DiscountCheckIs ==
  ASSUME NEW r
  PROVE  /\ DiscountCheck(r) \in Truths
         /\ DiscountCheck(r) # 0 <=>
              \/ /\ r.early_discount_kind = "none" /\ r.early_discount_rate_percent = None
                 /\ r.early_discount_days_after_issue = None
              \/ r.early_discount_kind = "percentage" /\ r.early_discount_rate_percent # None
<1> DEFINE A == {Holds(r.early_discount_kind = "none"), IsNull(r.early_discount_rate_percent),
                 IsNull(r.early_discount_days_after_issue)}
           B == {Holds(r.early_discount_kind = "percentage"),
                 IsNotNull(r.early_discount_rate_percent),
                 Compared(r.early_discount_days_after_issue, TRUE)}
<1>1. /\ A \in SUBSET Truths /\ A # {}
      /\ 0 \notin A <=> /\ r.early_discount_kind = "none" /\ r.early_discount_rate_percent = None
                        /\ r.early_discount_days_after_issue = None
  BY DEF Truths, Holds, IsNull
<1>2. /\ B \in SUBSET Truths /\ B # {}
      /\ 0 \notin B <=> r.early_discount_kind = "percentage" /\ r.early_discount_rate_percent # None
  BY DEF Truths, Holds, IsNotNull, Compared
<1>3. DiscountCheck(r) = Or({And(A), And(B)})
  BY DEF DiscountCheck
<1> HIDE DEF A, B
<1>4. QED
  BY <1>1, <1>2, <1>3, AndIs, OrOf

\* The three CHECKs of the settings.
LEMMA SettingsCheckIs ==
  ASSUME NEW r
  PROVE  SettingsCheck(r) # 0 <=> FiscalCheck(r) # 0 /\ TermsCheck(r) # 0 /\ DiscountCheck(r) # 0
<1> DEFINE A == {FiscalCheck(r), TermsCheck(r), DiscountCheck(r)}
<1>1. A \in SUBSET Truths /\ A # {}
  BY FiscalCheckIs, TermsCheckIs, DiscountCheckIs
<1>2. 0 \notin A <=> FiscalCheck(r) # 0 /\ TermsCheck(r) # 0 /\ DiscountCheck(r) # 0
  OBVIOUS
<1>3. SettingsCheck(r) = And(A)
  BY DEF SettingsCheck
<1> HIDE DEF A
<1>4. QED
  BY <1>1, <1>2, <1>3, AndIs

\* Of an address only a postal code can be wrong: NULL passes for all else.
LEMMA AddressCheckIs ==
  ASSUME NEW l, NEW p, NEW t, NEW k
  PROVE  /\ AddressCheck(l, p, t, k) \in Truths
         /\ AddressCheck(l, p, t, k) # 0 <=> k = None \/ k # "FR" \/ p = None \/ p \in FrenchCodes
<1> DEFINE foreign == Compared(k, k # "FR")
           french == Compared(p, p \in FrenchCodes)
           code == Or({foreign, french})
           A == {Compared(l, TRUE), Compared(t, TRUE), Compared(k, TRUE), code}
<1>1. /\ foreign \in Truths /\ (foreign # 0 <=> k = None \/ k # "FR")
      /\ french \in Truths /\ (french # 0 <=> p = None \/ p \in FrenchCodes)
  BY DEF Truths, Compared, Holds
<1>2. AddressCheck(l, p, t, k) = And(A)
  BY DEF AddressCheck
<1> HIDE DEF foreign, french
<1>3. code \in Truths /\ (code # 0 <=> foreign # 0 \/ french # 0)
  BY <1>1, OrOf
<1> HIDE DEF code
<1>4. A \in SUBSET Truths /\ A # {} /\ (0 \notin A <=> code # 0)
  BY <1>3 DEF Truths, Compared, Holds
<1> HIDE DEF A
<1>5. QED
  BY <1>1, <1>2, <1>3, <1>4, AndIs

\* An optional address.
LEMMA BillingCheckIs ==
  ASSUME NEW r
  PROVE  /\ BillingCheck(r) \in Truths
         /\ BillingCheck(r) # 0 <=>
              \/ /\ r.billing_line1 = None /\ r.billing_line2 = None /\ r.billing_postal_code = None
                 /\ r.billing_city = None /\ r.billing_country_code = None
              \/ r.billing_country_code = None \/ r.billing_country_code # "FR"
              \/ r.billing_postal_code = None \/ r.billing_postal_code \in FrenchCodes
<1> DEFINE A == {IsNull(r.billing_line1), IsNull(r.billing_line2), IsNull(r.billing_postal_code),
                 IsNull(r.billing_city), IsNull(r.billing_country_code)}
           B == AddressCheck(r.billing_line1, r.billing_postal_code, r.billing_city,
                             r.billing_country_code)
<1>1. /\ A \in SUBSET Truths /\ A # {}
      /\ 0 \notin A <=>
           /\ r.billing_line1 = None /\ r.billing_line2 = None /\ r.billing_postal_code = None
           /\ r.billing_city = None /\ r.billing_country_code = None
  BY DEF Truths, IsNull, Holds
<1>2. /\ B \in Truths
      /\ B # 0 <=> \/ r.billing_country_code = None \/ r.billing_country_code # "FR"
                   \/ r.billing_postal_code = None \/ r.billing_postal_code \in FrenchCodes
  BY AddressCheckIs
<1>3. BillingCheck(r) = Or({And(A), B})
  BY DEF BillingCheck
<1> HIDE DEF A, B
<1>4. QED
  BY <1>1, <1>2, <1>3, AndIs, OrOf

\* A company's form and currency may be missing.
LEMMA CompanyCheckIs ==
  ASSUME NEW r
  PROVE  /\ CompanyCheck(r) \in Truths
         /\ CompanyCheck(r) # 0 <=>
              \/ /\ r.legal_entity_kind = "individual" /\ r.legal_form = None
                 /\ r.share_capital = None /\ r.share_capital_currency = None
              \/ r.legal_entity_kind = "company" /\ r.share_capital # None
<1> DEFINE A == {Holds(r.legal_entity_kind = "individual"), IsNull(r.legal_form),
                 IsNull(r.share_capital), IsNull(r.share_capital_currency)}
           B == {Holds(r.legal_entity_kind = "company"), Compared(r.legal_form, TRUE),
                 IsNotNull(r.share_capital), Compared(r.share_capital_currency, TRUE)}
<1>1. /\ A \in SUBSET Truths /\ A # {}
      /\ 0 \notin A <=> /\ r.legal_entity_kind = "individual" /\ r.legal_form = None
                        /\ r.share_capital = None /\ r.share_capital_currency = None
  BY DEF Truths, IsNull, Holds
<1>2. /\ B \in SUBSET Truths /\ B # {}
      /\ 0 \notin B <=> r.legal_entity_kind = "company" /\ r.share_capital # None
  BY DEF Truths, IsNotNull, Compared, Holds
<1>3. CompanyCheck(r) = Or({And(A), And(B)})
  BY DEF CompanyCheck
<1> HIDE DEF A, B
<1>4. QED
  BY <1>1, <1>2, <1>3, AndIs, OrOf

\* The CHECKs of the seller's profile.
LEMMA SellerCheckIs ==
  ASSUME NEW r
  PROVE  SellerCheck(r) # 0 <=>
           /\ CompanyCheck(r) # 0 /\ BillingCheck(r) # 0 /\ r.legal_country_code = "FR"
           /\ AddressCheck("line", r.legal_postal_code, "city", r.legal_country_code) # 0
           /\ r.siret[1] = r.siren
           /\ r.vat_number = None \/ r.vat_number = r.siren
<1> DEFINE vat == Or({IsNull(r.vat_number), Compared(r.vat_number, r.vat_number = r.siren)})
           address == AddressCheck("line", r.legal_postal_code, "city", r.legal_country_code)
           A == {CompanyCheck(r), BillingCheck(r), Holds(r.legal_country_code = "FR"), address,
                 Holds(r.siret[1] = r.siren), vat}
<1>1. /\ IsNull(r.vat_number) \in Truths
      /\ Compared(r.vat_number, r.vat_number = r.siren) \in Truths
      /\ IsNull(r.vat_number) # 0 \/ Compared(r.vat_number, r.vat_number = r.siren) # 0
           <=> r.vat_number = None \/ r.vat_number = r.siren
  BY DEF Truths, IsNull, Compared, Holds
<1>2. vat \in Truths /\ (vat # 0 <=> r.vat_number = None \/ r.vat_number = r.siren)
  BY <1>1, OrOf
<1>3. SellerCheck(r) = And(A)
  BY DEF SellerCheck
<1>4. CompanyCheck(r) \in Truths /\ BillingCheck(r) \in Truths /\ address \in Truths
  BY CompanyCheckIs, BillingCheckIs, AddressCheckIs
<1> HIDE DEF vat, address
<1>5. /\ A \in SUBSET Truths /\ A # {}
      /\ 0 \notin A <=> /\ CompanyCheck(r) # 0 /\ BillingCheck(r) # 0 /\ r.legal_country_code = "FR"
                        /\ address # 0 /\ r.siret[1] = r.siren /\ vat # 0
  BY <1>2, <1>4 DEF Truths, Holds
<1> HIDE DEF A
<1>6. QED
  BY <1>2, <1>3, <1>5, AndIs DEF address

\* The CHECKs of a client's profile.
LEMMA ProfileCheckIs ==
  ASSUME NEW r
  PROVE  ProfileCheck(r) # 0 <=>
           /\ AddressCheck("line", r.legal_postal_code, "city", r.legal_country_code) # 0
           /\ r.legal_country_code = None \/ r.legal_country_code # "FR" \/ r.siren # None
           /\ BillingCheck(r) # 0
           /\ r.vat_number = None \/ (r.siren # None /\ r.vat_number = r.siren)
<1> DEFINE address == AddressCheck("line", r.legal_postal_code, "city", r.legal_country_code)
           foreign == Compared(r.legal_country_code, r.legal_country_code # "FR")
           known == IsNotNull(r.siren)
           contained == Compared(r.vat_number, r.vat_number = r.siren)
           none == IsNull(r.vat_number)
<1>1. /\ foreign \in Truths /\ known \in Truths /\ contained \in Truths /\ none \in Truths
      /\ foreign # 0 <=> r.legal_country_code = None \/ r.legal_country_code # "FR"
      /\ known # 0 <=> r.siren # None
      /\ contained # 0 <=> r.vat_number = None \/ r.vat_number = r.siren
      /\ none # 0 <=> r.vat_number = None
  BY DEF Truths, Compared, IsNull, IsNotNull, Holds
<1>2. /\ LegalCheck(r) = And({address, Or({foreign, known})})
      /\ VatCheck(r) = Or({none, And({known, contained})})
      /\ ProfileCheck(r) = And({LegalCheck(r), BillingCheck(r), VatCheck(r)})
  BY DEF LegalCheck, VatCheck, ProfileCheck
<1>3. address \in Truths /\ BillingCheck(r) \in Truths
  BY AddressCheckIs, BillingCheckIs
<1> HIDE DEF address, foreign, known, contained, none
<1>4. LegalCheck(r) \in Truths /\ (LegalCheck(r) # 0 <=> address # 0 /\ (foreign # 0 \/ known # 0))
  <2> DEFINE A == {address, Or({foreign, known})}
  <2>1. Or({foreign, known}) \in Truths /\ (Or({foreign, known}) # 0 <=> foreign # 0 \/ known # 0)
    BY <1>1, OrOf
  <2>2. A \in SUBSET Truths /\ A # {}
        /\ (0 \notin A <=> address # 0 /\ (foreign # 0 \/ known # 0))
    BY <1>3, <2>1
  <2>3. LegalCheck(r) = And(A)
    BY <1>2
  <2> HIDE DEF A
  <2>4. QED
    BY <2>2, <2>3, AndIs
<1>5. VatCheck(r) \in Truths /\ (VatCheck(r) # 0 <=> none # 0 \/ (known # 0 /\ contained # 0))
  <2> DEFINE A == {known, contained}
  <2>1. A \in SUBSET Truths /\ A # {} /\ (0 \notin A <=> known # 0 /\ contained # 0)
    BY <1>1
  <2>2. VatCheck(r) = Or({none, And(A)})
    BY <1>2
  <2> HIDE DEF A
  <2>3. And(A) \in Truths /\ (And(A) # 0 <=> known # 0 /\ contained # 0)
    BY <2>1, AndIs
  <2>4. QED
    BY <1>1, <2>2, <2>3, OrOf
<1>6. ProfileCheck(r) # 0 <=> LegalCheck(r) # 0 /\ BillingCheck(r) # 0 /\ VatCheck(r) # 0
  <2> DEFINE A == {LegalCheck(r), BillingCheck(r), VatCheck(r)}
  <2>1. /\ A \in SUBSET Truths /\ A # {}
        /\ 0 \notin A <=> LegalCheck(r) # 0 /\ BillingCheck(r) # 0 /\ VatCheck(r) # 0
    BY <1>3, <1>4, <1>5
  <2>2. ProfileCheck(r) = And(A)
    BY <1>2
  <2> HIDE DEF A
  <2>3. QED
    BY <2>1, <2>2, AndIs
<1>7. QED
  BY <1>1, <1>4, <1>5, <1>6 DEF address
-----------------------------------------------------------------------------
(* The CHECKs refuse nothing the domain accepts *)

\* Settings.
LEMMA ValidSettingsPass ==
  ASSUME NEW r, SettingsValid(r)
  PROVE  SettingsCheck(r) # 0
<1>1. FiscalCheck(r) # 0
  BY FiscalCheckIs DEF SettingsValid, FiscalValid
<1>2. TermsCheck(r) # 0
  BY TermsCheckIs DEF SettingsValid, TermsValid
<1>3. DiscountCheck(r) # 0
  BY DiscountCheckIs DEF SettingsValid, DiscountValid
<1>4. QED
  BY <1>1, <1>2, <1>3, SettingsCheckIs

\* What a request submits of a billing address.
NullTogether(r) == r.billing_line1 = None => \A k \in BillingColumns : r[k] = None

\* A billing address, or none at all.
LEMMA ValidBillingPasses ==
  ASSUME NEW r, BillingValid(r), NullTogether(r)
  PROVE  BillingCheck(r) # 0
BY BillingCheckIs DEF BillingValid, NullTogether, BillingColumns, AddressValid

\* A seller's profile.
LEMMA ValidSellerPasses ==
  ASSUME NEW r, SellerValid(r), NullTogether(r)
  PROVE  SellerCheck(r) # 0
<1>1. CompanyCheck(r) # 0
  BY CompanyCheckIs DEF SellerValid
<1>2. BillingCheck(r) # 0
  BY ValidBillingPasses DEF SellerValid
<1>3. AddressCheck("line", r.legal_postal_code, "city", r.legal_country_code) # 0
  BY AddressCheckIs DEF SellerValid, AddressValid
<1>4. QED
  BY <1>1, <1>2, <1>3, SellerCheckIs DEF SellerValid

\* A client's profile.
LEMMA ValidProfilePasses ==
  ASSUME NEW r, ProfileValid(r), NullTogether(r)
  PROVE  ProfileCheck(r) # 0
<1>1. BillingCheck(r) # 0
  BY ValidBillingPasses DEF ProfileValid
<1>2. AddressCheck("line", r.legal_postal_code, "city", r.legal_country_code) # 0
  BY AddressCheckIs DEF ProfileValid, AddressValid
<1>3. QED
  BY <1>1, <1>2, ProfileCheckIs DEF ProfileValid

\* Whatever may be submitted passes.
LEMMA SubmissionsPass ==
  ASSUME NEW t \in DOMAIN Submissions, NEW s \in Submissions[t]
  PROVE  Checks(t, s) # 0
<1>1. Valid(t, s) /\ (t # "settings" => NullTogether(s))
  BY SubmissionsAssumption DEF NullTogether
<1>2. QED
  BY <1>1, ValidSettingsPass, ValidSellerPasses, ValidProfilePasses DEF Valid, Checks

-----------------------------------------------------------------------------
(* Blends *)

\* A blend has the table's columns, each with the value wanted or the base's.
LEMMA BlendIs ==
  ASSUME NEW base, NEW read, NEW wanted
  PROVE  /\ HasColumns(Blend(base, read, wanted))
         /\ \A k \in Columns(table) :
              Blend(base, read, wanted)[k] = IF wanted[k] # read[k] THEN wanted[k] ELSE base[k]
BY DEF Blend, HasColumns

\* A blend with what was read leaves what was wanted.
LEMMA LoneBlend ==
  ASSUME NEW read, NEW wanted, HasColumns(wanted)
  PROVE  Blend(read, read, wanted) = wanted
BY DEF Blend, HasColumns

\* What goes with a kind comes with it: a request that changes the kind writes the
\* column, one that does not keeps it.
LEMMA GoesWithKind ==
  ASSUME NEW base, NEW read, NEW wanted, NEW new, NEW kind, NEW col, NEW x,
         base[kind] = x => base[col] # None,
         read[kind] = x <=> read[col] # None,
         wanted[kind] = x <=> wanted[col] # None,
         new[kind] = IF wanted[kind] # read[kind] THEN wanted[kind] ELSE base[kind],
         new[col] = IF wanted[col] # read[col] THEN wanted[col] ELSE base[col]
  PROVE  new[kind] = x => new[col] # None
OBVIOUS

\* A blend of valid settings that passes the CHECKs is valid.
LEMMA BlendOfSettings ==
  ASSUME NEW base, NEW read, NEW wanted, NEW new, table = "settings",
         SettingsValid(base), SettingsValid(read), SettingsValid(wanted),
         \A k \in Columns(table) : new[k] = IF wanted[k] # read[k] THEN wanted[k] ELSE base[k],
         SettingsCheck(new) # 0
  PROVE  SettingsValid(new)
<1>1. \A k \in SettingsColumns : new[k] = IF wanted[k] # read[k] THEN wanted[k] ELSE base[k]
  BY DEF Columns
<1>2. FiscalCheck(new) # 0 /\ TermsCheck(new) # 0 /\ DiscountCheck(new) # 0
  BY SettingsCheckIs
<1>3. FiscalValid(new)
  <2>1. new.vat_regime = "franchise" => new.franchise_legal_basis # None
    <3>1. /\ new["vat_regime"] = IF wanted["vat_regime"] # read["vat_regime"]
                                 THEN wanted["vat_regime"] ELSE base["vat_regime"]
          /\ new["franchise_legal_basis"] =
               IF wanted["franchise_legal_basis"] # read["franchise_legal_basis"]
               THEN wanted["franchise_legal_basis"] ELSE base["franchise_legal_basis"]
      BY <1>1 DEF SettingsColumns
    <3>2. QED
      BY <3>1, GoesWithKind DEF SettingsValid, FiscalValid
  <2>2. QED
    BY <1>2, <2>1, FiscalCheckIs DEF FiscalValid
<1>4. TermsValid(new)
  <2>1. new.payment_due_rule = "net_days" => new.payment_net_days # None
    <3>1. /\ new["payment_due_rule"] = IF wanted["payment_due_rule"] # read["payment_due_rule"]
                                       THEN wanted["payment_due_rule"] ELSE base["payment_due_rule"]
          /\ new["payment_net_days"] = IF wanted["payment_net_days"] # read["payment_net_days"]
                                       THEN wanted["payment_net_days"] ELSE base["payment_net_days"]
      BY <1>1 DEF SettingsColumns
    <3>2. QED
      BY <3>1, GoesWithKind DEF SettingsValid, TermsValid
  <2>2. QED
    BY <1>2, <2>1, TermsCheckIs DEF TermsValid
<1>5. DiscountValid(new)
  <2>1. new.early_discount_kind = "percentage" => new.early_discount_days_after_issue # None
    <3>1. /\ new["early_discount_kind"] =
               IF wanted["early_discount_kind"] # read["early_discount_kind"]
               THEN wanted["early_discount_kind"] ELSE base["early_discount_kind"]
          /\ new["early_discount_days_after_issue"] =
               IF wanted["early_discount_days_after_issue"] # read["early_discount_days_after_issue"]
               THEN wanted["early_discount_days_after_issue"]
               ELSE base["early_discount_days_after_issue"]
      BY <1>1 DEF SettingsColumns
    <3>2. QED
      BY <3>1, GoesWithKind DEF SettingsValid, DiscountValid
  <2>2. QED
    BY <1>2, <2>1, DiscountCheckIs DEF DiscountValid
<1>6. QED
  BY <1>3, <1>4, <1>5 DEF SettingsValid

\* A blend of two profiles with the same columns empty has them empty too.
LEMMA BlendedAddress ==
  ASSUME NEW base, NEW read, NEW wanted, NEW new, table # "settings", Alike(base, wanted),
         \A k \in Columns(table) : new[k] = IF wanted[k] # read[k] THEN wanted[k] ELSE base[k]
  PROVE  /\ Alike(new, wanted)
         /\ \A k \in {"legal_postal_code", "legal_country_code", "billing_line1",
                     "billing_postal_code", "billing_city", "billing_country_code"} :
              new[k] \in {wanted[k], base[k]}
<1>1. {"legal_postal_code", "legal_country_code"} \subseteq ProfileColumns
      /\ BillingColumns \subseteq ProfileColumns
  BY DEF ProfileColumns
<1>2. ProfileColumns \subseteq Columns(table)
  BY DEF Columns, SellerColumns
<1>3. {"billing_line1", "billing_postal_code", "billing_city", "billing_country_code"}
        \subseteq BillingColumns
  BY DEF BillingColumns
<1>4. \A k \in {"legal_postal_code", "legal_country_code", "billing_line1",
              "billing_postal_code", "billing_city", "billing_country_code"} :
        new[k] \in {wanted[k], base[k]}
  BY <1>1, <1>2, <1>3
<1>5. QED
  BY <1>4 DEF Alike

\* Where both have a first line, both have a city and a country, so has the blend, and
\* its CHECK is known; where neither has a postal code, neither is in France.
LEMMA CheckedAddresses ==
  ASSUME NEW base, NEW wanted, NEW new, Alike(base, wanted), Alike(new, wanted),
         \A k \in {"legal_postal_code", "legal_country_code", "billing_line1",
                 "billing_postal_code", "billing_city", "billing_country_code"} :
           new[k] \in {wanted[k], base[k]},
         BillingValid(base), BillingValid(wanted), BillingCheck(new) # 0,
         AddressValid("line", base.legal_postal_code, "city", base.legal_country_code),
         AddressValid("line", wanted.legal_postal_code, "city", wanted.legal_country_code),
         AddressCheck("line", new.legal_postal_code, "city", new.legal_country_code) # 0
  PROVE  /\ BillingValid(new)
         /\ AddressValid("line", new.legal_postal_code, "city", new.legal_country_code)
<1>1. /\ new["legal_postal_code"] \in {wanted["legal_postal_code"], base["legal_postal_code"]}
      /\ new["legal_country_code"] \in {wanted["legal_country_code"], base["legal_country_code"]}
      /\ new["billing_line1"] \in {wanted["billing_line1"], base["billing_line1"]}
      /\ new["billing_postal_code"] \in {wanted["billing_postal_code"], base["billing_postal_code"]}
      /\ new["billing_city"] \in {wanted["billing_city"], base["billing_city"]}
      /\ new["billing_country_code"] \in {wanted["billing_country_code"], base["billing_country_code"]}
  OBVIOUS
<1>2. /\ (base["billing_line1"] = None) <=> (wanted["billing_line1"] = None)
      /\ (base["billing_postal_code"] = None) <=> (wanted["billing_postal_code"] = None)
      /\ (base["legal_postal_code"] = None) <=> (wanted["legal_postal_code"] = None)
      /\ (new["billing_line1"] = None) <=> (wanted["billing_line1"] = None)
      /\ (new["billing_postal_code"] = None) <=> (wanted["billing_postal_code"] = None)
      /\ (new["legal_postal_code"] = None) <=> (wanted["legal_postal_code"] = None)
  BY DEF Alike
<1>3. BillingValid(new)
  <2> SUFFICES ASSUME new.billing_line1 # None
               PROVE  /\ new.billing_city # None /\ new.billing_country_code # None
                      /\ new.billing_country_code = "FR" => new.billing_postal_code \in FrenchCodes
    BY DEF BillingValid, AddressValid
  <2>1. /\ base.billing_city # None /\ base.billing_country_code # None
        /\ base.billing_country_code = "FR" => base.billing_postal_code \in FrenchCodes
        /\ wanted.billing_city # None /\ wanted.billing_country_code # None
        /\ wanted.billing_country_code = "FR" => wanted.billing_postal_code \in FrenchCodes
    BY <1>2 DEF BillingValid, AddressValid
  <2>2. \/ new.billing_country_code = None \/ new.billing_country_code # "FR"
        \/ new.billing_postal_code = None \/ new.billing_postal_code \in FrenchCodes
    BY BillingCheckIs
  <2>3. QED
    BY <1>1, <1>2, <2>1, <2>2
<1>4. AddressValid("line", new.legal_postal_code, "city", new.legal_country_code)
  <2>1. \/ new.legal_country_code = None \/ new.legal_country_code # "FR"
        \/ new.legal_postal_code = None \/ new.legal_postal_code \in FrenchCodes
    BY AddressCheckIs
  <2>2. QED
    BY <1>1, <1>2, <2>1 DEF AddressValid
<1>5. QED
  BY <1>3, <1>4

\* A blend of a seller's valid profiles that passes the CHECKs is valid.
LEMMA BlendOfSellers ==
  ASSUME NEW base, NEW read, NEW wanted, NEW new, table = "seller",
         SellerValid(base), SellerValid(read), SellerValid(wanted),
         Alike(base, wanted),
         \A k \in Columns(table) : new[k] = IF wanted[k] # read[k] THEN wanted[k] ELSE base[k],
         SellerCheck(new) # 0
  PROVE  SellerValid(new) /\ Alike(new, wanted)
<1>1. /\ CompanyCheck(new) # 0 /\ BillingCheck(new) # 0 /\ new.legal_country_code = "FR"
      /\ AddressCheck("line", new.legal_postal_code, "city", new.legal_country_code) # 0
      /\ new.siret[1] = new.siren
      /\ new.vat_number = None \/ new.vat_number = new.siren
  BY SellerCheckIs
<1>2. /\ Alike(new, wanted)
      /\ \A k \in {"legal_postal_code", "legal_country_code", "billing_line1",
                  "billing_postal_code", "billing_city", "billing_country_code"} :
           new[k] \in {wanted[k], base[k]}
  BY BlendedAddress
<1>4. /\ BillingValid(new)
      /\ AddressValid("line", new.legal_postal_code, "city", new.legal_country_code)
  BY <1>1, <1>2, CheckedAddresses DEF SellerValid
<1>5. new.legal_entity_kind = "company" =>
        new.legal_form # None /\ new.share_capital_currency # None
  <2>1. \A k \in {"legal_entity_kind", "legal_form", "share_capital_currency"} :
          new[k] = IF wanted[k] # read[k] THEN wanted[k] ELSE base[k]
    BY DEF Columns, SellerColumns
  <2>2. /\ new["legal_entity_kind"] = IF wanted["legal_entity_kind"] # read["legal_entity_kind"]
                                      THEN wanted["legal_entity_kind"] ELSE base["legal_entity_kind"]
        /\ new["legal_form"] = IF wanted["legal_form"] # read["legal_form"]
                               THEN wanted["legal_form"] ELSE base["legal_form"]
        /\ new["share_capital_currency"] =
             IF wanted["share_capital_currency"] # read["share_capital_currency"]
             THEN wanted["share_capital_currency"] ELSE base["share_capital_currency"]
    BY <2>1
  <2>3. new.legal_entity_kind = "company" => new.legal_form # None
    BY <2>2, GoesWithKind DEF SellerValid
  <2>4. new.legal_entity_kind = "company" => new.share_capital_currency # None
    BY <2>2, GoesWithKind DEF SellerValid
  <2>5. QED
    BY <2>3, <2>4
<1>6. /\ new.legal_entity_kind \in {"individual", "company"}
      /\ (new.legal_entity_kind = "company") <=> (new.legal_form # None)
      /\ (new.legal_entity_kind = "company") <=> (new.share_capital # None)
      /\ (new.legal_entity_kind = "company") <=> (new.share_capital_currency # None)
  BY <1>1, <1>5, CompanyCheckIs
<1>7. QED
  BY <1>1, <1>2, <1>4, <1>6 DEF SellerValid

\* So is one of a client's profiles, by less of what is read.
LEMMA BlendOfProfiles ==
  ASSUME NEW base, NEW read, NEW wanted, NEW new, table # "settings",
         ProfileValid(base), ProfileValid(wanted), Alike(base, wanted),
         \A k \in Columns(table) : new[k] = IF wanted[k] # read[k] THEN wanted[k] ELSE base[k],
         ProfileCheck(new) # 0
  PROVE  ProfileValid(new) /\ Alike(new, wanted)
<1>1. /\ AddressCheck("line", new.legal_postal_code, "city", new.legal_country_code) # 0
      /\ new.legal_country_code = None \/ new.legal_country_code # "FR" \/ new.siren # None
      /\ BillingCheck(new) # 0
      /\ new.vat_number = None \/ (new.siren # None /\ new.vat_number = new.siren)
  BY ProfileCheckIs
<1>2. /\ Alike(new, wanted)
      /\ \A k \in {"legal_postal_code", "legal_country_code", "billing_line1",
                  "billing_postal_code", "billing_city", "billing_country_code"} :
           new[k] \in {wanted[k], base[k]}
  BY BlendedAddress
<1>3. /\ BillingValid(new)
      /\ AddressValid("line", new.legal_postal_code, "city", new.legal_country_code)
  BY <1>1, <1>2, CheckedAddresses DEF ProfileValid
<1>4. QED
  BY <1>1, <1>2, <1>3 DEF ProfileValid, AddressValid

-----------------------------------------------------------------------------
(* ShapeInv and SoundInv: initially, and after every step *)

\* A request that ends disturbs no other.
LEMMA ReplacementEnds ==
  ASSUME ShapeInv, NEW c \in Callers, replacing' = [replacing EXCEPT ![c] = None]
  PROVE  /\ replacing' = [d \in Callers |-> replacing'[d]] /\ replacing'[c] = None
         /\ \A d \in Callers \ {c} : replacing'[d] = replacing[d]
BY DEF ShapeInv

\* Nothing is stored at the start.
LEMMA InitConfigurationInv == Init => ConfigurationInv
BY DEF Init, ConfigurationInv, ShapeInv, SoundInv

\* Every step keeps the columns.
LEMMA ShapeInvStep == ShapeInv /\ [Next]_vars => ShapeInv'
<1> SUFFICES ASSUME ShapeInv, [Next]_vars PROVE ShapeInv'
  OBVIOUS
<1>1. ASSUME NEW s \in Submissions[table], Create(s) PROVE ShapeInv'
  <2>1. s = [k \in Columns(table) |-> s[k]]
    BY SubmissionsAssumption DEF ShapeInv
  <2>2. QED
    BY <1>1, <2>1 DEF Create, ShapeInv, HasColumns
<1>2. ASSUME NEW c \in Callers, NEW s \in Submissions[table], ReadForUpdate(c, s) PROVE ShapeInv'
  <2>1. /\ replacing'[c] = [read |-> row, wanted |-> s]
        /\ replacing' = [d \in Callers |-> replacing'[d]]
        /\ \A d \in Callers \ {c} : replacing'[d] = replacing[d]
    BY <1>2 DEF ReadForUpdate, ShapeInv
  <2>2. HasColumns(row) /\ table' = table /\ row' = row
    BY <1>2 DEF ReadForUpdate, ShapeInv
  <2>3. \A d \in Callers : replacing'[d] # None =>
          HasColumns(replacing'[d].read) /\ replacing'[d].wanted \in Submissions[table]
    BY <2>1, <2>2 DEF ShapeInv
  <2>4. QED
    BY <2>1, <2>2, <2>3 DEF ShapeInv, HasColumns
<1>3. ASSUME NEW c \in Callers, Replace(c) PROVE ShapeInv'
  <2>1. HasColumns(row') /\ table' = table
    BY <1>3, BlendIs DEF Replace
  <2>2. /\ replacing' = [d \in Callers |-> replacing'[d]] /\ replacing'[c] = None
        /\ \A d \in Callers \ {c} : replacing'[d] = replacing[d]
    BY <1>3, ReplacementEnds DEF Replace
  <2>3. \A d \in Callers : replacing'[d] # None =>
          HasColumns(replacing'[d].read) /\ replacing'[d].wanted \in Submissions[table]
    BY <2>2 DEF ShapeInv
  <2>4. QED
    BY <2>1, <2>2, <2>3 DEF ShapeInv, HasColumns
<1>4. ASSUME NEW c \in Callers, ReplaceFails(c) PROVE ShapeInv'
  <2>1. /\ replacing' = [d \in Callers |-> replacing'[d]] /\ replacing'[c] = None
        /\ \A d \in Callers \ {c} : replacing'[d] = replacing[d]
    BY <1>4, ReplacementEnds DEF ReplaceFails
  <2>2. table' = table /\ row' = row
    BY <1>4 DEF ReplaceFails
  <2>3. \A d \in Callers : replacing'[d] # None =>
          HasColumns(replacing'[d].read) /\ replacing'[d].wanted \in Submissions[table]
    BY <2>1 DEF ShapeInv
  <2>4. QED
    BY <2>1, <2>2, <2>3 DEF ShapeInv, HasColumns
<1>5. CASE UNCHANGED vars
  BY <1>5 DEF vars, ShapeInv, HasColumns
<1>6. QED
  BY <1>1, <1>2, <1>3, <1>4, <1>5 DEF Next

\* What is submitted is sound when addresses stay.
LEMMA SubmittedIsSound ==
  ASSUME AddressesStay, ShapeInv, NEW s \in Submissions[table]
  PROVE  Sound(s)
BY SubmissionsAssumption DEF AddressesStay, ShapeInv, Sound

\* A blend of sound rows that passes the CHECKs is sound.
LEMMA BlendIsSound ==
  ASSUME NEW base, NEW read, NEW wanted, NEW s \in Submissions[table], wanted = s,
         Sound(base), Sound(read), Sound(wanted),
         Checks(table, Blend(base, read, wanted)) # 0
  PROVE  Sound(Blend(base, read, wanted))
<1>1. PICK new : new = Blend(base, read, wanted)
  OBVIOUS
<1>2. \A k \in Columns(table) : new[k] = IF wanted[k] # read[k] THEN wanted[k] ELSE base[k]
  BY <1>1, BlendIs
<1>3. CASE table = "settings"
  <2>1. /\ SettingsValid(base) /\ SettingsValid(read) /\ SettingsValid(wanted)
        /\ SettingsCheck(new) # 0
    BY <1>1, <1>3 DEF Sound, Valid, Checks
  <2>2. SettingsValid(new)
    BY <1>2, <1>3, <2>1, BlendOfSettings
  <2>3. QED
    BY <1>1, <1>3, <2>2 DEF Sound, Valid
<1>4. CASE table = "seller"
  <2>1. /\ SellerValid(base) /\ SellerValid(read) /\ SellerValid(wanted)
        /\ SellerCheck(new) # 0 /\ Alike(base, wanted)
    BY <1>1, <1>4 DEF Sound, Valid, Checks
  <2>2. SellerValid(new) /\ Alike(new, wanted)
    BY <1>2, <1>4, <2>1, BlendOfSellers
  <2>3. QED
    BY <1>1, <1>4, <2>2 DEF Sound, Valid, Alike
<1>5. CASE table \notin {"settings", "seller"}
  <2>1. /\ ProfileValid(base) /\ ProfileValid(read) /\ ProfileValid(wanted)
        /\ ProfileCheck(new) # 0 /\ Alike(base, wanted)
    BY <1>1, <1>5 DEF Sound, Valid, Checks
  <2>2. ProfileValid(new) /\ Alike(new, wanted)
    BY <1>2, <1>5, <2>1, BlendOfProfiles
  <2>3. QED
    BY <1>1, <1>5, <2>2 DEF Sound, Valid, Alike
<1>6. QED
  BY <1>3, <1>4, <1>5

\* Every step keeps rows sound.
LEMMA SoundInvStep ==
  ASSUME AddressesStay, ConfigurationInv, [Next]_vars
  PROVE  SoundInv'
<1> DEFINE SoundWith(r, rs) ==
      /\ r # None => Sound(r)
      /\ \A c \in Callers : rs[c] # None => Sound(r) /\ Sound(rs[c].read)
<1>1. SoundWith(row, replacing)
  BY DEF ConfigurationInv, SoundInv
<1>2. ASSUME table' = table, SoundWith(row', replacing') PROVE SoundInv'
  BY <1>2 DEF SoundInv, Sound, Valid
<1>3. ASSUME NEW s \in Submissions[table], Create(s) PROVE SoundInv'
  <2>1. row' = s /\ Sound(s) /\ replacing' = replacing /\ table' = table
    BY <1>3, SubmittedIsSound DEF ConfigurationInv, Create
  <2>2. QED
    BY <1>1, <1>2, <2>1
<1>4. ASSUME NEW c \in Callers, NEW s \in Submissions[table], ReadForUpdate(c, s) PROVE SoundInv'
  <2>1. /\ replacing'[c] = [read |-> row, wanted |-> s]
        /\ \A d \in Callers \ {c} : replacing'[d] = replacing[d]
        /\ row' = row /\ table' = table /\ row # None
    BY <1>4 DEF ReadForUpdate, ConfigurationInv, ShapeInv
  <2>2. QED
    BY <1>1, <1>2, <2>1
<1>5. ASSUME NEW c \in Callers, Replace(c) PROVE SoundInv'
  <2>1. Sound(row) /\ Sound(replacing[c].read)
    BY <1>1, <1>5 DEF Replace
  <2>2. Sound(replacing[c].wanted) /\ replacing[c].wanted \in Submissions[table]
    BY <1>5, SubmittedIsSound DEF Replace, ConfigurationInv, ShapeInv
  <2>3. Sound(row') /\ table' = table
    BY <1>5, <2>1, <2>2, BlendIsSound DEF Replace
  <2>4. /\ replacing'[c] = None
        /\ \A d \in Callers \ {c} : replacing'[d] = replacing[d]
    BY <1>5, ReplacementEnds DEF Replace, ConfigurationInv
  <2>5. QED
    BY <1>1, <1>2, <2>3, <2>4
<1>6. ASSUME NEW c \in Callers, ReplaceFails(c) PROVE SoundInv'
  <2>1. /\ replacing'[c] = None
        /\ \A d \in Callers \ {c} : replacing'[d] = replacing[d]
        /\ row' = row /\ table' = table
    BY <1>6, ReplacementEnds DEF ReplaceFails, ConfigurationInv
  <2>2. QED
    BY <1>1, <1>2, <2>1
<1>7. CASE UNCHANGED vars
  BY <1>1, <1>2, <1>7 DEF vars
<1>8. QED
  BY <1>3, <1>4, <1>5, <1>6, <1>7 DEF Next

-----------------------------------------------------------------------------
(* Theorems *)

\* Every reachable state has the table's columns.
THEOREM ShapeInvariance == Spec => []ShapeInv
<1>1. Init => ShapeInv
  BY InitConfigurationInv DEF ConfigurationInv
<1>2. ShapeInv /\ [Next]_vars => ShapeInv'
  BY ShapeInvStep
<1>3. QED
  BY <1>1, <1>2, PTL DEF Spec

\* The table stays the same, so all that is stored is sound if addresses stay.
THEOREM ConfigurationInvariance == Spec => []ConfigurationInv
<1>1. Init => ConfigurationInv
  BY InitConfigurationInv
<1>2. ConfigurationInv /\ [Next]_vars => ConfigurationInv'
  <2> SUFFICES ASSUME ConfigurationInv, [Next]_vars PROVE ConfigurationInv'
    OBVIOUS
  <2>1. ShapeInv'
    BY ShapeInvStep DEF ConfigurationInv
  <2>2. table' = table
    BY DEF Next, Create, ReadForUpdate, Replace, ReplaceFails, vars
  <2>3. AddressesStay' => AddressesStay
    BY <2>2 DEF AddressesStay, Alike
  <2>4. QED
    BY <2>1, <2>3, SoundInvStep DEF ConfigurationInv
<1>3. QED
  BY <1>1, <1>2, PTL DEF Spec

\* However replacements overlap, the settings can always be read, and so can a
\* profile unless one of them adds or removes a billing address or a postal code:
\* that is the only hole in the CHECKs.
THEOREM ReadableWhileAddressesStay == Spec => [](AddressesStay => ConfigurationIsReadable)
<1>1. ConfigurationInv => (AddressesStay => ConfigurationIsReadable)
  BY DEF ConfigurationInv, ShapeInv, SoundInv, Sound, HasColumns, ConfigurationIsReadable
<1>2. QED
  BY <1>1, ConfigurationInvariance, PTL

\* No CHECK refuses what was submitted, and a replacement that nothing came between
\* leaves exactly that.
THEOREM LoneReplacements == Spec => LoneReplacementReplaces
<1>1. ASSUME ShapeInv, [Next]_vars, NEW c \in Callers, replacing[c] # None, replacing[c].read = row
      PROVE  /\ Checks(table, replacing[c].wanted) # 0
             /\ row' # row /\ replacing'[c] = None => row' = replacing[c].wanted
  <2>1. replacing[c].wanted \in Submissions[table] /\ table \in DOMAIN Submissions
    BY <1>1 DEF ShapeInv
  <2>2. Checks(table, replacing[c].wanted) # 0
    BY <2>1, SubmissionsPass
  <2>3. ASSUME row' # row, replacing'[c] = None PROVE row' = replacing[c].wanted
    <3>1. Replace(c)
      <4>1. ASSUME NEW s \in Submissions[table], Create(s) PROVE FALSE
        BY <1>1, <2>3, <4>1 DEF Create
      <4>2. ASSUME NEW d \in Callers, NEW s \in Submissions[table], ReadForUpdate(d, s) PROVE FALSE
        BY <2>3, <4>2 DEF ReadForUpdate
      <4>3. ASSUME NEW d \in Callers, Replace(d) PROVE d = c
        <5>1. \A e \in Callers \ {d} : replacing'[e] = replacing[e]
          BY <1>1, <4>3, ReplacementEnds DEF Replace
        <5>2. QED
          BY <1>1, <2>3, <5>1
      <4>4. ASSUME NEW d \in Callers, ReplaceFails(d) PROVE FALSE
        BY <2>3, <4>4 DEF ReplaceFails
      <4>5. CASE UNCHANGED vars
        BY <2>3, <4>5 DEF vars
      <4>6. QED
        BY <1>1, <4>1, <4>2, <4>3, <4>4, <4>5 DEF Next
    <3>2. HasColumns(replacing[c].wanted)
      BY <2>1, SubmissionsAssumption DEF HasColumns
    <3>3. QED
      BY <1>1, <3>1, <3>2, LoneBlend DEF Replace
  <2>4. QED
    BY <2>2, <2>3
<1>2. ShapeInv /\ [Next]_vars =>
        [\A c \in Callers :
           replacing[c] # None /\ replacing[c].read = row =>
             /\ Checks(table, replacing[c].wanted) # 0
             /\ row' # row /\ replacing'[c] = None => row' = replacing[c].wanted]_vars
  BY <1>1
<1>3. QED
  BY <1>2, ShapeInvariance, PTL DEF Spec, LoneReplacementReplaces
=============================================================================
