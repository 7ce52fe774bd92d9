--------------------------- MODULE ConfigurationUpdate ---------------------------
(***************************************************************************)
(* Create, replace and read one row of billing configuration.               *)
(*                                                                         *)
(* A replacement reads the row without a lock, assigns every attribute and  *)
(* flushes; the object-relational mapper then writes only the columns whose *)
(* value differs from what was READ, and PostgreSQL applies them to the     *)
(* newest version of the row.  Two replacements that overlap leave a blend  *)
(* of both, which must pass the row's CHECK constraints.                    *)
(*                                                                         *)
(* Left out: what a snapshot holds locked meanwhile (InvoiceIssuance).      *)
(***************************************************************************)
EXTENDS ConfigurationRows

CONSTANTS
  Submissions,    \* table -> the configurations requests submit
  Callers         \* concurrent requests

VARIABLES
  table,          \* which row this behaviour is about
  row,            \* the committed row, or None
  replacing       \* caller -> the row it has read and the row it wants, or None

vars == <<table, row, replacing>>

Valid(t, r) ==
  IF t = "settings" THEN SettingsValid(r)
  ELSE IF t = "seller" THEN SellerValid(r) ELSE ProfileValid(r)

Checks(t, r) ==
  IF t = "settings" THEN SettingsCheck(r)
  ELSE IF t = "seller" THEN SellerCheck(r) ELSE ProfileCheck(r)

Columns(t) ==
  IF t = "settings" THEN SettingsColumns
  ELSE IF t = "seller" THEN SellerColumns ELSE ProfileColumns

\* A request is built from a domain value, so nothing else is ever submitted: all
\* of a valid row's columns, those of a missing billing address NULL together.
ASSUME SubmissionsAssumption ==
  /\ DOMAIN Submissions \subseteq {"settings", "seller", "client"}
  /\ \A t \in DOMAIN Submissions :
       /\ None \notin Submissions[t]
       /\ \A s \in Submissions[t] : Valid(t, s)
       /\ \A s \in Submissions[t] : s = [k \in Columns(t) |-> s[k]]
       /\ t # "settings" => \A s \in Submissions[t] :
            s.billing_line1 = None => \A k \in BillingColumns : s[k] = None

Init ==
  /\ table \in DOMAIN Submissions
  /\ row = None
  /\ replacing = [c \in Callers |-> None]

-----------------------------------------------------------------------------
\* INSERT ... ON CONFLICT DO NOTHING: whoever comes second is told "already exists".
Create(s) ==
  /\ row = None
  /\ row' = s
  /\ UNCHANGED <<table, replacing>>

\* Session.get; "not found" if there is no row yet.
ReadForUpdate(c, s) ==
  /\ row # None
  /\ replacing[c] = None
  /\ replacing' = [replacing EXCEPT ![c] = [read |-> row, wanted |-> s]]
  /\ UNCHANGED <<table, row>>

\* The UPDATE statement names the columns that differ from what was read.
Blend(base, read, wanted) ==
  [k \in Columns(table) |-> IF wanted[k] # read[k] THEN wanted[k] ELSE base[k]]

\* flush and commit
Replace(c) ==
  /\ replacing[c] # None
  /\ LET new == Blend(row, replacing[c].read, replacing[c].wanted)
     IN /\ Checks(table, new) # 0
        /\ row' = new
  /\ replacing' = [replacing EXCEPT ![c] = None]
  /\ UNCHANGED table

\* A CHECK fails, or the connection does: rolled back.
ReplaceFails(c) ==
  /\ replacing[c] # None
  /\ replacing' = [replacing EXCEPT ![c] = None]
  /\ UNCHANGED <<table, row>>

Next ==
  \/ \E s \in Submissions[table] : Create(s)
  \/ \E c \in Callers :
       \/ \E s \in Submissions[table] : ReadForUpdate(c, s)
       \/ Replace(c)
       \/ ReplaceFails(c)

Spec == Init /\ [][Next]_vars

-----------------------------------------------------------------------------
(* Properties *)

\* Whatever blend concurrent replacements leave, it has every column and the
\* domain accepts it, so the configuration can be read (_to_domain,
\* _workspace_from_row and _client_from_row raise otherwise).
ConfigurationIsReadable ==
  row # None => DOMAIN row = Columns(table) /\ Valid(table, row)

\* A replacement that nothing came between leaves exactly what was submitted:
\* no CHECK refuses what the domain accepts (docs/billing-rules.md:69).
LoneReplacementReplaces ==
  [][\A c \in Callers :
       replacing[c] # None /\ replacing[c].read = row =>
         /\ Checks(table, replacing[c].wanted) # 0
         /\ row' # row /\ replacing'[c] = None => row' = replacing[c].wanted]_vars
=============================================================================
