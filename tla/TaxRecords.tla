----------------------------- MODULE TaxRecords -----------------------------
(***************************************************************************)
(* The figures in the FEMA and the GST record of a released escrow.        *)
(* Amounts are in paise but for the worth of a supply, microAlgo times the *)
(* rate, which is exact: here in tenths of a paisa.                        *)
(***************************************************************************)
EXTENDS Integers

CONSTANTS
    Worths,      \* what releases may be worth
    Traders      \* GSTINs: the state, and whether the entity code is a digit

ASSUME TaxAssumption == Worths \subseteq Nat

VARIABLES
    supply,      \* the released supply, in a set, or {}
    records      \* its two records, in a set, or {}

taxVars == <<supply, records>>

TaxInit == supply = {} /\ records = {}

Truncated(n, d) == n \div d

\* Decimal.quantize to the unit, of n / d: to the even one when it is half-way.
Quantized(n, d) ==
    LET q == n \div d
        r == 2 * (n % d)
    IN  IF r > d \/ (r = d /\ q % 2 = 1) THEN q + 1 ELSE q

\* INR 5,00,000 in tenths of a paisa.
CertificateFrom == 500000000

FemaRecord(worth) ==
    [form |-> IF worth >= CertificateFrom THEN "15CB" ELSE "15CA", amount |-> Quantized(worth, 10)]

\* CGST and SGST of 9 per cent each, within a state.
Intrastate(taxable) ==
    [igst |-> 0, cgst |-> Quantized(taxable * 9, 100), sgst |-> Quantized(taxable * 9, 100)]

\* IGST of 18 per cent, between two.
Interstate(taxable) == [igst |-> Quantized(taxable * 18, 100), cgst |-> 0, sgst |-> 0]

GstRecord(worth, buyer, seller) ==
    LET taxable == Quantized(worth, 10)
    IN  [taxable |-> taxable,
         tax |-> IF buyer.state = seller.state THEN Intrastate(taxable) ELSE Interstate(taxable)]

\* What is put in the place of a party that is not found.
PlaceholderBuyer == [state |-> "27", digit |-> TRUE]
PlaceholderSeller == [state |-> "29", digit |-> TRUE]

\* EscrowReleased, with parties that are found or not.
ReleaseSupply ==
    /\ supply = {}
    /\ \E w \in Worths, b \in Traders \cup {PlaceholderBuyer}, s \in Traders \cup {PlaceholderSeller} :
          supply' = {[worth |-> w, buyer |-> b, seller |-> s]}
    /\ UNCHANGED records

\* The GSTIN of compliance admits a digit only where that of identity admits a
\* letter: the record is refused, the handler drops the exception, and there is
\* neither record.
GenerateRecords ==
    /\ records = {}
    /\ \E x \in supply :
          /\ x.buyer.digit /\ x.seller.digit
          /\ records' = {[fema |-> FemaRecord(x.worth), gst |-> GstRecord(x.worth, x.buyer, x.seller)]}
    /\ UNCHANGED supply

TaxNext == ReleaseSupply \/ GenerateRecords

TaxSpec == TaxInit /\ [][TaxNext]_taxVars

-----------------------------------------------------------------------------

TotalTax(g) == g.tax.igst + g.tax.cgst + g.tax.sgst

\* The two records of a supply are about one amount, rounded twice on the way to
\* one of them; the tax is within a paisa of 18 per cent of it, whichever way it
\* is levied; and no supply gets the lower form whose recorded amount is above the
\* threshold (fema_record.py:79-93, gst_record.py:92-131, services.py:197-206).
RecordsAddUp ==
    \A r \in records :
       /\ r.fema.amount = r.gst.taxable
       /\ (100 * TotalTax(r.gst) - 18 * r.gst.taxable) \in (-100)..100
       /\ (10 * r.fema.amount > CertificateFrom => r.fema.form = "15CB")
       /\ (r.fema.form = "15CB" => 10 * r.fema.amount >= CertificateFrom)
=============================================================================
