------------------------------- MODULE RawState -------------------------------
(***************************************************************************)
(* src/internal/state/state.go: the payload of the raw state topic, built  *)
(* from the merged fields.  Fields are a function from field names to      *)
(* values.  A value is an integer of a bounded range if parseNumber reads  *)
(* a finite number from it, be it a JSON number or text; NonFinite if it   *)
(* reads "NaN" or "Inf"; Text if it reads nothing.                         *)
(***************************************************************************)
EXTENDS Integers, FiniteSetsExt

CONSTANTS
    Names,        \* the field names
    Numbered(_),  \* the names that are the given prefix and an integer
    MaxFloat,     \* the largest finite number
    NonFinite,    \* a number JSON has no form for
    Text          \* any value that is no number: text, empty, null, an object

\* The prefixes of numbered fields and the field their total goes to.
Total == [Ppv |-> "PpvTotal", PrealL |-> "PrealTotal", PmeterL |-> "PmeterTotal"]

\* What follows the prefix of a total is no integer.
ASSUME NumberedAssumption == \A p, q \in DOMAIN Total : Total[q] \notin Numbered(p)

ASSUME MaxFloatAssumption == MaxFloat \in Nat

Finite == -MaxFloat .. MaxFloat
Value == Finite \cup {NonFinite, Text}

\* parseNumber: v is a number.
Parses(v) == v # Text

\* The sum of two floats: it overflows to Inf beyond the largest one.
Add(a, b) ==
    IF NonFinite \notin {a, b} /\ a + b \in Finite THEN a + b ELSE NonFinite

numericValues(fields) ==
    [k \in {n \in DOMAIN fields : Parses(fields[n])} |-> fields[k]]

matchingNumberedKeys(fields, prefix) == DOMAIN fields \cap Numbered(prefix)

\* addNumberedTotal: what the numbered fields that are numbers add up to.  (The
\* order in which they are added tells only where numbers of both signs overflow
\* before they cancel out.)
AddUp(numbers) == FoldFunction(Add, 0, numbers)
SumOf(fields, keys) == AddUp([k \in {n \in keys : Parses(fields[n])} |-> fields[k]])

\* Mutant: a total the record brings with it stays.
addDerivedValuesOnce(fields, values) ==
    LET totals == {p \in DOMAIN Total :
                        matchingNumberedKeys(fields, p) # {} /\ Total[p] \notin DOMAIN values}
        of(k) == CHOOSE p \in totals : Total[p] = k
        derived == {Total[p] : p \in totals}
    IN  [k \in DOMAIN values \cup derived |->
            IF k \in derived
            THEN SumOf(fields, matchingNumberedKeys(fields, of(k))) ELSE values[k]]

\* addDerivedValues: a total replaces the value the record may have for it.
addDerivedValues(fields, values) ==
    LET totals == {p \in DOMAIN Total : matchingNumberedKeys(fields, p) # {}}
        of(k) == CHOOSE p \in totals : Total[p] = k
        derived == {Total[p] : p \in totals}
    IN  [k \in DOMAIN values \cup derived |->
            IF k \in derived
            THEN SumOf(fields, matchingNumberedKeys(fields, of(k))) ELSE values[k]]

Build(fields) ==
    [fields |-> fields, values |-> addDerivedValues(fields, numericValues(fields))]

\* Marshal: JSON has no form for a number that is not finite.
Marshals(payload) ==
    \A k \in DOMAIN payload.values : payload.values[k] # NonFinite
=============================================================================
