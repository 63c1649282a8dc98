--------------------------- MODULE TaxIdentifiers ---------------------------
(***************************************************************************)
(* TaxIdentifierValidator: Polish NIP numbers with their checksum, and EU  *)
(* VAT numbers by their syntax.                                            *)
(*                                                                         *)
(* A text is what the validator sees of it: the two letters it begins with *)
(* when separators are left out ("" if it does not begin with two letters),*)
(* the number of its other letters, its digits, and whether anything was   *)
(* given at all.  Cleaning the text (strip, upper, removal of separators)  *)
(* changes none of them; texts are of ASCII characters, and shorter than   *)
(* the 64 at which they are cut.                                           *)
(***************************************************************************)
EXTENDS Integers, Sequences

Digit == 0 .. 9

EUCountry == {"AT", "BE", "BG", "CY", "CZ", "DE", "DK", "EE", "EL", "ES", "FI",
              "FR", "HR", "HU", "IE", "IT", "LT", "LU", "LV", "MT", "NL", "PL",
              "PT", "RO", "SE", "SI", "SK"}

Rejected == [ok |-> FALSE, digits |-> << >>, letters |-> 0]
Absent   == [ok |-> TRUE, digits |-> << >>, letters |-> 0]
Accepted(digits, letters) ==
    [ok |-> TRUE, digits |-> digits, letters |-> letters]

IsEmpty(text) == text.prefix = "" /\ text.letters = 0 /\ text.digits = << >>

(* The part that the prefix leaves: normalized[2:].                        *)
Rest(text) == [text EXCEPT !.prefix = ""]

(* Mutant: the last two weights are the same.                              *)
WeightedSumFlat(d) ==
    6 * d[1] + 5 * d[2] + 7 * d[3] + 2 * d[4] + 3 * d[5]
    + 4 * d[6] + 5 * d[7] + 6 * d[8] + 6 * d[9]

(* The weights 6, 5, 7, 2, 3, 4, 5, 6, 7 over the first nine digits.       *)
WeightedSum(d) ==
    6 * d[1] + 5 * d[2] + 7 * d[3] + 2 * d[4] + 3 * d[5]
    + 4 * d[6] + 5 * d[7] + 6 * d[8] + 7 * d[9]

(* A remainder of 10 equals no digit.                                      *)
IsValidNipChecksum(d) == Len(d) = 10 /\ WeightedSum(d) % 11 = d[10]

(* validate_nip looks at the digits only, whatever stands between them.    *)
ValidateNip(text, required) ==
    IF text.digits = << >>
    THEN IF required THEN Rejected ELSE Absent
    ELSE IF IsValidNipChecksum(text.digits) THEN Accepted(text.digits, 0)
         ELSE Rejected

(* The text itself is the result of the VAT checks, its letters included.  *)
Whole(text) ==
    Accepted(text.digits, text.letters + (IF text.prefix = "" THEN 0 ELSE 2))

ValidatePolishVatEu(text) ==
    IF text.prefix = "PL" /\ ValidateNip(Rest(text), TRUE).ok
    THEN Whole(text) ELSE Rejected

(* Two letters, then 2 to 12 letters or digits; a country of the EU.       *)
HasVatFormat(text) ==
    /\ text.prefix \in EUCountry
    /\ text.letters + Len(text.digits) \in 2 .. 12

LooksLikeEuVat(text) ==
    /\ HasVatFormat(text)
    /\ text.prefix = "PL" =>
         text.letters = 0 /\ IsValidNipChecksum(text.digits)

ValidateEuVat(text) ==
    IF /\ HasVatFormat(text)
       /\ text.prefix = "PL" => ValidateNip(Rest(text), TRUE).ok
    THEN Whole(text) ELSE Rejected

(* Which of the checks a text is put to: by country, else by its looks.    *)
ValidateTaxIdentifier(text, country, required) ==
    CASE IsEmpty(text) -> IF required THEN Rejected ELSE Absent
      [] ~IsEmpty(text) /\ country = "PL" ->
           IF text.prefix = "PL" THEN ValidatePolishVatEu(text)
                                 ELSE ValidateNip(text, TRUE)
      [] ~IsEmpty(text) /\ country \in EUCountry \ {"PL"} -> ValidateEuVat(text)
      [] OTHER ->
           IF text.prefix = "" /\ text.letters = 0 THEN ValidateNip(text, TRUE)
                                                   ELSE ValidateEuVat(text)

(* validate_contractor_data, with a contractor that says of its other      *)
(* fields whether they pass.  The first identifier given counts, even if   *)
(* it turns out to be empty.                                               *)
ValidateContractor(contractor, requireTaxId, requireAddress) ==
    LET id == CASE contractor.tax_identifier.given -> contractor.tax_identifier
                [] contractor.vat_eu.given         -> contractor.vat_eu
                [] OTHER                           -> contractor.nip
    IN /\ contractor.named /\ contractor.mailable
       /\ ValidateTaxIdentifier(id, contractor.country, requireTaxId).ok
       /\ requireAddress => contractor.addressed

-----------------------------------------------------------------------------
(***************************************************************************)
(* What the checksum is for                                                *)
(***************************************************************************)

(* The number d with digit i mistyped as x.                                *)
Mistyped(d, i, x) == [d EXCEPT ![i] = x]

(* The number d with digits i and i + 1 swapped.                           *)
Swapped(d, i) == [d EXCEPT ![i] = d[i + 1], ![i + 1] = d[i]]

(* A number that is accepted is not accepted any more with one digit       *)
(* mistyped or two neighbours swapped, in whatever way it is given: plain  *)
(* or with the prefix PL, with or without a country.                       *)
TypingErrorIsRejected(text, country, i, x) ==
    LET with(d) == [text EXCEPT !.digits = d]
        accepts(d) == ValidateTaxIdentifier(with(d), country, TRUE).ok
    IN accepts(text.digits) =>
         /\ x # text.digits[i] => ~accepts(Mistyped(text.digits, i, x))
         /\ i < 10 /\ text.digits[i] # text.digits[i + 1] =>
              ~accepts(Swapped(text.digits, i))

(* A Polish contractor who must have an identifier has given one whose     *)
(* digits pass the checksum.                                               *)
PolishContractorHasNip(contractor) ==
    contractor.country = "PL" /\ ValidateContractor(contractor, TRUE, FALSE) =>
        \E id \in {contractor.tax_identifier, contractor.vat_eu, contractor.nip} :
            IsValidNipChecksum(id.digits)

(* What looks like an EU VAT number is accepted as one, and comes back     *)
(* with the digits it was given with.                                      *)
LooksAreConfirmed(text) ==
    LooksLikeEuVat(text) =>
        /\ ValidateEuVat(text) = Whole(text)
        /\ ValidateTaxIdentifier(text, text.prefix, TRUE) = Whole(text)
=============================================================================
