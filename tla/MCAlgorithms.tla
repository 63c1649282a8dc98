----------------------------- MODULE MCAlgorithms -----------------------------
(***************************************************************************)
(* The parts of the application that compute and keep no state, on bounded *)
(* inputs: a state is one input to one of them, and nothing changes it.    *)
(***************************************************************************)
EXTENDS TaxIdentifiers, InvoiceEncryption, KsefClient

VARIABLES part, input

-----------------------------------------------------------------------------
(* Tax identifiers: texts with a valid NIP, and texts of any shape.        *)

Nip(nine) == Append(nine, WeightedSum(nine) % 11)
NipDigits ==
    { d \in {Nip(nine) : nine \in [1 .. 9 -> {0, 9}] \cup [1 .. 9 -> {1, 5}]
                                  \cup [1 .. 9 -> {2, 7}]} : d[10] < 10 }
    \cup {<<1, 2, 3, 4, 5, 6, 3, 2, 1, 8>>, <<5, 2, 6, 0, 2, 5, 0, 2, 7, 4>>}

Text(prefix, letters, digits) ==
    [prefix |-> prefix, letters |-> letters, digits |-> digits, given |-> TRUE]
NotGiven == [prefix |-> "", letters |-> 0, digits |-> << >>, given |-> FALSE]

NipPrefix == {"", "PL"}
NipText == {Text(p, 0, d) : p \in NipPrefix, d \in NipDigits}

SomeDigits == {<< >>, <<1, 2, 3, 4, 5, 6, 3, 2, 1, 8>>,
               <<1, 2, 3, 4, 5, 6, 3, 2, 1, 9>>, <<7>>, <<4, 2>>,
               [i \in 1 .. 11 |-> 3], [i \in 1 .. 12 |-> 0], [i \in 1 .. 13 |-> 0]}
VatPrefix == EUCountry \cup {"", "GB"}
VatText == {Text(p, n, d) : p \in VatPrefix, n \in 0 .. 2, d \in SomeDigits}

SomeText == {NotGiven, Text("", 0, << >>), Text("", 0, <<1, 2, 3, 4, 5, 6, 3, 2, 1, 8>>),
             Text("PL", 0, <<1, 2, 3, 4, 5, 6, 3, 2, 1, 8>>),
             Text("PL", 1, <<1, 2, 3, 4, 5, 6, 3, 2, 1, 8>>),
             Text("", 0, <<1, 2, 3, 4, 5, 6, 3, 2, 1, 9>>),
             Text("DE", 0, [i \in 1 .. 9 |-> 8]), Text("FR", 2, [i \in 1 .. 9 |-> 8])}
Contractor == [tax_identifier : SomeText, vat_eu : SomeText, nip : SomeText,
               country : {"", "PL", "DE"}, named : BOOLEAN, mailable : {TRUE},
               addressed : {TRUE}]

-----------------------------------------------------------------------------
(* Encryption: files that can and cannot be used, stored material that is  *)
(* damaged, contents around the block boundary that look like padding.     *)

File == [state : {"readable"}, form : {"pem", "der", "other"},
         key : {"rsa", "ec"}, pair : {1, 2}]
       \cup [state : {"unset", "missing", "directory", "unreadable"},
             form : {"pem"}, key : {"rsa"}, pair : {1}]
Config == {c \in [mf : File, public : File] : c.mf.pair = 1 /\ c.public.pair = 2}

(* Another key or vector of the same length is nothing the code can tell.  *)
Unnoticed == {"key altered", "iv altered"}
Damage == {"none", "key lost", "iv lost", "key garbled", "iv garbled",
           "key cut", "iv cut"} \cup Unnoticed
Damaged(stored, damage) ==
    CASE damage = "none"        -> stored
      [] damage = "key lost"    -> [f \in {"iv", "wrapped"} |-> stored[f]]
      [] damage = "iv lost"     -> [f \in {"key", "wrapped"} |-> stored[f]]
      [] damage = "key garbled" -> [stored EXCEPT !.key.base64 = FALSE]
      [] damage = "iv garbled"  -> [stored EXCEPT !.iv.base64 = FALSE]
      [] damage = "key cut"     -> [stored EXCEPT !.key.of.length = 24]
      [] damage = "iv cut"      -> [stored EXCEPT !.iv.of.length = 12]
      [] damage = "key altered" -> [stored EXCEPT !.key.of.id = "other"]
      [] damage = "iv altered"  -> [stored EXCEPT !.iv.of.id = "other"]

ExchangeIsRight(material, damage, bytes) ==
    LET Kept(stored) == Damaged(stored, damage)
        sent         == ToSend(material, Kept, bytes)
        received     == ReadByKsef(material, sent.value)
    IN CASE damage = "none"       -> sent.ok /\ AsAnnounced(sent.value, received, bytes)
         [] damage \in Unnoticed -> sent.ok /\ ~received.ok
         [] OTHER                 -> ~sent.ok

Repeated(x, n) == [i \in 1 .. n |-> x]
SomeByte == {0, 1, 16}
SomeLength == 0 .. 33
Content == {Repeated(x, n) : x \in SomeByte, n \in SomeLength}

-----------------------------------------------------------------------------
(* Calls: what KSeF may have done, and what arrives of its answer.         *)

SomeFields ==
    {NoFields,
     [authenticationToken |-> [token |-> "at"]],
     [referenceNumber |-> "ref", authenticationToken |-> [token |-> "at"]],
     [challenge |-> "ch", referenceNumber |-> "ref", status |-> [code |-> 200],
      authenticationToken |-> [token |-> "at"], invoiceCount |-> 1,
      accessToken |-> [token |-> "t"], refreshToken |-> [token |-> "r"],
      upo |-> [pages |-> <<[referenceNumber |-> "u"]>>]],
     [status |-> NoFields, upo |-> NoFields]}

(* 2xx is what was done, 4xx what was not; the rest may be either.         *)
Possible(done, kind, status) ==
    kind = "response" => /\ status \in 200 .. 299 => done
                         /\ status \in 400 .. 499 => ~done
CallCase ==
    { c \in
        (JsonCall \cup NoContentCall \cup TextCall) \X BOOLEAN
        \X {"response", "timeout", "transport"}
        \X {200, 201, 202, 204, 400, 401, 404, 429, 500, 503}
        \X {"empty", "invalid", "list", "object"} :
      Possible(c[2], c[3], c[4]) }

-----------------------------------------------------------------------------
Init ==
    \/ part = "nip"        /\ input \in NipText
    \/ part = "vat"        /\ input \in VatText
    \/ part = "contractor" /\ input \in Contractor
    \/ part = "encryption" /\ input \in Config \X Damage \X Content
    \/ part = "call"       /\ input \in CallCase

Next == UNCHANGED <<part, input>>

Spec == Init /\ [][Next]_<<part, input>>

-----------------------------------------------------------------------------
(* The checksum of a NIP catches one mistyped digit and two swapped        *)
(* neighbours, in whatever way the number is given; what looks like an EU  *)
(* VAT number is accepted as one; and a Polish contractor that must have   *)
(* an identifier has one whose digits pass the checksum.                   *)
IdentifiersAreChecked ==
    /\ part = "nip" =>
         \A country \in {"", "PL"}, i \in 1 .. 10, x \in Digit :
            TypingErrorIsRejected(input, country, i, x)
    /\ part = "vat" => LooksAreConfirmed(input)
    /\ part = "contractor" => PolishContractorHasNip(input)

(* An invoice of any length is read by KSeF as it was, with the hashes and *)
(* sizes it was announced with, when storage kept the material.  Material  *)
(* that is incomplete, not Base64 or of another length is refused before   *)
(* anything is sent.  With another key or vector of the right length the   *)
(* code (encryption_service.py:116-123) sends what KSeF cannot read: that  *)
(* damage, and no other one, goes unnoticed here.                          *)
InvoiceComesBack ==
    part = "encryption" /\ Opened(input[1]).ok =>
        ExchangeIsRight(Opened(input[1]).value, input[2], input[3])

(* A caller may believe an answer that holds something only KSeF can have  *)
(* given, and an error that carries a status of KSeF.                      *)
CallersAreToldTheTruth ==
    part = "call" =>
        \A fields \in SomeFields :
            OutcomeIsTrue(input[1], input[2],
                            [kind |-> input[3], status |-> input[4],
                             body |-> input[5], fields |-> fields], "r1")
=============================================================================
