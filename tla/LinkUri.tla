------------------------------- MODULE LinkUri -------------------------------
(***************************************************************************)
(* The URIs of the links: what CrazyradioConnection::parse_uri makes of    *)
(* one, what its scan() and scan_selected() write, and what                *)
(* CrazyflieUSBConnection::parse_uri accepts.                              *)
(*                                                                         *)
(* A URI is what url::Url (external) takes apart: a record of its scheme,  *)
(* host, path segments and query pairs.  A number stands for the text that *)
(* parses to it, NotANumber for any other text and NoHost for none; an     *)
(* address is its digits.                                                  *)
(***************************************************************************)
EXTENDS Integers, Sequences

NotANumber == -1
NoHost == -2

Byte == 0..255
HexDigit == 0..15

Channels == 0..125  \* Channel::from_number of the crazyradio crate

Uri(scheme, host, path, query) ==
    [scheme |-> scheme, host |-> host, path |-> path, query |-> query]

Pair(key, value) == [key |-> key, value |-> value]

ValuesOf(u, key) ==
    {u.query[i].value : i \in {j \in DOMAIN u.query : u.query[j].key = key}}

-----------------------------------------------------------------------------
(* CrazyradioConnection::parse_uri *)

AddressDigits(u) == u.path[3]

\* format!("{:0>10}"), then one byte from every two digits.
\* Faulty form: the zeros are put on the right.
PaddedRight(digits) ==
    [i \in 1..10 |-> IF i <= Len(digits) THEN digits[i] ELSE 0]
Padded(digits) ==
    [i \in 1..10 |-> IF i <= 10 - Len(digits) THEN 0
                     ELSE digits[i - (10 - Len(digits))]]

AddressOf(digits) ==
    [i \in 1..5 |-> 16 * Padded(digits)[2 * i - 1] + Padded(digits)[2 * i]]

AddressParses(digits) ==
    Len(digits) <= 10 /\ \A i \in DOMAIN digits : digits[i] \in HexDigit

ShapeParses(u) ==
    u.host \in Nat /\ Len(u.path) = 3 /\ u.path[1] \in Byte

RadioOutcome(u) ==
    IF u.scheme = "malformed" THEN "InvalidUri"
    ELSE IF u.scheme # "radio" THEN "InvalidUriScheme"
    ELSE IF ~ShapeParses(u) THEN "InvalidUri"
    ELSE IF u.path[1] \notin Channels THEN "CrazyradioError"
    ELSE IF ~AddressParses(AddressDigits(u)) THEN "InvalidUri"
    ELSE IF NotANumber \in ValuesOf(u, "timeout") THEN "InvalidUri"
    ELSE "ok"

\* Both flags start set, and only the value 0 takes one away.
\* Faulty form: only the first pair of the query is looked at.
FlagFirstPair(u, key) == ~(u.query # << >> /\ u.query[1] = Pair(key, 0))
Flag(u, key) == 0 \notin ValuesOf(u, key)

\* The last timeout counts.
TimeoutOf(u) ==
    LET at == {i \in DOMAIN u.query : u.query[i].key = "timeout"}
    IN  IF at = {} THEN 1000
        ELSE u.query[CHOOSE i \in at : \A j \in at : j <= i].value

\* The answer for a URI whose outcome is "ok".
Parsed(u) ==
    [radio |-> u.host, channel |-> u.path[1],
     address |-> AddressOf(AddressDigits(u)),
     safelink |-> Flag(u, "safelink"), ackfilter |-> Flag(u, "ackfilter"),
     timeout |-> TimeoutOf(u)]

-----------------------------------------------------------------------------
(* What the scans write *)

\* hex::encode of the address.
\* Faulty form: the two digits of a byte are swapped.
HexSwapped(address) ==
    [i \in 1..10 |-> IF i % 2 = 1 THEN address[(i + 1) \div 2] % 16
                                  ELSE address[i \div 2] \div 16]
Hex(address) ==
    [i \in 1..10 |-> IF i % 2 = 1 THEN address[(i + 1) \div 2] \div 16
                                  ELSE address[i \div 2] % 16]

\* scan(): radio://0/<channel>/2M/<address>.
ScanUri(channel, address) ==
    Uri("radio", 0, <<channel, NotANumber, Hex(address)>>, << >>)

\* scan_selected() appends "?safelink=0&ackfilter=0" to the text it was given.
\* To a URI with a query that is more text in its last value.
SelectedUri(u) ==
    [u EXCEPT !.query =
        IF @ = << >>
          THEN <<Pair("safelink", 0), Pair("ackfilter", 0)>>
          ELSE [@ EXCEPT ![Len(@)].value = NotANumber]
                 \o <<Pair("ackfilter", 0)>>]

-----------------------------------------------------------------------------
(* CrazyflieUSBConnection::parse_uri *)

UsbOutcome(u) ==
    IF u.scheme = "malformed" THEN "InvalidUri"
    ELSE IF u.scheme # "usb" THEN "InvalidUriScheme"
    ELSE IF u.host = NoHost \/ u.path # << >> THEN "InvalidUri"
    ELSE "ok"

=============================================================================
