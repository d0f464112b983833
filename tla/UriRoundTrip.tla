----------------------------- MODULE UriRoundTrip -----------------------------
(***************************************************************************)
(* Where URIs come from and where they go: a user takes a URI, or one that *)
(* scan() wrote for a channel and an address, and hands what               *)
(* scan_selected() returns for it to the next call.                        *)
(***************************************************************************)
EXTENDS LinkUri

CONSTANTS
    Uris,       \* the URIs the user starts from
    Addresses,  \* the addresses scan() is called with
    MaxQuery    \* bound: pairs of a query

ASSUME UrisAssumption ==
    /\ \A u \in Uris :
          /\ u = Uri(u.scheme, u.host, u.path, u.query)
          /\ Len(u.path) = 3 => AddressDigits(u) \in Seq(Int)
    /\ Addresses \subseteq [1..5 -> Byte]

VARIABLES
    uri,     \* the URI in hand
    origin   \* the one it was made from, or the channel and address scanned

uriVars == <<uri, origin>>

Given(u) == [from |-> "user", uri |-> u]
Scanned(channel, address) ==
    [from |-> "scan", channel |-> channel, address |-> address]

UriInit ==
    \/ \E u \in Uris : uri = u /\ origin = Given(u)
    \/ \E channel \in Channels, address \in Addresses :
          /\ uri = ScanUri(channel, address)
          /\ origin = Scanned(channel, address)

Select ==
    /\ RadioOutcome(uri) = "ok"
    /\ Len(uri.query) < MaxQuery
    /\ uri' = SelectedUri(uri)
    /\ origin' = Given(uri)

UriSpec == UriInit /\ [][Select]_uriVars

-----------------------------------------------------------------------------
(* Properties *)

\* What scan() returns can be passed to open_link(), as context.rs:60 says,
\* and leads to the channel and the address that answered.
ScannedOpens ==
    origin.from = "scan" =>
        /\ RadioOutcome(uri) = "ok"
        /\ Parsed(uri).channel = origin.channel
        /\ Parsed(uri).address = origin.address

\* However the address of a URI is written, hex::encode writes the same digits
\* of the one that is opened, with the zeros that were missing to their left.
\* A segment without a digit is not an address: MissingAddressIsDefault.
AddressIsAsWritten ==
    RadioOutcome(uri) = "ok" /\ AddressDigits(uri) # << >> =>
        LET digits == AddressDigits(uri)
            written == Hex(Parsed(uri).address)
        IN  \A k \in 0..9 :
               written[10 - k] =
                  IF k < Len(digits) THEN digits[Len(digits) - k] ELSE 0

\* The URI scan_selected() makes of one without options opens a raw link to
\* the same Crazyflie: the bootloader example relies on it.
SelectedOpensRaw ==
    origin.from = "user" /\ uri # origin.uri /\ origin.uri.query = << >> =>
        /\ RadioOutcome(uri) = "ok"
        /\ Parsed(uri) = [Parsed(origin.uri) EXCEPT !.safelink = FALSE,
                                                    !.ackfilter = FALSE]

(* Statements of the documentation that the code breaks *)

\* context.rs:74: scan_selected() "Returns the list of URIs that
\* acknowledged".  What it returns should at least be a URI that opens.
SelectedStaysValid ==
    origin.from = "user" /\ uri # origin.uri => RadioOutcome(uri) = "ok"

\* lib.rs:43-44: datarate and address are optional.
OptionalPartsParse ==
    uri.scheme = "radio" /\ uri.host = 0 /\ Len(uri.path) \in 1..2
        /\ uri.path[1] \in Channels
        => RadioOutcome(uri) = "ok"

\* lib.rs:44: the address is "optional, default is e7e7e7e7e7".  With nothing
\* after the last slash it is 0000000000.
MissingAddressIsDefault ==
    RadioOutcome(uri) = "ok" /\ AddressDigits(uri) = << >> =>
        Parsed(uri).address = [i \in 1..5 |-> 231]

\* lib.rs:47: ackfilter "default is 0, 1 to enable".
AckfilterDefaultsOff ==
    RadioOutcome(uri) = "ok" /\ ValuesOf(uri, "ackfilter") = {}
        => ~Parsed(uri).ackfilter
=============================================================================
