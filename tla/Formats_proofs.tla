--------------------------- MODULE Formats_proofs ---------------------------
(***************************************************************************)
(* Theorems about the two pure parts of the library: the URIs the scans    *)
(* write, for every channel and address, and the header of a packet, for   *)
(* every header byte, port, channel and data.                              *)
(***************************************************************************)
EXTENDS UriRoundTrip, CrtpPacket, SequenceTheorems, TLAPS

-----------------------------------------------------------------------------
(* URIs: hex::encode and the padding of parse_uri are inverses *)

LEMMA Nibbles ==
    ASSUME NEW b \in Byte
    PROVE  /\ b \div 16 \in HexDigit /\ b % 16 \in HexDigit
           /\ 16 * (b \div 16) + (b % 16) = b
  <1>1. b \in 0..255
    BY DEF Byte
  <1>2. b \div 16 \in 0..15 /\ b % 16 \in 0..15
    BY <1>1
  <1>3. 16 * (b \div 16) + (b % 16) = b
    BY <1>1
  <1> QED
    BY <1>2, <1>3 DEF HexDigit

LEMMA FunctionIsSeq ==
    ASSUME NEW S, NEW n \in Nat, NEW f \in [1..n -> S]
    PROVE  f \in Seq(S) /\ Len(f) = n
  OBVIOUS

LEMMA HexTyped ==
    ASSUME NEW address \in [1..5 -> Byte]
    PROVE  /\ Hex(address) \in Seq(HexDigit) /\ Len(Hex(address)) = 10
           /\ \A i \in 1..5 :
                 /\ Hex(address)[2 * i - 1] = address[i] \div 16
                 /\ Hex(address)[2 * i] = address[i] % 16
  <1>1. \A b \in Byte : b \div 16 \in HexDigit /\ b % 16 \in HexDigit
    BY Nibbles
  <1>2. \A i \in 1..10 : Hex(address)[i] \in HexDigit
    <2> SUFFICES ASSUME NEW i \in 1..10 PROVE Hex(address)[i] \in HexDigit
      OBVIOUS
    <2>1. CASE i % 2 = 1
      <3>1. (i + 1) \div 2 \in 1..5
        BY <2>1
      <3> QED
        BY <1>1, <2>1, <3>1 DEF Hex
    <2>2. CASE i % 2 # 1
      <3>1. i \div 2 \in 1..5
        BY <2>2
      <3> QED
        BY <1>1, <2>2, <3>1 DEF Hex
    <2> QED
      BY <2>1, <2>2
  <1>3. Hex(address) \in [1..10 -> HexDigit]
    BY <1>2 DEF Hex
  <1>4. Hex(address) \in Seq(HexDigit) /\ Len(Hex(address)) = 10
    <2>1. PICK n \in Nat : n = 10
      OBVIOUS
    <2>2. Hex(address) \in [1..n -> HexDigit]
      BY <1>3, <2>1
    <2>3. Hex(address) \in Seq(HexDigit) /\ Len(Hex(address)) = n
      BY <2>2, FunctionIsSeq
    <2> QED
      BY <2>1, <2>3
  <1>5. \A i \in 1..5 : /\ (2 * i - 1) % 2 = 1 /\ (2 * i - 1 + 1) \div 2 = i
                        /\ (2 * i) % 2 # 1 /\ (2 * i) \div 2 = i
                        /\ 2 * i - 1 \in 1..10 /\ 2 * i \in 1..10
    OBVIOUS
  <1> QED
    BY <1>4, <1>5 DEF Hex

LEMMA HexParsesBack ==
    ASSUME NEW address \in [1..5 -> Byte]
    PROVE  AddressParses(Hex(address)) /\ AddressOf(Hex(address)) = address
  <1> DEFINE digits == Hex(address)
  <1>1. /\ digits \in Seq(HexDigit) /\ Len(digits) = 10
        /\ \A i \in 1..5 : /\ digits[2 * i - 1] = address[i] \div 16
                           /\ digits[2 * i] = address[i] % 16
    BY HexTyped
  <1> HIDE DEF digits
  <1>2. AddressParses(digits)
    <2>1. DOMAIN digits = 1..Len(digits) /\ Len(digits) <= 10
      BY <1>1
    <2>2. \A i \in 1..Len(digits) : digits[i] \in HexDigit
      BY <1>1, ElementOfSeq
    <2> QED
      BY <2>1, <2>2 DEF AddressParses
  <1>3. \A i \in 1..10 : Padded(digits)[i] = digits[i]
    BY <1>1 DEF Padded
  <1>5. \A i \in 1..5 : AddressOf(digits)[i] = address[i]
    <2> SUFFICES ASSUME NEW i \in 1..5 PROVE AddressOf(digits)[i] = address[i]
      OBVIOUS
    <2>1. 2 * i - 1 \in 1..10 /\ 2 * i \in 1..10
      OBVIOUS
    <2>2. AddressOf(digits)[i] = 16 * digits[2 * i - 1] + digits[2 * i]
      BY <1>3, <2>1 DEF AddressOf
    <2>3. address[i] \in Byte
      OBVIOUS
    <2>4. 16 * (address[i] \div 16) + (address[i] % 16) = address[i]
      BY <2>3, Nibbles
    <2> QED
      BY <1>1, <2>2, <2>4
  <1>6. DOMAIN AddressOf(digits) = 1..5
    BY DEF AddressOf
  <1>7. AddressOf(digits) = [i \in 1..5 |-> AddressOf(digits)[i]]
    BY <1>6 DEF AddressOf
  <1>8. AddressOf(digits) = address
    BY <1>5, <1>7
  <1> QED
    BY <1>2, <1>8 DEF digits

LEMMA DigitsOfByte ==
    ASSUME NEW hi \in HexDigit, NEW lo \in HexDigit
    PROVE  (16 * hi + lo) \div 16 = hi /\ (16 * hi + lo) % 16 = lo
  BY DEF HexDigit

\* The padding is to the left, and the address has the padded digits.
LEMMA ParsesHexBack ==
    ASSUME NEW digits \in Seq(Int), AddressParses(digits)
    PROVE  \A k \in 0..9 :
              Hex(AddressOf(digits))[10 - k] =
                 IF k < Len(digits) THEN digits[Len(digits) - k] ELSE 0
  <1> DEFINE n == Len(digits)
             address == AddressOf(digits)
  <1>1. n \in 0..10 /\ \A i \in 1..n : digits[i] \in HexDigit
    <2>1. n \in Nat /\ DOMAIN digits = 1..n
      OBVIOUS
    <2>2. n <= 10 /\ \A i \in DOMAIN digits : digits[i] \in HexDigit
      BY DEF AddressParses
    <2> HIDE DEF n
    <2> QED
      BY <2>1, <2>2
  <1>2. \A i \in 1..10 : Padded(digits)[i] = IF i <= 10 - n THEN 0
                                             ELSE digits[i - (10 - n)]
    BY DEF Padded
  <1> HIDE DEF n
  <1>3. \A i \in 1..10 : Padded(digits)[i] \in HexDigit
    <2>1. 0 \in HexDigit
      BY DEF HexDigit
    <2>2. ASSUME NEW i \in 1..10, ~(i <= 10 - n)
          PROVE  Padded(digits)[i] \in HexDigit
      <3>1. i - (10 - n) \in 1..n
        BY <1>1, <2>2
      <3>2. Padded(digits)[i] = digits[i - (10 - n)]
        BY <1>2, <2>2
      <3> QED
        BY <1>1, <3>1, <3>2
    <2> QED
      BY <1>2, <2>1, <2>2
  <1>4. \A i \in 1..5 :
           address[i] = 16 * Padded(digits)[2 * i - 1] + Padded(digits)[2 * i]
    BY DEF AddressOf
  <1> HIDE DEF address
  <1>5. ASSUME NEW i \in 1..10 PROVE Hex(address)[i] = Padded(digits)[i]
    <2>1. CASE i % 2 = 1
      <3> DEFINE j == (i + 1) \div 2
      <3>1. j \in 1..5 /\ 2 * j - 1 = i /\ 2 * j \in 1..10
        BY <2>1
      <3>2. Hex(address)[i] = address[j] \div 16
        BY <2>1 DEF Hex
      <3> HIDE DEF j
      <3>3. Padded(digits)[i] \in HexDigit /\ Padded(digits)[2 * j] \in HexDigit
        BY <1>3, <3>1
      <3>4. address[j] = 16 * Padded(digits)[i] + Padded(digits)[2 * j]
        BY <1>4, <3>1
      <3> QED
        BY <3>2, <3>3, <3>4, DigitsOfByte
    <2>2. CASE i % 2 # 1
      <3> DEFINE j == i \div 2
      <3>1. j \in 1..5 /\ 2 * j = i /\ 2 * j - 1 \in 1..10
        BY <2>2
      <3>2. Hex(address)[i] = address[j] % 16
        BY <2>2 DEF Hex
      <3> HIDE DEF j
      <3>3. /\ Padded(digits)[2 * j - 1] \in HexDigit
            /\ Padded(digits)[i] \in HexDigit
        BY <1>3, <3>1
      <3>4. address[j] = 16 * Padded(digits)[2 * j - 1] + Padded(digits)[i]
        BY <1>4, <3>1
      <3> QED
        BY <3>2, <3>3, <3>4, DigitsOfByte
    <2> QED
      BY <2>1, <2>2
  <1>6. ASSUME NEW k \in 0..9
        PROVE  Padded(digits)[10 - k] = IF k < n THEN digits[n - k] ELSE 0
    <2>1. 10 - k \in 1..10 /\ (10 - k <= 10 - n <=> ~(k < n))
          /\ 10 - k - (10 - n) = n - k
      BY <1>1
    <2> QED
      BY <1>2, <2>1
  <1>7. \A k \in 0..9 : 10 - k \in 1..10
    OBVIOUS
  <1> QED
    BY <1>5, <1>6, <1>7 DEF n, address

-----------------------------------------------------------------------------
(* What is in the user's hand *)

IsUri(u) == u = Uri(u.scheme, u.host, u.path, u.query)

UriInv ==
    /\ IsUri(uri)
    /\ Len(uri.path) = 3 => AddressDigits(uri) \in Seq(Int)
    /\ origin.from = "scan" =>
          /\ origin.channel \in Channels /\ origin.address \in Addresses
          /\ uri = ScanUri(origin.channel, origin.address)
    /\ origin.from = "user" =>
          \/ uri = origin.uri
          \/ /\ IsUri(origin.uri) /\ RadioOutcome(origin.uri) = "ok"
             /\ uri = SelectedUri(origin.uri)

LEMMA UriInvariant == UriSpec => []UriInv
  <1>1. UriInit => UriInv
    <2> SUFFICES ASSUME UriInit PROVE UriInv
      OBVIOUS
    <2>1. CASE \E u \in Uris : uri = u /\ origin = Given(u)
      BY <2>1, UrisAssumption DEF UriInv, IsUri, Given
    <2>2. CASE \E channel \in Channels, address \in Addresses :
                  /\ uri = ScanUri(channel, address)
                  /\ origin = Scanned(channel, address)
      <3>1. PICK channel \in Channels, address \in Addresses :
               /\ uri = ScanUri(channel, address)
               /\ origin = Scanned(channel, address)
        BY <2>2
      <3>2. Hex(address) \in Seq(HexDigit)
        BY HexTyped, UrisAssumption
      <3>3. Hex(address) \in Seq(Int)
        <4>1. \A d \in HexDigit : d \in Int
          BY DEF HexDigit
        <4> QED
          BY <3>2, <4>1
      <3>4. AddressDigits(uri) = Hex(address)
        BY <3>1 DEF ScanUri, Uri, AddressDigits
      <3> QED
        BY <3>1, <3>3, <3>4 DEF UriInv, IsUri, Scanned, ScanUri, Uri
    <2> QED
      BY <2>1, <2>2 DEF UriInit
  <1>2. UriInv /\ [Select]_uriVars => UriInv'
    <2> SUFFICES ASSUME UriInv, [Select]_uriVars PROVE UriInv'
      OBVIOUS
    <2>1. CASE Select
      <3>1. /\ RadioOutcome(uri) = "ok" /\ uri' = SelectedUri(uri)
            /\ origin'.from = "user" /\ origin'.uri = uri
        BY <2>1 DEF Select, Given
      <3>2. IsUri(uri)
        BY DEF UriInv
      <3>3. IsUri(SelectedUri(uri)) /\ SelectedUri(uri).path = uri.path
        <4>1. PICK query : SelectedUri(uri) = [uri EXCEPT !.query = query]
          BY DEF SelectedUri
        <4>2. uri = [scheme |-> uri.scheme, host |-> uri.host,
                     path |-> uri.path, query |-> uri.query]
          BY <3>2 DEF IsUri, Uri
        <4>3. SelectedUri(uri) =
                 [scheme |-> uri.scheme, host |-> uri.host,
                  path |-> uri.path, query |-> query]
          BY <4>1, <4>2
        <4> QED
          BY <4>3 DEF IsUri, Uri
      <3> QED
        BY <3>1, <3>2, <3>3 DEF UriInv, AddressDigits
    <2>2. CASE UNCHANGED uriVars
      BY <2>2 DEF uriVars, UriInv
    <2> QED
      BY <2>1, <2>2
  <1> QED
    BY <1>1, <1>2, PTL DEF UriSpec

\* What scan() returns opens, and leads to the Crazyflie that answered, for
\* every channel and address.
THEOREM ScansOpen == UriSpec => []ScannedOpens
  <1>1. UriInv => ScannedOpens
    <2> SUFFICES ASSUME UriInv, origin.from = "scan"
                 PROVE  /\ RadioOutcome(uri) = "ok"
                        /\ Parsed(uri).channel = origin.channel
                        /\ Parsed(uri).address = origin.address
      BY DEF ScannedOpens
    <2>1. /\ origin.channel \in 0..125
          /\ origin.address \in [1..5 -> Byte]
          /\ uri = Uri("radio", 0,
                       <<origin.channel, NotANumber, Hex(origin.address)>>,
                       << >>)
      BY UrisAssumption DEF UriInv, Channels, ScanUri
    <2>2. /\ uri.scheme = "radio" /\ uri.host = 0 /\ uri.query = << >>
          /\ Len(uri.path) = 3 /\ uri.path[1] = origin.channel
          /\ AddressDigits(uri) = Hex(origin.address)
      BY <2>1 DEF Uri, AddressDigits
    <2>3. ValuesOf(uri, "timeout") = {}
      BY <2>2 DEF ValuesOf
    <2>4. RadioOutcome(uri) = "ok"
      <3>1. ShapeParses(uri) /\ uri.path[1] \in Channels
        <4>1. origin.channel \in Byte /\ origin.channel \in Channels
          BY <2>1 DEF Byte, Channels
        <4> QED
          BY <2>2, <4>1 DEF ShapeParses
      <3>2. AddressParses(AddressDigits(uri))
        BY <2>1, <2>2, HexParsesBack
      <3> QED
        BY <2>2, <2>3, <3>1, <3>2 DEF RadioOutcome
    <2> QED
      BY <2>1, <2>2, <2>4, HexParsesBack DEF Parsed
  <1> QED
    BY <1>1, UriInvariant, PTL

\* The URI scan_selected() makes of one without options opens a raw link to the
\* same Crazyflie, whatever that URI is.
THEOREM SelectedOpenRaw == UriSpec => []SelectedOpensRaw
  <1>1. UriInv => SelectedOpensRaw
    <2> SUFFICES ASSUME UriInv, origin.from = "user", uri # origin.uri,
                        origin.uri.query = << >>
                 PROVE  /\ RadioOutcome(uri) = "ok"
                        /\ Parsed(uri) =
                             [Parsed(origin.uri) EXCEPT !.safelink = FALSE,
                                                        !.ackfilter = FALSE]
      BY DEF SelectedOpensRaw
    <2> DEFINE u == origin.uri
               options == <<Pair("safelink", 0), Pair("ackfilter", 0)>>
    <2>1. IsUri(u) /\ RadioOutcome(u) = "ok" /\ uri = SelectedUri(u)
      BY DEF UriInv
    <2>2. /\ uri.scheme = u.scheme /\ uri.host = u.host /\ uri.path = u.path
          /\ uri.query = options /\ u.query = << >>
      BY <2>1 DEF IsUri, SelectedUri, Uri
    <2> HIDE DEF u
    <2>3. /\ DOMAIN options = {1, 2}
          /\ options[1].key = "safelink" /\ options[1].value = 0
          /\ options[2].key = "ackfilter" /\ options[2].value = 0
      BY DEF Pair
    <2> HIDE DEF options
    <2>4. /\ ValuesOf(uri, "timeout") = {}
          /\ 0 \in ValuesOf(uri, "safelink") /\ 0 \in ValuesOf(uri, "ackfilter")
      BY <2>2, <2>3 DEF ValuesOf
    <2>5. TimeoutOf(uri) = 1000 /\ TimeoutOf(u) = 1000
      <3>1. {i \in DOMAIN uri.query : uri.query[i].key = "timeout"} = {}
        BY <2>2, <2>3
      <3>2. {i \in DOMAIN u.query : u.query[i].key = "timeout"} = {}
        BY <2>2
      <3> QED
        BY <3>1, <3>2 DEF TimeoutOf
    <2>6. RadioOutcome(uri) = "ok"
      BY <2>1, <2>2, <2>4 DEF RadioOutcome, ShapeParses, AddressDigits
    <2>7. ~Flag(uri, "safelink") /\ ~Flag(uri, "ackfilter")
      BY <2>4 DEF Flag
    <2>8. Parsed(uri) = [Parsed(u) EXCEPT !.safelink = FALSE,
                                          !.ackfilter = FALSE]
      <3>1. Flag(uri, "safelink") = FALSE /\ Flag(uri, "ackfilter") = FALSE
        BY <2>7 DEF Flag
      <3> DEFINE host == u.host
                 channel == u.path[1]
                 address == AddressOf(AddressDigits(u))
                 safelink == Flag(u, "safelink")
                 ackfilter == Flag(u, "ackfilter")
                 off == FALSE
                 raw == [Parsed(u) EXCEPT !.safelink = off]
      <3>2. Parsed(uri) =
               [radio |-> host, channel |-> channel, address |-> address,
                safelink |-> off, ackfilter |-> off, timeout |-> 1000]
        BY <2>2, <2>5, <3>1, Zenon DEF Parsed, AddressDigits
      <3>3. Parsed(u) =
               [radio |-> host, channel |-> channel, address |-> address,
                safelink |-> safelink, ackfilter |-> ackfilter,
                timeout |-> 1000]
        BY <2>5, Zenon DEF Parsed
      <3> HIDE DEF host, channel, address, safelink, ackfilter, off
      <3>4. raw = [radio |-> host, channel |-> channel, address |-> address,
                   safelink |-> off, ackfilter |-> ackfilter, timeout |-> 1000]
        BY <3>3
      <3> HIDE DEF raw
      <3>5. Parsed(uri) = [raw EXCEPT !.ackfilter = off]
        BY <3>2, <3>4
      <3> QED
        BY <3>5, Zenon DEF raw, off
    <2> QED
      BY <2>6, <2>8 DEF u
  <1> QED
    BY <1>1, UriInvariant, PTL

\* A Crazyflie is opened at the address the URI writes, for every number of
\* digits from one: what is missing is on the left, as the padding of parse_uri has it.
THEOREM WrittenAddressOpens == UriSpec => []AddressIsAsWritten
  <1>1. UriInv => AddressIsAsWritten
    <2> SUFFICES ASSUME UriInv, RadioOutcome(uri) = "ok",
                        AddressDigits(uri) # << >>
                 PROVE  AddressIsAsWritten
      BY DEF AddressIsAsWritten
    <2>1. AddressDigits(uri) \in Seq(Int) /\ AddressParses(AddressDigits(uri))
      BY DEF UriInv, RadioOutcome, ShapeParses
    <2>2. Parsed(uri).address = AddressOf(AddressDigits(uri))
      BY DEF Parsed
    <2> QED
      BY <2>1, <2>2, ParsesHexBack DEF AddressIsAsWritten
  <1> QED
    BY <1>1, UriInvariant, PTL

-----------------------------------------------------------------------------
(* Packets: port, two bits, channel.  What safelink writes between the port  *)
(* and the channel does not reach them.                                      *)

\* A header is its four parts.
LEMMA HeaderParts ==
    ASSUME NEW h \in Octet
    PROVE  /\ PortOf(h) \in 0..15 /\ ChannelOf(h) \in 0..3
           /\ UpBit(h) \in {0, 1} /\ DownBit(h) \in {0, 1}
           /\ h = 16 * PortOf(h) + 8 * UpBit(h) + 4 * DownBit(h) + ChannelOf(h)
  BY DEF Octet, PortOf, ChannelOf, UpBit, DownBit

\* Four parts are a header.
LEMMA PartsMake ==
    ASSUME NEW p \in 0..15, NEW c \in 0..3, NEW up \in {0, 1}, NEW down \in {0, 1},
           NEW h, h = 16 * p + 8 * up + 4 * down + c
    PROVE  /\ h \in Octet
           /\ PortOf(h) = p /\ ChannelOf(h) = c
           /\ UpBit(h) = up /\ DownBit(h) = down
  BY DEF Octet, PortOf, ChannelOf, UpBit, DownBit

LEMMA MaskParts ==
    ASSUME NEW h \in Octet
    PROVE  Masked(h) = 16 * PortOf(h) + ChannelOf(h)
  <1> DEFINE p == PortOf(h)
             c == ChannelOf(h)
             u == UpBit(h)
             d == DownBit(h)
  <1>1. /\ p \in 0..15 /\ c \in 0..3 /\ u \in {0, 1} /\ d \in {0, 1}
        /\ h = 16 * p + 8 * u + 4 * d + c
    BY HeaderParts
  <1>2. Masked(h) = h - 4 * d - 8 * u
    BY DEF Masked
  <1> HIDE DEF p, c, u, d
  <1>3. Masked(h) = 16 * p + c
    BY <1>1, <1>2
  <1> QED
    BY <1>3 DEF p, c

\* A masked header keeps port and channel and has neither bit; it is 243 for
\* the null port and the keepalive channel only.
LEMMA MaskedHeader ==
    ASSUME NEW h \in Octet
    PROVE  /\ Masked(h) \in Octet
           /\ PortOf(Masked(h)) = PortOf(h) /\ ChannelOf(Masked(h)) = ChannelOf(h)
           /\ UpBit(Masked(h)) = 0 /\ DownBit(Masked(h)) = 0
           /\ Masked(h) = 243 <=> PortOf(h) = 15 /\ ChannelOf(h) = 3
  <1> DEFINE p == PortOf(h)
             c == ChannelOf(h)
             k == Masked(h)
  <1>1. p \in 0..15 /\ c \in 0..3 /\ k = 16 * p + c
    BY HeaderParts, MaskParts
  <1> HIDE DEF p, c, k
  <1>2. k = 16 * p + 8 * 0 + 4 * 0 + c
    BY <1>1
  <1>3. /\ k \in Octet /\ PortOf(k) = p /\ ChannelOf(k) = c
        /\ UpBit(k) = 0 /\ DownBit(k) = 0
    BY <1>1, <1>2, PartsMake
  <1>4. k = 243 <=> p = 15 /\ c = 3
    BY <1>1
  <1> QED
    BY <1>3, <1>4 DEF p, c, k

LEMMA StampedHeader ==
    ASSUME NEW h \in Octet, NEW up \in {0, 1}, NEW down \in {0, 1}
    PROVE  LET t == Masked(h) + 8 * up + 4 * down
           IN  /\ t \in Octet
               /\ PortOf(t) = PortOf(h) /\ ChannelOf(t) = ChannelOf(h)
               /\ UpBit(t) = up /\ DownBit(t) = down
  <1> DEFINE p == PortOf(h)
             c == ChannelOf(h)
             t == Masked(h) + 8 * up + 4 * down
  <1>1. p \in 0..15 /\ c \in 0..3 /\ Masked(h) = 16 * p + c
    BY HeaderParts, MaskParts
  <1> HIDE DEF p, c
  <1>2. t = 16 * p + 8 * up + 4 * down + c
    BY <1>1
  <1> HIDE DEF t
  <1>3. /\ t \in Octet /\ PortOf(t) = p /\ ChannelOf(t) = c
        /\ UpBit(t) = up /\ DownBit(t) = down
    BY <1>1, <1>2, PartsMake
  <1> QED
    BY <1>3 DEF p, c, t

\* Packet::new(): of a port and a channel that are too large the lowest bits.
LEMMA NewHeader ==
    ASSUME NEW port \in Octet, NEW channel \in Octet
    PROVE  /\ HeaderOf(port, channel) \in Octet
           /\ PortOf(HeaderOf(port, channel)) = port % 16
           /\ ChannelOf(HeaderOf(port, channel)) = channel % 4
  <1> DEFINE p == port % 16
             c == channel % 4
             h == HeaderOf(port, channel)
  <1>1. p \in 0..15 /\ c \in 0..3
    BY DEF Octet
  <1>2. h = c + 16 * p
    BY DEF HeaderOf
  <1> HIDE DEF p, c, h
  <1>3. h = 16 * p + 8 * 0 + 4 * 0 + c
    BY <1>1, <1>2
  <1>4. h \in Octet /\ PortOf(h) = p /\ ChannelOf(h) = c
    BY <1>1, <1>3, PartsMake
  <1> QED
    BY <1>4 DEF p, c, h

\* The first byte of a vector replaced: the rest stays.
LEMMA HeadReplaced ==
    ASSUME NEW v \in Seq(Octet), v # << >>, NEW b \in Octet
    PROVE  LET w == [v EXCEPT ![1] = b]
           IN  w \in Seq(Octet) /\ w # << >> /\ w[1] = b /\ Tail(w) = Tail(v)
  <1> DEFINE w == [v EXCEPT ![1] = b]
  <1>1. Len(v) \in Nat /\ Len(v) # 0 /\ 1 \in DOMAIN v /\ DOMAIN v = 1..Len(v)
    BY EmptySeq, LenProperties
  <1>2. w \in Seq(Octet) /\ Len(w) = Len(v)
    BY <1>1, ExceptSeq
  <1>3. w[1] = b /\ \A i \in 2..Len(v) : w[i] = v[i]
    BY <1>1
  <1> HIDE DEF w
  <1>4. w # << >>
    BY <1>1, <1>2
  <1>5. Tail(w) = Tail(v)
    <2>1. /\ Tail(w) \in Seq(Octet) /\ Len(Tail(w)) = Len(v) - 1
          /\ \A i \in 1..Len(Tail(w)) : Tail(w)[i] = w[i + 1]
      BY <1>1, <1>2, <1>4, HeadTailProperties
    <2>2. /\ Tail(v) \in Seq(Octet) /\ Len(Tail(v)) = Len(v) - 1
          /\ \A i \in 1..Len(Tail(v)) : Tail(v)[i] = v[i + 1]
      BY <1>1, HeadTailProperties
    <2>3. \A i \in 1..Len(Tail(w)) : Tail(w)[i] = Tail(v)[i]
      BY <1>1, <1>3, <2>1, <2>2
    <2> QED
      BY <2>1, <2>2, <2>3, SeqEqual
  <1> QED
    BY <1>2, <1>3, <1>4, <1>5 DEF w

LEMMA VectorOf ==
    ASSUME NEW h \in Octet, NEW data \in Seq(Octet)
    PROVE  LET v == <<h>> \o data
           IN  v \in Seq(Octet) /\ v # << >> /\ v[1] = h /\ Tail(v) = data
  OBVIOUS

\* A packet in the hands of the library, at each stage of its way.
PacketInv ==
    /\ flags \in Flags
    /\ stage = "made" =>
          /\ source.header \in Octet /\ source.data \in Seq(Octet)
          /\ PortOf(source.header) = source.port % 16
          /\ ChannelOf(source.header) = source.channel % 4
          /\ bytes = ToVec(source)
    /\ stage = "acked" => source \in Seq(Octet) /\ bytes = source
    /\ stage = "handed" => bytes \in Seq(Octet)
    /\ AddressedRight
    /\ HandedIsClean

LEMMA PacketStart == Init => PacketInv
  <1> SUFFICES ASSUME Init PROVE PacketInv
    OBVIOUS
  <1>1. CASE \E port \in PortArgs, channel \in ChannelArgs, data \in Datas :
                /\ stage = "made"
                /\ source = NewPacket(port, channel, data)
                /\ bytes = ToVec(source)
    <2>1. PICK port \in PortArgs, channel \in ChannelArgs, data \in Datas :
             /\ stage = "made"
             /\ source = NewPacket(port, channel, data)
             /\ bytes = ToVec(source)
      BY <1>1
    <2>2. port \in Octet /\ channel \in Octet /\ data \in Seq(Octet)
      BY PacketAssumption
    <2>3. /\ source.header = HeaderOf(port, channel)
          /\ source.port = port /\ source.channel = channel /\ source.data = data
      BY <2>1 DEF NewPacket
    <2> QED
      BY <2>1, <2>2, <2>3, NewHeader DEF Init, PacketInv, AddressedRight, HandedIsClean
  <1>2. CASE \E payload \in Payloads :
                stage = "acked" /\ source = payload /\ bytes = payload
    BY <1>2, PacketAssumption DEF Init, PacketInv, AddressedRight, HandedIsClean
  <1> QED
    BY <1>1, <1>2 DEF Init

\* What is sent: the packet, its two bits overwritten when safelink is on.
LEMMA SendKeeps == PacketInv /\ Send => PacketInv'
  <1> SUFFICES ASSUME PacketInv, Send PROVE PacketInv'
    OBVIOUS
  <1> USE DEF Send
  <1> DEFINE h == source.header
             up == flags.up
             down == flags.down
  <1>1. /\ flags \in Flags /\ up \in {0, 1} /\ down \in {0, 1}
        /\ h \in Octet /\ source.data \in Seq(Octet)
        /\ PortOf(h) = source.port % 16 /\ ChannelOf(h) = source.channel % 4
        /\ bytes = <<h>> \o source.data
    BY DEF PacketInv, Flags, ToVec
  <1> HIDE DEF h
  <1>2. /\ bytes \in Seq(Octet) /\ bytes # << >> /\ bytes[1] = h
        /\ Tail(bytes) = source.data
    BY <1>1, VectorOf
  <1>3. AddressedRight'
    <2>1. CASE flags.safelink
      <3> DEFINE t == Masked(h) + 8 * up + 4 * down
      <3>1. /\ t \in Octet /\ PortOf(t) = PortOf(h) /\ ChannelOf(t) = ChannelOf(h)
            /\ UpBit(t) = up /\ DownBit(t) = down
        BY <1>1, StampedHeader
      <3>2. bytes' = [bytes EXCEPT ![1] = t]
        BY <1>2, <2>1 DEF Stamped
      <3> HIDE DEF t
      <3>3. bytes'[1] = t /\ Tail(bytes') = Tail(bytes)
        BY <1>2, <3>1, <3>2, HeadReplaced
      <3> QED
        BY <1>1, <1>2, <2>1, <3>1, <3>3 DEF AddressedRight
    <2>2. CASE ~flags.safelink
      BY <1>1, <1>2, <2>2 DEF AddressedRight, h
    <2> QED
      BY <2>1, <2>2
  <1> QED
    BY <1>1, <1>3 DEF PacketInv, HandedIsClean

\* What is handed over: with safelink only payloads with a header, both bits
\* masked, the keepalives left out.
LEMMA HandOverKeeps == PacketInv /\ HandOver => PacketInv'
  <1> SUFFICES ASSUME PacketInv, HandOver PROVE PacketInv'
    OBVIOUS
  <1> DEFINE payload == Fresh(bytes, flags.safelink, flags.down)
             takes == Handled(payload, flags.safelink, flags.ackfilter)
  <1>1. /\ stage = "acked" /\ UNCHANGED <<source, flags>>
        /\ flags \in Flags /\ source \in Seq(Octet) /\ bytes = source
    BY DEF HandOver, PacketInv
  <1>2. CASE ~takes
    <2>1. stage' = "dropped"
      BY <1>2 DEF HandOver
    <2> QED
      BY <1>1, <2>1 DEF PacketInv, AddressedRight, HandedIsClean
  <1>3. CASE takes
    <2>1. stage' = "handed" /\ bytes' = Handed(payload, flags.safelink)
      BY <1>3 DEF HandOver
    <2>2. CASE flags.safelink
      <3>1. payload = source /\ source # << >> /\ Masked(source[1]) # 243
        BY <1>1, <1>3, <2>2 DEF Fresh, Handled
      <3>2. source[1] \in Octet
        BY <1>1, <3>1
      <3> DEFINE b == Masked(source[1])
      <3>3. bytes' = [source EXCEPT ![1] = b]
        BY <2>1, <2>2, <3>1 DEF Handed
      <3>4. /\ b \in Octet /\ PortOf(b) = PortOf(source[1])
            /\ ChannelOf(b) = ChannelOf(source[1])
            /\ UpBit(b) = 0 /\ DownBit(b) = 0
            /\ ~(PortOf(b) = 15 /\ ChannelOf(b) = 3)
        BY <3>1, <3>2, MaskedHeader
      <3> HIDE DEF b
      <3>5. bytes' \in Seq(Octet) /\ bytes' # << >> /\ bytes'[1] = b
        BY <1>1, <3>1, <3>3, <3>4, HeadReplaced
      <3>6. HandedIsClean'
        BY <1>1, <2>2, <3>4, <3>5 DEF HandedIsClean
      <3> QED
        BY <1>1, <2>1, <3>5, <3>6 DEF PacketInv, AddressedRight
    <2>3. CASE ~flags.safelink
      <3>1. bytes' = IF source = << >> THEN <<255>> ELSE source
        BY <1>1, <2>1, <2>3 DEF Fresh, Handed
      <3>2. <<255>> \in Seq(Octet) /\ <<255>> # << >>
        <4>1. 255 \in Octet
          BY DEF Octet
        <4> QED
          BY <4>1
      <3>3. bytes' \in Seq(Octet) /\ bytes' # << >>
        BY <1>1, <3>1, <3>2
      <3>4. HandedIsClean'
        BY <1>1, <2>3, <3>1, <3>3 DEF HandedIsClean
      <3> QED
        BY <1>1, <2>1, <3>3, <3>4 DEF PacketInv, AddressedRight
    <2> QED
      BY <2>2, <2>3
  <1> QED
    BY <1>2, <1>3

\* Packet::from() and back.
LEMMA SendBackKeeps == PacketInv /\ SendBack => PacketInv'
  <1> SUFFICES ASSUME PacketInv, SendBack PROVE PacketInv'
    OBVIOUS
  <1>1. /\ stage = "handed" /\ stage' = "made" /\ flags' = flags
        /\ source' = FromVec(bytes) /\ bytes' = ToVec(source')
        /\ flags \in Flags /\ bytes \in Seq(Octet) /\ bytes # << >>
    BY DEF SendBack, PacketInv, HandedIsClean
  <1>2. bytes[1] \in Octet /\ Tail(bytes) \in Seq(Octet)
    BY <1>1
  <1>3. /\ source'.header = bytes[1] /\ source'.data = Tail(bytes)
        /\ source'.port = PortOf(bytes[1]) /\ source'.channel = ChannelOf(bytes[1])
    BY <1>1 DEF FromVec
  <1>4. /\ PortOf(bytes[1]) % 16 = PortOf(bytes[1])
        /\ ChannelOf(bytes[1]) % 4 = ChannelOf(bytes[1])
    <2> DEFINE p == PortOf(bytes[1])
               c == ChannelOf(bytes[1])
    <2>1. p \in 0..15 /\ c \in 0..3
      BY <1>2, HeaderParts
    <2> HIDE DEF p, c
    <2>2. p % 16 = p /\ c % 4 = c
      BY <2>1
    <2> QED
      BY <2>2 DEF p, c
  <1> QED
    BY <1>1, <1>2, <1>3, <1>4 DEF PacketInv, AddressedRight, HandedIsClean

LEMMA PacketInvariant == Spec => []PacketInv
  <1>1. PacketInv /\ UNCHANGED vars => PacketInv'
    BY DEF PacketInv, vars, AddressedRight, HandedIsClean
  <1>2. PacketInv /\ [Next]_vars => PacketInv'
    BY <1>1, SendKeeps, HandOverKeeps, SendBackKeeps DEF Next
  <1> QED
    BY <1>2, PacketStart, PTL DEF Spec

\* The Crazyflie reads the port and the channel the user asked for, and with
\* safelink the counters of the link, for every packet and every state of the
\* counters: send_packet_safe() overwrites two bits of the header and nothing
\* else, also when the packet sent is one that was received before.
THEOREM PacketsAreAddressed == Spec => []AddressedRight
  <1>1. PacketInv => AddressedRight
    BY DEF PacketInv
  <1> QED
    BY <1>1, PacketInvariant, PTL

\* What preprocess_ack() hands over has a header, for every payload a
\* Crazyflie can answer; with safelink it shows neither bit of it nor a
\* keepalive, and without it nothing is changed.
THEOREM ReceivedIsClean == Spec => []HandedIsClean
  <1>1. PacketInv => HandedIsClean
    BY DEF PacketInv
  <1> QED
    BY <1>1, PacketInvariant, PTL

=============================================================================
