\* What the scans return goes back to the parser, and packets cross the link.
CONSTANTS
    Uris <- SomeUris
    Addresses <- SomeAddresses
    MaxQuery = 4
    PortArgs <- Octet
    ChannelArgs <- SomeChannels
    Datas <- SomeDatas
    Payloads <- SomePayloads
SPECIFICATION FormatsSpec
INVARIANTS
    ScannedOpens
    AddressIsAsWritten
    SelectedOpensRaw
    AddressedRight
    HandedIsClean
\* A URI that does not parse and a packet that has arrived are final.
CHECK_DEADLOCK FALSE
