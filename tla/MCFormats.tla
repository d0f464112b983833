------------------------------ MODULE MCFormats ------------------------------
(***************************************************************************)
(* The two pure parts of the library for the model checker, a URI or a     *)
(* packet at a time.                                                       *)
(*                                                                         *)
(* URIs: every scheme, hosts that are a number, are none and are missing,  *)
(* up to four segments, channels and addresses at both ends of their       *)
(* ranges, queries of up to two options.  Packets: every port and every    *)
(* header byte.                                                            *)
(***************************************************************************)
EXTENDS UriRoundTrip, CrtpPacket

Digits == {<< >>, <<14, 7>>, <<1, 2, 3, 4, 5>>, <<16, 0>>,
           [i \in 1..10 |-> IF i % 2 = 1 THEN 14 ELSE 7],
           [i \in 1..11 |-> 1]}

Paths ==
    {<< >>, <<80>>, <<80, 2>>, <<80, 2, << >>, NotANumber>>}
        \cup {<<channel, 2, digits>> :
                 channel \in {NotANumber, 0, 125, 126, 255, 256},
                 digits \in Digits}

Options ==
    {Pair(key, value) : key \in {"safelink", "ackfilter"}, value \in {0, 1}}
        \cup {Pair("timeout", value) : value \in {NotANumber, 0, 500}}
        \cup {Pair("rate_limit", NotANumber)}

Queries ==
    {<< >>} \cup {<<o>> : o \in Options}
        \cup {<<o, p>> : o \in Options, p \in Options}

SomeUris ==
    {Uri("radio", 0, path, query) : path \in Paths, query \in Queries}
        \cup {Uri(scheme, host, path, << >>) :
                 scheme \in {"malformed", "http", "radio"},
                 host \in {NoHost, NotANumber, 0, 1},
                 path \in Paths}

SomeAddresses == {<<231, 231, 231, 231, 231>>, <<0, 1, 16, 254, 255>>}

-----------------------------------------------------------------------------

SomeChannels == 0..5 \cup {255}
SomeDatas == {<< >>, <<7, 255>>}
SomePayloads == {<< >>} \cup {<<h>> : h \in Octet} \cup {<<h, 1>> : h \in Octet}

NoUri == Uri("malformed", NotANumber, << >>, << >>)

FormatsInit ==
    \/ /\ UriInit
       /\ stage = "none" /\ bytes = << >> /\ source = << >>
       /\ flags = [safelink |-> TRUE, ackfilter |-> TRUE, up |-> 0, down |-> 0]
    \/ /\ Init
       /\ uri = NoUri /\ origin = Given(NoUri)

FormatsNext ==
    \/ Select /\ UNCHANGED vars
    \/ Next /\ UNCHANGED uriVars

FormatsSpec == FormatsInit /\ [][FormatsNext]_<<uriVars, vars>>
=============================================================================
