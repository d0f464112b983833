--------------------------- MODULE ReliableStream ---------------------------
(***************************************************************************)
(* What safelink promises of one direction of a link, said without         *)
(* counters, acknowledgements or retries: once the stream is protected,    *)
(* the packets submitted are handed over one by one, each exactly once and *)
(* in the order of their submission.  Packets are numbered as they are     *)
(* submitted.                                                              *)
(***************************************************************************)
EXTENDS Naturals, Sequences

VARIABLES
    protected,  \* safelink is in use
    submitted,  \* how many packets have been submitted
    handedOver  \* the packets handed over, oldest first

streamVars == <<protected, submitted, handedOver>>

StreamInit ==
    /\ protected = FALSE
    /\ submitted = 0
    /\ handedOver = << >>

\* Safelink is negotiated before anything has crossed the link.
Protect ==
    /\ handedOver = << >>
    /\ protected' = TRUE
    /\ UNCHANGED <<submitted, handedOver>>

Submit ==
    /\ submitted' = submitted + 1
    /\ UNCHANGED <<protected, handedOver>>

HandOver ==
    /\ Len(handedOver) < submitted
    /\ handedOver' = Append(handedOver, Len(handedOver) + 1)
    /\ UNCHANGED <<protected, submitted>>

\* Without safelink nothing is promised.
Unprotected ==
    /\ ~protected
    /\ UNCHANGED <<protected, submitted>>

StreamNext == Protect \/ Submit \/ HandOver \/ Unprotected

StreamSpec == StreamInit /\ [][StreamNext]_streamVars
=============================================================================
