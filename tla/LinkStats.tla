------------------------------ MODULE LinkStats ------------------------------
(***************************************************************************)
(* The statistics of a radio link: StatsAccumulator and the places where   *)
(* the communication loop calls it, under a lock of their own each.        *)
(* link_statistics() returns the snapshot at any time.                     *)
(*                                                                         *)
(* What happens to the packets is in RadioLink; here a transaction ends in *)
(* an acknowledgement of any kind or in none.  A ratio is a pair of        *)
(* numbers; time is counted in ticks.                                      *)
(***************************************************************************)
EXTENDS Integers, Sequences, FiniteSets

CONSTANTS
    Second,      \* ticks in the second of a window
    Payloads,    \* kinds of payload: "empty", "null" or "data"
    Retries,     \* retries an acknowledgement can report
    Rssis,       \* signal strengths a dongle can report, in dBm
    NoRssi,      \* ... and a dongle that reports none
    Safelink,    \* safelink is on
    AckFilter,   \* the flag of the URI
    MaxSent,     \* bound: packets sent
    MaxElapsed   \* bound: ticks without an update

ASSUME StatsAssumption ==
    /\ Second \in Nat \ {0}
    /\ Retries \subseteq Nat
    /\ Rssis \subseteq Int /\ NoRssi \notin Int
    /\ Safelink \in BOOLEAN /\ AckFilter \in BOOLEAN

VARIABLES
    place,     \* where the task is
    resend,    \* needs_resend
    flight,    \* the transaction of this iteration
    acc,       \* the counters of the window
    elapsed,   \* ticks since window_start
    snapshot,  \* the statistics a user reads
    log,       \* history: the transactions of this window
    basis,     \* history: those of the last full window, and its length
    reported,  \* history: packets in all snapshots so far
    taken      \* history: packets taken off the uplink

loopVars == <<place, resend, flight>>
histVars == <<log, basis, reported, taken>>
vars == <<loopVars, acc, elapsed, snapshot, histVars>>

NoAck == [acked |-> FALSE, retry |-> 0, detector |-> FALSE, rssi |-> NoRssi,
          payload |-> "empty"]
Acks == {NoAck} \cup
    [acked : {TRUE}, retry : Retries, detector : BOOLEAN,
     rssi : Rssis \cup {NoRssi}, payload : Payloads]
Transactions == {[ack |-> a, data |-> d] : a \in Acks, d \in BOOLEAN}

ZeroCounters ==
    [sent |-> 0, uplink |-> 0, acked |-> 0, received |-> 0, retries |-> 0,
     detector |-> 0, rssiSum |-> 0, rssiCount |-> 0]

\* RadioLinkStatistics::default()
DefaultStatistics ==
    [quality |-> <<0, 1>>, uplink |-> <<0, 1>>, downlink |-> <<0, 1>>,
     sent |-> <<0, 1>>, retries |-> <<0, 1>>, detector |-> <<0, 1>>,
     rssi |-> NoRssi]

Init ==
    /\ place = "handshake"
    /\ resend = FALSE
    /\ flight = [ack |-> NoAck, data |-> FALSE]
    /\ acc = ZeroCounters
    /\ elapsed = 0
    /\ snapshot = DefaultStatistics
    /\ log = << >>
    /\ basis = << >>
    /\ reported = [sent |-> 0, uplink |-> 0]
    /\ taken = 0

-----------------------------------------------------------------------------
(* StatsAccumulator *)

One(b) == IF b THEN 1 ELSE 0

RecordAck(a, counters) ==
    [counters EXCEPT !.acked = @ + 1, !.retries = @ + a.retry,
                     !.detector = @ + One(a.detector),
                     !.rssiSum = @ + IF a.rssi = NoRssi THEN 0 ELSE a.rssi,
                     !.rssiCount = @ + One(a.rssi # NoRssi)]

RecordSend(data) ==
    [acc EXCEPT !.sent = @ + 1, !.uplink = @ + One(data)]

Ratio(n, d, empty) == IF d > 0 THEN <<n, d>> ELSE empty

Statistics(counters, secs) ==
    [quality |-> Ratio(counters.acked, counters.sent, <<1, 1>>),
     uplink |-> <<counters.uplink, secs>>,
     downlink |-> <<counters.received, secs>>,
     sent |-> <<counters.sent, secs>>,
     retries |-> Ratio(counters.retries, counters.acked, <<0, 1>>),
     detector |-> Ratio(counters.detector, counters.acked, <<0, 1>>),
     rssi |-> Ratio(counters.rssiSum, counters.rssiCount, NoRssi)]

\* Faulty form: the counters of the signal strength are not reset.
FreshExceptRssi(counters) ==
    [ZeroCounters EXCEPT !.rssiSum = counters.rssiSum,
                         !.rssiCount = counters.rssiCount]
Fresh(counters) == ZeroCounters

-----------------------------------------------------------------------------
(* The loop *)

HandshakeDone ==
    /\ place = "handshake"
    /\ place' = "pick"
    /\ UNCHANGED <<resend, flight, acc, elapsed, snapshot, histVars>>

\* is_data.  Faulty form: a packet counts every time it is sent.
DataEveryTime(first) == flight.data \/ first
IsData(first) == first

\* The next packet, or the last one again, goes on the air and the
\* transaction ends; a packet of the user's comes from the uplink.
Transact ==
    /\ place = "pick"
    /\ acc.sent + reported.sent < MaxSent
    /\ \E first \in IF resend THEN {FALSE} ELSE BOOLEAN, a \in Acks :
          /\ flight' = [ack |-> a, data |-> IsData(first)]
          /\ taken' = taken + One(first)
          /\ log' = Append(log, [ack |-> a, data |-> first,
                                late |-> elapsed >= Second])
    /\ place' = "count"
    /\ UNCHANGED <<resend, acc, elapsed, snapshot, basis, reported>>

\* The first lock: the packet and its acknowledgement.
Count ==
    /\ place = "count"
    /\ acc' = IF flight.ack.acked
                THEN RecordAck(flight.ack, RecordSend(flight.data))
                ELSE RecordSend(flight.data)
    /\ resend' = ~flight.ack.acked
    /\ place' = IF flight.ack.acked THEN "payload" ELSE "update"
    /\ UNCHANGED <<flight, elapsed, snapshot, histVars>>

\* preprocess_ack()
Handles(a) ==
    IF Safelink THEN a.payload = "data" ELSE a.payload # "empty" \/ ~AckFilter

\* The second lock: a payload for the user.  Handing it over fails when the
\* object has been dropped.
Payload ==
    /\ place = "payload"
    /\ IF Handles(flight.ack)
         THEN /\ acc' = [acc EXCEPT !.received = @ + 1]
              /\ place' \in {"update", "done"}
         ELSE /\ place' = "update"
              /\ UNCHANGED acc
    /\ UNCHANGED <<resend, flight, elapsed, snapshot, histVars>>

\* The third lock: maybe_update_snapshot().
\* Faulty form: only an acknowledged packet updates the snapshot.
DueWhenAcked == elapsed >= Second /\ flight.ack.acked
Due == elapsed >= Second
Update ==
    /\ place = "update"
    /\ IF Due
         THEN /\ snapshot' = Statistics(acc, elapsed)
              /\ acc' = Fresh(acc)
              /\ elapsed' = 0
              /\ log' = << >>
              /\ basis' = <<log, elapsed>>
              /\ reported' = [sent |-> reported.sent + acc.sent,
                              uplink |-> reported.uplink + acc.uplink]
         ELSE UNCHANGED <<acc, elapsed, snapshot, log, basis, reported>>
    /\ place' = "pick"
    /\ UNCHANGED <<resend, flight, taken>>

\* The loop is left: the timeout, a radio error, the flag of close().
Leave ==
    /\ place \in {"handshake", "pick"}
    /\ place' = "done"
    /\ UNCHANGED <<resend, flight, acc, elapsed, snapshot, histVars>>

Tick ==
    /\ elapsed < MaxElapsed
    /\ elapsed' = elapsed + 1
    /\ UNCHANGED <<loopVars, acc, snapshot, histVars>>

Next ==
    \/ HandshakeDone
    \/ Transact \/ Count \/ Payload \/ Update
    \/ Leave \/ Tick

Spec == Init /\ [][Next]_vars

-----------------------------------------------------------------------------
(* Properties *)

Ratios(ints) == ints \X (Nat \ {0})

Counters ==
    [sent : Nat, uplink : Nat, acked : Nat, received : Nat, retries : Nat,
     detector : Nat, rssiSum : Int, rssiCount : Nat]

Snapshots ==
    [quality : Ratios(Nat), uplink : Ratios(Nat), downlink : Ratios(Nat),
     sent : Ratios(Nat), retries : Ratios(Nat), detector : Ratios(Nat),
     rssi : Ratios(Int) \cup {NoRssi}]

\* What the history says of a transaction.
Entries == [ack : Acks, data : BOOLEAN, late : BOOLEAN]

\* Every counter is a number and every statistic a ratio with a denominator
\* that is not zero.
TypeOK ==
    /\ place \in {"handshake", "pick", "count", "payload", "update", "done"}
    /\ resend \in BOOLEAN
    /\ flight \in Transactions
    /\ acc \in Counters
    /\ elapsed \in Nat
    /\ snapshot \in Snapshots
    /\ log \in Seq(Entries)
    /\ reported \in [sent : Nat, uplink : Nat]
    /\ taken \in Nat

\* The transactions of a log that are of a kind, and the sum of a value over
\* all of them: its units, those of each transaction in pairs of their own.
Those(l, kind) == Cardinality({i \in DOMAIN l : l[i] \in kind})
Units(l, value) == UNION {{i} \X (1..value[l[i]]) : i \in DOMAIN l}
SumOf(l, value) ==
    Cardinality(Units(l, value))
        - Cardinality(Units(l, [t \in Entries |-> 0 - value[t]]))

Acked == {t \in Entries : t.ack.acked}
DataSent == {t \in Entries : t.data}
Received == {t \in Entries : t.ack.acked /\ Handles(t.ack)}
Detected == {t \in Entries : t.ack.detector}
Measured == {t \in Entries : t.ack.rssi # NoRssi}
Late == {t \in Entries : t.late}
RetriesOf == [t \in Entries |-> t.ack.retry]
RssiOf == [t \in Entries |-> IF t \in Measured THEN t.ack.rssi ELSE 0]

\* Each statistic is what connection.rs:18-36 says of it, computed from the
\* whole transactions between two updates: a transaction is never split by
\* the three locks, counted twice or kept from an earlier window.
Mean(n, d, empty) == IF d = 0 THEN empty ELSE <<n, d>>
Reference(l, secs) ==
    [quality |-> Mean(Those(l, Acked), Len(l), <<1, 1>>),
     uplink |-> <<Those(l, DataSent), secs>>,
     downlink |-> <<Those(l, Received), secs>>,
     sent |-> <<Len(l), secs>>,
     retries |-> Mean(SumOf(l, RetriesOf), Those(l, Acked), <<0, 1>>),
     detector |-> Mean(Those(l, Detected), Those(l, Acked), <<0, 1>>),
     rssi |-> Mean(SumOf(l, RssiOf), Those(l, Measured), NoRssi)]
SnapshotIsSummary ==
    snapshot = IF basis = << >> THEN DefaultStatistics
               ELSE Reference(basis[1], basis[2])

\* A packet of the user's is counted as data once, in one window, however
\* often it is sent and wherever the window ends.
Counting == place = "count"
DataCountedOnce ==
    taken = reported.uplink + acc.uplink + One(Counting /\ flight.data)

\* A window that is over gets one more transaction at most, also on a link
\* that loses everything: what a user reads is then replaced.
WindowEndsInTime == Those(log, Late) <= 1

\* What a user reads makes sense by itself: the quality and the share of the
\* power detector are between 0 and 1, no more packets carry data or a payload
\* than are sent, and no mean lies outside of what the dongle can report: a
\* numerator and its denominator are of the same transactions.
Between(ratio, least, most) ==
    least * ratio[2] <= ratio[1] /\ ratio[1] <= most * ratio[2]
StatisticsInRange(mostRetries, weakest, strongest) ==
    /\ Between(snapshot.quality, 0, 1)
    /\ Between(snapshot.detector, 0, 1)
    /\ Between(snapshot.retries, 0, mostRetries)
    /\ snapshot.rssi # NoRssi => Between(snapshot.rssi, weakest, strongest)
    /\ snapshot.uplink[1] <= snapshot.sent[1]
    /\ snapshot.downlink[1] <= snapshot.sent[1]

(* Statements of the documentation that the code breaks *)

\* connection.rs:22: link_quality is the "Ratio of acknowledged packets to
\* total packets sent": a link that never lost one should not read as 0.
QualityIsMeasured ==
    log # << >> /\ snapshot.quality[1] = 0 =>
        \E l \in {log} \cup {basis[i] : i \in DOMAIN basis \cap {1}} :
            \E i \in DOMAIN l : ~l[i].ack.acked

\* connection.rs:26: downlink_rate counts "non-empty ACK payloads".
DownlinkIsNonEmpty ==
    basis # << >> =>
        snapshot.downlink[1] <=
            Those(basis[1], {t \in Entries : t.ack.payload # "empty"})
=============================================================================
