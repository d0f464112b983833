-------------------------- MODULE LinkStats_proofs --------------------------
(***************************************************************************)
(* Theorems about LinkStats, for every window, kind of acknowledgement,    *)
(* signal strength and number of packets.                                  *)
(***************************************************************************)
EXTENDS LinkStats, FiniteSetTheorems, FunctionTheorems, SequenceTheorems,
        TLAPS

USE DEF loopVars, histVars

(***************************************************************************)
(* The inductive invariant.  Every counter of the window is what the log   *)
(* of the window adds up to, but for the transaction that is not through   *)
(* the locks yet: the first lock owes it all the counts but one, the       *)
(* second one the payload.                                                 *)
(***************************************************************************)
Owes(places, b) == One(place \in places /\ b)

TallyInv ==
    /\ Len(log) = acc.sent + Owes({"count"}, TRUE)
    /\ Those(log, DataSent) = acc.uplink + Owes({"count"}, flight.data)
    /\ Those(log, Acked) = acc.acked + Owes({"count"}, flight.ack.acked)
    /\ Those(log, Detected) =
          acc.detector + Owes({"count"}, flight.ack.detector)
    /\ Those(log, Measured) =
          acc.rssiCount + Owes({"count"}, flight.ack.rssi # NoRssi)
    /\ Those(log, Received) =
          acc.received + Owes({"count", "payload"},
                              flight.ack.acked /\ Handles(flight.ack))
    /\ SumOf(log, RetriesOf) =
          acc.retries + (IF place = "count" THEN flight.ack.retry ELSE 0)
    /\ SumOf(log, RssiOf) =
          acc.rssiSum + (IF place = "count" /\ flight.ack.rssi # NoRssi
                           THEN flight.ack.rssi ELSE 0)
    /\ place = "payload" => flight.ack.acked

\* Only the transaction that is about to update the snapshot can be late.
LateInv ==
    \A i \in DOMAIN log :
        log[i].late => /\ i = Len(log) /\ elapsed >= Second
                       /\ place \in {"count", "payload", "update", "done"}

StatsInv ==
    TypeOK /\ TallyInv /\ LateInv /\ SnapshotIsSummary /\ DataCountedOnce

-----------------------------------------------------------------------------
(* Counting a log *)

LEMMA ThoseTyped ==
    ASSUME NEW l \in Seq(Entries), NEW kind
    PROVE  Those(l, kind) \in Nat
  <1>1. IsFiniteSet(DOMAIN l)
    BY FS_Interval, LenProperties
  <1>2. {i \in DOMAIN l : l[i] \in kind} \in SUBSET DOMAIN l
    OBVIOUS
  <1> QED
    BY <1>1, <1>2, FS_Subset, FS_CardinalityType DEF Those

LEMMA ThoseAppend ==
    ASSUME NEW l \in Seq(Entries), NEW t \in Entries, NEW kind
    PROVE  Those(Append(l, t), kind) = Those(l, kind) + One(t \in kind)
  <1> DEFINE n == Len(l) + 1
             old == {i \in DOMAIN l : l[i] \in kind}
             new == {i \in DOMAIN Append(l, t) : Append(l, t)[i] \in kind}
  <1>1. /\ DOMAIN l = 1..Len(l) /\ Len(l) \in Nat
        /\ DOMAIN Append(l, t) = 1..n
        /\ \A i \in DOMAIN l : Append(l, t)[i] = l[i]
        /\ Append(l, t)[n] = t
    OBVIOUS
  <1>2. IsFiniteSet(old) /\ n \notin old
    <2>1. IsFiniteSet(DOMAIN l) /\ old \in SUBSET DOMAIN l
      BY <1>1, FS_Interval
    <2> QED
      BY <1>1, <2>1, FS_Subset
  <1>3. CASE t \in kind
    <2>1. new = old \cup {n}
      BY <1>1, <1>3
    <2>2. Cardinality(old \cup {n}) = Cardinality(old) + 1
      BY <1>2, FS_AddElement
    <2> QED
      BY <1>3, <2>1, <2>2 DEF Those, One
  <1>4. CASE t \notin kind
    <2>1. new = old
      BY <1>1, <1>4
    <2>2. Cardinality(old) \in Nat
      BY <1>2, FS_CardinalityType
    <2>3. Those(Append(l, t), kind) = Cardinality(new)
          /\ Those(l, kind) = Cardinality(old)
      BY DEF Those
    <2>4. One(t \in kind) = 0
      BY <1>4 DEF One
    <2> HIDE DEF old, new
    <2> QED
      BY <2>1, <2>2, <2>3, <2>4
  <1> QED
    BY <1>3, <1>4

LEMMA UnitsFinite ==
    ASSUME NEW l \in Seq(Entries), NEW value \in [Entries -> Int]
    PROVE  IsFiniteSet(Units(l, value)) /\ Cardinality(Units(l, value)) \in Nat
  <1> DEFINE most == {{i} \X (1..value[l[i]]) : i \in DOMAIN l}
  <1>1. IsFiniteSet(most)
    <2>1. IsFiniteSet(DOMAIN l)
      BY FS_Interval, LenProperties
    <2> QED
      <3> DEFINE f == [i \in DOMAIN l |-> {i} \X (1..value[l[i]])]
      <3>1. f \in Surjection(DOMAIN l, most)
        BY Fun_IsSurj
      <3> HIDE DEF most, f
      <3> QED
        BY <2>1, <3>1, FS_Surjection
  <1>2. \A T \in most : IsFiniteSet(T)
    <2> SUFFICES ASSUME NEW i \in DOMAIN l
                 PROVE  IsFiniteSet({i} \X (1..value[l[i]]))
      OBVIOUS
    <2>1. value[l[i]] \in Int
      BY ElementOfSeq
    <2>2. IsFiniteSet({i})
      BY FS_Singleton, Zenon
    <2>3. IsFiniteSet(1..value[l[i]])
      BY <2>1, FS_Interval
    <2> QED
      BY <2>2, <2>3, FS_Product
  <1>3. IsFiniteSet(UNION most)
    BY <1>1, <1>2, FS_UNION
  <1> QED
    BY <1>3, FS_CardinalityType DEF Units

LEMMA UnitsAppend ==
    ASSUME NEW l \in Seq(Entries), NEW t \in Entries,
           NEW value \in [Entries -> Int]
    PROVE  Cardinality(Units(Append(l, t), value)) =
              Cardinality(Units(l, value))
                + (IF value[t] > 0 THEN value[t] ELSE 0)
  <1> DEFINE n == Len(l) + 1
             more == {n} \X (1..value[t])
  <1>1. /\ DOMAIN l = 1..Len(l) /\ Len(l) \in Nat
        /\ DOMAIN Append(l, t) = 1..n
        /\ \A i \in DOMAIN l : Append(l, t)[i] = l[i]
        /\ Append(l, t)[n] = t
    OBVIOUS
  <1>2. Units(Append(l, t), value) = Units(l, value) \cup more
    <2>1. DOMAIN Append(l, t) = DOMAIN l \cup {n}
      BY <1>1
    <2> DEFINE was(i) == {i} \X (1..value[l[i]])
               is(i) == {i} \X (1..value[Append(l, t)[i]])
    <2>2. \A i \in DOMAIN l : is(i) = was(i)
      BY <1>1
    <2>3. is(n) = more
      BY <1>1
    <2>4. /\ Units(l, value) = UNION {was(i) : i \in DOMAIN l}
          /\ Units(Append(l, t), value) =
                UNION {is(i) : i \in DOMAIN Append(l, t)}
      BY Zenon DEF Units
    <2> HIDE DEF was, is, more, n
    <2> QED
      BY <2>1, <2>2, <2>3, <2>4, Zenon
  <1>3. Units(l, value) \cap more = {}
    <2>1. n \notin DOMAIN l
      BY <1>1
    <2>2. \A p \in Units(l, value) : p[1] \in DOMAIN l
      BY DEF Units
    <2>3. \A p \in more : p[1] = n
      OBVIOUS
    <2> HIDE DEF more, n
    <2> QED
      BY <2>1, <2>2, <2>3
  <1>4. /\ IsFiniteSet(more)
        /\ Cardinality(more) = IF value[t] > 0 THEN value[t] ELSE 0
    <2>1. value[t] \in Int
      OBVIOUS
    <2>2. /\ IsFiniteSet(1..value[t])
          /\ Cardinality(1..value[t]) = IF 1 > value[t] THEN 0
                                        ELSE value[t] - 1 + 1
      BY <2>1, FS_Interval
    <2>3. IsFiniteSet({n}) /\ Cardinality({n}) = 1
      BY FS_Singleton
    <2>4. /\ IsFiniteSet(more)
          /\ Cardinality(more) = Cardinality({n}) * Cardinality(1..value[t])
      BY <2>2, <2>3, FS_Product
    <2> HIDE DEF more, n
    <2> QED
      BY <2>1, <2>2, <2>3, <2>4
  <1>5. IsFiniteSet(Units(l, value)) /\ Cardinality(Units(l, value)) \in Nat
    BY UnitsFinite
  <1>6. Cardinality(Units(l, value) \cup more) =
           Cardinality(Units(l, value)) + Cardinality(more) - Cardinality({})
    BY <1>3, <1>4, <1>5, FS_Union
  <1> HIDE DEF more, n
  <1> QED
    BY <1>2, <1>4, <1>5, <1>6, FS_EmptySet

LEMMA SumAppend ==
    ASSUME NEW l \in Seq(Entries), NEW t \in Entries,
           NEW value \in [Entries -> Int]
    PROVE  /\ SumOf(Append(l, t), value) = SumOf(l, value) + value[t]
           /\ SumOf(l, value) \in Int
  <1> DEFINE minus == [e \in Entries |-> 0 - value[e]]
  <1>1. minus \in [Entries -> Int] /\ minus[t] = 0 - value[t]
        /\ value[t] \in Int
    OBVIOUS
  <1> HIDE DEF minus
  <1>2. Cardinality(Units(Append(l, t), value)) =
           Cardinality(Units(l, value))
             + (IF value[t] > 0 THEN value[t] ELSE 0)
    BY UnitsAppend
  <1>3. Cardinality(Units(Append(l, t), minus)) =
           Cardinality(Units(l, minus))
             + (IF 0 - value[t] > 0 THEN 0 - value[t] ELSE 0)
    BY <1>1, UnitsAppend
  <1>4. /\ Cardinality(Units(l, value)) \in Nat
        /\ Cardinality(Units(l, minus)) \in Nat
    BY <1>1, UnitsFinite
  <1>5. SumOf(l, value) =
           Cardinality(Units(l, value)) - Cardinality(Units(l, minus))
    BY DEF SumOf, minus
  <1>6. SumOf(Append(l, t), value) =
           Cardinality(Units(Append(l, t), value))
             - Cardinality(Units(Append(l, t), minus))
    BY DEF SumOf, minus
  <1>7. SumOf(Append(l, t), value) = SumOf(l, value) + value[t]
    <2> DEFINE a == Cardinality(Units(l, value))
               b == Cardinality(Units(l, minus))
               c == Cardinality(Units(Append(l, t), value))
               d == Cardinality(Units(Append(l, t), minus))
    <2>1. /\ a \in Nat /\ b \in Nat /\ value[t] \in Int
          /\ c = a + (IF value[t] > 0 THEN value[t] ELSE 0)
          /\ d = b + (IF 0 - value[t] > 0 THEN 0 - value[t] ELSE 0)
      BY <1>1, <1>2, <1>3, <1>4
    <2>2. SumOf(l, value) = a - b /\ SumOf(Append(l, t), value) = c - d
      BY <1>5, <1>6
    <2> HIDE DEF a, b, c, d
    <2>3. CASE value[t] > 0
      BY <2>1, <2>2, <2>3
    <2>4. CASE ~(value[t] > 0)
      BY <2>1, <2>2, <2>4
    <2> QED
      BY <2>3, <2>4
  <1> QED
    BY <1>4, <1>5, <1>7

LEMMA NothingCounted ==
    /\ << >> \in Seq(Entries) /\ Len(<< >>) = 0
    /\ \A kind : Those(<< >>, kind) = 0
    /\ \A value : SumOf(<< >>, value) = 0
  <1>1. << >> \in Seq(Entries) /\ Len(<< >>) = 0 /\ DOMAIN << >> = {}
    OBVIOUS
  <1>2. Cardinality({}) = 0
    BY FS_EmptySet
  <1>3. \A kind : {i \in DOMAIN << >> : << >>[i] \in kind} = {}
    BY <1>1
  <1>4. \A value : Units(<< >>, value) = {}
    BY <1>1 DEF Units
  <1>5. \A value : SumOf(<< >>, value) = 0 - 0
    BY <1>2, <1>4 DEF SumOf
  <1> QED
    BY <1>1, <1>2, <1>3, <1>5 DEF Those

LEMMA ValuesTyped ==
    /\ RetriesOf \in [Entries -> Int] /\ RssiOf \in [Entries -> Int]
    /\ \A t \in Entries :
          RssiOf[t] = IF t.ack.rssi = NoRssi THEN 0 ELSE t.ack.rssi
  <1>1. \A a \in Acks : a.retry \in Nat /\ a.rssi \in Int \cup {NoRssi}
    <2> SUFFICES ASSUME NEW a \in Acks
                 PROVE  a.retry \in Nat /\ a.rssi \in Int \cup {NoRssi}
      OBVIOUS
    <2>1. CASE a = NoAck
      BY <2>1 DEF NoAck
    <2>2. CASE a # NoAck
      <3>1. a.retry \in Retries /\ a.rssi \in Rssis \cup {NoRssi}
        BY <2>2 DEF Acks
      <3> QED
        BY <3>1, StatsAssumption
    <2> QED
      BY <2>1, <2>2
  <1> QED
    BY <1>1 DEF RetriesOf, RssiOf, Measured, Entries

-----------------------------------------------------------------------------
(* The two operations of the first lock *)

LEMMA RecordSendCounts ==
    ASSUME acc \in Counters, NEW data \in BOOLEAN
    PROVE  LET after == RecordSend(data)
           IN  /\ after \in Counters
               /\ after.sent = acc.sent + 1
               /\ after.uplink = acc.uplink + One(data)
               /\ after.acked = acc.acked /\ after.received = acc.received
               /\ after.retries = acc.retries /\ after.detector = acc.detector
               /\ after.rssiSum = acc.rssiSum
               /\ after.rssiCount = acc.rssiCount
  <1>1. One(data) \in Nat
    BY DEF One
  <1>2. acc.sent + 1 \in Nat /\ acc.uplink + One(data) \in Nat
    BY <1>1 DEF Counters
  <1> QED
    BY <1>2 DEF RecordSend, Counters

LEMMA AckTyped ==
    ASSUME NEW a \in Acks
    PROVE  /\ a.acked \in BOOLEAN /\ a.retry \in Nat /\ a.detector \in BOOLEAN
           /\ a.rssi # NoRssi => a.rssi \in Int
           /\ ~a.acked => a.retry = 0 /\ ~a.detector /\ a.rssi = NoRssi
  <1>1. CASE a = NoAck
    BY <1>1 DEF NoAck
  <1>2. CASE a # NoAck
    <2>1. /\ a.acked = TRUE /\ a.retry \in Retries /\ a.detector \in BOOLEAN
          /\ a.rssi \in Rssis \cup {NoRssi}
      BY <1>2 DEF Acks
    <2> QED
      BY <2>1, StatsAssumption
  <1> QED
    BY <1>1, <1>2

LEMMA RecordAckCounts ==
    ASSUME NEW counters \in Counters, NEW a \in Acks
    PROVE  LET after == RecordAck(a, counters)
           IN  /\ after \in Counters
               /\ after.sent = counters.sent /\ after.uplink = counters.uplink
               /\ after.acked = counters.acked + 1
               /\ after.received = counters.received
               /\ after.retries = counters.retries + a.retry
               /\ after.detector = counters.detector + One(a.detector)
               /\ after.rssiSum = counters.rssiSum
                                    + (IF a.rssi = NoRssi THEN 0 ELSE a.rssi)
               /\ after.rssiCount = counters.rssiCount + One(a.rssi # NoRssi)
  <1> DEFINE strength == IF a.rssi = NoRssi THEN 0 ELSE a.rssi
  <1>1. One(a.detector) \in Nat /\ One(a.rssi # NoRssi) \in Nat
        /\ strength \in Int /\ a.retry \in Nat
    BY AckTyped DEF One
  <1>2. /\ counters.acked + 1 \in Nat /\ counters.retries + a.retry \in Nat
        /\ counters.detector + One(a.detector) \in Nat
        /\ counters.rssiSum + strength \in Int
        /\ counters.rssiCount + One(a.rssi # NoRssi) \in Nat
    BY <1>1 DEF Counters
  <1>3. RecordAck(a, counters) =
           [counters EXCEPT !.acked = @ + 1, !.retries = @ + a.retry,
                            !.detector = @ + One(a.detector),
                            !.rssiSum = @ + strength,
                            !.rssiCount = @ + One(a.rssi # NoRssi)]
    BY Zenon DEF RecordAck
  <1> HIDE DEF strength
  <1>4. /\ RecordAck(a, counters) \in Counters
        /\ RecordAck(a, counters).rssiSum = counters.rssiSum + strength
    BY <1>2, <1>3 DEF Counters
  <1>5. LET after == RecordAck(a, counters)
        IN  /\ after.sent = counters.sent /\ after.uplink = counters.uplink
            /\ after.acked = counters.acked + 1
            /\ after.received = counters.received
            /\ after.retries = counters.retries + a.retry
            /\ after.detector = counters.detector + One(a.detector)
            /\ after.rssiCount = counters.rssiCount + One(a.rssi # NoRssi)
    BY <1>3 DEF Counters
  <1> QED
    BY <1>4, <1>5 DEF strength

-----------------------------------------------------------------------------
(* The snapshot *)

\* With the counters of a whole log the snapshot is the summary of it.
LEMMA StatisticsAreReference ==
    ASSUME TypeOK, TallyInv, place \notin {"count", "payload"}
    PROVE  Statistics(acc, elapsed) = Reference(log, elapsed)
  <1>1. /\ acc.sent = Len(log) /\ acc.uplink = Those(log, DataSent)
        /\ acc.acked = Those(log, Acked) /\ acc.received = Those(log, Received)
        /\ acc.detector = Those(log, Detected)
        /\ acc.rssiCount = Those(log, Measured)
        /\ acc.retries = SumOf(log, RetriesOf)
        /\ acc.rssiSum = SumOf(log, RssiOf)
    BY DEF TypeOK, Counters, TallyInv, Owes, One
  <1>2. \A n, empty : \A d \in Nat : Ratio(n, d, empty) = Mean(n, d, empty)
    BY DEF Ratio, Mean
  <1>3. acc.sent \in Nat /\ acc.acked \in Nat /\ acc.rssiCount \in Nat
    BY DEF TypeOK, Counters
  <1>4. /\ Ratio(acc.acked, acc.sent, <<1, 1>>) =
              Mean(acc.acked, acc.sent, <<1, 1>>)
        /\ Ratio(acc.retries, acc.acked, <<0, 1>>) =
              Mean(acc.retries, acc.acked, <<0, 1>>)
        /\ Ratio(acc.detector, acc.acked, <<0, 1>>) =
              Mean(acc.detector, acc.acked, <<0, 1>>)
        /\ Ratio(acc.rssiSum, acc.rssiCount, NoRssi) =
              Mean(acc.rssiSum, acc.rssiCount, NoRssi)
    BY <1>2, <1>3
  <1> QED
    BY <1>1, <1>4, Zenon DEF Statistics, Reference

LEMMA StatisticsTyped ==
    ASSUME TypeOK, elapsed >= Second
    PROVE  Statistics(acc, elapsed) \in Snapshots
  <1>1. elapsed \in Nat \ {0}
    BY StatsAssumption DEF TypeOK
  <1>2. \A ints : \A n \in ints, d \in Nat :
           /\ \A empty \in Ratios(ints) :
                 0 \in ints => Ratio(n, d, empty) \in Ratios(ints)
           /\ Ratio(n, d, NoRssi) \in Ratios(ints) \cup {NoRssi}
    BY DEF Ratio, Ratios
  <1>3. <<1, 1>> \in Ratios(Nat) /\ <<0, 1>> \in Ratios(Nat)
        /\ 0 \in Nat /\ 0 \in Int
    BY DEF Ratios
  <1>4. /\ acc.sent \in Nat /\ acc.uplink \in Nat /\ acc.acked \in Nat
        /\ acc.received \in Nat /\ acc.retries \in Nat /\ acc.detector \in Nat
        /\ acc.rssiSum \in Int /\ acc.rssiCount \in Nat
    BY DEF TypeOK, Counters
  <1>5. /\ Ratio(acc.acked, acc.sent, <<1, 1>>) \in Ratios(Nat)
        /\ Ratio(acc.retries, acc.acked, <<0, 1>>) \in Ratios(Nat)
        /\ Ratio(acc.detector, acc.acked, <<0, 1>>) \in Ratios(Nat)
        /\ Ratio(acc.rssiSum, acc.rssiCount, NoRssi)
              \in Ratios(Int) \cup {NoRssi}
    BY <1>2, <1>3, <1>4
  <1>6. /\ <<acc.uplink, elapsed>> \in Ratios(Nat)
        /\ <<acc.received, elapsed>> \in Ratios(Nat)
        /\ <<acc.sent, elapsed>> \in Ratios(Nat)
    BY <1>1, <1>4 DEF Ratios
  <1> QED
    BY <1>5, <1>6 DEF Statistics, Snapshots

-----------------------------------------------------------------------------
(* The steps *)

LEMMA ZeroTyped == ZeroCounters \in Counters
  BY DEF ZeroCounters, Counters

LEMMA InitStatsInv == Init => StatsInv
  <1> SUFFICES ASSUME Init PROVE StatsInv
    OBVIOUS
  <1>1. TypeOK
    <2>1. flight \in Transactions
      <3>1. NoAck \in Acks
        BY DEF Acks
      <3>2. \A a \in Acks, d \in BOOLEAN :
               [ack |-> a, data |-> d] \in Transactions
        BY DEF Transactions
      <3> QED
        BY <3>1, <3>2, Zenon DEF Init
    <2>2. DefaultStatistics \in Snapshots
      BY DEF DefaultStatistics, Snapshots, Ratios
    <2>3. log \in Seq(Entries)
      BY NothingCounted DEF Init
    <2> QED
      BY <2>1, <2>2, <2>3, ZeroTyped DEF Init, TypeOK
  <1>2. TallyInv
    BY NothingCounted DEF Init, TallyInv, Owes, One, ZeroCounters
  <1>3. LateInv
    <2>1. DOMAIN log = {}
      BY DEF Init
    <2> QED
      BY <2>1 DEF LateInv
  <1>4. SnapshotIsSummary /\ DataCountedOnce
    BY DEF Init, SnapshotIsSummary, DataCountedOnce, Counting, One, ZeroCounters
  <1> QED
    BY <1>1, <1>2, <1>3, <1>4 DEF StatsInv

LEMMA TransactStep == ASSUME StatsInv, Transact PROVE StatsInv'
  <1>1. PICK first \in BOOLEAN, a \in Acks :
           /\ flight' = [ack |-> a, data |-> first]
           /\ taken' = taken + One(first)
           /\ log' = Append(log, [ack |-> a, data |-> first,
                                  late |-> elapsed >= Second])
    <2>1. (IF resend THEN {FALSE} ELSE BOOLEAN) \subseteq BOOLEAN
      OBVIOUS
    <2>2. \A first \in BOOLEAN : IsData(first) = first
      BY DEF IsData
    <2> QED
      BY <2>1, <2>2 DEF Transact
  <1> DEFINE t == [ack |-> a, data |-> first, late |-> elapsed >= Second]
  <1>2. /\ t \in Entries /\ t.ack = a /\ t.data = first
        /\ t.late = (elapsed >= Second)
    BY DEF Entries
  <1>3. /\ place = "pick" /\ place' = "count"
        /\ UNCHANGED <<resend, acc, elapsed, snapshot, basis, reported>>
    BY DEF Transact
  <1>4. /\ log \in Seq(Entries) /\ log' = Append(log, t)
        /\ log' \in Seq(Entries) /\ Len(log') = Len(log) + 1
    BY <1>1, <1>2 DEF StatsInv, TypeOK
  <1>5. flight'.ack = a /\ flight'.data = first
    BY <1>1
  <1> HIDE DEF t
  <1>6. TypeOK'
    <2>1. flight' \in Transactions
      BY <1>1 DEF Transactions
    <2>2. taken' \in Nat
      BY <1>1 DEF StatsInv, TypeOK, One
    <2> QED
      BY <1>3, <1>4, <2>1, <2>2 DEF StatsInv, TypeOK
  <1>7. TallyInv'
    <2>1. \A kind : Those(log', kind) = Those(log, kind) + One(t \in kind)
      BY <1>2, <1>4, ThoseAppend
    <2>2. /\ t \in DataSent <=> first
          /\ t \in Acked <=> a.acked
          /\ t \in Detected <=> a.detector
          /\ t \in Measured <=> a.rssi # NoRssi
          /\ t \in Received <=> a.acked /\ Handles(a)
      BY <1>2 DEF DataSent, Acked, Detected, Measured, Received
    <2>3. /\ SumOf(log', RetriesOf) = SumOf(log, RetriesOf) + RetriesOf[t]
          /\ SumOf(log', RssiOf) = SumOf(log, RssiOf) + RssiOf[t]
      BY <1>2, <1>4, ValuesTyped, SumAppend
    <2>4. RetriesOf[t] = a.retry
      BY <1>2 DEF RetriesOf
    <2>5. RssiOf[t] = IF a.rssi = NoRssi THEN 0 ELSE a.rssi
      BY <1>2, ValuesTyped
    <2>6. acc \in Counters
      BY DEF StatsInv, TypeOK
    <2>7. /\ Len(log) = acc.sent /\ Those(log, DataSent) = acc.uplink
          /\ Those(log, Acked) = acc.acked
          /\ Those(log, Detected) = acc.detector
          /\ Those(log, Measured) = acc.rssiCount
          /\ Those(log, Received) = acc.received
          /\ SumOf(log, RetriesOf) = acc.retries
          /\ SumOf(log, RssiOf) = acc.rssiSum
      BY <1>3, <2>6 DEF StatsInv, TallyInv, Owes, One, Counters
    <2> QED
      BY <1>3, <1>4, <1>5, <2>1, <2>2, <2>3, <2>4, <2>5, <2>7
         DEF TallyInv, Owes, One
  <1>8. LateInv'
    <2> SUFFICES ASSUME NEW i \in DOMAIN log', log'[i].late
                 PROVE  i = Len(log') /\ elapsed' >= Second
      BY <1>3 DEF LateInv
    <2>1. CASE i = Len(log')
      <3>1. log'[i] = t
        BY <1>4, <2>1
      <3> QED
        BY <1>2, <1>3, <2>1, <3>1
    <2>2. CASE i # Len(log')
      <3>1. i \in DOMAIN log /\ log'[i] = log[i]
        BY <1>4, <2>2
      <3> QED
        BY <1>3, <3>1 DEF StatsInv, LateInv
    <2> QED
      BY <2>1, <2>2
  <1>9. SnapshotIsSummary'
    BY <1>3 DEF StatsInv, SnapshotIsSummary
  <1>10. DataCountedOnce'
    <2>1. acc.uplink \in Nat /\ reported.uplink \in Nat
      BY DEF StatsInv, TypeOK, Counters
    <2>2. taken = reported.uplink + acc.uplink
      BY <1>3, <2>1 DEF StatsInv, DataCountedOnce, Counting, One
    <2> QED
      BY <1>1, <1>3, <1>5, <2>2 DEF DataCountedOnce, Counting, One
  <1> QED
    BY <1>6, <1>7, <1>8, <1>9, <1>10 DEF StatsInv

LEMMA CountStep == ASSUME StatsInv, Count PROVE StatsInv'
  <1> DEFINE a == flight.ack
  <1>1. /\ place = "count"
        /\ place' = IF a.acked THEN "payload" ELSE "update"
        /\ resend' = ~a.acked
        /\ UNCHANGED <<flight, elapsed, snapshot, histVars>>
    BY DEF Count
  <1>2. acc \in Counters /\ a \in Acks /\ flight.data \in BOOLEAN
    BY DEF StatsInv, TypeOK, Transactions
  <1>3. /\ a.acked \in BOOLEAN /\ a.retry \in Nat /\ a.detector \in BOOLEAN
        /\ a.rssi # NoRssi => a.rssi \in Int
        /\ ~a.acked => a.retry = 0 /\ ~a.detector /\ a.rssi = NoRssi
    BY <1>2, AckTyped
  <1>4. /\ acc' \in Counters
        /\ acc'.sent = acc.sent + 1
        /\ acc'.uplink = acc.uplink + One(flight.data)
        /\ acc'.acked = acc.acked + One(a.acked)
        /\ acc'.received = acc.received
        /\ acc'.retries = acc.retries + a.retry
        /\ acc'.detector = acc.detector + One(a.detector)
        /\ acc'.rssiSum = acc.rssiSum
                            + (IF a.rssi = NoRssi THEN 0 ELSE a.rssi)
        /\ acc'.rssiCount = acc.rssiCount + One(a.rssi # NoRssi)
    <2>1. CASE a.acked
      <3>1. acc' = RecordAck(a, RecordSend(flight.data))
        BY <2>1 DEF Count
      <3> QED
        BY <1>2, <2>1, <3>1, RecordSendCounts, RecordAckCounts DEF One
    <2>2. CASE ~a.acked
      <3>1. acc' = RecordSend(flight.data)
        BY <2>2 DEF Count
      <3> QED
        BY <1>2, <1>3, <2>2, <3>1, RecordSendCounts DEF One, Counters
    <2> QED
      BY <2>1, <2>2
  <1>5. TypeOK'
    BY <1>1, <1>3, <1>4 DEF StatsInv, TypeOK
  <1>6. TallyInv'
    <2> HIDE DEF a
    <2>1. Those(log, Received) = acc.received + One(a.acked /\ Handles(a))
      BY <1>1 DEF StatsInv, TallyInv, Owes, One, a
    <2>2. /\ Len(log) = acc.sent + 1
          /\ Those(log, DataSent) = acc.uplink + One(flight.data)
          /\ Those(log, Acked) = acc.acked + One(a.acked)
          /\ Those(log, Detected) = acc.detector + One(a.detector)
          /\ Those(log, Measured) = acc.rssiCount + One(a.rssi # NoRssi)
          /\ SumOf(log, RetriesOf) = acc.retries + a.retry
          /\ SumOf(log, RssiOf) =
                acc.rssiSum + (IF a.rssi = NoRssi THEN 0 ELSE a.rssi)
      BY <1>1 DEF StatsInv, TallyInv, Owes, One, a
    <2>3. /\ log' = log /\ flight'.ack = a /\ place' # "count"
          /\ place' = "payload" <=> a.acked
      BY <1>1 DEF a
    <2> QED
      BY <1>4, <2>1, <2>2, <2>3 DEF TallyInv, Owes, One, Counters
  <1>7. LateInv'
    BY <1>1 DEF StatsInv, LateInv
  <1>8. SnapshotIsSummary'
    BY <1>1 DEF StatsInv, SnapshotIsSummary
  <1>9. DataCountedOnce'
    <2>1. acc.uplink \in Nat /\ reported.uplink \in Nat
      BY DEF StatsInv, TypeOK, Counters
    <2> QED
      BY <1>1, <1>2, <1>4, <2>1 DEF StatsInv, DataCountedOnce, Counting, One
  <1> QED
    BY <1>5, <1>6, <1>7, <1>8, <1>9 DEF StatsInv

LEMMA PayloadStep == ASSUME StatsInv, Payload PROVE StatsInv'
  <1>1. /\ place = "payload" /\ place' \in {"update", "done"}
        /\ UNCHANGED <<resend, flight, elapsed, snapshot, histVars>>
    BY DEF Payload
  <1>2. acc \in Counters /\ flight.ack.acked
    BY <1>1 DEF StatsInv, TypeOK, TallyInv
  <1>3. /\ acc' \in Counters
        /\ acc'.received = acc.received + One(Handles(flight.ack))
        /\ \A f \in {"sent", "uplink", "acked", "retries", "detector",
                     "rssiSum", "rssiCount"} : acc'[f] = acc[f]
    <2>1. CASE Handles(flight.ack)
      <3>1. acc' = [acc EXCEPT !.received = @ + 1]
        BY <2>1 DEF Payload
      <3> QED
        BY <1>2, <2>1, <3>1 DEF Counters, One
    <2>2. CASE ~Handles(flight.ack)
      <3>1. acc' = acc
        BY <2>2 DEF Payload
      <3> QED
        BY <1>2, <2>2, <3>1 DEF Counters, One
    <2> QED
      BY <2>1, <2>2
  <1>4. TypeOK'
    BY <1>1, <1>3 DEF StatsInv, TypeOK
  <1>5. TallyInv'
    <2>1. Those(log, Received) = acc.received + One(Handles(flight.ack))
      BY <1>1, <1>2 DEF StatsInv, TallyInv, Owes, One
    <2>2. /\ acc'.sent = acc.sent /\ acc'.uplink = acc.uplink
          /\ acc'.acked = acc.acked /\ acc'.retries = acc.retries
          /\ acc'.detector = acc.detector /\ acc'.rssiSum = acc.rssiSum
          /\ acc'.rssiCount = acc.rssiCount
      BY <1>3
    <2> QED
      BY <1>1, <1>3, <2>1, <2>2 DEF StatsInv, TallyInv, Owes, One, Counters
  <1>6. LateInv'
    BY <1>1 DEF StatsInv, LateInv
  <1>7. SnapshotIsSummary'
    BY <1>1 DEF StatsInv, SnapshotIsSummary
  <1>8. DataCountedOnce'
    <2>1. acc'.uplink = acc.uplink
      BY <1>3
    <2> QED
      BY <1>1, <2>1 DEF StatsInv, DataCountedOnce, Counting, One
  <1> QED
    BY <1>4, <1>5, <1>6, <1>7, <1>8 DEF StatsInv

LEMMA UpdateStep == ASSUME StatsInv, Update PROVE StatsInv'
  <1>1. /\ place = "update" /\ place' = "pick"
        /\ UNCHANGED <<resend, flight, taken>>
    BY DEF Update
  <1>2. CASE Due
    <2>1. /\ snapshot' = Statistics(acc, elapsed)
          /\ acc' = ZeroCounters /\ elapsed' = 0 /\ log' = << >>
          /\ basis' = <<log, elapsed>>
          /\ reported' = [sent |-> reported.sent + acc.sent,
                          uplink |-> reported.uplink + acc.uplink]
      BY <1>2 DEF Update, Fresh
    <2>2. TypeOK'
      <3>1. snapshot' \in Snapshots
        BY <1>2, <2>1, StatisticsTyped DEF StatsInv, Due
      <3>2. reported' \in [sent : Nat, uplink : Nat]
        BY <2>1 DEF StatsInv, TypeOK, Counters
      <3>3. acc' \in Counters /\ log' \in Seq(Entries)
        BY <2>1, ZeroTyped, NothingCounted
      <3> QED
        BY <1>1, <2>1, <3>1, <3>2, <3>3 DEF StatsInv, TypeOK
    <2>3. TallyInv'
      BY <1>1, <2>1, NothingCounted DEF TallyInv, Owes, One, ZeroCounters
    <2>4. LateInv'
      <3>1. DOMAIN log' = {}
        BY <2>1
      <3> QED
        BY <3>1 DEF LateInv
    <2>5. SnapshotIsSummary'
      <3>1. Statistics(acc, elapsed) = Reference(log, elapsed)
        BY <1>1, StatisticsAreReference DEF StatsInv
      <3>2. basis' # << >> /\ basis'[1] = log /\ basis'[2] = elapsed
        BY <2>1
      <3> QED
        BY <2>1, <3>1, <3>2 DEF SnapshotIsSummary
    <2>6. DataCountedOnce'
      <3>1. acc.uplink \in Nat /\ reported.uplink \in Nat
        BY DEF StatsInv, TypeOK, Counters
      <3>2. acc'.uplink = 0 /\ reported'.uplink = reported.uplink + acc.uplink
        BY <2>1 DEF ZeroCounters
      <3> QED
        BY <1>1, <3>1, <3>2 DEF StatsInv, DataCountedOnce, Counting, One
    <2> QED
      BY <2>2, <2>3, <2>4, <2>5, <2>6 DEF StatsInv
  <1>3. CASE ~Due
    <2>1. UNCHANGED <<acc, elapsed, snapshot, log, basis, reported>>
      BY <1>3 DEF Update
    <2>2. TypeOK' /\ SnapshotIsSummary' /\ DataCountedOnce'
      BY <1>1, <2>1 DEF StatsInv, TypeOK, SnapshotIsSummary, DataCountedOnce,
                        Counting, One
    <2>3. TallyInv'
      BY <1>1, <2>1 DEF StatsInv, TallyInv, Owes, One
    <2>4. LateInv'
      BY <1>1, <1>3, <2>1 DEF StatsInv, LateInv, Due
    <2> QED
      BY <2>2, <2>3, <2>4 DEF StatsInv
  <1> QED
    BY <1>2, <1>3

\* No step of these touches a counter, or leaves a lock.
LEMMA OtherSteps ==
    ASSUME StatsInv, HandshakeDone \/ Leave \/ Tick \/ UNCHANGED vars
    PROVE  StatsInv'
  <1>1. /\ UNCHANGED <<flight, acc, snapshot, histVars, resend>>
        /\ elapsed' \in {elapsed, elapsed + 1}
        /\ \/ place' = place
           \/ place \in {"handshake", "pick"} /\ place' \in {"pick", "done"}
    BY DEF HandshakeDone, Leave, Tick, vars
  <1>2. TypeOK' /\ SnapshotIsSummary' /\ DataCountedOnce'
    BY <1>1 DEF StatsInv, TypeOK, SnapshotIsSummary, DataCountedOnce,
                Counting, One
  <1>3. TallyInv'
    BY <1>1 DEF StatsInv, TallyInv, Owes, One
  <1>4. LateInv'
    <2>1. elapsed \in Nat /\ Second \in Nat
      BY StatsAssumption DEF StatsInv, TypeOK
    <2> QED
      BY <1>1, <2>1 DEF StatsInv, LateInv
  <1> QED
    BY <1>2, <1>3, <1>4 DEF StatsInv

LEMMA StatsInvariant == Spec => []StatsInv
  <1>1. StatsInv /\ [Next]_vars => StatsInv'
    BY TransactStep, CountStep, PayloadStep, UpdateStep, OtherSteps DEF Next
  <1> QED
    BY <1>1, InitStatsInv, PTL DEF Spec

-----------------------------------------------------------------------------
(* What it shows *)

\* A snapshot sums up whole transactions of one window, whatever falls between
\* the three locks of an iteration.
THEOREM SnapshotSumsUpWindow == Spec => []SnapshotIsSummary
  <1>1. StatsInv => SnapshotIsSummary
    BY DEF StatsInv
  <1> QED
    BY <1>1, StatsInvariant, PTL

\* A packet of the user's is counted as data once, however often it is sent
\* and wherever a window ends.
THEOREM EveryPacketCountsOnce == Spec => []DataCountedOnce
  <1>1. StatsInv => DataCountedOnce
    BY DEF StatsInv
  <1> QED
    BY <1>1, StatsInvariant, PTL

\* A window that is over gets one more transaction at most, acknowledged or
\* not: a dead link replaces the statistics of a good one.
THEOREM WindowEndsWithNextPacket == Spec => []WindowEndsInTime
  <1>1. StatsInv => WindowEndsInTime
    <2> SUFFICES ASSUME StatsInv PROVE WindowEndsInTime
      OBVIOUS
    <2> DEFINE late == {i \in DOMAIN log : log[i] \in Late}
    <2>1. late \in SUBSET {Len(log)}
      BY DEF StatsInv, LateInv, Late
    <2>2. IsFiniteSet({Len(log)}) /\ Cardinality({Len(log)}) = 1
      BY FS_Singleton, Zenon
    <2>3. Cardinality(late) <= 1
      BY <2>1, <2>2, FS_Subset
    <2> QED
      BY <2>3 DEF WindowEndsInTime, Those
  <1> QED
    BY <1>1, StatsInvariant, PTL

-----------------------------------------------------------------------------
(* The ranges of the statistics *)

(***************************************************************************)
(* No counter outgrows the one it is divided by.  A transaction that is    *)
(* between the first lock and the second has its payload outstanding.      *)
(***************************************************************************)
CountersInRange(mostRetries, weakest, strongest) ==
    /\ acc.acked <= acc.sent /\ acc.uplink <= acc.sent
    /\ acc.detector <= acc.acked
    /\ acc.received + One(place = "payload") <= acc.acked
    /\ acc.retries <= mostRetries * acc.acked
    /\ weakest * acc.rssiCount <= acc.rssiSum
    /\ acc.rssiSum <= strongest * acc.rssiCount

RangeInv(mostRetries, weakest, strongest) ==
    /\ CountersInRange(mostRetries, weakest, strongest)
    /\ StatisticsInRange(mostRetries, weakest, strongest)

\* What the constants say of an acknowledgement.
LEMMA AckInRange ==
    ASSUME NEW a \in Acks, a.acked,
           NEW mostRetries \in Nat, \A r \in Retries : r <= mostRetries,
           NEW weakest \in Int, NEW strongest \in Int,
           \A r \in Rssis : weakest <= r /\ r <= strongest
    PROVE  /\ a.retry \in Nat /\ a.retry <= mostRetries
           /\ a.rssi # NoRssi =>
                a.rssi \in Int /\ weakest <= a.rssi /\ a.rssi <= strongest
  <1>1. a # NoAck
    BY DEF NoAck
  <1>2. a.retry \in Retries /\ a.rssi \in Rssis \cup {NoRssi}
    BY <1>1 DEF Acks
  <1> QED
    BY <1>2, StatsAssumption

\* One more value within bounds keeps a sum within the bounds times the count.
LEMMA BoundsAdd ==
    ASSUME NEW bound \in Int, NEW n \in Nat
    PROVE  /\ bound * (n + 1) = bound * n + bound
           /\ bound * n \in Int /\ bound * 0 = 0
  OBVIOUS

LEMMA InitRange ==
    ASSUME Init, NEW mostRetries \in Nat,
           NEW weakest \in Int, NEW strongest \in Int
    PROVE  RangeInv(mostRetries, weakest, strongest)
  <1>1. CountersInRange(mostRetries, weakest, strongest)
    BY BoundsAdd DEF Init, CountersInRange, ZeroCounters, One
  <1>2. StatisticsInRange(mostRetries, weakest, strongest)
    BY DEF Init, StatisticsInRange, DefaultStatistics, Between
  <1> QED
    BY <1>1, <1>2 DEF RangeInv

LEMMA CountInRange ==
    ASSUME StatsInv, Count,
           NEW mostRetries \in Nat, \A r \in Retries : r <= mostRetries,
           NEW weakest \in Int, NEW strongest \in Int,
           \A r \in Rssis : weakest <= r /\ r <= strongest,
           CountersInRange(mostRetries, weakest, strongest)
    PROVE  CountersInRange(mostRetries, weakest, strongest)'
  <1> DEFINE a == flight.ack
             before == RecordSend(flight.data)
  <1>1. acc \in Counters /\ a \in Acks /\ flight.data \in BOOLEAN
    BY DEF StatsInv, TypeOK, Transactions
  <1>2. /\ before \in Counters /\ before.sent = acc.sent + 1
        /\ before.uplink = acc.uplink + One(flight.data)
        /\ before.acked = acc.acked /\ before.received = acc.received
        /\ before.retries = acc.retries /\ before.detector = acc.detector
        /\ before.rssiSum = acc.rssiSum /\ before.rssiCount = acc.rssiCount
    BY <1>1, RecordSendCounts
  <1>3. /\ place = "count"
        /\ place' = IF a.acked THEN "payload" ELSE "update"
        /\ acc' = IF a.acked THEN RecordAck(a, before) ELSE before
    BY DEF Count
  <1> HIDE DEF a, before
  <1>4. \A b \in BOOLEAN : One(b) \in 0..1
    BY DEF One
  <1>5. One(place = "payload") = 0
    BY <1>3 DEF One
  <1>6. /\ acc.sent \in Nat /\ acc.uplink \in Nat /\ acc.acked \in Nat
        /\ acc.received \in Nat /\ acc.retries \in Nat
        /\ acc.detector \in Nat /\ acc.rssiSum \in Int
        /\ acc.rssiCount \in Nat
    BY <1>1 DEF Counters
  <1>7. CASE ~a.acked
    <2>1. acc' = before /\ One(place' = "payload") = 0
      BY <1>3, <1>7 DEF One
    <2>2. One(flight.data) \in 0..1
      BY <1>1, <1>4
    <2> QED
      BY <1>2, <1>5, <1>6, <2>1, <2>2 DEF CountersInRange
  <1>8. CASE a.acked
    <2>1. LET after == acc'
          IN  /\ after.sent = before.sent /\ after.uplink = before.uplink
              /\ after.acked = before.acked + 1
              /\ after.received = before.received
              /\ after.retries = before.retries + a.retry
              /\ after.detector = before.detector + One(a.detector)
              /\ after.rssiSum = before.rssiSum
                                   + (IF a.rssi = NoRssi THEN 0 ELSE a.rssi)
              /\ after.rssiCount = before.rssiCount + One(a.rssi # NoRssi)
      BY <1>1, <1>2, <1>3, <1>8, RecordAckCounts
    <2>2. /\ a.retry \in Nat /\ a.retry <= mostRetries
          /\ a.rssi # NoRssi =>
               a.rssi \in Int /\ weakest <= a.rssi /\ a.rssi <= strongest
      BY <1>1, <1>8, AckInRange
    <2>3. /\ One(flight.data) \in 0..1 /\ One(a.detector) \in 0..1
          /\ One(place' = "payload") = 1
      BY <1>1, <1>3, <1>4, <1>8, AckTyped DEF One
    <2>4. /\ acc'.acked <= acc'.sent /\ acc'.uplink <= acc'.sent
          /\ acc'.detector <= acc'.acked
          /\ acc'.received + One(place' = "payload") <= acc'.acked
      BY <1>2, <1>5, <1>6, <2>1, <2>3 DEF CountersInRange
    <2>5. acc'.retries <= mostRetries * acc'.acked
      <3>1. /\ mostRetries * (acc.acked + 1) = mostRetries * acc.acked + mostRetries
            /\ mostRetries * acc.acked \in Int
        BY <1>6, BoundsAdd
      <3>2. acc.retries <= mostRetries * acc.acked
        BY DEF CountersInRange
      <3>3. acc'.retries = acc.retries + a.retry /\ acc'.acked = acc.acked + 1
        BY <1>2, <2>1
      <3> QED
        BY <1>6, <2>2, <3>1, <3>2, <3>3
    <2>6. /\ weakest * acc'.rssiCount <= acc'.rssiSum
          /\ acc'.rssiSum <= strongest * acc'.rssiCount
      <3>1. /\ weakest * acc.rssiCount <= acc.rssiSum
            /\ acc.rssiSum <= strongest * acc.rssiCount
        BY DEF CountersInRange
      <3>2. CASE a.rssi = NoRssi
        <4>1. acc'.rssiSum = acc.rssiSum /\ acc'.rssiCount = acc.rssiCount
          BY <1>2, <1>6, <2>1, <3>2 DEF One
        <4> QED
          BY <3>1, <4>1
      <3>3. CASE a.rssi # NoRssi
        <4>1. /\ acc'.rssiSum = acc.rssiSum + a.rssi
              /\ acc'.rssiCount = acc.rssiCount + 1
          BY <1>2, <2>1, <3>3 DEF One
        <4>2. /\ weakest * (acc.rssiCount + 1) = weakest * acc.rssiCount + weakest
              /\ strongest * (acc.rssiCount + 1)
                    = strongest * acc.rssiCount + strongest
              /\ weakest * acc.rssiCount \in Int
              /\ strongest * acc.rssiCount \in Int
          BY <1>6, BoundsAdd
        <4> QED
          BY <1>6, <2>2, <3>1, <3>3, <4>1, <4>2
      <3> QED
        BY <3>2, <3>3
    <2> QED
      BY <2>4, <2>5, <2>6 DEF CountersInRange
  <1> QED
    BY <1>7, <1>8

\* Counters that are in range make statistics that are.
LEMMA SnapshotInRange ==
    ASSUME StatsInv, place = "update", snapshot' = Statistics(acc, elapsed),
           NEW mostRetries \in Nat, NEW weakest \in Int, NEW strongest \in Int,
           CountersInRange(mostRetries, weakest, strongest)
    PROVE  StatisticsInRange(mostRetries, weakest, strongest)'
  <1>1. /\ acc.sent \in Nat /\ acc.uplink \in Nat /\ acc.acked \in Nat
        /\ acc.received \in Nat /\ acc.retries \in Nat
        /\ acc.detector \in Nat /\ acc.rssiSum \in Int
        /\ acc.rssiCount \in Nat
    BY DEF StatsInv, TypeOK, Counters
  <1>2. /\ acc.acked <= acc.sent /\ acc.uplink <= acc.sent
        /\ acc.detector <= acc.acked /\ acc.received <= acc.acked
        /\ acc.retries <= mostRetries * acc.acked
        /\ weakest * acc.rssiCount <= acc.rssiSum
        /\ acc.rssiSum <= strongest * acc.rssiCount
    BY <1>1 DEF CountersInRange, One
  <1>3. Between(snapshot'.quality, 0, 1) /\ Between(snapshot'.detector, 0, 1)
    BY <1>1, <1>2 DEF Statistics, Ratio, Between
  <1>4. Between(snapshot'.retries, 0, mostRetries)
    <2>1. snapshot'.retries = Ratio(acc.retries, acc.acked, <<0, 1>>)
      BY DEF Statistics
    <2>2. Ratio(acc.retries, acc.acked, <<0, 1>>)
             \in {<<acc.retries, acc.acked>>, <<0, 1>>}
      BY DEF Ratio
    <2>3. Between(<<acc.retries, acc.acked>>, 0, mostRetries)
      BY <1>1, <1>2 DEF Between
    <2>4. Between(<<0, 1>>, 0, mostRetries)
      BY DEF Between
    <2> QED
      BY <2>1, <2>2, <2>3, <2>4
  <1>5. snapshot'.rssi # NoRssi => Between(snapshot'.rssi, weakest, strongest)
    <2>1. snapshot'.rssi = Ratio(acc.rssiSum, acc.rssiCount, NoRssi)
      BY DEF Statistics
    <2>2. Ratio(acc.rssiSum, acc.rssiCount, NoRssi)
             \in {<<acc.rssiSum, acc.rssiCount>>, NoRssi}
      BY DEF Ratio
    <2>3. Between(<<acc.rssiSum, acc.rssiCount>>, weakest, strongest)
      BY <1>1, <1>2 DEF Between
    <2> QED
      BY <2>1, <2>2, <2>3
  <1>6. /\ snapshot'.uplink[1] <= snapshot'.sent[1]
        /\ snapshot'.downlink[1] <= snapshot'.sent[1]
    BY <1>1, <1>2 DEF Statistics
  <1> QED
    BY <1>3, <1>4, <1>5, <1>6 DEF StatisticsInRange

LEMMA NextKeepsRange ==
    ASSUME StatsInv, [Next]_vars,
           NEW mostRetries \in Nat, \A r \in Retries : r <= mostRetries,
           NEW weakest \in Int, NEW strongest \in Int,
           \A r \in Rssis : weakest <= r /\ r <= strongest,
           RangeInv(mostRetries, weakest, strongest)
    PROVE  RangeInv(mostRetries, weakest, strongest)'
  <1> USE DEF RangeInv
  <1>1. acc \in Counters
    BY DEF StatsInv, TypeOK
  <1>2. CASE Count
    <2>1. snapshot' = snapshot
      BY <1>2 DEF Count
    <2> QED
      BY <1>2, <2>1, CountInRange DEF StatisticsInRange
  <1>3. CASE Payload
    <2>1. snapshot' = snapshot /\ place = "payload" /\ place' # "payload"
      BY <1>3 DEF Payload
    <2>2. /\ acc'.received \in {acc.received, acc.received + 1}
          /\ acc'.sent = acc.sent /\ acc'.uplink = acc.uplink
          /\ acc'.acked = acc.acked /\ acc'.detector = acc.detector
          /\ acc'.retries = acc.retries /\ acc'.rssiSum = acc.rssiSum
          /\ acc'.rssiCount = acc.rssiCount
      BY <1>1, <1>3 DEF Payload, Counters
    <2>3. acc'.received + One(place' = "payload") <= acc'.acked
      BY <1>1, <2>1, <2>2 DEF CountersInRange, One, Counters
    <2>4. CountersInRange(mostRetries, weakest, strongest)'
      BY <2>2, <2>3 DEF CountersInRange
    <2> QED
      BY <2>1, <2>4 DEF StatisticsInRange
  <1>4. CASE Update /\ Due
    <2>1. /\ place = "update" /\ place' = "pick"
          /\ snapshot' = Statistics(acc, elapsed) /\ acc' = ZeroCounters
      BY <1>4 DEF Update, Fresh
    <2>2. StatisticsInRange(mostRetries, weakest, strongest)'
      BY <2>1, SnapshotInRange
    <2>3. CountersInRange(mostRetries, weakest, strongest)'
      BY <2>1, BoundsAdd DEF CountersInRange, ZeroCounters, One
    <2> QED
      BY <2>2, <2>3
  <1>5. CASE \/ Transact \/ HandshakeDone \/ Leave \/ Tick \/ UNCHANGED vars
             \/ Update /\ ~Due
    <2>1. /\ UNCHANGED <<acc, snapshot>>
          /\ (place' = "payload") = (place = "payload")
      BY <1>5 DEF Transact, HandshakeDone, Leave, Tick, vars, Update
    <2> QED
      BY <2>1 DEF CountersInRange, StatisticsInRange
  <1> QED
    BY <1>2, <1>3, <1>4, <1>5 DEF Next

\* Every statistic a user reads is in its range, for whatever retries and
\* signal strengths dongles report: the quality and the share of the power
\* detector between 0 and 1, the means between the least and the most that was
\* reported, and no rate above that of the packets sent.
THEOREM StatisticsStayInRange ==
    ASSUME NEW mostRetries \in Nat, \A r \in Retries : r <= mostRetries,
           NEW weakest \in Int, NEW strongest \in Int,
           \A r \in Rssis : weakest <= r /\ r <= strongest
    PROVE  Spec => []StatisticsInRange(mostRetries, weakest, strongest)
  <1>1. Init => RangeInv(mostRetries, weakest, strongest)
    BY InitRange
  <1>2. /\ StatsInv /\ RangeInv(mostRetries, weakest, strongest)
        /\ [Next]_vars
        => RangeInv(mostRetries, weakest, strongest)'
    BY NextKeepsRange
  <1>3. RangeInv(mostRetries, weakest, strongest)
        => StatisticsInRange(mostRetries, weakest, strongest)
    BY DEF RangeInv
  <1> QED
    BY <1>1, <1>2, <1>3, StatsInvariant, PTL DEF Spec
=============================================================================
