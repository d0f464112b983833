--------------------------- MODULE Capture_proofs ---------------------------
(***************************************************************************)
(* A theorem about Capture, for every set of threads, length of a packet,  *)
(* room in the buffer and number of frames.                                *)
(***************************************************************************)
EXTENDS Capture, SequenceTheorems, TLAPS

\* All that has been written and not been lost with the reader.
All == stream \o buffer

(***************************************************************************)
(* The inductive invariant.  While the reader is there, what is written    *)
(* ends in a header exactly when a thread is about to write its data; that *)
(* thread has the mutex, so there is one, and the header is its own.       *)
(***************************************************************************)
CaptureTypes ==
    /\ at \in [Writers -> {"idle", "lock", "header", "data"}]
    /\ frame \in [Writers -> [number : Nat, length : Nat]]
    /\ frames \in Nat
    /\ buffer \in Seq(Chunks) /\ stream \in Seq(Chunks)
    /\ socket = "unset" => reader = "absent"

MutexInv == \A w \in Writers : at[w] \in {"header", "data"} <=> mutex = w

InItsPlace(all, i) ==
    IF i % 2 = 1 THEN all[i].part = "header"
    ELSE all[i] = [all[i - 1] EXCEPT !.part = "data"]

WholeFrames(all) == \A i \in DOMAIN all : InItsPlace(all, i)

EndInv ==
    reader # "gone" =>
        \/ /\ Len(All) % 2 = 0
           /\ \A w \in Writers : at[w] # "data"
        \/ /\ Len(All) % 2 = 1
           /\ \E w \in Writers :
                 at[w] = "data" /\ All[Len(All)] = Chunk("header", frame[w])

CaptureInv == CaptureTypes /\ MutexInv /\ WholeFrames(All) /\ EndInv

-----------------------------------------------------------------------------
(* Sequences of chunks *)

LEMMA AppendedHeader ==
    ASSUME NEW all \in Seq(Chunks), WholeFrames(all), Len(all) % 2 = 0,
           NEW c \in Chunks, c.part = "header"
    PROVE  WholeFrames(Append(all, c))
  <1>1. /\ DOMAIN Append(all, c) = 1..Len(all) + 1
        /\ DOMAIN all = 1..Len(all)
        /\ \A i \in 1..Len(all) : Append(all, c)[i] = all[i]
        /\ Append(all, c)[Len(all) + 1] = c
    BY AppendProperties, LenProperties
  <1>2. ASSUME NEW i \in 1..Len(all)
        PROVE  InItsPlace(Append(all, c), i)
    <2>1. InItsPlace(all, i) /\ Append(all, c)[i] = all[i]
      BY <1>1 DEF WholeFrames
    <2>2. CASE i % 2 = 1
      BY <2>1, <2>2 DEF InItsPlace
    <2>3. CASE i % 2 # 1
      <3>1. i - 1 \in 1..Len(all)
        BY <2>3, LenProperties
      <3>2. Append(all, c)[i - 1] = all[i - 1]
        BY <1>1, <3>1
      <3> QED
        BY <2>1, <2>3, <3>2 DEF InItsPlace
    <2> QED
      BY <2>2, <2>3
  <1>3. InItsPlace(Append(all, c), Len(all) + 1)
    <2>1. Len(all) \in Nat
      BY LenProperties
    <2>2. (Len(all) + 1) % 2 = 1
      BY <2>1
    <2> QED
      BY <1>1, <2>2 DEF InItsPlace
  <1>4. \A i \in 1..Len(all) + 1 : i \in 1..Len(all) \/ i = Len(all) + 1
    BY LenProperties
  <1> QED
    BY <1>1, <1>2, <1>3, <1>4 DEF WholeFrames

LEMMA AppendedData ==
    ASSUME NEW all \in Seq(Chunks), WholeFrames(all), Len(all) % 2 = 1,
           NEW c \in Chunks, c = [all[Len(all)] EXCEPT !.part = "data"]
    PROVE  WholeFrames(Append(all, c))
  <1>1. /\ DOMAIN Append(all, c) = 1..Len(all) + 1
        /\ DOMAIN all = 1..Len(all)
        /\ \A i \in 1..Len(all) : Append(all, c)[i] = all[i]
        /\ Append(all, c)[Len(all) + 1] = c
    BY AppendProperties, LenProperties
  <1>2. ASSUME NEW i \in 1..Len(all)
        PROVE  InItsPlace(Append(all, c), i)
    <2>1. InItsPlace(all, i) /\ Append(all, c)[i] = all[i]
      BY <1>1 DEF WholeFrames
    <2>2. CASE i % 2 = 1
      BY <2>1, <2>2 DEF InItsPlace
    <2>3. CASE i % 2 # 1
      <3>1. i - 1 \in 1..Len(all)
        BY <2>3, LenProperties
      <3>2. Append(all, c)[i - 1] = all[i - 1]
        BY <1>1, <3>1
      <3> QED
        BY <2>1, <2>3, <3>2 DEF InItsPlace
    <2> QED
      BY <2>2, <2>3
  <1>3. InItsPlace(Append(all, c), Len(all) + 1)
    <2>1. Len(all) \in Nat
      BY LenProperties
    <2>2. (Len(all) + 1) % 2 # 1
      BY <2>1
    <2>3. Len(all) \in 1..Len(all) /\ (Len(all) + 1) - 1 = Len(all)
      BY <2>1
    <2> QED
      BY <1>1, <2>2, <2>3 DEF InItsPlace
  <1>4. \A i \in 1..Len(all) + 1 : i \in 1..Len(all) \/ i = Len(all) + 1
    BY LenProperties
  <1> QED
    BY <1>1, <1>2, <1>3, <1>4 DEF WholeFrames

\* What the reader has read is the beginning of all.
LEMMA ReadPrefix ==
    ASSUME CaptureTypes, WholeFrames(All)
    PROVE  WholeFrames(stream)
  <1>1. /\ DOMAIN stream = 1..Len(stream)
        /\ DOMAIN All = 1..Len(stream) + Len(buffer)
        /\ \A i \in 1..Len(stream) : All[i] = stream[i]
    BY ConcatProperties, LenProperties DEF CaptureTypes, All
  <1>2. Len(stream) \in Nat /\ Len(buffer) \in Nat
    BY LenProperties DEF CaptureTypes
  <1>3. ASSUME NEW i \in 1..Len(stream) PROVE InItsPlace(stream, i)
    <2>1. InItsPlace(All, i) /\ All[i] = stream[i]
      BY <1>1, <1>2 DEF WholeFrames
    <2>2. CASE i % 2 = 1
      BY <2>1, <2>2 DEF InItsPlace
    <2>3. CASE i % 2 # 1
      <3>1. All[i - 1] = stream[i - 1]
        BY <1>1, <1>2, <2>3
      <3> QED
        BY <2>1, <2>3, <3>1 DEF InItsPlace
    <2> QED
      BY <2>2, <2>3
  <1> QED
    BY <1>1, <1>3 DEF WholeFrames

\* A write adds its chunk at the end; a read moves one and changes nothing.
LEMMA WrittenAtEnd ==
    ASSUME CaptureTypes, NEW c \in Chunks, buffer' = Append(buffer, c),
           stream' = stream
    PROVE  All' = Append(All, c)
  BY AppendIsConcat, ConcatAssociative, ConcatProperties, SMT
     DEF CaptureTypes, All

LEMMA ReadKeepsAll ==
    ASSUME CaptureTypes, ReaderReads
    PROVE  All' = All /\ CaptureTypes'
  <1>1. /\ buffer \in Seq(Chunks) /\ buffer # << >> /\ stream \in Seq(Chunks)
        /\ Head(buffer) \in Chunks /\ Tail(buffer) \in Seq(Chunks)
    BY HeadTailProperties DEF CaptureTypes, ReaderReads
  <1>2. buffer = <<Head(buffer)>> \o Tail(buffer)
    BY <1>1
  <1>3. stream' \o buffer' = stream \o (<<Head(buffer)>> \o Tail(buffer))
    BY <1>1, AppendIsConcat, ConcatAssociative DEF ReaderReads
  <1>4. stream' \in Seq(Chunks)
    BY <1>1, AppendProperties DEF ReaderReads
  <1> QED
    BY <1>1, <1>2, <1>3, <1>4 DEF All, CaptureTypes, ReaderReads

-----------------------------------------------------------------------------

LEMMA InitCaptureInv == Init => CaptureInv
  <1> SUFFICES ASSUME Init PROVE CaptureInv
    OBVIOUS
  <1>1. All = << >> /\ << >> \in Seq(Chunks)
    BY EmptySeq, ConcatEmptySeq DEF Init, All
  <1>2. CaptureTypes /\ MutexInv
    BY <1>1, CaptureAssumption DEF Init, CaptureTypes, MutexInv
  <1>3. WholeFrames(All) /\ EndInv
    BY <1>1 DEF Init, WholeFrames, EndInv
  <1> QED
    BY <1>2, <1>3 DEF CaptureInv

\* A chunk of the frame of a thread is a chunk, and its data fits its header.
LEMMA ChunkOfFrame ==
    ASSUME CaptureTypes, NEW w \in Writers
    PROVE  /\ Chunk("header", frame[w]) \in Chunks
           /\ Chunk("data", frame[w]) \in Chunks
           /\ Chunk("data", frame[w])
                 = [Chunk("header", frame[w]) EXCEPT !.part = "data"]
           /\ Chunk("header", frame[w]).part = "header"
  <1>1. frame[w].number \in Nat /\ frame[w].length \in Nat
    BY DEF CaptureTypes
  <1> QED
    BY <1>1 DEF Chunk, Chunks

LEMMA WriterKeepsCaptureInv ==
    ASSUME CaptureInv, NEW w \in Writers,
           WriterStep(w) \/ \E n \in Lengths : Begin(w, n)
    PROVE  CaptureInv'
  <1> USE DEF CaptureInv, Goes
  <1>1. ASSUME NEW n \in Lengths, Begin(w, n) PROVE CaptureInv'
    <2>1. All' = All
      BY <1>1 DEF Begin, All
    <2>2. CaptureTypes' /\ MutexInv'
      BY <1>1, CaptureAssumption DEF Begin, CaptureTypes, MutexInv
    <2>3. EndInv'
      BY <1>1, <2>1 DEF Begin, EndInv, CaptureTypes
    <2> QED
      BY <2>1, <2>2, <2>3
  <1>2. CASE Lock(w)
    <2>1. All' = All
      BY <1>2 DEF Lock, All
    <2>2. CaptureTypes' /\ MutexInv'
      BY <1>2, CaptureAssumption DEF Lock, CaptureTypes, MutexInv
    <2>3. EndInv'
      BY <1>2, <2>1 DEF Lock, EndInv, CaptureTypes
    <2> QED
      BY <2>1, <2>2, <2>3
  <1>3. CASE WriteHeader(w)
    <2> DEFINE c == Chunk("header", frame[w])
    <2>1. c \in Chunks /\ c.part = "header"
      BY ChunkOfFrame
    <2>2. MutexInv' /\ \A v \in Writers \ {w} : at'[v] = at[v] /\ at[v] # "data"
      BY <1>3 DEF WriteHeader, CaptureTypes, MutexInv
    <2>3. at'[w] = "data" /\ UNCHANGED <<frame, frames, stream, reader>>
      BY <1>3 DEF WriteHeader, CaptureTypes
    <2>4. CASE reader = "gone"
      <3>1. All' = All /\ CaptureTypes'
        BY <1>3, <2>4 DEF WriteHeader, Write, All, CaptureTypes
      <3> QED
        BY <2>2, <2>3, <2>4, <3>1 DEF EndInv
    <2>5. CASE reader # "gone"
      <3>1. buffer' = Append(buffer, c)
        BY <1>3, <2>5 DEF WriteHeader, Write
      <3>2. All' = Append(All, c) /\ All \in Seq(Chunks)
        BY <2>1, <2>3, <3>1, WrittenAtEnd, ConcatProperties
           DEF CaptureTypes, All
      <3>3. CaptureTypes'
        BY <1>3, <2>1, <3>1, AppendProperties DEF WriteHeader, CaptureTypes
      <3>4. Len(All) % 2 = 0
        BY <1>3, <2>2, <2>5 DEF WriteHeader, EndInv
      <3>5. WholeFrames(All')
        BY <2>1, <3>2, <3>4, AppendedHeader
      <3>6. Len(All') = Len(All) + 1 /\ All'[Len(All')] = c /\ Len(All) \in Nat
        BY <2>1, <3>2, AppendProperties, LenProperties
      <3>7. EndInv'
        BY <2>3, <3>4, <3>6 DEF EndInv
      <3> QED
        BY <2>2, <3>3, <3>5, <3>7
    <2> QED
      BY <2>4, <2>5
  <1>4. CASE WriteData(w)
    <2> DEFINE c == Chunk("data", frame[w])
    <2>1. c \in Chunks /\ c = [Chunk("header", frame[w]) EXCEPT !.part = "data"]
      BY ChunkOfFrame
    <2>2. \A v \in Writers : at[v] = "data" => v = w
      BY <1>4 DEF WriteData, MutexInv
    <2>3. MutexInv' /\ \A v \in Writers : at'[v] # "data"
      BY <1>4, <2>2, CaptureAssumption DEF WriteData, CaptureTypes, MutexInv
    <2>4. CASE reader = "gone"
      <3>1. All' = All /\ CaptureTypes' /\ UNCHANGED reader
        BY <1>4, <2>4 DEF WriteData, Write, All, CaptureTypes
      <3> QED
        BY <2>3, <2>4, <3>1 DEF EndInv
    <2>5. CASE reader # "gone"
      <3>1. buffer' = Append(buffer, c) /\ UNCHANGED stream
        BY <1>4, <2>5 DEF WriteData, Write
      <3>2. All' = Append(All, c) /\ All \in Seq(Chunks)
        BY <2>1, <3>1, WrittenAtEnd, ConcatProperties DEF CaptureTypes, All
      <3>3. CaptureTypes'
        BY <1>4, <2>1, <3>1, AppendProperties DEF WriteData, CaptureTypes
      <3>4. Len(All) % 2 = 1 /\ All[Len(All)] = Chunk("header", frame[w])
        BY <1>4, <2>2, <2>5 DEF WriteData, EndInv
      <3>5. WholeFrames(All')
        BY <2>1, <3>2, <3>4, AppendedData
      <3>6. Len(All') = Len(All) + 1 /\ Len(All) \in Nat
        BY <2>1, <3>2, AppendProperties, LenProperties
      <3>7. EndInv'
        BY <2>3, <3>4, <3>6 DEF EndInv
      <3> QED
        BY <2>3, <3>3, <3>5, <3>7
    <2> QED
      BY <2>4, <2>5
  <1> QED
    BY <1>1, <1>2, <1>3, <1>4 DEF WriterStep

LEMMA ReaderKeepsCaptureInv ==
    ASSUME CaptureInv, Connect \/ ReaderReads \/ ReaderGoes
    PROVE  CaptureInv'
  <1> USE DEF CaptureInv
  <1>1. CASE Connect
    <2>1. All' = All
      BY <1>1 DEF Connect, All
    <2>2. CaptureTypes' /\ MutexInv'
      BY <1>1 DEF Connect, CaptureTypes, MutexInv
    <2>3. EndInv'
      BY <1>1, <2>1 DEF Connect, CaptureTypes, EndInv
    <2> QED
      BY <2>1, <2>2, <2>3
  <1>2. CASE ReaderReads
    <2>1. All' = All /\ CaptureTypes'
      BY <1>2, ReadKeepsAll
    <2> QED
      BY <1>2, <2>1 DEF ReaderReads, MutexInv, EndInv
  <1>3. CASE ReaderGoes
    <2>1. All' = stream
      BY <1>3, ConcatEmptySeq DEF ReaderGoes, All, CaptureTypes
    <2>2. CaptureTypes' /\ MutexInv' /\ EndInv'
      BY <1>3, EmptySeq DEF ReaderGoes, CaptureTypes, MutexInv, EndInv
    <2> QED
      BY <2>1, <2>2, ReadPrefix
  <1> QED
    BY <1>1, <1>2, <1>3

\* The capture never leaves the inductive invariant.
THEOREM CaptureInvariant == Spec => []CaptureInv
  <1>1. CaptureInv /\ [Next]_vars => CaptureInv'
    <2> SUFFICES ASSUME CaptureInv, [Next]_vars PROVE CaptureInv'
      OBVIOUS
    <2>1. CASE UNCHANGED vars
      BY <2>1 DEF vars, CaptureInv, CaptureTypes, MutexInv, EndInv, All
    <2>2. CASE Next
      BY <2>2, WriterKeepsCaptureInv, ReaderKeepsCaptureInv DEF Next
    <2> QED
      BY <2>1, <2>2
  <1> QED
    BY <1>1, InitCaptureInv, PTL DEF Spec

\* What is read, and what waits to be, is one frame after the other, each with
\* the header of its own packet, also after the reader went away half way.
THEOREM FramesStayWhole == Spec => []FramesAreWhole
  <1>1. CaptureInv => FramesAreWhole
    BY DEF CaptureInv, WholeFrames, InItsPlace, All, FramesAreWhole
  <1> QED
    BY <1>1, CaptureInvariant, PTL
=============================================================================
