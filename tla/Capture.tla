------------------------------- MODULE Capture -------------------------------
(***************************************************************************)
(* Packet capture (capture.rs): the threads of the radios and of the USB   *)
(* connections write what they send and receive to one socket, a header    *)
(* and the packet at a time, under a mutex.  Fields of the header other    *)
(* than the length are left out.                                           *)
(*                                                                         *)
(* The socket and its reader are external: a write blocks while the buffer *)
(* is full and fails once the reader has gone.                             *)
(***************************************************************************)
EXTENDS Integers, Sequences

CONSTANTS
    Writers,    \* the threads
    NoWriter,
    Lengths,    \* lengths of packets
    Room,       \* writes the buffer of the socket has room for
    MaxFrames   \* bound: packets captured

ASSUME CaptureAssumption ==
    /\ NoWriter \notin Writers
    /\ Lengths \subseteq Nat
    /\ Room \in Nat \ {0}

VARIABLES
    at,      \* where a thread is in send_packet()
    frame,   \* the packet it captures
    frames,  \* packets captured so far
    mutex,   \* the owner of the mutex around the socket
    socket,  \* CAPTURE_SOCKET: "unset" or "set"
    reader,  \* the other end: "absent", "reads" or "gone"
    buffer,  \* what has been written and not yet read
    stream   \* history: what has been read

vars == <<at, frame, frames, mutex, socket, reader, buffer, stream>>

Init ==
    /\ at = [w \in Writers |-> "idle"]
    /\ frame = [w \in Writers |-> [number |-> 0, length |-> 0]]
    /\ frames = 0
    /\ mutex = NoWriter
    /\ socket = "unset"
    /\ reader = "absent"
    /\ buffer = << >>
    /\ stream = << >>

Goes(w, place) == at' = [at EXCEPT ![w] = place]

-----------------------------------------------------------------------------

\* init() while somebody listens; otherwise it does nothing.
Connect ==
    /\ socket = "unset"
    /\ socket' = "set"
    /\ reader' = "reads"
    /\ UNCHANGED <<at, frame, frames, mutex, buffer, stream>>

\* send_packet(); without a socket it returns at once.
Begin(w, length) ==
    /\ at[w] = "idle"
    /\ frames < MaxFrames
    /\ frames' = frames + 1
    /\ frame' = [frame EXCEPT ![w] = [number |-> frames', length |-> length]]
    /\ Goes(w, IF socket = "set" THEN "lock" ELSE "idle")
    /\ UNCHANGED <<mutex, socket, reader, buffer, stream>>

Lock(w) ==
    /\ at[w] = "lock" /\ mutex = NoWriter
    /\ mutex' = w
    /\ Goes(w, "header")
    /\ UNCHANGED <<frame, frames, socket, reader, buffer, stream>>

\* write_all(): it blocks while the buffer is full, and an error is ignored.
\* Faulty form: an error is tried again.
CanWriteWhenRead == reader = "reads" /\ Len(buffer) < Room
CanWrite == reader = "gone" \/ Len(buffer) < Room

Chunk(part, f) == [part |-> part, number |-> f.number, length |-> f.length]

Write(chunk) ==
    /\ CanWrite
    /\ buffer' = IF reader = "gone" THEN buffer ELSE Append(buffer, chunk)

\* Faulty form: header and data are written under a lock of their own.
WriteHeaderUnlocking(w) ==
    /\ at[w] = "header"
    /\ Write(Chunk("header", frame[w]))
    /\ mutex' = NoWriter
    /\ Goes(w, "data")
    /\ UNCHANGED <<frame, frames, socket, reader, stream>>
WriteHeader(w) ==
    /\ at[w] = "header"
    /\ Write(Chunk("header", frame[w]))
    /\ Goes(w, "data")
    /\ UNCHANGED <<frame, frames, mutex, socket, reader, stream>>

WriteData(w) ==
    /\ at[w] = "data"
    /\ Write(Chunk("data", frame[w]))
    /\ mutex' = NoWriter
    /\ Goes(w, "idle")
    /\ UNCHANGED <<frame, frames, socket, reader, stream>>

-----------------------------------------------------------------------------
(* The reader (external) *)

ReaderReads ==
    /\ reader = "reads" /\ buffer # << >>
    /\ stream' = Append(stream, Head(buffer))
    /\ buffer' = Tail(buffer)
    /\ UNCHANGED <<at, frame, frames, mutex, socket, reader>>

ReaderGoes ==
    /\ reader = "reads"
    /\ reader' = "gone"
    /\ buffer' = << >>
    /\ UNCHANGED <<at, frame, frames, mutex, socket, stream>>

WriterStep(w) == Lock(w) \/ WriteHeader(w) \/ WriteData(w)

Next ==
    \/ Connect
    \/ \E w \in Writers : WriterStep(w) \/ \E n \in Lengths : Begin(w, n)
    \/ ReaderReads \/ ReaderGoes

Spec == Init /\ [][Next]_vars

\* The threads run, one that waits for the mutex gets it in the end, and the
\* reader reads for as long as it is there: a reader that stops reading
\* without closing blocks every link.
FairSpec ==
    /\ Spec
    /\ WF_vars(ReaderReads)
    /\ \A w \in Writers : WF_vars(WriterStep(w)) /\ SF_vars(Lock(w))

-----------------------------------------------------------------------------
(* Properties *)

Chunks == [part : {"header", "data"}, number : Nat, length : Nat]

\* Every variable stays in the set of values the code gives it, and the mutex
\* is held exactly while a frame is written.
TypeOK ==
    /\ at \in [Writers -> {"idle", "lock", "header", "data"}]
    /\ frame \in [Writers -> [number : Nat, length : Nat]]
    /\ frames \in Nat
    /\ mutex \in Writers \cup {NoWriter}
    /\ socket \in {"unset", "set"}
    /\ reader \in {"absent", "reads", "gone"}
    /\ buffer \in Seq(Chunks) /\ stream \in Seq(Chunks)
    /\ \A w \in Writers : at[w] \in {"header", "data"} <=> mutex = w

\* What is read is one frame after the other (lib.rs:82-94): a header, then
\* the packet it announces, never one of another thread.
FramesAreWhole ==
    LET all == stream \o buffer
    IN  \A i \in DOMAIN all :
          IF i % 2 = 1 THEN all[i].part = "header"
          ELSE all[i] = [all[i - 1] EXCEPT !.part = "data"]

\* A thread that captures a packet goes on with its link, also when the reader
\* goes away half way through a frame.
CaptureEnds == \A w \in Writers : (at[w] # "idle") ~> (at[w] = "idle")
=============================================================================
