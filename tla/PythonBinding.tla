---------------------------- MODULE PythonBinding ----------------------------
(***************************************************************************)
(* The Python binding (python-binding/src/lib.rs): Python threads that     *)
(* share a context and a Connection object, with the interpreter lock      *)
(* (GIL), the RwLock around the connection and the blocking calls into the *)
(* runtime.  send_packet() and receive_packet() let the GIL go; open_link, *)
(* the scans and close() keep it.                                          *)
(*                                                                         *)
(* The interpreter and the RwLock are external.  Any waiting thread may    *)
(* get the GIL; a new reader may or may not wait behind a waiting writer.  *)
(* The link underneath is RadioConnection or UsbConnection: it may end at  *)
(* any time, a receive ends by its timeout, and close() returns.           *)
(***************************************************************************)
EXTENDS Naturals, FiniteSets

CONSTANTS
    Threads,   \* the Python threads
    NoThread

ASSUME ThreadsAssumption == NoThread \notin Threads

VARIABLES
    at,      \* where a thread is
    begun,   \* what the Option held when its call began
    result,  \* what its last call returned
    gil,     \* the thread that holds the GIL
    writer,  \* the thread that holds the RwLock for writing
    option,  \* what the RwLock holds: "some" connection or "none"
    link     \* the connection: "up", "ended" or "closed"

vars == <<at, begun, result, gil, writer, option, link>>

Places ==
    {"waits",    \* Python code that wants the GIL
     "python",   \* Python code
     "blocks",   \* open_link() or a scan, in block_on with the GIL
     "read",     \* about to lock for reading, without the GIL
     "io",       \* sending or receiving, locked for reading
     "back",     \* about to return: wants the GIL
     "write",    \* close(): about to lock for writing, with the GIL
     "closing"}  \* close(): in block_on, with the GIL and the lock

Init ==
    /\ at = [t \in Threads |-> "waits"]
    /\ begun = [t \in Threads |-> "some"]
    /\ result = [t \in Threads |-> "none"]
    /\ gil = NoThread
    /\ writer = NoThread
    /\ option = "some"
    /\ link = "up"

Goes(t, place) == at' = [at EXCEPT ![t] = place]

\* The guard of a reader is dropped with the closure of allow_threads, before
\* the GIL is taken again.
Readers == {t \in Threads : at[t] = "io"}

-----------------------------------------------------------------------------
(* The interpreter (external) *)

TakeGil(t) ==
    /\ at[t] \in {"waits", "back"}
    /\ gil = NoThread
    /\ gil' = t
    /\ Goes(t, "python")
    /\ UNCHANGED <<begun, result, writer, option, link>>

\* Python code lets another thread run.
YieldGil(t) ==
    /\ at[t] = "python"
    /\ gil' = NoThread
    /\ Goes(t, "waits")
    /\ UNCHANGED <<begun, result, writer, option, link>>

-----------------------------------------------------------------------------
(* Calls *)

\* open_link(), scan() or scan_selected()
CallContext(t) ==
    /\ at[t] = "python"
    /\ Goes(t, "blocks")
    /\ UNCHANGED <<begun, result, gil, writer, option, link>>

ContextReturns(t) ==
    /\ at[t] = "blocks"
    /\ Goes(t, "python")
    /\ UNCHANGED <<begun, result, gil, writer, option, link>>

\* send_packet() or receive_packet()
CallIo(t) ==
    /\ at[t] = "python"
    /\ gil' = NoThread
    /\ Goes(t, "read")
    /\ begun' = [begun EXCEPT ![t] = option]
    /\ result' = [result EXCEPT ![t] = "none"]
    /\ UNCHANGED <<writer, option, link>>

\* Faulty form: the connection is used although it has been taken out.
ReadUnchecked(t) ==
    /\ at[t] = "read" /\ writer = NoThread
    /\ Goes(t, "io")
    /\ UNCHANGED <<begun, result, gil, writer, option, link>>
Read(t) ==
    /\ at[t] = "read" /\ writer = NoThread
    /\ IF option = "some"
         THEN Goes(t, "io") /\ UNCHANGED result
         ELSE Goes(t, "back") /\ result' = [result EXCEPT ![t] = "Link closed"]
    /\ UNCHANGED <<begun, gil, writer, option, link>>

\* A packet is sent, or received: also one that was queued before the link
\* ended.  Without one receive_packet() times out.  Packet::from panics on an
\* empty one: the guard of a reader goes with it and poisons nothing.
\* Faulty form: it waits for as long as the link is up.
IoWithoutTimeout(t) ==
    /\ at[t] = "io" /\ link # "up"
    /\ Goes(t, "back")
    /\ result' = [result EXCEPT ![t] = "Link closed"]
    /\ UNCHANGED <<begun, gil, writer, option, link>>
IoDone(t) ==
    /\ at[t] = "io"
    /\ Goes(t, "back")
    /\ \/ \E r \in {"ok", "timeout", "panic"} :
             result' = [result EXCEPT ![t] = r]
       \/ link # "up" /\ result' = [result EXCEPT ![t] = "Link closed"]
    /\ UNCHANGED <<begun, gil, writer, option, link>>

CallClose(t) ==
    /\ at[t] = "python"
    /\ Goes(t, "write")
    /\ UNCHANGED <<begun, result, gil, writer, option, link>>

\* take(): the guard is held until the connection is closed and dropped.
\* Faulty form: it is taken without waiting for those who use it.
WriteRegardless(t) ==
    /\ at[t] = "write" /\ writer = NoThread
    /\ writer' = t
    /\ option' = "none"
    /\ Goes(t, IF option = "some" THEN "closing" ELSE "python")
    /\ UNCHANGED <<begun, result, gil, link>>
Write(t) ==
    /\ at[t] = "write" /\ writer = NoThread /\ Readers = {}
    /\ IF option = "some"
         THEN writer' = t /\ option' = "none" /\ Goes(t, "closing")
         ELSE Goes(t, "python") /\ UNCHANGED <<writer, option>>
    /\ UNCHANGED <<begun, result, gil, link>>

CloseReturns(t) ==
    /\ at[t] = "closing"
    /\ link' = "closed"
    /\ writer' = NoThread
    /\ Goes(t, "python")
    /\ UNCHANGED <<begun, result, gil, option>>

\* A timeout, or a radio that fails.
LinkEnds ==
    /\ link = "up"
    /\ link' = "ended"
    /\ UNCHANGED <<at, begun, result, gil, writer, option>>

CallStep(t) ==
    \/ ContextReturns(t)
    \/ Read(t) \/ IoDone(t)
    \/ Write(t) \/ CloseReturns(t)

Next ==
    \/ \E t \in Threads : \/ TakeGil(t) \/ YieldGil(t)
                          \/ CallContext(t) \/ CallIo(t) \/ CallClose(t)
                          \/ CallStep(t)
    \/ LinkEnds

Spec == Init /\ [][Next]_vars

(***************************************************************************)
(* A blocking call ends, a thread that can lock does, Python code lets     *)
(* another thread run now and then, and a thread that wants the GIL again  *)
(* and again gets it.  Nothing makes a thread call.                        *)
(***************************************************************************)
FairSpec ==
    /\ Spec
    /\ \A t \in Threads :
          WF_vars(CallStep(t)) /\ SF_vars(YieldGil(t)) /\ SF_vars(TakeGil(t))

-----------------------------------------------------------------------------
(* Properties *)

\* Every variable stays in the set of values the code gives it, and the thread
\* that runs Python code, or keeps the GIL in a call, is the one that has it.
TypeOK ==
    /\ at \in [Threads -> Places]
    /\ begun \in [Threads -> {"some", "none"}]
    /\ result \in
          [Threads -> {"none", "ok", "timeout", "panic", "Link closed"}]
    /\ gil \in Threads \cup {NoThread}
    /\ writer \in Threads \cup {NoThread}
    /\ option \in {"some", "none"}
    /\ link \in {"up", "ended", "closed"}
    /\ \A t \in Threads :
          at[t] \in {"python", "blocks", "write", "closing"} <=> gil = t

\* close() has the connection to itself: no other thread is sending or
\* receiving on it while it is closed and dropped, or afterwards.
CloseIsExclusive == (writer # NoThread \/ link = "closed") => Readers = {}

\* A call that begins after close() has taken the connection is told that the
\* link is closed; it never sends, receives or waits for its timeout.
ClosedForAll ==
    \A t \in Threads :
        begun[t] = "none" => result[t] \in {"none", "Link closed"}

\* Every call returns to Python, also when one thread closes the connection
\* that others are receiving on: the GIL and the lock never wait for each
\* other, and readers cannot keep close() out for ever.
CallsReturn == \A t \in Threads : (at[t] # "python") ~> (at[t] = "python")
=============================================================================
