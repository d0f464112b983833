------------------------ MODULE PythonBinding_proofs ------------------------
(***************************************************************************)
(* Theorems about PythonBinding, for every set of threads.                 *)
(***************************************************************************)
EXTENDS PythonBinding, TLAPS

(***************************************************************************)
(* The inductive invariant.  The Option is emptied once, by the writer and *)
(* with no reader about; from then on Read() turns everybody away, so that *)
(* there is no reader again although the lock is let go.                   *)
(***************************************************************************)
TakenInv ==
    /\ writer # NoThread => option = "none"
    /\ link = "closed" => option = "none"
    /\ \A t \in Threads :
          /\ at[t] = "closing" => option = "none"
          /\ option = "none" => at[t] # "io"

BegunInv ==
    \A t \in Threads : begun[t] = "none" => option = "none"

BindingInv == TypeOK /\ TakenInv /\ BegunInv /\ ClosedForAll

-----------------------------------------------------------------------------

LEMMA InitBindingInv == Init => BindingInv
  BY ThreadsAssumption
     DEF Init, BindingInv, TypeOK, Places, TakenInv, BegunInv, ClosedForAll

\* One step of one thread.
LEMMA ThreadKeepsBindingInv ==
    ASSUME BindingInv, NEW t \in Threads,
           \/ TakeGil(t) \/ YieldGil(t)
           \/ CallContext(t) \/ CallIo(t) \/ CallClose(t)
           \/ CallStep(t)
    PROVE  BindingInv'
  <1> USE ThreadsAssumption
      DEF BindingInv, TypeOK, Places, TakenInv, BegunInv, ClosedForAll, Goes
  <1>1. CASE TakeGil(t)
    BY <1>1 DEF TakeGil
  <1>2. CASE YieldGil(t)
    BY <1>2 DEF YieldGil
  <1>3. CASE CallContext(t)
    BY <1>3 DEF CallContext
  <1>4. CASE CallIo(t)
    BY <1>4 DEF CallIo
  <1>5. CASE CallClose(t)
    BY <1>5 DEF CallClose
  <1>6. CASE ContextReturns(t)
    BY <1>6 DEF ContextReturns
  <1>7. CASE Read(t)
    <2>1. CASE option = "some"
      BY <1>7, <2>1 DEF Read
    <2>2. CASE option = "none"
      <3>1. TypeOK'
        BY <1>7, <2>2 DEF Read
      <3>2. TakenInv' /\ BegunInv' /\ ClosedForAll'
        BY <1>7, <2>2 DEF Read
      <3> QED
        BY <3>1, <3>2
    <2> QED
      BY <2>1, <2>2
  <1>8. CASE IoDone(t)
    <2>1. TypeOK'
      BY <1>8 DEF IoDone
    <2>2. TakenInv' /\ BegunInv' /\ ClosedForAll'
      BY <1>8 DEF IoDone
    <2> QED
      BY <2>1, <2>2
  <1>9. CASE Write(t)
    <2>1. CASE option = "some"
      <3>1. TypeOK'
        <4>1. at' = [at EXCEPT ![t] = "closing"] /\ gil' = gil
          BY <1>9, <2>1 DEF Write
        <4>2. \A u \in Threads :
                 at'[u] \in {"python", "blocks", "write", "closing"} <=> gil' = u
          BY <1>9, <4>1 DEF Write
        <4> QED
          BY <1>9, <2>1, <4>1, <4>2 DEF Write
      <3>2. TakenInv'
        <4>1. \A u \in Threads : at[u] # "io"
          BY <1>9 DEF Write, Readers
        <4> QED
          BY <1>9, <2>1, <4>1 DEF Write
      <3>3. BegunInv' /\ ClosedForAll'
        BY <1>9, <2>1 DEF Write
      <3> QED
        BY <3>1, <3>2, <3>3
    <2>2. CASE option = "none"
      BY <1>9, <2>2 DEF Write
    <2> QED
      BY <2>1, <2>2
  <1>10. CASE CloseReturns(t)
    BY <1>10 DEF CloseReturns
  <1> QED
    BY <1>1, <1>2, <1>3, <1>4, <1>5, <1>6, <1>7, <1>8, <1>9, <1>10
       DEF CallStep

LEMMA NextKeepsBindingInv == BindingInv /\ [Next]_vars => BindingInv'
  <1> SUFFICES ASSUME BindingInv, [Next]_vars PROVE BindingInv'
    OBVIOUS
  <1>1. CASE LinkEnds
    BY <1>1 DEF LinkEnds, BindingInv, TypeOK, TakenInv, BegunInv, ClosedForAll
  <1>2. CASE UNCHANGED vars
    BY <1>2 DEF vars, BindingInv, TypeOK, TakenInv, BegunInv, ClosedForAll
  <1> QED
    BY <1>1, <1>2, ThreadKeepsBindingInv DEF Next

\* The binding never leaves the inductive invariant.
THEOREM BindingInvariant == Spec => []BindingInv
  BY InitBindingInv, NextKeepsBindingInv, PTL DEF Spec

\* close() has the connection to itself, while it closes it and afterwards.
THEOREM CloseAlone == Spec => []CloseIsExclusive
  <1>1. BindingInv => CloseIsExclusive
    BY DEF BindingInv, TakenInv, CloseIsExclusive, Readers
  <1> QED
    BY <1>1, BindingInvariant, PTL

\* A call that begins after close() has taken the connection is told so.
THEOREM LaterCallsAreTold == Spec => []ClosedForAll
  <1>1. BindingInv => ClosedForAll
    BY DEF BindingInv
  <1> QED
    BY <1>1, BindingInvariant, PTL
=============================================================================
