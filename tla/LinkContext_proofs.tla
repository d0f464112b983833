------------------------- MODULE LinkContext_proofs -------------------------
(***************************************************************************)
(* Theorems about LinkContext, for every set of callers and of URIs.       *)
(***************************************************************************)
EXTENDS LinkContext, SequenceTheorems, TLAPS

USE DEF callVars, tableVars

(***************************************************************************)
(* The inductive invariant.  A caller that opens a dongle has the mutex,   *)
(* and without the mutex nobody gets a share: the entry stays as dead as   *)
(* the caller found it.  An entry with users is one that was filled, so    *)
(* get_radio() never takes a live entry for a dead one.                    *)
(***************************************************************************)
ContextTypes ==
    /\ call \in [Callers -> Calls \cup {"none"}]
    /\ at \in [Callers -> Places]
    /\ todo \in [Callers -> Seq(Uris)]
    /\ want \in [Callers -> Radios \cup {NoRadio}]
    /\ uses \in [Callers -> Radios \cup {NoRadio}]
    /\ lock \in Callers \cup {NoCaller}
    /\ opened \subseteq Radios
    /\ device \in [Radios -> {"free", "held", "absent"}]
    /\ lost \in [Radios -> BOOLEAN]

OpeningInv ==
    \A c \in Callers :
        /\ at[c] \in {"table", "opening"} => want[c] \in Radios
        /\ at[c] = "opening" =>
              lock = c /\ \A d \in Callers : uses[d] # want[c]

\* scan_selected() is at a URI of its list.
TodoInv ==
    \A c \in Callers :
        call[c] = "scan_selected" /\ at[c] \in {"table", "opening", "radio"}
            => todo[c] # << >>

ShareInv ==
    \A c \in Callers :
        uses[c] # NoRadio =>
            /\ uses[c] \in opened
            /\ device[uses[c]] = "held" \/ lost[uses[c]]

ContextInv == ContextTypes /\ OpeningInv /\ TodoInv /\ ShareInv

-----------------------------------------------------------------------------

LEMMA InitContextInv == Init => ContextInv
  <1> SUFFICES ASSUME Init PROVE ContextInv
    OBVIOUS
  <1>1. ContextTypes
    BY ContextAssumption DEF Init, ContextTypes, Places
  <1>2. OpeningInv /\ TodoInv /\ ShareInv
    BY DEF Init, OpeningInv, TodoInv, ShareInv
  <1> QED
    BY <1>1, <1>2 DEF ContextInv

LEMMA RadioOfUri ==
    ASSUME NEW u \in Uris, RadioOutcome(u) = "ok"
    PROVE  u.host \in Radios
  <1>1. u.host \in Nat
    BY DEF RadioOutcome, ShapeParses
  <1> QED
    BY <1>1, ContextAssumption DEF Radios

\* The steps that are neither about the table nor about a share.
LEMMA CallKeepsContextInv ==
    ASSUME ContextInv, NEW c \in Callers,
           \/ \E f \in Calls, uris \in Lists \cup {<< >>} : Request(c, f, uris)
           \/ Parse(c) \/ Usb(c) \/ OpenFails(c)
    PROVE  ContextInv'
  <1>0. << >> \in Seq(Uris)
    BY EmptySeq
  <1> USE DEF ContextInv, Wants, Goes, Returns
  <1>1. ASSUME NEW f \in Calls, NEW uris \in Lists \cup {<< >>},
               Request(c, f, uris)
        PROVE  ContextInv'
    <2>1. uris \in Seq(Uris)
      <3>1. ASSUME NEW n \in 1..MaxUris, uris \in [1..n -> Uris]
            PROVE  uris \in Seq(Uris)
        BY <3>1, ContextAssumption, SeqDef
      <3> QED
        BY <3>1, EmptySeq DEF Lists
    <2>2. 0 \in Radios
      BY DEF Radios
    <2>3. at[c] = "idle"
      BY <1>1 DEF Request
    <2>4. \/ /\ at' = [at EXCEPT ![c] = "table"]
             /\ f # "scan_selected"
             /\ \E r \in Radios : want' = [want EXCEPT ![c] = r]
          \/ at' = [at EXCEPT ![c] = "parse"] /\ UNCHANGED want
      BY <1>1, <2>2 DEF Request
    <2>5. ContextTypes'
      <3>1. /\ call' = [call EXCEPT ![c] = f]
            /\ todo' = [todo EXCEPT ![c] = uris]
            /\ UNCHANGED <<uses, tableVars>>
        BY <1>1 DEF Request
      <3>2. call' \in [Callers -> Calls \cup {"none"}]
        BY <3>1 DEF ContextTypes
      <3>3. todo' \in [Callers -> Seq(Uris)]
        BY <2>1, <3>1 DEF ContextTypes
      <3>4. at' \in [Callers -> Places]
        BY <2>4 DEF ContextTypes, Places
      <3>5. want' \in [Callers -> Radios \cup {NoRadio}]
        BY <2>4 DEF ContextTypes
      <3> QED
        BY <3>1, <3>2, <3>3, <3>4, <3>5 DEF ContextTypes, tableVars
    <2>6. OpeningInv'
      BY <1>1, <2>4 DEF Request, OpeningInv, ContextTypes
    <2>7. TodoInv'
      BY <1>1, <2>4 DEF Request, TodoInv, ContextTypes
    <2>8. ShareInv'
      BY <1>1 DEF Request, ShareInv
    <2> QED
      BY <2>5, <2>6, <2>7, <2>8
  <1>2. CASE Parse(c)
    <2>1. ASSUME todo[c] # << >>, RadioOutcome(Head(todo[c])) = "ok"
          PROVE  Head(todo[c]).host \in Radios
      <3>1. Head(todo[c]) \in Uris
        BY <2>1 DEF ContextTypes
      <3> QED
        BY <2>1, <3>1, RadioOfUri
    <2>2. \/ /\ at' = [at EXCEPT ![c] = "table"]
             /\ \E r \in Radios : want' = [want EXCEPT ![c] = r]
             /\ todo[c] # << >> /\ UNCHANGED <<call, todo>>
          \/ at' = [at EXCEPT ![c] = "usb"] /\ UNCHANGED <<call, todo, want>>
          \/ /\ at' = [at EXCEPT ![c] = "idle"]
             /\ call' = [call EXCEPT ![c] = "none"]
             /\ todo' = [todo EXCEPT ![c] = << >>]
             /\ want' = [want EXCEPT ![c] = NoRadio]
      BY <1>2, <2>1 DEF Parse
    <2>3. UNCHANGED <<uses, tableVars>> /\ at[c] = "parse"
      BY <1>2 DEF Parse
    <2>4. ContextTypes'
      <3>1. /\ call' \in [Callers -> Calls \cup {"none"}]
            /\ at' \in [Callers -> Places]
        BY <2>2, <2>3 DEF ContextTypes, Places
      <3>2. want' \in [Callers -> Radios \cup {NoRadio}]
        BY <2>2, <2>3 DEF ContextTypes
      <3>3. todo' \in [Callers -> Seq(Uris)]
        BY <1>0, <2>2, <2>3 DEF ContextTypes
      <3> QED
        BY <2>2, <2>3, <3>1, <3>2, <3>3 DEF ContextTypes
    <2>5. OpeningInv' /\ ShareInv'
      BY <2>2, <2>3 DEF OpeningInv, ShareInv, ContextTypes
    <2>6. TodoInv'
      BY <2>2 DEF TodoInv, ContextTypes
    <2> QED
      BY <2>4, <2>5, <2>6
  <1>3. CASE Usb(c)
    <2>1. /\ at' = [at EXCEPT ![c] = "idle"]
          /\ call' = [call EXCEPT ![c] = "none"]
          /\ todo' = [todo EXCEPT ![c] = << >>]
          /\ want' = [want EXCEPT ![c] = NoRadio]
          /\ UNCHANGED <<uses, tableVars>>
      BY <1>3 DEF Usb
    <2>2. ContextTypes'
      <3>1. /\ call' \in [Callers -> Calls \cup {"none"}]
            /\ at' \in [Callers -> Places]
        BY <2>1 DEF ContextTypes, Places
      <3>2. want' \in [Callers -> Radios \cup {NoRadio}]
        BY <2>1 DEF ContextTypes
      <3>3. todo' \in [Callers -> Seq(Uris)]
        BY <1>0, <2>1 DEF ContextTypes
      <3> QED
        BY <2>1, <3>1, <3>2, <3>3 DEF ContextTypes
    <2>3. OpeningInv' /\ ShareInv'
      BY <2>1 DEF OpeningInv, ShareInv, ContextTypes
    <2>4. TodoInv'
      BY <2>1 DEF TodoInv, ContextTypes
    <2> QED
      BY <2>2, <2>3, <2>4
  <1>4. CASE OpenFails(c)
    <2>1. /\ \E place \in {"usb", "idle"} : at' = [at EXCEPT ![c] = place]
          /\ \/ UNCHANGED <<call, todo, want>>
             \/ /\ call' = [call EXCEPT ![c] = "none"]
                /\ todo' = [todo EXCEPT ![c] = << >>]
                /\ want' = [want EXCEPT ![c] = NoRadio]
          /\ lock' = NoCaller
          /\ at[c] = "opening"
          /\ UNCHANGED <<uses, opened, device, lost>>
      BY <1>4 DEF OpenFails
    <2>2. ContextTypes'
      <3>1. /\ call' \in [Callers -> Calls \cup {"none"}]
            /\ at' \in [Callers -> Places]
        BY <2>1 DEF ContextTypes, Places
      <3>2. want' \in [Callers -> Radios \cup {NoRadio}]
        BY <2>1 DEF ContextTypes
      <3>3. todo' \in [Callers -> Seq(Uris)]
        BY <1>0, <2>1 DEF ContextTypes
      <3> QED
        BY <2>1, <3>1, <3>2, <3>3 DEF ContextTypes
    <2>3. OpeningInv' /\ ShareInv'
      BY <2>1 DEF OpeningInv, ShareInv, ContextTypes
    <2>4. TodoInv'
      BY <2>1 DEF TodoInv, ContextTypes
    <2> QED
      BY <2>2, <2>3, <2>4
  <1> QED
    BY <1>1, <1>2, <1>3, <1>4

\* get_radio(): the mutex and the dongle.
LEMMA TableKeepsContextInv ==
    ASSUME ContextInv, NEW c \in Callers,
           Share(c) \/ Miss(c) \/ OpenSucceeds(c)
    PROVE  ContextInv'
  <1> USE DEF ContextInv, Goes
  <1>1. CASE Share(c)
    <2>1. want[c] \in Radios /\ want[c] # NoRadio
      BY <1>1, ContextAssumption DEF Share, OpeningInv
    <2>2. \E d \in Callers : uses[d] = want[c]
      BY <1>1 DEF Share, Alive, Users
    <2>3. \A d \in Callers : at[d] # "opening"
      BY <1>1, ContextAssumption DEF Share, OpeningInv
    <2>4. ContextTypes'
      BY <1>1, <2>1 DEF Share, ContextTypes, Places
    <2>5. OpeningInv'
      BY <1>1, <2>3 DEF Share, OpeningInv, ContextTypes
    <2>6. ShareInv'
      BY <1>1, <2>1, <2>2 DEF Share, ShareInv, ContextTypes
    <2>7. TodoInv'
      BY <1>1 DEF Share, TodoInv, ContextTypes
    <2> QED
      BY <2>4, <2>5, <2>6, <2>7
  <1>2. CASE Miss(c)
    <2>1. want[c] \in Radios /\ want[c] # NoRadio
      BY <1>2, ContextAssumption DEF Miss, OpeningInv
    <2>2. \A d \in Callers : uses[d] # want[c]
      BY <1>2, <2>1 DEF Miss, Alive, Users, ShareInv
    <2>3. \A d \in Callers : at[d] # "opening"
      BY <1>2, ContextAssumption DEF Miss, OpeningInv
    <2>4. ContextTypes'
      BY <1>2 DEF Miss, ContextTypes, Places
    <2>5. OpeningInv'
      BY <1>2, <2>1, <2>2, <2>3 DEF Miss, OpeningInv, ContextTypes
    <2>6. ShareInv'
      BY <1>2 DEF Miss, ShareInv
    <2>7. TodoInv'
      BY <1>2 DEF Miss, TodoInv, ContextTypes
    <2> QED
      BY <2>4, <2>5, <2>6, <2>7
  <1>3. CASE OpenSucceeds(c)
    <2>1. /\ want[c] \in Radios /\ want[c] # NoRadio
          /\ \A d \in Callers : uses[d] # want[c]
      BY <1>3, ContextAssumption DEF OpenSucceeds, OpeningInv
    <2>2. \A d \in Callers \ {c} : at[d] # "opening"
      BY <1>3 DEF OpenSucceeds, OpeningInv
    <2>3. ContextTypes'
      BY <1>3, <2>1 DEF OpenSucceeds, ContextTypes, Places
    <2>4. OpeningInv'
      BY <1>3, <2>2 DEF OpenSucceeds, OpeningInv, ContextTypes
    <2>5. ShareInv'
      BY <1>3, <2>1 DEF OpenSucceeds, ShareInv, ContextTypes
    <2>6. TodoInv'
      BY <1>3 DEF OpenSucceeds, TodoInv, ContextTypes
    <2> QED
      BY <2>3, <2>4, <2>5, <2>6
  <1> QED
    BY <1>1, <1>2, <1>3

\* What the steps that end the use of a share, or go on with it, have in
\* common: nobody gets one, and nobody comes to the table.
Retires(c) ==
    /\ \E place \in {"idle", "linked", "usb", "parse"} :
          at' = [at EXCEPT ![c] = place]
    /\ uses' = uses \/ uses' = [uses EXCEPT ![c] = NoRadio]
    /\ want' = want \/ want' = [want EXCEPT ![c] = NoRadio]
    /\ \/ UNCHANGED todo
       \/ \E uris \in Seq(Uris) : todo' = [todo EXCEPT ![c] = uris]
    /\ UNCHANGED call \/ call' = [call EXCEPT ![c] = "none"]
    /\ lock' = lock \/ (lock = c /\ lock' = NoCaller)
    /\ \/ UNCHANGED device
       \/ \E r \in Radios : device' = [device EXCEPT ![r] = "held"]
    /\ UNCHANGED <<opened, lost>>

LEMMA RetiringKeepsContextInv ==
    ASSUME ContextInv, NEW c \in Callers, Retires(c)
    PROVE  ContextInv'
  <1> USE DEF ContextInv, Retires
  <1>1. ContextTypes'
    <2>1. /\ call' \in [Callers -> Calls \cup {"none"}]
          /\ at' \in [Callers -> Places]
      BY DEF ContextTypes, Places
    <2>2. /\ want' \in [Callers -> Radios \cup {NoRadio}]
          /\ uses' \in [Callers -> Radios \cup {NoRadio}]
      BY DEF ContextTypes
    <2>3. todo' \in [Callers -> Seq(Uris)]
      BY DEF ContextTypes
    <2>4. device' \in [Radios -> {"free", "held", "absent"}]
      BY DEF ContextTypes
    <2> QED
      BY <2>1, <2>2, <2>3, <2>4 DEF ContextTypes
  <1>2. OpeningInv'
    BY ContextAssumption DEF OpeningInv, ContextTypes
  <1>3. TodoInv'
    BY DEF TodoInv, ContextTypes
  <1>4. ShareInv'
    BY DEF ShareInv, ContextTypes
  <1> QED
    BY <1>1, <1>2, <1>3, <1>4

LEMMA ShareKeepsContextInv ==
    ASSUME ContextInv, NEW c \in Callers,
           RadioDone(c) \/ RadioFails(c) \/ EndLink(c) \/ Cancel(c)
    PROVE  ContextInv'
  <1>1. << >> \in Seq(Uris)
    BY EmptySeq
  <1> USE DEF Goes, Returns, LetsGo, Retires
  <1>2. CASE RadioDone(c)
    <2>1. CASE call[c] = "scan_selected"
      <3>1. Tail(todo[c]) \in Seq(Uris)
        BY <1>2, <2>1 DEF RadioDone, ContextInv, ContextTypes, TodoInv
      <3> QED
        BY <1>2, <2>1, <3>1, RetiringKeepsContextInv DEF RadioDone
    <2>2. CASE call[c] # "scan_selected"
      BY <1>1, <1>2, <2>2, RetiringKeepsContextInv DEF RadioDone
    <2> QED
      BY <2>1, <2>2
  <1>3. CASE RadioFails(c)
    BY <1>1, <1>3, RetiringKeepsContextInv DEF RadioFails
  <1>4. CASE EndLink(c)
    BY <1>1, <1>4, RetiringKeepsContextInv DEF EndLink
  <1>5. CASE Cancel(c)
    <2>1. at[c] = "opening" => want[c] \in Radios
      BY DEF ContextInv, OpeningInv
    <2> QED
      BY <1>1, <1>5, <2>1, RetiringKeepsContextInv DEF Cancel
  <1> QED
    BY <1>2, <1>3, <1>4, <1>5

\* The dongles come and go.
LEMMA DongleKeepsContextInv ==
    ASSUME ContextInv, NEW r \in Radios, Plug(r) \/ Unplug(r) \/ Release(r)
    PROVE  ContextInv'
  <1> USE DEF ContextInv
  <1>1. CASE Plug(r)
    BY <1>1 DEF Plug, ContextTypes, OpeningInv, TodoInv, ShareInv
  <1>2. CASE Unplug(r)
    <2>1. ContextTypes' /\ OpeningInv' /\ TodoInv'
      BY <1>2 DEF Unplug, Alive, ContextTypes, OpeningInv, TodoInv
    <2>2. ASSUME NEW c \in Callers, uses[c] = r PROVE Alive(r)
      BY <2>2, ContextAssumption DEF Alive, Users, ShareInv
    <2>3. ShareInv'
      BY <1>2, <2>2 DEF Unplug, ShareInv, ContextTypes
    <2> QED
      BY <2>1, <2>3
  <1>3. CASE Release(r)
    BY <1>3 DEF Release, Users, ContextTypes, OpeningInv, TodoInv, ShareInv
  <1> QED
    BY <1>1, <1>2, <1>3

\* The context never leaves the inductive invariant.
THEOREM ContextInvariant == Spec => []ContextInv
  <1>1. ContextInv /\ [Next]_vars => ContextInv'
    <2> SUFFICES ASSUME ContextInv, [Next]_vars PROVE ContextInv'
      OBVIOUS
    <2>1. CASE UNCHANGED vars
      BY <2>1 DEF vars, ContextInv, ContextTypes, OpeningInv, TodoInv,
                  ShareInv
    <2>2. CASE Next
      BY <2>2, CallKeepsContextInv, TableKeepsContextInv, ShareKeepsContextInv,
         DongleKeepsContextInv DEF Next, CallStep
    <2> QED
      BY <2>1, <2>2
  <1> QED
    BY <1>1, InitContextInv, PTL DEF Spec

\* Two callers that want the same radio never open it twice.
THEOREM NeverOpenedTwice == Spec => []OpenedOnce
  <1>1. ContextInv => OpenedOnce
    BY DEF ContextInv, OpeningInv, OpenedOnce, Users
  <1> QED
    BY <1>1, ContextInvariant, PTL

\* Nobody goes on with a radio that has been released under it.
THEOREM NeverReleasedInUse == Spec => []SharesAreOfHeld
  <1>1. ContextInv => SharesAreOfHeld
    BY DEF ContextInv, ShareInv, SharesAreOfHeld
  <1> QED
    BY <1>1, ContextInvariant, PTL
=============================================================================
