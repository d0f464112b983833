---------------------------- MODULE UsbBus_proofs ----------------------------
(***************************************************************************)
(* Theorems about UsbBus, for every bus, order of its devices and number   *)
(* of sessions.                                                            *)
(***************************************************************************)
EXTENDS UsbBus, TLAPS

USE DEF sessionVars, deviceVars

(***************************************************************************)
(* The inductive invariant: who reads a device, or talks to it, has its    *)
(* claim, and there is one claim for a device.                             *)
(***************************************************************************)
ClaimInv ==
    \A s \in Sessions :
        /\ at[s] = "read" => AtDevice(s) /\ claim[Device(s)] = s
        /\ Talks(s) => claim[wanted[s]] = s

BusInv == TypeOK /\ ClaimInv /\ ClaimsAreUsed /\ LeftInRadioMode

-----------------------------------------------------------------------------

\* The device that a search has come to is a Crazyflie.
LEMMA DeviceIsCrazyflie ==
    ASSUME TypeOK, NEW s \in Sessions, AtDevice(s)
    PROVE  /\ Device(s) \in Crazyflies
           /\ seen[s] \in 1..Len(Order)
           /\ seen[s] + 1 \in 1..Len(Order) + 1
  <1>1. seen[s] \in 1..Len(Order)
    BY BusAssumption DEF TypeOK, AtDevice
  <1> QED
    BY <1>1, BusAssumption DEF Device

LEMMA InitBusInv == Init => BusInv
  <1> SUFFICES ASSUME Init PROVE BusInv
    OBVIOUS
  <1> USE BusAssumption DEF Init
  <1>1. TypeOK
    BY DEF TypeOK, Places, WaysBack
  <1>2. ClaimInv /\ ClaimsAreUsed /\ LeftInRadioMode
    BY DEF ClaimInv, Talks, ClaimsAreUsed, LeftInRadioMode
  <1> QED
    BY <1>1, <1>2 DEF BusInv

\* The steps of a search.
LEMMA SearchKeepsBusInv ==
    ASSUME BusInv, NEW s \in Sessions, SearchStep(s)
    PROVE  BusInv'
  <1> USE DEF BusInv, Goes
  <1>1. CASE Claim(s)
    <2>1. TypeOK'
      BY <1>1, DeviceIsCrazyflie
         DEF Claim, DropsClaim, Disturbed, TypeOK, Places
    <2>2. ClaimInv'
      <3> SUFFICES ASSUME NEW t \in Sessions
                   PROVE  /\ (at[t] = "read")'
                                => (AtDevice(t) /\ claim[Device(t)] = t)'
                          /\ Talks(t)' => (claim[wanted[t]] = t)'
        BY DEF ClaimInv
      <3> USE BusAssumption
          DEF Claim, TypeOK, ClaimInv, ClaimsAreUsed, Talks, AtDevice, Device
      <3>1. CASE t = s
        BY <1>1, <3>1, DeviceIsCrazyflie
      <3>2. CASE t # s
        BY <1>1, <3>2, DeviceIsCrazyflie
      <3> QED
        BY <3>1, <3>2
    <2>3. ClaimsAreUsed'
      BY <1>1, DeviceIsCrazyflie
         DEF Claim, DropsClaim, Disturbed, TypeOK, ClaimInv, ClaimsAreUsed,
             Talks, AtDevice, Device
    <2>4. LeftInRadioMode'
      BY <1>1 DEF Claim, DropsClaim, Disturbed, TypeOK, LeftInRadioMode
    <2> QED
      BY <2>1, <2>2, <2>3, <2>4
  <1>2. CASE Busy(s)
    <2>1. TypeOK'
      BY <1>2 DEF Busy, TypeOK, Places
    <2>2. ClaimInv'
      BY <1>2
         DEF Busy, TypeOK, ClaimInv, ClaimsAreUsed, Talks, AtDevice, Device
    <2>3. ClaimsAreUsed'
      BY <1>2
         DEF Busy, TypeOK, ClaimInv, ClaimsAreUsed, Talks, AtDevice, Device
    <2>4. LeftInRadioMode'
      BY <1>2 DEF Busy, TypeOK, LeftInRadioMode
    <2> QED
      BY <2>1, <2>2, <2>3, <2>4
  <1>3. CASE Skip(s)
    <2>1. TypeOK'
      BY <1>3, DeviceIsCrazyflie
         DEF Skip, Onward, DropsClaim, Disturbed, TypeOK, Places
    <2>2. ClaimInv'
      BY <1>3, DeviceIsCrazyflie
         DEF Skip, Onward, DropsClaim, Disturbed, TypeOK, ClaimInv,
             ClaimsAreUsed, Talks, AtDevice, Device
    <2>3. ClaimsAreUsed'
      BY <1>3, DeviceIsCrazyflie
         DEF Skip, Onward, DropsClaim, Disturbed, TypeOK, ClaimInv,
             ClaimsAreUsed, Talks, AtDevice, Device
    <2>4. LeftInRadioMode'
      BY <1>3 DEF Skip, Onward, DropsClaim, Disturbed, TypeOK, LeftInRadioMode
    <2> QED
      BY <2>1, <2>2, <2>3, <2>4
  <1>4. CASE ReadFails(s)
    <2>1. TypeOK'
      BY <1>4 DEF ReadFails, DropsClaim, Ends, TypeOK, Places
    <2>2. ClaimInv'
      <3> SUFFICES ASSUME NEW t \in Sessions
                   PROVE  /\ (at[t] = "read")'
                                => (AtDevice(t) /\ claim[Device(t)] = t)'
                          /\ Talks(t)' => (claim[wanted[t]] = t)'
        BY DEF ClaimInv
      <3> USE BusAssumption
          DEF ReadFails, DropsClaim, Ends, TypeOK, ClaimInv, ClaimsAreUsed,
              Talks, AtDevice, Device
      <3>1. CASE t = s
        BY <1>4, <3>1
      <3>2. CASE t # s
        BY <1>4, <3>2
      <3> QED
        BY <3>1, <3>2
    <2>3. ClaimsAreUsed'
      BY <1>4
         DEF ReadFails, DropsClaim, Ends, TypeOK, ClaimInv, ClaimsAreUsed,
             Talks, AtDevice, Device
    <2>4. LeftInRadioMode'
      BY <1>4 DEF ReadFails, DropsClaim, Ends, TypeOK, LeftInRadioMode
    <2> QED
      BY <2>1, <2>2, <2>3, <2>4
  <1>5. CASE Read(s)
    <2>0. AtDevice(s)
      BY <1>5 DEF Read, ClaimInv
    <2>1. TypeOK'
      <3> USE DEF TypeOK, Places
      <3>1. CASE Device(s) = wanted[s]
        <4>1. seen' \in [Sessions -> 1..Len(Order) + 1]
          BY <1>5, <3>1, BusAssumption DEF Read, Ends
        <4>2. alone' \in [Sessions -> BOOLEAN]
          BY <1>5, <3>1 DEF Read, Ends
        <4> QED
          BY <1>5, <3>1, <4>1, <4>2 DEF Read
      <3>2. CASE Device(s) # wanted[s]
        <4>1. seen' \in [Sessions -> 1..Len(Order) + 1]
          BY <1>5, <2>0, <3>2, DeviceIsCrazyflie DEF Read, Onward
        <4> QED
          BY <1>5, <3>2, <4>1 DEF Read, DropsClaim
      <3> QED
        BY <3>1, <3>2
    <2>2. ClaimInv'
      <3> SUFFICES ASSUME NEW t \in Sessions
                   PROVE  /\ (at[t] = "read")'
                                => (AtDevice(t) /\ claim[Device(t)] = t)'
                          /\ Talks(t)' => (claim[wanted[t]] = t)'
        BY DEF ClaimInv
      <3>1. CASE t = s
        BY <1>5, <3>1
           DEF Read, Ends, Onward, TypeOK, ClaimInv, Talks, AtDevice, Device
      <3>2. CASE t # s
        <4>1. /\ at'[t] = at[t] /\ seen'[t] = seen[t] /\ wanted' = wanted
              /\ \A c \in Crazyflies : claim[c] = t => claim'[c] = t
          BY <1>5, <3>2 DEF Read, Ends, Onward, DropsClaim, TypeOK
        <4>2. AtDevice(t) => Device(t) \in Crazyflies
          BY DeviceIsCrazyflie
        <4>3. wanted[t] \in Crazyflies
          BY DEF TypeOK
        <4> QED
          BY <4>1, <4>2, <4>3 DEF ClaimInv, Talks, AtDevice, Device
      <3> QED
        BY <3>1, <3>2
    <2>3. ClaimsAreUsed'
      BY <1>5, DeviceIsCrazyflie
         DEF Read, Onward, DropsClaim, Ends, TypeOK, ClaimInv, ClaimsAreUsed,
             Talks, AtDevice, Device
    <2>4. LeftInRadioMode'
      BY <1>5 DEF Read, Onward, DropsClaim, Ends, TypeOK, LeftInRadioMode
    <2> QED
      BY <2>1, <2>2, <2>3, <2>4
  <1>6. CASE NotFound(s)
    <2>1. TypeOK'
      BY <1>6 DEF NotFound, TypeOK, Places
    <2>2. ClaimInv'
      BY <1>6
         DEF NotFound, TypeOK, ClaimInv, ClaimsAreUsed, Talks, AtDevice, Device
    <2>3. ClaimsAreUsed'
      BY <1>6
         DEF NotFound, TypeOK, ClaimInv, ClaimsAreUsed, Talks, AtDevice, Device
    <2>4. LeftInRadioMode'
      BY <1>6 DEF NotFound, TypeOK, LeftInRadioMode
    <2> QED
      BY <2>1, <2>2, <2>3, <2>4
  <1>7. CASE ClaimFails(s)
    <2>1. TypeOK'
      BY <1>7 DEF ClaimFails, Disturbed, TypeOK, Places
    <2>2. ClaimInv'
      BY <1>7
         DEF ClaimFails, Disturbed, TypeOK, ClaimInv, ClaimsAreUsed, Talks, AtDevice, Device
    <2>3. ClaimsAreUsed'
      BY <1>7
         DEF ClaimFails, Disturbed, TypeOK, ClaimInv, ClaimsAreUsed, Talks, AtDevice, Device
    <2>4. LeftInRadioMode'
      BY <1>7 DEF ClaimFails, Disturbed, TypeOK, LeftInRadioMode
    <2> QED
      BY <2>1, <2>2, <2>3, <2>4
  <1> QED
    BY <1>1, <1>2, <1>3, <1>4, <1>5, <1>6, <1>7 DEF SearchStep

\* The steps of a task.
LEMMA TaskKeepsBusInv ==
    ASSUME BusInv, NEW s \in Sessions, BusTaskStep(s)
    PROVE  BusInv'
  <1> USE BusAssumption DEF BusInv, Goes
  <1>1. CASE SwitchToUsb(s)
    <2>1. TypeOK'
      BY <1>1 DEF SwitchToUsb, TypeOK, Places, WaysBack
    <2>2. ClaimInv'
      BY <1>1 DEF SwitchToUsb, TypeOK, ClaimInv, Talks, AtDevice, Device
    <2>3. ClaimsAreUsed'
      BY <1>1 DEF SwitchToUsb, TypeOK, ClaimInv, ClaimsAreUsed, Talks, Device
    <2>4. LeftInRadioMode'
      BY <1>1 DEF SwitchToUsb, TypeOK, LeftInRadioMode
    <2> QED
      BY <2>1, <2>2, <2>3, <2>4
  <1>2. CASE SwitchFails(s)
    <2>1. TypeOK'
      BY <1>2 DEF SwitchFails, DropsClaim, TypeOK, Places
    <2>2. ClaimInv'
      BY <1>2
         DEF SwitchFails, DropsClaim, TypeOK, ClaimInv, Talks, AtDevice, Device
    <2>3. ClaimsAreUsed'
      BY <1>2
         DEF SwitchFails, DropsClaim, TypeOK, ClaimInv, ClaimsAreUsed, Talks,
             Device
    <2>4. LeftInRadioMode'
      BY <1>2 DEF SwitchFails, DropsClaim, TypeOK, LeftInRadioMode
    <2> QED
      BY <2>1, <2>2, <2>3, <2>4
  <1>3. CASE Notify(s)
    <2>1. TypeOK'
      BY <1>3 DEF Notify, TypeOK, Places
    <2>2. ClaimInv'
      BY <1>3 DEF Notify, TypeOK, ClaimInv, Talks, AtDevice, Device
    <2>3. ClaimsAreUsed'
      BY <1>3 DEF Notify, TypeOK, ClaimInv, ClaimsAreUsed, Talks, Device
    <2>4. LeftInRadioMode'
      BY <1>3 DEF Notify, TypeOK, LeftInRadioMode
    <2> QED
      BY <2>1, <2>2, <2>3, <2>4
  <1>4. CASE NotifyFails(s)
    <2>1. TypeOK'
      BY <1>4 DEF NotifyFails, LeavesMode, DropsClaim, TypeOK, Places, WaysBack
    <2>2. ClaimInv'
      BY <1>4
         DEF NotifyFails, LeavesMode, DropsClaim, TypeOK, ClaimInv, Talks, AtDevice, Device
    <2>3. ClaimsAreUsed'
      BY <1>4
         DEF NotifyFails, LeavesMode, DropsClaim, TypeOK, ClaimInv, ClaimsAreUsed, Talks,
             Device
    <2>4. LeftInRadioMode'
      BY <1>4 DEF NotifyFails, LeavesMode, DropsClaim, TypeOK, LeftInRadioMode
    <2> QED
      BY <2>1, <2>2, <2>3, <2>4
  <1>5. CASE JoinThreads(s)
    <2>1. TypeOK'
      BY <1>5 DEF JoinThreads, DropsClaim, TypeOK, Places
    <2>2. ClaimInv'
      BY <1>5
         DEF JoinThreads, DropsClaim, TypeOK, ClaimInv, Talks, AtDevice, Device
    <2>3. ClaimsAreUsed'
      BY <1>5
         DEF JoinThreads, DropsClaim, TypeOK, ClaimInv, ClaimsAreUsed, Talks,
             Device
    <2>4. LeftInRadioMode'
      BY <1>5 DEF JoinThreads, DropsClaim, TypeOK, LeftInRadioMode
    <2> QED
      BY <2>1, <2>2, <2>3, <2>4
  <1>6. CASE Report(s)
    <2>1. TypeOK'
      BY <1>6 DEF Report, TypeOK, Places
    <2>2. ClaimInv'
      BY <1>6 DEF Report, TypeOK, ClaimInv, Talks, AtDevice, Device
    <2>3. ClaimsAreUsed'
      BY <1>6 DEF Report, TypeOK, ClaimInv, ClaimsAreUsed, Talks, Device
    <2>4. LeftInRadioMode'
      BY <1>6 DEF Report, TypeOK, LeftInRadioMode
    <2> QED
      BY <2>1, <2>2, <2>3, <2>4
  <1>7. CASE SwitchBack(s)
    <2>1. TypeOK'
      BY <1>7 DEF SwitchBack, TypeOK, Places, WaysBack
    <2>2. ClaimInv'
      BY <1>7 DEF SwitchBack, TypeOK, ClaimInv, Talks, AtDevice, Device
    <2>3. ClaimsAreUsed'
      BY <1>7 DEF SwitchBack, TypeOK, ClaimInv, ClaimsAreUsed, Talks, Device
    <2>4. LeftInRadioMode'
      BY <1>7 DEF SwitchBack, TypeOK, LeftInRadioMode
    <2> QED
      BY <2>1, <2>2, <2>3, <2>4
  <1>8. CASE SwitchBackFails(s)
    <2>1. TypeOK'
      BY <1>8 DEF SwitchBackFails, LeavesMode, TypeOK, Places, WaysBack
    <2>2. ClaimInv'
      BY <1>8 DEF SwitchBackFails, LeavesMode, TypeOK, ClaimInv, Talks, AtDevice, Device
    <2>3. ClaimsAreUsed'
      BY <1>8
         DEF SwitchBackFails, LeavesMode, TypeOK, ClaimInv, ClaimsAreUsed, Talks, Device
    <2>4. LeftInRadioMode'
      BY <1>8 DEF SwitchBackFails, LeavesMode, TypeOK, LeftInRadioMode
    <2> QED
      BY <2>1, <2>2, <2>3, <2>4
  <1> QED
    BY <1>1, <1>2, <1>3, <1>4, <1>5, <1>6, <1>7, <1>8 DEF BusTaskStep

\* The steps of the user.
LEMMA UserKeepsBusInv ==
    ASSUME BusInv, NEW s \in Sessions,
           TryAgain(s) \/ \E c \in Crazyflies : Open(s, c)
    PROVE  BusInv'
  <1> USE BusAssumption DEF BusInv, Goes
  <1>1. ASSUME NEW c \in Crazyflies, Open(s, c) PROVE BusInv'
    <2>1. TypeOK'
      BY <1>1 DEF Open, TypeOK, Places
    <2>2. ClaimInv'
      BY <1>1 DEF Open, TypeOK, ClaimInv, Talks, AtDevice, Device
    <2>3. ClaimsAreUsed'
      BY <1>1 DEF Open, TypeOK, ClaimInv, ClaimsAreUsed, Talks, Device
    <2>4. LeftInRadioMode'
      BY <1>1 DEF Open, TypeOK, LeftInRadioMode
    <2> QED
      BY <2>1, <2>2, <2>3, <2>4
  <1>2. CASE TryAgain(s)
    <2>1. TypeOK'
      BY <1>2 DEF TryAgain, Ends, TypeOK, Places
    <2>2. ClaimInv'
      BY <1>2 DEF TryAgain, Ends, TypeOK, ClaimInv, Talks, AtDevice, Device
    <2>3. ClaimsAreUsed'
      BY <1>2 DEF TryAgain, Ends, TypeOK, ClaimInv, ClaimsAreUsed, Talks, Device
    <2>4. LeftInRadioMode'
      BY <1>2 DEF TryAgain, Ends, TypeOK, LeftInRadioMode
    <2> QED
      BY <2>1, <2>2, <2>3, <2>4
  <1> QED
    BY <1>1, <1>2

LEMMA NextKeepsBusInv == BusInv /\ [Next]_vars => BusInv'
  <1> SUFFICES ASSUME BusInv, [Next]_vars PROVE BusInv'
    OBVIOUS
  <1>1. CASE UNCHANGED vars
    BY <1>1 DEF vars, BusInv, TypeOK, ClaimInv, ClaimsAreUsed, LeftInRadioMode,
                Talks, AtDevice, Device
  <1> QED
    BY <1>1, SearchKeepsBusInv, TaskKeepsBusInv, UserKeepsBusInv DEF Next

\* The bus never leaves the inductive invariant.
THEOREM BusInvariant == Spec => []BusInv
  BY InitBusInv, NextKeepsBusInv, PTL DEF Spec

\* Two connections never read and write the same Crazyflie.
THEOREM NeverTwoTalkers == Spec => []OneTalker
  <1>1. BusInv => OneTalker
    BY DEF BusInv, ClaimInv, OneTalker
  <1> QED
    BY <1>1, BusInvariant, PTL

\* No claim is left behind by a search or a connection that is over.
THEOREM NoClaimLeft == Spec => []ClaimsAreUsed
  <1>1. BusInv => ClaimsAreUsed
    BY DEF BusInv
  <1> QED
    BY <1>1, BusInvariant, PTL

\* A Crazyflie in USB mode has a session that will switch it back, unless the
\* last one tried to and the transfer failed, or panicked before it because
\* its open() was cancelled.
THEOREM NoModeLeft == Spec => []LeftInRadioMode
  <1>1. BusInv => LeftInRadioMode
    BY DEF BusInv
  <1> QED
    BY <1>1, BusInvariant, PTL

-----------------------------------------------------------------------------
(* What an undisturbed search has looked at *)

PassedOver(s) == \A i \in 1..seen[s] - 1 : Order[i] # wanted[s]

(***************************************************************************)
(* A search that is alone began while nothing was claimed, and whoever     *)
(* claims, or makes it skip a device, ends that.  So it finds every device *)
(* free, and what lies behind it are devices it has read and that are not  *)
(* the one wanted.                                                         *)
(***************************************************************************)
SearchInv ==
    \A s \in Sessions : alone[s] =>
        /\ at[s] \in {"search", "read", "refused"}
        /\ \A c \in Crazyflies : claim[c] \in {s, NoSession}
        /\ at[s] = "search" => \A c \in Crazyflies : claim[c] = NoSession
        /\ PassedOver(s)
        /\ at[s] = "refused" => ~AtDevice(s)

LEMMA InitSearchInv == Init => SearchInv
  BY DEF Init, SearchInv

\* One more device has been read.
LEMMA ReadPassesOver ==
    ASSUME BusInv, NEW s \in Sessions, AtDevice(s), PassedOver(s),
           Device(s) # wanted[s]
    PROVE  \A i \in 1..seen[s] : Order[i] # wanted[s]
  <1>1. seen[s] \in 1..Len(Order) + 1
    BY DEF BusInv, TypeOK
  <1> QED
    BY <1>1 DEF PassedOver, Device

LEMMA SearchKeepsSearchInv ==
    ASSUME BusInv, SearchInv, NEW s \in Sessions, SearchStep(s)
    PROVE  SearchInv'
  <1> SUFFICES ASSUME NEW t \in Sessions, alone'[t]
               PROVE  /\ at'[t] \in {"search", "read", "refused"}
                      /\ \A c \in Crazyflies : claim'[c] \in {t, NoSession}
                      /\ at'[t] = "search" =>
                            \A c \in Crazyflies : claim'[c] = NoSession
                      /\ PassedOver(t)'
                      /\ at'[t] = "refused" => ~AtDevice(t)'
    BY DEF SearchInv
  <1> USE BusAssumption DEF BusInv, TypeOK, SearchInv, Goes, AtDevice
  <1>1. CASE Claim(s)
    <2>1. t = s /\ alone[s]
      BY <1>1 DEF Claim, Disturbed
    <2> QED
      BY <1>1, <2>1 DEF Claim, PassedOver
  <1>2. CASE Busy(s)
    <2>1. alone[t] /\ UNCHANGED <<wanted, seen, claim>>
      BY <1>2 DEF Busy
    <2>2. ~alone[s]
      BY <1>2, DeviceIsCrazyflie DEF Busy
    <2> QED
      BY <1>2, <2>1, <2>2 DEF Busy, PassedOver
  <1>3. CASE Skip(s)
    <2>1. t # s /\ alone[t] /\ wanted' = wanted /\ seen'[t] = seen[t]
          /\ at'[t] = at[t]
      BY <1>3 DEF Skip, Disturbed, Onward
    <2>2. \A c \in Crazyflies : claim'[c] \in {claim[c], NoSession}
      BY <1>3 DEF Skip, DropsClaim
    <2> QED
      BY <2>1, <2>2 DEF PassedOver
  <1>4. CASE ReadFails(s)
    <2>1. t # s /\ alone[t] /\ wanted' = wanted /\ seen'[t] = seen[t]
          /\ at'[t] = at[t]
      BY <1>4 DEF ReadFails, Ends
    <2>2. \A c \in Crazyflies : claim'[c] \in {claim[c], NoSession}
      BY <1>4 DEF ReadFails, DropsClaim
    <2> QED
      BY <2>1, <2>2 DEF PassedOver
  <1>5. CASE Read(s) /\ Device(s) = wanted[s]
    <2>1. t # s /\ alone[t] /\ wanted' = wanted /\ seen'[t] = seen[t]
          /\ at'[t] = at[t] /\ claim' = claim
      BY <1>5 DEF Read, Ends
    <2> QED
      BY <1>5, <2>1 DEF PassedOver
  <1>6. CASE Read(s) /\ Device(s) # wanted[s]
    <2>1. /\ alone[t] /\ wanted' = wanted
          /\ seen' = [seen EXCEPT ![s] = @ + 1]
          /\ at' = [at EXCEPT ![s] = "search"]
          /\ claim' = [c \in Crazyflies |->
                         IF claim[c] = s THEN NoSession ELSE claim[c]]
      BY <1>6 DEF Read, Onward, DropsClaim
    <2>2. CASE t = s
      <3>1. \A i \in 1..seen[s] : Order[i] # wanted[s]
        BY <1>6, <2>1, <2>2, ReadPassesOver DEF Read, ClaimInv
      <3>2. seen[s] \in Int /\ seen'[s] = seen[s] + 1
        BY <2>1
      <3> QED
        BY <2>1, <2>2, <3>1, <3>2 DEF PassedOver
    <2>3. CASE t # s
      BY <2>1, <2>3 DEF PassedOver
    <2> QED
      BY <2>2, <2>3
  <1>7. CASE NotFound(s)
    <2>1. alone[t] /\ UNCHANGED <<wanted, seen, claim>>
      BY <1>7 DEF NotFound
    <2> QED
      BY <1>7, <2>1 DEF NotFound, PassedOver
  <1>8. CASE ClaimFails(s)
    <2>1. t # s /\ alone[t] /\ UNCHANGED <<wanted, seen, claim>>
          /\ at'[t] = at[t]
      BY <1>8 DEF ClaimFails, Disturbed
    <2> QED
      BY <2>1 DEF PassedOver
  <1> QED
    BY <1>1, <1>2, <1>3, <1>4, <1>5, <1>6, <1>7, <1>8 DEF SearchStep

LEMMA TaskKeepsSearchInv ==
    ASSUME BusInv, SearchInv, NEW s \in Sessions, BusTaskStep(s)
    PROVE  SearchInv'
  <1>1. /\ UNCHANGED <<wanted, seen, alone>>
        /\ at[s] \notin {"search", "read", "refused"}
        /\ \A t \in Sessions \ {s} : at'[t] = at[t]
        /\ \A c \in Crazyflies : claim'[c] \in {claim[c], NoSession}
    BY DEF BusTaskStep, SwitchToUsb, SwitchFails, Notify, NotifyFails,
           JoinThreads, Report, SwitchBack, SwitchBackFails, Goes, DropsClaim,
           BusInv, TypeOK
  <1> QED
    BY <1>1 DEF SearchInv, PassedOver, AtDevice

LEMMA UserKeepsSearchInv ==
    ASSUME BusInv, SearchInv, NEW s \in Sessions,
           TryAgain(s) \/ \E c \in Crazyflies : Open(s, c)
    PROVE  SearchInv'
  <1> USE DEF BusInv, TypeOK, SearchInv, Goes, AtDevice, PassedOver
  <1>1. ASSUME NEW c \in Crazyflies, Open(s, c) PROVE SearchInv'
    BY <1>1 DEF Open
  <1>2. CASE TryAgain(s)
    BY <1>2 DEF TryAgain, Ends
  <1> QED
    BY <1>1, <1>2

LEMMA NextKeepsSearchInv ==
    ASSUME BusInv, SearchInv, [Next]_vars
    PROVE  SearchInv'
  <1>1. CASE UNCHANGED vars
    BY <1>1 DEF vars, SearchInv, PassedOver, AtDevice
  <1> QED
    BY <1>1, SearchKeepsSearchInv, TaskKeepsSearchInv, UserKeepsSearchInv
       DEF Next

\* A search that nothing disturbs finds a Crazyflie that is on the bus,
\* wherever in the list it is and however long the list.
THEOREM UndisturbedSearchFinds == Spec => []SearchFinds
  <1>1. BusInv /\ SearchInv => SearchFinds
    <2> SUFFICES ASSUME BusInv, SearchInv,
                        NEW s \in Sessions, at[s] = "refused", alone[s],
                        NEW i \in DOMAIN Order
                 PROVE  Order[i] # wanted[s]
      BY DEF SearchFinds
    <2>1. seen[s] \in 1..Len(Order) + 1 /\ ~(seen[s] <= Len(Order))
          /\ DOMAIN Order = 1..Len(Order)
      BY BusAssumption DEF BusInv, TypeOK, SearchInv, AtDevice
    <2>2. i \in 1..seen[s] - 1
      BY <2>1, BusAssumption
    <2> QED
      BY <2>2 DEF SearchInv, PassedOver
  <1>2. Spec => []SearchInv
    BY InitSearchInv, NextKeepsSearchInv, BusInvariant, PTL DEF Spec
  <1> QED
    BY <1>1, <1>2, BusInvariant, PTL
=============================================================================
