----------------------------- MODULE PowerProofs -----------------------------
(***************************************************************************)
(* Proofs about the transmit queue of the WWAN network device, about the   *)
(* clocks and the suspend of the pipe, and about the inactivity timer, for *)
(* all water marks, numbers of packets and of modem restarts.              *)
(***************************************************************************)
EXTENDS MCPower, Integers, TLAPS

-----------------------------------------------------------------------------
(* The transmit queue.  A stopped queue has a waker whatever the lock holder *)
(* does next, so the invariant names the waker without the lock: while       *)
(* ipa_wwan_xmit() is about to stop the queue, the completion or the grant   *)
(* that wakes it is already certain to come after it.                        *)
WwanType ==
  /\ wGen \in 0 .. MaxGen /\ wLast \in 0 .. MaxGen /\ wGen <= wLast
  /\ wActive \in BOOLEAN /\ wStopped \in BOOLEAN /\ wLost \in BOOLEAN
  /\ wComp \in {"no", "lock", "release"} /\ wCdev \in 0 .. MaxGen
  /\ wCount \in Int /\ wFlight \in [W!Gens -> Nat]
  /\ wTx \in {"idle", "high", "ask", "busy", "sent"}
  /\ wWant \in BOOLEAN /\ wRm \in {"off", "pending", "on"} /\ wWakeWork \in BOOLEAN
  /\ wSusp \in {"no", "checked", "yes"} /\ wSsr \in BOOLEAN
  /\ wNtf \in {"idle", "stop", "remove", "probe"}

\* A device that does not exist yet has no packets, and one that is gone sends
\* none; while the notifier has not removed the device, is_ssr is set.
WwanDevices ==
  /\ \A g \in W!Gens : g > wLast => wFlight[g] = 0
  /\ wGen = 0 => ~W!Locked
  /\ wNtf \in {"stop", "remove"} => wSsr

\* What ipa_wwan_xmit() knows while it holds the queue lock.
CompletionComes == wComp = "lock" /\ wCdev = wGen
WwanXmit ==
  /\ W!Locked => wActive
  /\ wTx = "high" => wCount >= Low \/ CompletionComes
  /\ wTx = "busy" => wRm = "pending" \/ wWakeWork \/ wLost

\* What will wake a stopped queue, also while the probe has not cleared is_ssr.
WwanWaker ==
  (wGen # 0 /\ wActive /\ wStopped /\ (~wSsr \/ wNtf = "probe") /\ ~wLost) =>
    \/ wCount >= Low \/ CompletionComes \/ wRm = "pending" \/ wWakeWork
    \/ wSusp = "yes"

WwanCounted == W!CountsInFlight
WwanInv == WwanType /\ WwanDevices /\ WwanXmit /\ WwanWaker /\ WwanCounted

\* No step of the network device breaks the invariant.
LEMMA WwanStep ==
  ASSUME WwanInv, W!Next
  PROVE  WwanInv'
<1> USE WaterMarks
<1>1. CASE W!Open
  <2>1. WwanType'
    <3>1. wActive' \in BOOLEAN /\ wStopped' \in BOOLEAN /\ wLost' \in BOOLEAN
      BY <1>1 DEF W!Open
    <3>2. UNCHANGED <<wGen, wLast, wComp, wCdev, wCount, wFlight, wTx, wWant, wRm, wWakeWork,
                      wSusp, wSsr, wNtf>>
      BY <1>1 DEF W!Open, W!rmVars, W!ntfVars
    <3>3. QED
      BY <3>1, <3>2 DEF WwanInv, WwanType
  <2>2. WwanDevices'
    BY <1>1 DEF W!Open, W!devVars, W!rmVars, W!ntfVars, WwanInv, WwanType, WwanDevices,
        W!Locked, W!Gens
  <2>3. WwanXmit'
    BY <1>1 DEF W!Open, W!devVars, W!rmVars, W!ntfVars, WwanInv, WwanType, WwanDevices,
        WwanXmit, CompletionComes, W!Locked
  <2>4. WwanWaker'
    BY <1>1 DEF W!Open, W!devVars, W!rmVars, W!ntfVars, WwanInv, WwanType, WwanDevices,
        WwanXmit, WwanWaker,
        CompletionComes, W!Locked
  <2>5. WwanCounted'
    BY <1>1 DEF W!Open, W!devVars, W!rmVars, W!ntfVars, WwanInv, WwanType, WwanDevices,
        WwanXmit, WwanCounted,
        W!CountsInFlight, W!Locked, W!Gens
  <2> QED BY <2>1, <2>2, <2>3, <2>4, <2>5 DEF WwanInv
<1>2. CASE W!Close
  <2>1. WwanType'
    <3>1. wActive' \in BOOLEAN /\ wStopped' \in BOOLEAN
      BY <1>2 DEF W!Close
    <3> QED BY <1>2, <3>1 DEF W!Close, W!devVars, W!rmVars, W!ntfVars, WwanInv, WwanType
  <2>2. WwanDevices'
    BY <1>2 DEF W!Close, W!devVars, W!rmVars, W!ntfVars, WwanInv, WwanType, WwanDevices,
        W!Locked, W!Gens
  <2>3. WwanXmit'
    BY <1>2 DEF W!Close, W!devVars, W!rmVars, W!ntfVars, WwanInv, WwanType, WwanDevices,
        WwanXmit, CompletionComes, W!Locked
  <2>4. WwanWaker'
    BY <1>2 DEF W!Close, W!devVars, W!rmVars, W!ntfVars, WwanInv, WwanType, WwanDevices,
        WwanXmit, WwanWaker,
        CompletionComes, W!Locked
  <2>5. WwanCounted'
    BY <1>2 DEF W!Close, W!devVars, W!rmVars, W!ntfVars, WwanInv, WwanType, WwanDevices,
        WwanXmit, WwanCounted,
        W!CountsInFlight, W!Locked, W!Gens
  <2> QED BY <2>1, <2>2, <2>3, <2>4, <2>5 DEF WwanInv
<1>3. CASE W!XmitHigh
  <2>1. WwanType'
    BY <1>3 DEF W!XmitHigh, W!devVars, W!rmVars, W!ntfVars, WwanInv, WwanType, W!Gens
  <2>2. WwanDevices'
    BY <1>3 DEF W!XmitHigh, W!devVars, W!rmVars, W!ntfVars, WwanInv, WwanType, WwanDevices,
        W!Locked, W!Gens
  <2>3. WwanXmit'
    BY <1>3 DEF W!XmitHigh, W!devVars, W!rmVars, W!ntfVars, WwanInv, WwanType, WwanDevices,
        WwanXmit, CompletionComes, W!Locked
  <2>4. WwanWaker'
    BY <1>3 DEF W!XmitHigh, W!devVars, W!rmVars, W!ntfVars, WwanInv, WwanType, WwanDevices,
        WwanXmit, WwanWaker,
        CompletionComes, W!Locked
  <2>5. WwanCounted'
    BY <1>3 DEF W!XmitHigh, W!devVars, W!rmVars, W!ntfVars, WwanInv, WwanType, WwanDevices,
        WwanXmit, WwanCounted,
        W!CountsInFlight, W!Locked, W!Gens
  <2> QED BY <2>1, <2>2, <2>3, <2>4, <2>5 DEF WwanInv
<1>4. CASE W!XmitStop
  <2>1. WwanType'
    BY <1>4 DEF W!XmitStop, W!devVars, W!rmVars, W!ntfVars, WwanInv, WwanType, W!Gens
  <2>2. WwanDevices'
    BY <1>4 DEF W!XmitStop, W!devVars, W!rmVars, W!ntfVars, WwanInv, WwanType, WwanDevices,
        W!Locked, W!Gens
  <2>3. WwanXmit'
    BY <1>4 DEF W!XmitStop, W!devVars, W!rmVars, W!ntfVars, WwanInv, WwanType, WwanDevices,
        WwanXmit, CompletionComes, W!Locked
  <2>4. WwanWaker'
    BY <1>4 DEF W!XmitStop, W!devVars, W!rmVars, W!ntfVars, WwanInv, WwanType, WwanDevices,
        WwanXmit, WwanWaker,
        CompletionComes, W!Locked
  <2>5. WwanCounted'
    BY <1>4 DEF W!XmitStop, W!devVars, W!rmVars, W!ntfVars, WwanInv, WwanType, WwanDevices,
        WwanXmit, WwanCounted,
        W!CountsInFlight, W!Locked, W!Gens
  <2> QED BY <2>1, <2>2, <2>3, <2>4, <2>5 DEF WwanInv
<1>5. CASE W!XmitBusy
  <2>1. WwanType'
    BY <1>5 DEF W!XmitBusy, W!devVars, W!rmVars, W!ntfVars, WwanInv, WwanType, W!Gens
  <2>2. WwanDevices'
    BY <1>5 DEF W!XmitBusy, W!devVars, W!rmVars, W!ntfVars, WwanInv, WwanType, WwanDevices,
        W!Locked, W!Gens
  <2>3. WwanXmit'
    BY <1>5 DEF W!XmitBusy, W!devVars, W!rmVars, W!ntfVars, WwanInv, WwanType, WwanDevices,
        WwanXmit, CompletionComes, W!Locked
  <2>4. WwanWaker'
    BY <1>5 DEF W!XmitBusy, W!devVars, W!rmVars, W!ntfVars, WwanInv, WwanType, WwanDevices,
        WwanXmit, WwanWaker,
        CompletionComes, W!Locked
  <2>5. WwanCounted'
    BY <1>5 DEF W!XmitBusy, W!devVars, W!rmVars, W!ntfVars, WwanInv, WwanType, WwanDevices,
        WwanXmit, WwanCounted,
        W!CountsInFlight, W!Locked, W!Gens
  <2> QED BY <2>1, <2>2, <2>3, <2>4, <2>5 DEF WwanInv
<1>6. CASE W!XmitRefused
  <2>1. WwanType'
    BY <1>6 DEF W!XmitRefused, W!devVars, W!rmVars, W!ntfVars, WwanInv, WwanType, W!Gens
  <2>2. WwanDevices'
    BY <1>6 DEF W!XmitRefused, W!devVars, W!rmVars, W!ntfVars, WwanInv, WwanType,
        WwanDevices, W!Locked, W!Gens
  <2>3. WwanXmit'
    BY <1>6 DEF W!XmitRefused, W!devVars, W!rmVars, W!ntfVars, WwanInv, WwanType,
        WwanDevices, WwanXmit, CompletionComes, W!Locked
  <2>4. WwanWaker'
    BY <1>6 DEF W!XmitRefused, W!devVars, W!rmVars, W!ntfVars, WwanInv, WwanType,
        WwanDevices, WwanXmit, WwanWaker,
        CompletionComes, W!Locked
  <2>5. WwanCounted'
    BY <1>6 DEF W!XmitRefused, W!devVars, W!rmVars, W!ntfVars, WwanInv, WwanType,
        WwanDevices, WwanXmit, WwanCounted,
        W!CountsInFlight, W!Locked, W!Gens
  <2> QED BY <2>1, <2>2, <2>3, <2>4, <2>5 DEF WwanInv
<1>7. CASE W!XmitSend
  <2>1. WwanType'
    <3>1. wGen \in W!Gens
      BY <1>7 DEF W!XmitSend, WwanInv, WwanType, WwanDevices, W!Gens, W!Locked
    <3>2. wFlight' \in [W!Gens -> Nat]
      BY <1>7, <3>1 DEF W!XmitSend, WwanInv, WwanType
    <3> QED BY <1>7, <3>2 DEF W!XmitSend, W!rmVars, W!ntfVars, WwanInv, WwanType
  <2>2. WwanDevices'
    BY <1>7 DEF W!XmitSend, W!devVars, W!rmVars, W!ntfVars, WwanInv, WwanType, WwanDevices,
        W!Locked, W!Gens
  <2>3. WwanXmit'
    BY <1>7 DEF W!XmitSend, W!devVars, W!rmVars, W!ntfVars, WwanInv, WwanType, WwanDevices,
        WwanXmit, CompletionComes, W!Locked
  <2>4. WwanWaker'
    BY <1>7 DEF W!XmitSend, W!devVars, W!rmVars, W!ntfVars, WwanInv, WwanType, WwanDevices,
        WwanXmit, WwanWaker,
        CompletionComes, W!Locked
  <2>5. WwanCounted'
    BY <1>7 DEF W!XmitSend, W!devVars, W!rmVars, W!ntfVars, WwanInv, WwanType, WwanDevices,
        WwanXmit, WwanCounted,
        W!CountsInFlight, W!Locked, W!Gens
  <2> QED BY <2>1, <2>2, <2>3, <2>4, <2>5 DEF WwanInv
<1>8. CASE W!XmitFail
  <2>1. WwanType'
    BY <1>8 DEF W!XmitFail, W!devVars, W!rmVars, W!ntfVars, WwanInv, WwanType, W!Gens
  <2>2. WwanDevices'
    BY <1>8 DEF W!XmitFail, W!devVars, W!rmVars, W!ntfVars, WwanInv, WwanType, WwanDevices,
        W!Locked, W!Gens
  <2>3. WwanXmit'
    BY <1>8 DEF W!XmitFail, W!devVars, W!rmVars, W!ntfVars, WwanInv, WwanType, WwanDevices,
        WwanXmit, CompletionComes, W!Locked
  <2>4. WwanWaker'
    BY <1>8 DEF W!XmitFail, W!devVars, W!rmVars, W!ntfVars, WwanInv, WwanType, WwanDevices,
        WwanXmit, WwanWaker,
        CompletionComes, W!Locked
  <2>5. WwanCounted'
    BY <1>8 DEF W!XmitFail, W!devVars, W!rmVars, W!ntfVars, WwanInv, WwanType, WwanDevices,
        WwanXmit, WwanCounted,
        W!CountsInFlight, W!Locked, W!Gens
  <2> QED BY <2>1, <2>2, <2>3, <2>4, <2>5 DEF WwanInv
<1>9. CASE W!XmitCount
  <2>1. WwanType'
    <3>1. wGen' \in 0 .. MaxGen /\ wLast' \in 0 .. MaxGen /\ wGen' <= wLast'
      BY <1>9 DEF W!XmitCount, W!devVars, W!rmVars, W!ntfVars, WwanInv, WwanType
    <3>2. wCount' \in Int
      BY <1>9 DEF W!XmitCount, W!devVars, W!rmVars, W!ntfVars, WwanInv, WwanType
    <3> QED BY <1>9, <3>1, <3>2 DEF W!XmitCount, W!devVars, W!rmVars, W!ntfVars, WwanInv, WwanType
  <2>2. WwanDevices'
    BY <1>9 DEF W!XmitCount, W!devVars, W!rmVars, W!ntfVars, WwanInv, WwanType, WwanDevices,
        W!Locked, W!Gens
  <2>3. WwanXmit'
    BY <1>9 DEF W!XmitCount, W!devVars, W!rmVars, W!ntfVars, WwanInv, WwanType, WwanDevices,
        WwanXmit, CompletionComes, W!Locked
  <2>4. WwanWaker'
    BY <1>9 DEF W!XmitCount, W!devVars, W!rmVars, W!ntfVars, WwanInv, WwanType, WwanDevices,
        WwanXmit, WwanWaker,
        CompletionComes, W!Locked
  <2>5. WwanCounted'
    BY <1>9 DEF W!XmitCount, W!devVars, W!rmVars, W!ntfVars, WwanInv, WwanType, WwanDevices,
        WwanXmit, WwanCounted,
        W!CountsInFlight, W!Locked, W!Gens
  <2> QED BY <2>1, <2>2, <2>3, <2>4, <2>5 DEF WwanInv
<1>10. CASE W!CompleteDec
  <2>1. WwanType'
    <3>1. PICK g \in W!Gens :
             /\ wFlight[g] > 0
             /\ wFlight' = [wFlight EXCEPT ![g] = @ - 1]
             /\ \/ wCount' = wCount - 1 /\ wComp' = "lock" /\ wCdev' = g
                \/ UNCHANGED <<wCount, wComp, wCdev>>
      BY <1>10 DEF W!CompleteDec
    <3>2. wFlight[g] \in Nat /\ wFlight[g] - 1 \in Nat
      BY <3>1 DEF WwanInv, WwanType
    <3>3. wFlight' \in [W!Gens -> Nat]
      BY <3>1, <3>2 DEF WwanInv, WwanType
    <3>4. wCount' \in Int
      BY <3>1 DEF WwanInv, WwanType
    <3>5. wComp' \in {"no", "lock", "release"} /\ wCdev' \in 0 .. MaxGen
      BY <3>1 DEF WwanInv, WwanType, W!Gens
    <3> QED BY <1>10, <3>3, <3>4, <3>5 DEF W!CompleteDec, W!rmVars, W!ntfVars, WwanInv, WwanType
  <2>2. WwanDevices'
    BY <1>10 DEF W!CompleteDec, W!IsMine, W!devVars, W!rmVars, W!ntfVars, WwanInv, WwanType,
        WwanDevices, W!Locked, W!Gens
  <2>3. WwanXmit'
    BY <1>10 DEF W!CompleteDec, W!IsMine, W!devVars, W!rmVars, W!ntfVars, WwanInv, WwanType,
        WwanDevices, WwanXmit, CompletionComes, W!Locked
  <2>4. WwanWaker'
    BY <1>10 DEF W!CompleteDec, W!IsMine, W!devVars, W!rmVars, W!ntfVars, WwanInv, WwanType,
        WwanDevices, WwanXmit, WwanWaker,
        CompletionComes, W!Locked
  <2>5. WwanCounted'
    BY <1>10 DEF W!CompleteDec, W!IsMine, W!devVars, W!rmVars, W!ntfVars, WwanInv, WwanType,
        WwanDevices, WwanXmit, WwanCounted,
        W!CountsInFlight, W!Locked, W!Gens
  <2> QED BY <2>1, <2>2, <2>3, <2>4, <2>5 DEF WwanInv
<1>11. CASE W!CompleteWake
  <2>1. WwanType'
    BY <1>11 DEF W!CompleteWake, W!BelowLow, W!devVars, W!rmVars, W!ntfVars, WwanInv,
        WwanType, W!Gens
  <2>2. WwanDevices'
    BY <1>11 DEF W!CompleteWake, W!BelowLow, W!devVars, W!rmVars, W!ntfVars, WwanInv,
        WwanType, WwanDevices, W!Locked, W!Gens
  <2>3. WwanXmit'
    BY <1>11 DEF W!CompleteWake, W!BelowLow, W!devVars, W!rmVars, W!ntfVars, WwanInv,
        WwanType, WwanDevices, WwanXmit, CompletionComes, W!Locked
  <2>4. WwanWaker'
    <3>1. UNCHANGED <<wGen, wActive, wCount, wCdev, wRm, wWakeWork, wSusp, wSsr, wNtf>>
          /\ wComp = "lock"
      BY <1>11 DEF W!CompleteWake, W!devVars, W!rmVars, W!ntfVars
    <3>2. CASE wCdev # wGen
      <4>1. UNCHANGED <<wStopped, wLost>>
        BY <1>11, <3>2 DEF W!CompleteWake
      <4> QED BY <3>1, <3>2, <4>1 DEF WwanInv, WwanWaker, CompletionComes
    <3>3. CASE wCdev = wGen
      <4>1. (wStopped' /\ ~wLost') => wCount >= Low
        <5>1. (wStopped' /\ ~wLost') => ~W!BelowLow
          BY Zenon, <1>11, <3>3 DEF W!CompleteWake
        <5> QED BY <5>1, WaterMarks DEF W!BelowLow, WwanInv, WwanType
      <4> QED BY <3>1, <4>1 DEF WwanWaker
    <3> QED BY <3>2, <3>3
  <2>5. WwanCounted'
    BY <1>11 DEF W!CompleteWake, W!BelowLow, W!devVars, W!rmVars, W!ntfVars, WwanInv,
        WwanType, WwanDevices, WwanXmit, WwanCounted,
        W!CountsInFlight, W!Locked, W!Gens
  <2> QED BY <2>1, <2>2, <2>3, <2>4, <2>5 DEF WwanInv
<1>12. CASE W!CompleteRelease
  <2>1. WwanType'
    <3>1. wWant' \in BOOLEAN
      BY <1>12 DEF W!CompleteRelease
    <3> QED BY <1>12, <3>1 DEF W!CompleteRelease, W!devVars, W!rmVars, W!ntfVars, WwanInv, WwanType
  <2>2. WwanDevices'
    BY <1>12 DEF W!CompleteRelease, W!devVars, W!rmVars, W!ntfVars, WwanInv, WwanType,
        WwanDevices, W!Locked, W!Gens
  <2>3. WwanXmit'
    BY <1>12 DEF W!CompleteRelease, W!devVars, W!rmVars, W!ntfVars, WwanInv, WwanType,
        WwanDevices, WwanXmit, CompletionComes, W!Locked
  <2>4. WwanWaker'
    BY <1>12 DEF W!CompleteRelease, W!devVars, W!rmVars, W!ntfVars, WwanInv, WwanType,
        WwanDevices, WwanXmit, WwanWaker,
        CompletionComes, W!Locked
  <2>5. WwanCounted'
    BY <1>12 DEF W!CompleteRelease, W!devVars, W!rmVars, W!ntfVars, WwanInv, WwanType,
        WwanDevices, WwanXmit, WwanCounted,
        W!CountsInFlight, W!Locked, W!Gens
  <2> QED BY <2>1, <2>2, <2>3, <2>4, <2>5 DEF WwanInv
<1>13. CASE W!Grant
  <2>1. WwanType'
    BY <1>13 DEF W!Grant, W!GrantWakes, W!devVars, W!rmVars, W!ntfVars, WwanInv, WwanType, W!Gens
  <2>2. WwanDevices'
    BY <1>13 DEF W!Grant, W!GrantWakes, W!devVars, W!rmVars, W!ntfVars, WwanInv, WwanType,
        WwanDevices, W!Locked, W!Gens
  <2>3. WwanXmit'
    BY <1>13 DEF W!Grant, W!GrantWakes, W!devVars, W!rmVars, W!ntfVars, WwanInv, WwanType,
        WwanDevices, WwanXmit, CompletionComes, W!Locked
  <2>4. WwanWaker'
    BY <1>13 DEF W!Grant, W!GrantWakes, W!devVars, W!rmVars, W!ntfVars, WwanInv, WwanType,
        WwanDevices, WwanXmit, WwanWaker,
        CompletionComes, W!Locked
  <2>5. WwanCounted'
    BY <1>13 DEF W!Grant, W!GrantWakes, W!devVars, W!rmVars, W!ntfVars, WwanInv, WwanType,
        WwanDevices, WwanXmit, WwanCounted,
        W!CountsInFlight, W!Locked, W!Gens
  <2> QED BY <2>1, <2>2, <2>3, <2>4, <2>5 DEF WwanInv
<1>14. CASE W!WakeWork
  <2>1. WwanType'
    <3>1. wStopped' \in BOOLEAN /\ wLost' \in BOOLEAN /\ wWakeWork' \in BOOLEAN
      BY <1>14 DEF W!WakeWork
    <3>2. UNCHANGED <<wGen, wLast, wActive, wComp, wCdev, wCount, wFlight, wTx, wWant, wRm,
                      wSusp, wSsr, wNtf>>
      BY <1>14 DEF W!WakeWork, W!devVars, W!ntfVars
    <3>3. QED
      BY <3>1, <3>2 DEF WwanInv, WwanType
  <2>2. WwanDevices'
    BY <1>14 DEF W!WakeWork, W!devVars, W!rmVars, W!ntfVars, WwanInv, WwanType, WwanDevices,
        W!Locked, W!Gens
  <2>3. WwanXmit'
    BY <1>14 DEF W!WakeWork, W!devVars, W!rmVars, W!ntfVars, WwanInv, WwanType, WwanDevices,
        WwanXmit, CompletionComes, W!Locked
  <2>4. WwanWaker'
    BY <1>14 DEF W!WakeWork, W!devVars, W!rmVars, W!ntfVars, WwanInv, WwanType, WwanDevices,
        WwanXmit, WwanWaker,
        CompletionComes, W!Locked
  <2>5. WwanCounted'
    BY <1>14 DEF W!WakeWork, W!devVars, W!rmVars, W!ntfVars, WwanInv, WwanType, WwanDevices,
        WwanXmit, WwanCounted,
        W!CountsInFlight, W!Locked, W!Gens
  <2> QED BY <2>1, <2>2, <2>3, <2>4, <2>5 DEF WwanInv
<1>15. CASE W!TimerRelease
  <2>1. WwanType'
    BY <1>15 DEF W!TimerRelease, W!devVars, W!rmVars, W!ntfVars, WwanInv, WwanType, W!Gens
  <2>2. WwanDevices'
    BY <1>15 DEF W!TimerRelease, W!devVars, W!rmVars, W!ntfVars, WwanInv, WwanType,
        WwanDevices, W!Locked, W!Gens
  <2>3. WwanXmit'
    BY <1>15 DEF W!TimerRelease, W!devVars, W!rmVars, W!ntfVars, WwanInv, WwanType,
        WwanDevices, WwanXmit, CompletionComes, W!Locked
  <2>4. WwanWaker'
    BY <1>15 DEF W!TimerRelease, W!devVars, W!rmVars, W!ntfVars, WwanInv, WwanType,
        WwanDevices, WwanXmit, WwanWaker,
        CompletionComes, W!Locked
  <2>5. WwanCounted'
    BY <1>15 DEF W!TimerRelease, W!devVars, W!rmVars, W!ntfVars, WwanInv, WwanType,
        WwanDevices, WwanXmit, WwanCounted,
        W!CountsInFlight, W!Locked, W!Gens
  <2> QED BY <2>1, <2>2, <2>3, <2>4, <2>5 DEF WwanInv
<1>16. CASE W!SuspendCheck
  <2>1. WwanType'
    BY <1>16 DEF W!SuspendCheck, W!devVars, W!rmVars, W!ntfVars, WwanInv, WwanType, W!Gens
  <2>2. WwanDevices'
    BY <1>16 DEF W!SuspendCheck, W!devVars, W!rmVars, W!ntfVars, WwanInv, WwanType,
        WwanDevices, W!Locked, W!Gens
  <2>3. WwanXmit'
    BY <1>16 DEF W!SuspendCheck, W!devVars, W!rmVars, W!ntfVars, WwanInv, WwanType,
        WwanDevices, WwanXmit, CompletionComes, W!Locked
  <2>4. WwanWaker'
    BY <1>16 DEF W!SuspendCheck, W!devVars, W!rmVars, W!ntfVars, WwanInv, WwanType,
        WwanDevices, WwanXmit, WwanWaker,
        CompletionComes, W!Locked
  <2>5. WwanCounted'
    BY <1>16 DEF W!SuspendCheck, W!devVars, W!rmVars, W!ntfVars, WwanInv, WwanType,
        WwanDevices, WwanXmit, WwanCounted,
        W!CountsInFlight, W!Locked, W!Gens
  <2> QED BY <2>1, <2>2, <2>3, <2>4, <2>5 DEF WwanInv
<1>17. CASE W!Suspend
  <2>1. WwanType'
    BY <1>17 DEF W!Suspend, W!devVars, W!rmVars, W!ntfVars, WwanInv, WwanType, W!Gens
  <2>2. WwanDevices'
    BY <1>17 DEF W!Suspend, W!devVars, W!rmVars, W!ntfVars, WwanInv, WwanType, WwanDevices,
        W!Locked, W!Gens
  <2>3. WwanXmit'
    BY <1>17 DEF W!Suspend, W!devVars, W!rmVars, W!ntfVars, WwanInv, WwanType, WwanDevices,
        WwanXmit, CompletionComes, W!Locked
  <2>4. WwanWaker'
    BY <1>17 DEF W!Suspend, W!devVars, W!rmVars, W!ntfVars, WwanInv, WwanType, WwanDevices,
        WwanXmit, WwanWaker,
        CompletionComes, W!Locked
  <2>5. WwanCounted'
    BY <1>17 DEF W!Suspend, W!devVars, W!rmVars, W!ntfVars, WwanInv, WwanType, WwanDevices,
        WwanXmit, WwanCounted,
        W!CountsInFlight, W!Locked, W!Gens
  <2> QED BY <2>1, <2>2, <2>3, <2>4, <2>5 DEF WwanInv
<1>18. CASE W!Resume
  <2>1. WwanType'
    BY <1>18 DEF W!Resume, W!ResumeWake, W!devVars, W!rmVars, W!ntfVars, WwanInv, WwanType, W!Gens
  <2>2. WwanDevices'
    BY <1>18 DEF W!Resume, W!ResumeWake, W!devVars, W!rmVars, W!ntfVars, WwanInv, WwanType,
        WwanDevices, W!Locked, W!Gens
  <2>3. WwanXmit'
    BY <1>18 DEF W!Resume, W!ResumeWake, W!devVars, W!rmVars, W!ntfVars, WwanInv, WwanType,
        WwanDevices, WwanXmit, CompletionComes, W!Locked
  <2>4. WwanWaker'
    BY <1>18 DEF W!Resume, W!ResumeWake, W!devVars, W!rmVars, W!ntfVars, WwanInv, WwanType,
        WwanDevices, WwanXmit, WwanWaker,
        CompletionComes, W!Locked
  <2>5. WwanCounted'
    BY <1>18 DEF W!Resume, W!ResumeWake, W!devVars, W!rmVars, W!ntfVars, WwanInv, WwanType,
        WwanDevices, WwanXmit, WwanCounted,
        W!CountsInFlight, W!Locked, W!Gens
  <2> QED BY <2>1, <2>2, <2>3, <2>4, <2>5 DEF WwanInv
<1>19. CASE W!BeforeShutdown
  <2>1. WwanType'
    BY <1>19 DEF W!BeforeShutdown, W!devVars, W!rmVars, W!ntfVars, WwanInv, WwanType, W!Gens
  <2>2. WwanDevices'
    BY <1>19 DEF W!BeforeShutdown, W!devVars, W!rmVars, W!ntfVars, WwanInv, WwanType,
        WwanDevices, W!Locked, W!Gens
  <2>3. WwanXmit'
    BY <1>19 DEF W!BeforeShutdown, W!devVars, W!rmVars, W!ntfVars, WwanInv, WwanType,
        WwanDevices, WwanXmit, CompletionComes, W!Locked
  <2>4. WwanWaker'
    BY <1>19 DEF W!BeforeShutdown, W!devVars, W!rmVars, W!ntfVars, WwanInv, WwanType,
        WwanDevices, WwanXmit, WwanWaker,
        CompletionComes, W!Locked
  <2>5. WwanCounted'
    BY <1>19 DEF W!BeforeShutdown, W!devVars, W!rmVars, W!ntfVars, WwanInv, WwanType,
        WwanDevices, WwanXmit, WwanCounted,
        W!CountsInFlight, W!Locked, W!Gens
  <2> QED BY <2>1, <2>2, <2>3, <2>4, <2>5 DEF WwanInv
<1>20. CASE W!StopQueue
  <2>1. WwanType'
    BY <1>20 DEF W!StopQueue, W!devVars, W!rmVars, W!ntfVars, WwanInv, WwanType, W!Gens
  <2>2. WwanDevices'
    BY <1>20 DEF W!StopQueue, W!devVars, W!rmVars, W!ntfVars, WwanInv, WwanType,
        WwanDevices, W!Locked, W!Gens
  <2>3. WwanXmit'
    BY <1>20 DEF W!StopQueue, W!devVars, W!rmVars, W!ntfVars, WwanInv, WwanType,
        WwanDevices, WwanXmit, CompletionComes, W!Locked
  <2>4. WwanWaker'
    BY <1>20 DEF W!StopQueue, W!devVars, W!rmVars, W!ntfVars, WwanInv, WwanType,
        WwanDevices, WwanXmit, WwanWaker,
        CompletionComes, W!Locked
  <2>5. WwanCounted'
    BY <1>20 DEF W!StopQueue, W!devVars, W!rmVars, W!ntfVars, WwanInv, WwanType,
        WwanDevices, WwanXmit, WwanCounted,
        W!CountsInFlight, W!Locked, W!Gens
  <2> QED BY <2>1, <2>2, <2>3, <2>4, <2>5 DEF WwanInv
<1>21. CASE W!Remove
  <2>1. WwanType'
    <3>1. wGen' \in 0 .. MaxGen /\ wLast' \in 0 .. MaxGen /\ wGen' <= wLast'
      BY <1>21 DEF W!Remove, W!devVars, W!rmVars, W!ntfVars, WwanInv, WwanType
    <3>2. wCount' \in Int
      BY <1>21 DEF W!Remove, W!devVars, W!rmVars, W!ntfVars, WwanInv, WwanType
    <3> QED BY <1>21, <3>1, <3>2 DEF W!Remove, W!devVars, W!rmVars, W!ntfVars, WwanInv, WwanType
  <2>2. WwanDevices'
    BY <1>21 DEF W!Remove, W!devVars, W!rmVars, W!ntfVars, WwanInv, WwanType, WwanDevices,
        W!Locked, W!Gens
  <2>3. WwanXmit'
    BY <1>21 DEF W!Remove, W!devVars, W!rmVars, W!ntfVars, WwanInv, WwanType, WwanDevices,
        WwanXmit, CompletionComes, W!Locked
  <2>4. WwanWaker'
    BY <1>21 DEF W!Remove, W!devVars, W!rmVars, W!ntfVars, WwanInv, WwanType, WwanDevices,
        WwanXmit, WwanWaker,
        CompletionComes, W!Locked
  <2>5. WwanCounted'
    BY <1>21 DEF W!Remove, W!devVars, W!rmVars, W!ntfVars, WwanInv, WwanType, WwanDevices,
        WwanXmit, WwanCounted,
        W!CountsInFlight, W!Locked, W!Gens
  <2> QED BY <2>1, <2>2, <2>3, <2>4, <2>5 DEF WwanInv
<1>22. CASE W!Probe
  <2>1. WwanType'
    <3>1. wGen' \in 0 .. MaxGen /\ wLast' \in 0 .. MaxGen /\ wGen' <= wLast'
      BY <1>22 DEF W!Probe, W!FreshCount, W!devVars, W!rmVars, W!ntfVars, WwanInv, WwanType
    <3>2. wCount' \in Int
      BY <1>22 DEF W!Probe, W!FreshCount, W!devVars, W!rmVars, W!ntfVars, WwanInv, WwanType
    <3> QED BY <1>22, <3>1, <3>2 DEF W!Probe, W!FreshCount, W!devVars, W!rmVars, W!ntfVars, WwanInv, WwanType
  <2>2. WwanDevices'
    BY <1>22 DEF W!Probe, W!FreshCount, W!devVars, W!rmVars, W!ntfVars, WwanInv, WwanType,
        WwanDevices, W!Locked, W!Gens
  <2>3. WwanXmit'
    BY <1>22 DEF W!Probe, W!FreshCount, W!devVars, W!rmVars, W!ntfVars, WwanInv, WwanType,
        WwanDevices, WwanXmit, CompletionComes, W!Locked
  <2>4. WwanWaker'
    BY <1>22 DEF W!Probe, W!FreshCount, W!devVars, W!rmVars, W!ntfVars, WwanInv, WwanType,
        WwanDevices, WwanXmit, WwanWaker,
        CompletionComes, W!Locked
  <2>5. WwanCounted'
    BY <1>22 DEF W!Probe, W!FreshCount, W!devVars, W!rmVars, W!ntfVars, WwanInv, WwanType,
        WwanDevices, WwanXmit, WwanCounted,
        W!CountsInFlight, W!Locked, W!Gens
  <2> QED BY <2>1, <2>2, <2>3, <2>4, <2>5 DEF WwanInv
<1>23. CASE W!ProbeDone
  <2>1. WwanType'
    <3>1. wSsr' \in BOOLEAN
      BY <1>23 DEF W!ProbeDone
    <3> QED BY <1>23, <3>1 DEF W!ProbeDone, W!devVars, W!rmVars, W!ntfVars, WwanInv, WwanType
  <2>2. WwanDevices'
    BY <1>23 DEF W!ProbeDone, W!devVars, W!rmVars, W!ntfVars, WwanInv, WwanType,
        WwanDevices, W!Locked, W!Gens
  <2>3. WwanXmit'
    BY <1>23 DEF W!ProbeDone, W!devVars, W!rmVars, W!ntfVars, WwanInv, WwanType,
        WwanDevices, WwanXmit, CompletionComes, W!Locked
  <2>4. WwanWaker'
    BY <1>23 DEF W!ProbeDone, W!devVars, W!rmVars, W!ntfVars, WwanInv, WwanType,
        WwanDevices, WwanXmit, WwanWaker,
        CompletionComes, W!Locked
  <2>5. WwanCounted'
    BY <1>23 DEF W!ProbeDone, W!devVars, W!rmVars, W!ntfVars, WwanInv, WwanType,
        WwanDevices, WwanXmit, WwanCounted,
        W!CountsInFlight, W!Locked, W!Gens
  <2> QED BY <2>1, <2>2, <2>3, <2>4, <2>5 DEF WwanInv
<1>24. ASSUME NEW ctl \in BOOLEAN, W!XmitAsk(ctl) PROVE WwanInv'
  <2>1. WwanType'
    BY <1>24 DEF W!XmitAsk, W!devVars, W!rmVars, W!ntfVars, WwanInv, WwanType, W!Gens
  <2>2. WwanDevices'
    BY <1>24 DEF W!XmitAsk, W!devVars, W!rmVars, W!ntfVars, WwanInv, WwanType, WwanDevices,
        W!Locked, W!Gens
  <2>3. WwanXmit'
    BY <1>24 DEF W!XmitAsk, W!devVars, W!rmVars, W!ntfVars, WwanInv, WwanType, WwanDevices,
        WwanXmit, CompletionComes, W!Locked
  <2>4. WwanWaker'
    BY <1>24 DEF W!XmitAsk, W!devVars, W!rmVars, W!ntfVars, WwanInv, WwanType, WwanDevices,
        WwanXmit, WwanWaker,
        CompletionComes, W!Locked
  <2>5. WwanCounted'
    BY <1>24 DEF W!XmitAsk, W!devVars, W!rmVars, W!ntfVars, WwanInv, WwanType, WwanDevices,
        WwanXmit, WwanCounted,
        W!CountsInFlight, W!Locked, W!Gens
  <2> QED BY <2>1, <2>2, <2>3, <2>4, <2>5 DEF WwanInv
<1> QED
  BY <1>1, <1>2, <1>3, <1>4, <1>5, <1>6, <1>7, <1>8, <1>9, <1>10, <1>11, <1>12, <1>13,
     <1>14, <1>15, <1>16, <1>17, <1>18, <1>19, <1>20, <1>21, <1>22, <1>23, <1>24 DEF
     W!Next, W!XmitAsked

\* The timer and the clocks leave the network device alone.
LEMMA WwanOtherSteps == WwanInv /\ [MCNext]_allVars => WwanInv'
<1> SUFFICES ASSUME WwanInv, [MCNext]_allVars PROVE WwanInv'
  OBVIOUS
<1>1. CASE Wwan
  BY <1>1, WwanStep DEF Wwan
<1>2. CASE UNCHANGED wwanVars
  BY <1>2 DEF wwanVars, WwanInv, WwanType, WwanDevices, WwanXmit, WwanWaker,
              CompletionComes, WwanCounted, W!CountsInFlight, W!Locked, W!Gens
<1> QED BY <1>1, <1>2 DEF MCNext, Power, Timer, allVars

\* outstanding_pkts is the number of packets the device has in flight, and a
\* stopped queue has somebody who wakes it unless its wake-up was lost in one of
\* the two ways the module names, for all water marks and any number of devices
\* and packets (ipa_wwan_xmit(), apps_ipa_tx_complete_notify()).
THEOREM WwanQueueIsSound == MCSpec => []WwanQueueSound
<1>1. MCInit => WwanInv
  <2> SUFFICES ASSUME W!Init PROVE WwanInv
    BY DEF MCInit
  <2>1. wFlight \in [W!Gens -> Nat] /\ \A g \in W!Gens : wFlight[g] = 0
    BY DEF W!Init
  <2>2. wGen \in 0 .. MaxGen /\ wLast \in 0 .. MaxGen /\ wGen <= wLast
    BY WaterMarks DEF W!Init
  <2>3. WwanType
    <3>1. wCount \in Int
      BY DEF W!Init
    <3> QED BY <2>1, <2>2, <3>1 DEF W!Init, WwanType
  <2> QED BY <2>1, <2>3 DEF W!Init, WwanInv, WwanDevices, WwanXmit,
                            WwanWaker, CompletionComes, WwanCounted, W!CountsInFlight,
                            W!Locked
<1>2. WwanInv => WwanQueueSound
  BY DEF WwanInv, WwanCounted, WwanWaker, CompletionComes, WwanQueueSound,
         W!StoppedHasWaker
<1> QED BY <1>1, <1>2, WwanOtherSteps, PTL DEF MCSpec
-----------------------------------------------------------------------------
(* The clocks and the pipe.  ipa_active_clients.mutex separates the count    *)
(* from what it stands for: the invariant says what holds while the mutex is *)
(* held to switch the clocks on or off.  sys->curr_polling_state is on       *)
(* exactly while the receive work is queued or at work, which is what makes  *)
(* the check of the FIFO before gating sufficient.                           *)
Works == {"tag", "irq"}
TagsOnce(q) == \A i, j \in 1 .. Len(q) : q[i] = "tag" /\ q[j] = "tag" => i = j

\* The TAG process is queued, or under way, once.
TagInv == TagsOnce(pmWq) /\ (P!Queued("tag", pmWq) => pm # "tag")

\* The count, the clocks and the suspend bit of the pipe.
ClockInv ==
  /\ lock = "free" => (clk <=> cnt > 0) /\ (susp <=> ~clk)
  /\ lock = "enable" => cnt = 1 /\ clk /\ susp
  /\ lock = "disable" => cnt = 0 /\ clk /\ susp
  /\ cnt = 0 => ~tagFlag

\* While the first vote turns the clocks on, nobody else has a vote.
EnableInv == lock = "enable" => perf = "idle" /\ rx \in {"idle", "poll"} /\ ~eotOn

\* The receive pipe is polled exactly while the receive work is to come or at it.
AtWork == rx \in {"poll", "toIntr", "clear"}
ModeInv ==
  /\ polling <=> (rxWork \/ AtWork)
  /\ ~(rxWork /\ AtWork)
  /\ (eotOn /\ polling) <=> rx = "clear"
  /\ ~clk => ~eotOn
  /\ (lock = "free" /\ clk) => (eotOn \/ polling)

DrainInv == (susp /\ fifo > 0 /\ lock # "enable") => rxWork
WakeInv == (pWake /\ rx \in {"idle", "dec"}) => rxWork

RateInv ==
  /\ (clk /\ perf = "idle") => hwRate = curRate
  /\ (clk /\ perf = "idle" /\ lock # "enable") => bus = curRate
  /\ perf \in {"bus", "dec"} => hwRate = curRate
  /\ perf = "dec" => bus = curRate

PowerInv == /\ P!TypeOK /\ P!VotesBalance /\ TagInv /\ ClockInv /\ EnableInv /\ ModeInv
            /\ DrainInv /\ WakeInv /\ RateInv /\ P!WakeVoteReleased

\* queue_work() of a work that is pending leaves one of it in the queue.
LEMMA QueueOnceKeeps ==
  ASSUME NEW q \in Seq(Works), NEW w \in Works, TagsOnce(q)
  PROVE  /\ P!QueueOnce(q, w) \in Seq(Works)
         /\ TagsOnce(P!QueueOnce(q, w))
         /\ P!Queued(w, P!QueueOnce(q, w))
         /\ \A v \in Works : v # w => (P!Queued(v, P!QueueOnce(q, w)) <=> P!Queued(v, q))
<1>1. CASE P!Queued(w, q)
  BY <1>1 DEF P!QueueOnce
<1>2. CASE ~P!Queued(w, q)
  <2> DEFINE r == Append(q, w)
  <2>1. r \in Seq(Works) /\ Len(r) = Len(q) + 1 /\ r[Len(q) + 1] = w
        /\ \A i \in 1 .. Len(q) : r[i] = q[i]
    OBVIOUS
  <2>2. P!QueueOnce(q, w) = r
    BY <1>2 DEF P!QueueOnce
  <2> HIDE DEF r
  <2>3. Len(q) \in Nat /\ 1 .. Len(r) = 1 .. Len(q) \cup {Len(q) + 1}
    BY <2>1
  <2>4. TagsOnce(r)
    BY <1>2, <2>1, <2>3 DEF TagsOnce, P!Queued
  <2>5. P!Queued(w, r)
    BY <2>1, <2>3 DEF P!Queued
  <2>6. \A v \in Works : v # w => (P!Queued(v, r) <=> P!Queued(v, q))
    BY <2>1, <2>3 DEF P!Queued
  <2> QED BY <2>1, <2>2, <2>4, <2>5, <2>6
<1> QED BY <1>1, <1>2

\* Taking the oldest work off the queue.
LEMMA TailKeeps ==
  ASSUME NEW q \in Seq(Works), q # <<>>, TagsOnce(q)
  PROVE  /\ Tail(q) \in Seq(Works) /\ TagsOnce(Tail(q))
         /\ Head(q) = "tag" => P!Queued("tag", q) /\ ~P!Queued("tag", Tail(q))
         /\ Head(q) # "tag" => (P!Queued("tag", Tail(q)) <=> P!Queued("tag", q))
<1> DEFINE r == Tail(q)
<1>1. /\ r \in Seq(Works) /\ Len(r) = Len(q) - 1 /\ Len(q) \in Nat /\ Len(q) > 0
      /\ Head(q) = q[1] /\ \A i \in 1 .. Len(r) : r[i] = q[i + 1]
  OBVIOUS
<1> HIDE DEF r
<1>2. \A i \in 1 .. Len(r) : i + 1 \in 1 .. Len(q) /\ i + 1 # 1
  BY <1>1
<1>3. \A i \in 1 .. Len(q) : i # 1 => i - 1 \in 1 .. Len(r) /\ r[i - 1] = q[i]
  BY <1>1
<1>4. 1 \in 1 .. Len(q)
  BY <1>1
<1>5. TagsOnce(r)
  BY <1>1, <1>2 DEF TagsOnce
<1>6. Head(q) = "tag" => P!Queued("tag", q) /\ ~P!Queued("tag", r)
  BY <1>1, <1>2, <1>4 DEF TagsOnce, P!Queued
<1>7. Head(q) # "tag" => (P!Queued("tag", r) <=> P!Queued("tag", q))
  BY ZenonT(40), <1>1, <1>2, <1>3, <1>4 DEF P!Queued
<1> QED BY <1>1, <1>5, <1>6, <1>7 DEF r

\* TypeOK in parts that the provers take one at a time.
FlagType ==
  /\ clk \in BOOLEAN /\ tagFlag \in BOOLEAN /\ client \in BOOLEAN /\ proxy \in BOOLEAN
  /\ stts \in BOOLEAN /\ irqLine \in BOOLEAN /\ irqWq \in BOOLEAN
  /\ decClients \in BOOLEAN /\ eotActivity \in BOOLEAN /\ relWork \in BOOLEAN
  /\ susp \in BOOLEAN /\ latched \in BOOLEAN /\ eotOn \in BOOLEAN /\ polling \in BOOLEAN
  /\ rxWork \in BOOLEAN /\ pWake \in BOOLEAN
StepType ==
  /\ lock \in P!LockSteps /\ perf \in P!PerfSteps /\ pm \in P!PmSteps /\ rx \in P!RxSteps
  /\ napi \in NapiModes
RateType == curRate \in Rates /\ hwRate \in Rates /\ bus \in Rates \cup {0}
FifoType == backlog \in Nat /\ fifo \in Nat /\ seen \in 0 .. fifo /\ arrived \in Nat
QueueType == pmWq \in Seq(Works)

\* The type invariant in parts that actions touch together.
LEMMA PowerTypeParts ==
  P!TypeOK <=> FlagType /\ StepType /\ RateType /\ FifoType /\ QueueType /\ cnt \in Nat
BY DEF P!TypeOK, FlagType, StepType, RateType, FifoType, QueueType, Works

\* The parts after a step give the type invariant after it.
LEMMA PowerTypePartsNext ==
  ASSUME FlagType', StepType', RateType', FifoType', QueueType', cnt' \in Nat
  PROVE  P!TypeOK'
BY DEF P!TypeOK, FlagType, StepType, RateType, FifoType, QueueType, Works

\* The seven voters.
TagVote == P!Queued("tag", pmWq) \/ pm = "tag"
IrqVote == pm \in {"irq", "irqDec"}

\* Without votes there are no voters, and with one vote there is one voter.
LEMMA FewVotes ==
  ASSUME PowerInv
  PROVE  /\ cnt = 0 => /\ ~client /\ ~proxy /\ ~decClients /\ perf = "idle"
                       /\ ~TagVote /\ ~IrqVote /\ rx = "idle"
         /\ (client \/ proxy \/ decClients \/ perf # "idle" \/ TagVote \/ IrqVote
               \/ rx # "idle") => cnt > 0
         /\ (cnt = 1 /\ (client \/ proxy \/ decClients \/ perf # "idle" \/ TagVote \/ IrqVote))
               => rx = "idle"
         /\ (cnt = 1 /\ (client \/ proxy \/ decClients \/ perf # "idle" \/ IrqVote
                           \/ rx # "idle")) => ~TagVote
BY DEF PowerInv, P!TypeOK, P!VotesBalance, P!B, TagVote, IrqVote

\* Everything but the types and the voters, which depend on who acts.
SwitchInv == ClockInv /\ EnableInv /\ ModeInv /\ DrainInv /\ WakeInv /\ RateInv

\* A new vote.  The receive work may be the voter.
LEMMA IncKeeps ==
  ASSUME PowerInv, P!Inc, UNCHANGED <<susp, fifo, eotOn, perf, curRate, polling, pWake>>,
         \/ UNCHANGED <<rx, rxWork>>
         \/ rx = "idle" /\ rxWork /\ rx' = "poll" /\ ~rxWork'
  PROVE  SwitchInv' /\ cnt' = cnt + 1 /\ lock' \in P!LockSteps /\ clk' = TRUE
         /\ hwRate' \in {hwRate, curRate} /\ UNCHANGED <<bus, tagFlag>>
<1>1. /\ P!TypeOK /\ ClockInv /\ EnableInv /\ ModeInv /\ DrainInv /\ WakeInv /\ RateInv
      /\ lock = "free" /\ cnt' = cnt + 1 /\ UNCHANGED <<bus, tagFlag>>
  BY DEF PowerInv, P!Inc, P!Free
<1>2. CASE cnt = 0
  <2>1. lock' = "enable" /\ clk' = TRUE /\ hwRate' = curRate /\ cnt' = 1
    BY <1>1, <1>2 DEF P!Inc, P!EnabledRate
  <2>2. ~clk /\ susp /\ ~eotOn /\ perf = "idle" /\ rx = "idle"
    BY <1>1, <1>2, FewVotes DEF ClockInv, ModeInv, P!TypeOK
  <2>3. ClockInv' /\ EnableInv' /\ DrainInv' /\ RateInv'
    BY <2>1, <2>2 DEF ClockInv, EnableInv, DrainInv, RateInv
  <2>4. ModeInv' /\ WakeInv'
    BY <1>1, <2>1, <2>2 DEF ModeInv, WakeInv, AtWork
  <2> QED BY <1>1, <2>1, <2>3, <2>4 DEF SwitchInv, P!LockSteps
<1>3. CASE cnt # 0
  <2>1. lock' = "free" /\ clk' = clk /\ hwRate' = hwRate /\ cnt > 0 /\ cnt' > 0
    BY <1>1, <1>3 DEF P!Inc, P!TypeOK
  <2>2. clk /\ clk' /\ ~susp
    BY <1>1, <2>1 DEF ClockInv
  <2>3. ClockInv' /\ EnableInv' /\ DrainInv' /\ RateInv'
    BY <1>1, <2>1, <2>2 DEF ClockInv, EnableInv, DrainInv, RateInv
  <2>4. ModeInv' /\ WakeInv'
    BY <1>1, <2>1, <2>2 DEF ModeInv, WakeInv, AtWork
  <2>5. clk' = TRUE
    BY <2>1, <2>2, <1>1 DEF P!TypeOK
  <2> QED BY <1>1, <2>1, <2>3, <2>4, <2>5 DEF SwitchInv, P!LockSteps
<1> QED BY <1>2, <1>3

\* A vote that is given back.  The receive work or a change of rate may be the
\* voter; the last voter leaves no work on the pipe behind it.
LEMMA DecKeeps ==
  ASSUME PowerInv, NEW tag \in BOOLEAN, NEW clears \in BOOLEAN, P!Dec(tag, clears),
         cnt > 0,
         cnt = 1 => rx \in {"idle", "dec"} /\ ~P!Queued("tag", pmWq),
         UNCHANGED curRate,
         perf' = perf \/ (perf = "dec" /\ perf' = "idle"),
         rx' = rx \/ (rx = "dec" /\ rx' = "idle")
  PROVE  /\ SwitchInv'
         /\ cnt' = P!VoteLeft(tag) /\ cnt' \in Nat
         /\ pmWq' \in Seq(Works) /\ TagsOnce(pmWq')
         /\ P!TagFirst(tag) => P!Queued("tag", pmWq')
         /\ ~P!TagFirst(tag) => pmWq' = pmWq
         /\ lock' \in P!LockSteps
<1>1. /\ P!TypeOK /\ ClockInv /\ EnableInv /\ ModeInv /\ DrainInv /\ WakeInv /\ RateInv
      /\ lock = "free" /\ cnt' = P!VoteLeft(tag) /\ UNCHANGED <<clk, hwRate, bus>>
      /\ tagFlag' = (tag /\ ~P!TagFirst(tag))
  BY DEF PowerInv, P!Dec, P!Free
<1>2. clk /\ ~susp
  BY <1>1 DEF ClockInv
<1>3. CASE P!Gates(tag)
  <2>1. /\ cnt = 1 /\ ~tag /\ ~P!TagFirst(tag) /\ cnt' = 0 /\ ~tagFlag'
        /\ lock' = "disable" /\ pmWq' = pmWq
    BY <1>1, <1>3 DEF P!Gates, P!TagFirst, P!LastVote, P!VoteLeft, P!Dec
  <2>2. susp' = TRUE /\ UNCHANGED <<backlog, fifo, latched, seen>>
    BY <1>3 DEF P!Dec, P!SuspendAppsPipes
  <2>3. rx \in {"idle", "dec"} /\ rx' \in {"idle", "dec"} /\ ~AtWork /\ ~AtWork'
    BY <2>1 DEF AtWork
  <2>4. \/ P!RxNotify
        \/ fifo = 0 /\ UNCHANGED <<polling, eotOn, rxWork, pWake>>
    BY <1>1, <1>3 DEF P!Dec, P!NotEmpty, P!TypeOK
  <2>5. ClockInv' /\ EnableInv' /\ RateInv'
    BY <1>1, <1>2, <2>1, <2>2 DEF ClockInv, EnableInv, RateInv
  <2>6. polling <=> rxWork
    BY <1>1, <2>3 DEF ModeInv
  <2>7. ModeInv' /\ DrainInv' /\ WakeInv'
    BY <1>1, <1>2, <2>1, <2>2, <2>3, <2>4, <2>6
    DEF P!RxNotify, ModeInv, DrainInv, WakeInv, AtWork, P!TypeOK
  <2> QED BY <1>1, <2>1, <2>5, <2>7 DEF SwitchInv, P!LockSteps, PowerInv, TagInv, P!TypeOK, Works
<1>4. CASE ~P!Gates(tag)
  <2>1. UNCHANGED <<lock, susp, backlog, fifo, seen, latched, polling, eotOn, rxWork, pWake>>
    BY <1>4 DEF P!Dec, P!fifoVars
  <2>2. cnt' \in Nat /\ cnt' > 0
    BY <1>1, <1>4 DEF P!Gates, P!TagFirst, P!LastVote, P!VoteLeft, P!TypeOK
  <2>3. /\ pmWq' \in Seq(Works) /\ TagsOnce(pmWq')
        /\ P!TagFirst(tag) => P!Queued("tag", pmWq')
        /\ ~P!TagFirst(tag) => pmWq' = pmWq
    <3>1. pmWq \in Seq(Works) /\ TagsOnce(pmWq) /\ "tag" \in Works
      BY DEF PowerInv, TagInv, P!TypeOK, Works
    <3>2. CASE P!TagFirst(tag)
      BY <3>1, <3>2, QueueOnceKeeps DEF P!Dec
    <3>3. CASE ~P!TagFirst(tag)
      BY <3>1, <3>3 DEF P!Dec
    <3> QED BY <3>2, <3>3
  <2>4. ClockInv' /\ EnableInv'
    BY <1>1, <1>2, <2>1, <2>2 DEF ClockInv, EnableInv
  <2>5. RateInv'
    BY <1>1, <1>2, <2>1 DEF RateInv
  <2>6. ModeInv' /\ DrainInv' /\ WakeInv'
    BY <1>1, <1>2, <2>1 DEF ModeInv, DrainInv, WakeInv, AtWork
  <2> QED BY <1>1, <2>1, <2>2, <2>3, <2>4, <2>5, <2>6 DEF SwitchInv, P!LockSteps
<1> QED BY <1>3, <1>4

\* The types of what a given-back vote touches.
LEMMA DecTypes ==
  ASSUME FlagType, FifoType, NEW tag \in BOOLEAN, NEW clears \in BOOLEAN,
         P!Dec(tag, clears)
  PROVE  /\ clk' \in BOOLEAN /\ tagFlag' \in BOOLEAN /\ susp' \in BOOLEAN
         /\ latched' \in BOOLEAN /\ eotOn' \in BOOLEAN /\ polling' \in BOOLEAN
         /\ rxWork' \in BOOLEAN /\ pWake' \in BOOLEAN /\ eotActivity' \in BOOLEAN
         /\ UNCHANGED <<backlog, fifo, seen, hwRate, bus>>
<1>1. UNCHANGED <<backlog, fifo, seen, latched, clk, hwRate, bus>> /\ susp' \in {susp, TRUE}
  BY DEF P!Dec, P!SuspendAppsPipes, P!fifoVars
<1>2. tagFlag' \in BOOLEAN
  BY DEF P!Dec
<1>3. eotActivity' \in BOOLEAN
  BY DEF P!Dec
<1>4. \/ P!RxNotify
      \/ UNCHANGED <<polling, eotOn, rxWork, pWake>>
  BY DEF P!Dec
<1>5. polling' \in BOOLEAN /\ eotOn' \in BOOLEAN /\ rxWork' \in BOOLEAN /\ pWake' \in BOOLEAN
  BY <1>4 DEF P!RxNotify, FlagType
<1> QED BY <1>1, <1>2, <1>3, <1>5 DEF FlagType

\* The steps that take a vote.
LEMMA PowerIncSteps ==
  ASSUME PowerInv
  PROVE  /\ P!ResumeClient => PowerInv'
         /\ (P!ProxyVoteInc /\ ~proxy) => PowerInv'
         /\ P!DeferStart => PowerInv'
         /\ P!SuspendHandler => PowerInv'
         /\ P!RxStart => PowerInv'
<1>0. /\ FlagType /\ StepType /\ RateType /\ FifoType /\ QueueType /\ cnt \in Nat
      /\ P!VotesBalance /\ TagInv /\ P!WakeVoteReleased /\ SwitchInv
  BY PowerTypeParts DEF PowerInv, SwitchInv
<1>1. ASSUME P!ResumeClient PROVE PowerInv'
  <2>1. /\ P!Inc /\ UNCHANGED <<susp, backlog, fifo, seen, latched, eotOn, perf, curRate, polling,
                    pWake, stts, irqLine, eotActivity, napi, arrived>>
        /\ UNCHANGED <<pmWq, pm>>
        /\ UNCHANGED <<decClients, relWork, irqWq>>
        /\ ~client /\ client' = TRUE
        /\ UNCHANGED <<proxy>>
        /\ UNCHANGED <<rx, rxWork>>
    BY <1>1 DEF P!ResumeClient, P!irqVars, P!spsVars, P!fifoVars, P!modeVars
  <2>2. /\ SwitchInv' /\ cnt' = cnt + 1 /\ lock' \in P!LockSteps /\ clk' = TRUE
        /\ hwRate' \in {hwRate, curRate} /\ UNCHANGED <<bus, tagFlag>>
    BY <2>1, IncKeeps
  <2>3. FlagType'
    BY <1>0, <2>1, <2>2 DEF FlagType
  <2>4. StepType' /\ RateType'
    BY <1>0, <2>1, <2>2 DEF StepType, RateType, P!PmSteps, P!RxSteps
  <2>5. FifoType' /\ cnt' \in Nat
    BY <1>0, <2>1, <2>2 DEF FifoType
  <2>6. /\ QueueType'
        /\ P!Queued("tag", pmWq') <=> P!Queued("tag", pmWq)
    BY <1>0, <2>1 DEF QueueType
  <2>7. TagInv' /\ P!WakeVoteReleased'
    BY <1>0, <2>1 DEF TagInv, TagsOnce, P!Queued, P!WakeVoteReleased
  <2>8. P!VotesBalance'
    BY <1>0, <2>1, <2>2, <2>6 DEF P!VotesBalance, P!B
  <2> QED BY <2>2, <2>3, <2>4, <2>5, <2>6, <2>7, <2>8, PowerTypePartsNext DEF PowerInv, SwitchInv
<1>2. ASSUME P!ProxyVoteInc, ~proxy PROVE PowerInv'
  <2>1. /\ P!Inc /\ UNCHANGED <<susp, backlog, fifo, seen, latched, eotOn, perf, curRate, polling,
                    pWake, stts, irqLine, eotActivity, napi, arrived>>
        /\ UNCHANGED <<pmWq, pm>>
        /\ UNCHANGED <<decClients, relWork, irqWq>>
        /\ ~proxy /\ proxy' = TRUE
        /\ UNCHANGED <<client>>
        /\ UNCHANGED <<rx, rxWork>>
    BY <1>2 DEF P!ProxyVoteInc, P!irqVars, P!spsVars, P!fifoVars, P!modeVars
  <2>2. /\ SwitchInv' /\ cnt' = cnt + 1 /\ lock' \in P!LockSteps /\ clk' = TRUE
        /\ hwRate' \in {hwRate, curRate} /\ UNCHANGED <<bus, tagFlag>>
    BY <2>1, IncKeeps
  <2>3. FlagType'
    BY <1>0, <2>1, <2>2 DEF FlagType
  <2>4. StepType' /\ RateType'
    BY <1>0, <2>1, <2>2 DEF StepType, RateType, P!PmSteps, P!RxSteps
  <2>5. FifoType' /\ cnt' \in Nat
    BY <1>0, <2>1, <2>2 DEF FifoType
  <2>6. /\ QueueType'
        /\ P!Queued("tag", pmWq') <=> P!Queued("tag", pmWq)
    BY <1>0, <2>1 DEF QueueType
  <2>7. TagInv' /\ P!WakeVoteReleased'
    BY <1>0, <2>1 DEF TagInv, TagsOnce, P!Queued, P!WakeVoteReleased
  <2>8. P!VotesBalance'
    BY <1>0, <2>1, <2>2, <2>6 DEF P!VotesBalance, P!B
  <2> QED BY <2>2, <2>3, <2>4, <2>5, <2>6, <2>7, <2>8, PowerTypePartsNext DEF PowerInv, SwitchInv
<1>3. ASSUME P!DeferStart PROVE PowerInv'
  <2>1. /\ P!Inc /\ UNCHANGED <<susp, backlog, fifo, seen, latched, eotOn, perf, curRate, polling,
                    pWake, stts, irqLine, eotActivity, napi, arrived>>
        /\ pmWq' = Tail(pmWq) /\ pmWq # <<>> /\ Head(pmWq) = "irq" /\ pm = "idle" /\ pm' = "irq"
        /\ UNCHANGED <<decClients, relWork, irqWq>>
        /\ UNCHANGED <<client, proxy>>
        /\ UNCHANGED <<rx, rxWork>>
    BY <1>3 DEF P!DeferStart, P!irqVars, P!spsVars, P!fifoVars, P!modeVars
  <2>2. /\ SwitchInv' /\ cnt' = cnt + 1 /\ lock' \in P!LockSteps /\ clk' = TRUE
        /\ hwRate' \in {hwRate, curRate} /\ UNCHANGED <<bus, tagFlag>>
    BY <2>1, IncKeeps
  <2>3. FlagType'
    BY <1>0, <2>1, <2>2 DEF FlagType
  <2>4. StepType' /\ RateType'
    BY <1>0, <2>1, <2>2 DEF StepType, RateType, P!PmSteps, P!RxSteps
  <2>5. FifoType' /\ cnt' \in Nat
    BY <1>0, <2>1, <2>2 DEF FifoType
  <2>6. /\ QueueType' /\ TagsOnce(pmWq')
        /\ P!Queued("tag", pmWq') <=> P!Queued("tag", pmWq)
    BY <1>0, <2>1, TailKeeps DEF QueueType, TagInv
  <2>7. TagInv' /\ P!WakeVoteReleased'
    BY <1>0, <2>1, <2>6 DEF TagInv, TagsOnce, P!Queued, P!WakeVoteReleased
  <2>8. P!VotesBalance'
    BY <1>0, <2>1, <2>2, <2>6 DEF P!VotesBalance, P!B
  <2> QED BY <2>2, <2>3, <2>4, <2>5, <2>6, <2>7, <2>8, PowerTypePartsNext DEF PowerInv, SwitchInv
<1>4. ASSUME P!SuspendHandler PROVE PowerInv'
  <2>1. CASE decClients
    <3>1. UNCHANGED <<cnt, lock, clk, hwRate, bus, tagFlag, pmWq, decClients, relWork,
                      curRate, client, proxy, perf, pm, susp, backlog, fifo, seen, latched,
                      eotActivity, eotOn, polling, rxWork, pWake, rx, napi, arrived,
                      stts, irqLine>> /\ irqWq' = FALSE
      BY <1>4, <2>1 DEF P!SuspendHandler, P!clkVars, P!spsVars, P!fifoVars, P!modeVars
    <3>5. FlagType' /\ StepType'
      <4>1. irqWq' \in BOOLEAN
        BY <3>1
      <4> QED BY <1>0, <3>1, <4>1 DEF FlagType, StepType
    <3>6. RateType' /\ FifoType' /\ QueueType' /\ cnt' \in Nat
      BY <1>0, <3>1 DEF RateType, FifoType, QueueType
    <3>2. P!TypeOK'
      BY <3>5, <3>6, PowerTypePartsNext
    <3>3. P!VotesBalance' /\ TagInv' /\ P!WakeVoteReleased'
      BY <1>0, <3>1 DEF P!VotesBalance, P!B, TagInv, TagsOnce, P!Queued, P!WakeVoteReleased
    <3>4. SwitchInv'
      BY <1>0, <3>1 DEF SwitchInv, ClockInv, EnableInv, ModeInv, AtWork, DrainInv, WakeInv, RateInv
    <3> QED BY <3>2, <3>3, <3>4 DEF PowerInv, SwitchInv
  <2>2. CASE ~decClients
    <3>1. /\ P!Inc /\ UNCHANGED <<susp, backlog, fifo, seen, latched, eotOn, perf, curRate, polling,
                      pWake, stts, irqLine, eotActivity, napi, arrived>>
          /\ UNCHANGED <<pmWq, pm>>
          /\ decClients' = TRUE /\ relWork' = TRUE /\ irqWq' = FALSE
          /\ UNCHANGED <<client, proxy>>
          /\ UNCHANGED <<rx, rxWork>>
      BY <1>4, <2>2 DEF P!SuspendHandler, P!irqVars, P!spsVars, P!fifoVars, P!modeVars
    <3>2. /\ SwitchInv' /\ cnt' = cnt + 1 /\ lock' \in P!LockSteps /\ clk' = TRUE
          /\ hwRate' \in {hwRate, curRate} /\ UNCHANGED <<bus, tagFlag>>
      BY <3>1, IncKeeps
    <3>3. FlagType'
      <4>1. /\ tagFlag \in BOOLEAN /\ client \in BOOLEAN /\ proxy \in BOOLEAN /\ stts \in BOOLEAN
            /\ irqLine \in BOOLEAN /\ eotActivity \in BOOLEAN /\ susp \in BOOLEAN /\ latched \in BOOLEAN
            /\ eotOn \in BOOLEAN /\ polling \in BOOLEAN /\ rxWork \in BOOLEAN /\ pWake \in BOOLEAN
        BY <1>0 DEF FlagType
      <4> QED BY ZenonT(30), <3>1, <3>2, <4>1 DEF FlagType
    <3>4. StepType' /\ RateType'
      BY SMTT(30), <1>0, <3>1, <3>2 DEF StepType, RateType, P!PmSteps, P!RxSteps
    <3>5. FifoType' /\ cnt' \in Nat
      BY <1>0, <3>1, <3>2 DEF FifoType
    <3>6. /\ QueueType'
          /\ P!Queued("tag", pmWq') <=> P!Queued("tag", pmWq)
      BY <1>0, <3>1 DEF QueueType
    <3>7. TagInv' /\ P!WakeVoteReleased'
      BY <1>0, <3>1 DEF TagInv, TagsOnce, P!Queued, P!WakeVoteReleased
    <3>8. P!VotesBalance'
      BY <1>0, <3>1, <3>2, <3>6, <2>2 DEF P!VotesBalance, P!B
    <3> QED BY <3>2, <3>3, <3>4, <3>5, <3>6, <3>7, <3>8, PowerTypePartsNext DEF PowerInv, SwitchInv
  <2> QED BY <2>1, <2>2
<1>5. ASSUME P!RxStart PROVE PowerInv'
  <2>1. /\ P!Inc /\ UNCHANGED <<susp, backlog, fifo, seen, latched, eotOn, perf, curRate, polling,
                    pWake, stts, irqLine, eotActivity, napi, arrived>>
        /\ UNCHANGED <<pmWq, pm>>
        /\ UNCHANGED <<decClients, relWork, irqWq>>
        /\ UNCHANGED <<client, proxy>>
        /\ rx = "idle" /\ rxWork /\ rx' = "poll" /\ rxWork' = FALSE
    BY <1>5 DEF P!RxStart, P!irqVars, P!spsVars, P!fifoVars, P!modeVars
  <2>2. /\ SwitchInv' /\ cnt' = cnt + 1 /\ lock' \in P!LockSteps /\ clk' = TRUE
        /\ hwRate' \in {hwRate, curRate} /\ UNCHANGED <<bus, tagFlag>>
    BY <2>1, IncKeeps
  <2>3. FlagType'
    <3>1. rxWork' \in BOOLEAN /\ clk' \in BOOLEAN
      BY <2>1, <2>2
    <3> QED BY <1>0, <2>1, <2>2, <3>1 DEF FlagType
  <2>4. StepType' /\ RateType'
    BY <1>0, <2>1, <2>2 DEF StepType, RateType, P!PmSteps, P!RxSteps
  <2>5. FifoType' /\ cnt' \in Nat
    BY <1>0, <2>1, <2>2 DEF FifoType
  <2>6. /\ QueueType'
        /\ P!Queued("tag", pmWq') <=> P!Queued("tag", pmWq)
    BY <1>0, <2>1 DEF QueueType
  <2>7. TagInv' /\ P!WakeVoteReleased'
    BY <1>0, <2>1 DEF TagInv, TagsOnce, P!Queued, P!WakeVoteReleased
  <2>8. P!VotesBalance'
    BY <1>0, <2>1, <2>2, <2>6 DEF P!VotesBalance, P!B
  <2> QED BY <2>2, <2>3, <2>4, <2>5, <2>6, <2>7, <2>8, PowerTypePartsNext DEF PowerInv, SwitchInv
<1> QED BY <1>1, <1>2, <1>3, <1>4, <1>5

\* The steps that give a vote back.
LEMMA PowerDecSteps ==
  ASSUME PowerInv
  PROVE  /\ P!SuspendClientSync => PowerInv'
         /\ \A u \in Unvoters : P!ProxyUnvoteDec(u) /\ proxy => PowerInv'
         /\ P!PerfDec => PowerInv'
         /\ P!TagDone => PowerInv'
         /\ P!DeferDec => PowerInv'
         /\ P!RxDec => PowerInv'
         /\ P!ApSuspend => PowerInv'
         /\ P!ReleaseTimer => PowerInv'
<1>0. /\ FlagType /\ StepType /\ RateType /\ FifoType /\ QueueType /\ cnt \in Nat
      /\ P!VotesBalance /\ TagInv /\ P!WakeVoteReleased /\ SwitchInv
  BY PowerTypeParts DEF PowerInv, SwitchInv
<1>1. ASSUME P!SuspendClientSync PROVE PowerInv'
  <2>1. /\ P!Dec(TRUE, FALSE) /\ client /\ client' = FALSE
        /\ UNCHANGED <<proxy, perf, pm, rx, decClients, relWork, stts, irqLine,
                      irqWq, curRate, napi, arrived>>
    BY <1>1 DEF P!SuspendClientSync, P!irqVars, P!spsVars
  <2>2. /\ cnt > 0
        /\ cnt = 1 => rx \in {"idle", "dec"} /\ ~P!Queued("tag", pmWq)
        /\ TRUE \in BOOLEAN
    BY <1>0, <2>1, FewVotes DEF TagInv, FlagType, TagVote, IrqVote
  <2>3. /\ SwitchInv' /\ cnt' = P!VoteLeft(TRUE) /\ cnt' \in Nat /\ lock' \in P!LockSteps
        /\ pmWq' \in Seq(Works) /\ TagsOnce(pmWq')
        /\ P!TagFirst(TRUE) => P!Queued("tag", pmWq')
        /\ ~P!TagFirst(TRUE) => pmWq' = pmWq
    BY <2>1, <2>2, DecKeeps
  <2>4. /\ clk' \in BOOLEAN /\ tagFlag' \in BOOLEAN /\ susp' \in BOOLEAN
        /\ latched' \in BOOLEAN /\ eotOn' \in BOOLEAN /\ polling' \in BOOLEAN
        /\ rxWork' \in BOOLEAN /\ pWake' \in BOOLEAN /\ eotActivity' \in BOOLEAN
        /\ UNCHANGED <<backlog, fifo, seen, hwRate, bus>>
    BY <1>0, <2>1, <2>2, DecTypes
  <2>5. P!TypeOK'
    <3>1. client' \in BOOLEAN
      BY <1>0, <2>1 DEF P!KeepsVote, FlagType
    <3>2. FlagType'
      BY <1>0, <2>1, <2>4, <3>1 DEF FlagType
    <3>3. StepType'
      BY <1>0, <2>1, <2>3 DEF StepType, P!PerfSteps, P!PmSteps, P!RxSteps
    <3>4. RateType' /\ FifoType' /\ QueueType'
      BY <1>0, <2>1, <2>3, <2>4 DEF RateType, FifoType, QueueType
    <3> QED BY <2>3, <3>2, <3>3, <3>4, PowerTypePartsNext
  <2>6. P!TagFirst(TRUE) => cnt = 1 /\ cnt' = 1 /\ ~TagVote
    BY <1>0, <2>1, <2>2, <2>3, FewVotes DEF P!TagFirst, P!LastVote, P!VoteLeft, IrqVote
  <2>7. ~P!TagFirst(TRUE) => cnt' = cnt - 1
    BY <2>3 DEF P!VoteLeft
  <2>8. TagInv' /\ P!WakeVoteReleased'
    BY <1>0, <2>1, <2>3, <2>6 DEF TagInv, P!WakeVoteReleased, TagVote
  <2>9. P!VotesBalance'
    <3>3. ~client' /\ client /\ UNCHANGED <<proxy, perf, pm, rx, decClients>>
      BY <2>1
    <3>1. CASE P!TagFirst(TRUE)
      <4>1. cnt = 1 /\ cnt' = 1 /\ ~TagVote /\ P!Queued("tag", pmWq')
        BY <2>3, <2>6, <3>1
      <4> QED BY <1>0, <3>3, <4>1 DEF P!VotesBalance, P!B, TagVote
    <3>2. CASE ~P!TagFirst(TRUE)
      <4>1. cnt' = cnt - 1 /\ pmWq' = pmWq
        BY <2>3, <2>7, <3>2
      <4> QED BY <1>0, <3>3, <4>1 DEF P!VotesBalance, P!B, TagInv
    <3> QED BY <3>1, <3>2
  <2> QED BY <2>3, <2>5, <2>8, <2>9 DEF PowerInv, SwitchInv
<1>2. ASSUME NEW u \in Unvoters, P!ProxyUnvoteDec(u), proxy PROVE PowerInv'
  <2>1. /\ P!Dec(tagFlag, FALSE) /\ proxy /\ proxy' = FALSE
        /\ UNCHANGED <<client, perf, pm, rx, decClients, relWork, stts, irqLine,
                      irqWq, curRate, napi, arrived>>
    BY <1>2 DEF P!ProxyUnvoteDec, P!irqVars, P!spsVars
  <2>2. /\ cnt > 0
        /\ cnt = 1 => rx \in {"idle", "dec"} /\ ~P!Queued("tag", pmWq)
        /\ tagFlag \in BOOLEAN
    BY <1>0, <2>1, FewVotes DEF TagInv, FlagType, TagVote, IrqVote
  <2>3. /\ SwitchInv' /\ cnt' = P!VoteLeft(tagFlag) /\ cnt' \in Nat /\ lock' \in P!LockSteps
        /\ pmWq' \in Seq(Works) /\ TagsOnce(pmWq')
        /\ P!TagFirst(tagFlag) => P!Queued("tag", pmWq')
        /\ ~P!TagFirst(tagFlag) => pmWq' = pmWq
    BY <2>1, <2>2, DecKeeps
  <2>4. /\ clk' \in BOOLEAN /\ tagFlag' \in BOOLEAN /\ susp' \in BOOLEAN
        /\ latched' \in BOOLEAN /\ eotOn' \in BOOLEAN /\ polling' \in BOOLEAN
        /\ rxWork' \in BOOLEAN /\ pWake' \in BOOLEAN /\ eotActivity' \in BOOLEAN
        /\ UNCHANGED <<backlog, fifo, seen, hwRate, bus>>
    BY <1>0, <2>1, <2>2, DecTypes
  <2>5. P!TypeOK'
    <3>1. proxy' \in BOOLEAN
      BY <1>0, <2>1 DEF P!KeepsVote, FlagType
    <3>2. FlagType'
      BY <1>0, <2>1, <2>4, <3>1 DEF FlagType
    <3>3. StepType'
      BY <1>0, <2>1, <2>3 DEF StepType, P!PerfSteps, P!PmSteps, P!RxSteps
    <3>4. RateType' /\ FifoType' /\ QueueType'
      BY <1>0, <2>1, <2>3, <2>4 DEF RateType, FifoType, QueueType
    <3> QED BY <2>3, <3>2, <3>3, <3>4, PowerTypePartsNext
  <2>6. P!TagFirst(tagFlag) => cnt = 1 /\ cnt' = 1 /\ ~TagVote
    BY <1>0, <2>1, <2>2, <2>3, FewVotes DEF P!TagFirst, P!LastVote, P!VoteLeft, IrqVote
  <2>7. ~P!TagFirst(tagFlag) => cnt' = cnt - 1
    BY <2>3 DEF P!VoteLeft
  <2>8. TagInv' /\ P!WakeVoteReleased'
    BY <1>0, <2>1, <2>3, <2>6 DEF TagInv, P!WakeVoteReleased, TagVote
  <2>9. P!VotesBalance'
    <3>1. CASE P!TagFirst(tagFlag)
      BY <1>0, <2>1, <2>3, <2>6, <3>1 DEF P!VotesBalance, P!B, TagVote
    <3>2. CASE ~P!TagFirst(tagFlag)
      BY <1>0, <2>1, <2>3, <2>7, <3>2 DEF P!VotesBalance, P!B, TagInv
    <3> QED BY <3>1, <3>2
  <2> QED BY <2>3, <2>5, <2>8, <2>9 DEF PowerInv, SwitchInv
<1>3. ASSUME P!PerfDec PROVE PowerInv'
  <2>1. /\ P!Dec(tagFlag, FALSE) /\ perf = "dec" /\ perf' = "idle"
        /\ UNCHANGED <<client, proxy, pm, rx, decClients, relWork, stts, irqLine,
                      irqWq, curRate, napi, arrived>>
    BY <1>3 DEF P!PerfDec, P!irqVars, P!spsVars
  <2>2. /\ cnt > 0
        /\ cnt = 1 => rx \in {"idle", "dec"} /\ ~P!Queued("tag", pmWq)
        /\ tagFlag \in BOOLEAN
    BY <1>0, <2>1, FewVotes DEF TagInv, FlagType, TagVote, IrqVote
  <2>3. /\ SwitchInv' /\ cnt' = P!VoteLeft(tagFlag) /\ cnt' \in Nat /\ lock' \in P!LockSteps
        /\ pmWq' \in Seq(Works) /\ TagsOnce(pmWq')
        /\ P!TagFirst(tagFlag) => P!Queued("tag", pmWq')
        /\ ~P!TagFirst(tagFlag) => pmWq' = pmWq
    BY <2>1, <2>2, DecKeeps
  <2>4. /\ clk' \in BOOLEAN /\ tagFlag' \in BOOLEAN /\ susp' \in BOOLEAN
        /\ latched' \in BOOLEAN /\ eotOn' \in BOOLEAN /\ polling' \in BOOLEAN
        /\ rxWork' \in BOOLEAN /\ pWake' \in BOOLEAN /\ eotActivity' \in BOOLEAN
        /\ UNCHANGED <<backlog, fifo, seen, hwRate, bus>>
    BY <1>0, <2>1, <2>2, DecTypes
  <2>5. P!TypeOK'
    <3>2. FlagType'
      BY <1>0, <2>1, <2>4 DEF FlagType
    <3>3. StepType'
      BY <1>0, <2>1, <2>3 DEF StepType, P!PerfSteps, P!PmSteps, P!RxSteps
    <3>4. RateType' /\ FifoType' /\ QueueType'
      BY <1>0, <2>1, <2>3, <2>4 DEF RateType, FifoType, QueueType
    <3> QED BY <2>3, <3>2, <3>3, <3>4, PowerTypePartsNext
  <2>6. P!TagFirst(tagFlag) => cnt = 1 /\ cnt' = 1 /\ ~TagVote
    BY <1>0, <2>1, <2>2, <2>3, FewVotes DEF P!TagFirst, P!LastVote, P!VoteLeft, IrqVote
  <2>7. ~P!TagFirst(tagFlag) => cnt' = cnt - 1
    BY <2>3 DEF P!VoteLeft
  <2>8. TagInv' /\ P!WakeVoteReleased'
    BY <1>0, <2>1, <2>3, <2>6 DEF TagInv, P!WakeVoteReleased, TagVote
  <2>9. P!VotesBalance'
    <3>1. CASE P!TagFirst(tagFlag)
      BY <1>0, <2>1, <2>3, <2>6, <3>1 DEF P!VotesBalance, P!B, TagVote
    <3>2. CASE ~P!TagFirst(tagFlag)
      BY <1>0, <2>1, <2>3, <2>7, <3>2 DEF P!VotesBalance, P!B, TagInv
    <3> QED BY <3>1, <3>2
  <2> QED BY <2>3, <2>5, <2>8, <2>9 DEF PowerInv, SwitchInv
<1>4. ASSUME P!TagDone PROVE PowerInv'
  <2>1. /\ P!Dec(tagFlag, FALSE) /\ pm = "tag" /\ pm' = "idle"
        /\ UNCHANGED <<client, proxy, perf, rx, decClients, relWork, stts, irqLine,
                      irqWq, curRate, napi, arrived>>
    BY <1>4 DEF P!TagDone, P!irqVars, P!spsVars
  <2>2. /\ cnt > 0
        /\ cnt = 1 => rx \in {"idle", "dec"} /\ ~P!Queued("tag", pmWq)
        /\ tagFlag \in BOOLEAN
    BY <1>0, <2>1, FewVotes DEF TagInv, FlagType, TagVote, IrqVote
  <2>3. /\ SwitchInv' /\ cnt' = P!VoteLeft(tagFlag) /\ cnt' \in Nat /\ lock' \in P!LockSteps
        /\ pmWq' \in Seq(Works) /\ TagsOnce(pmWq')
        /\ P!TagFirst(tagFlag) => P!Queued("tag", pmWq')
        /\ ~P!TagFirst(tagFlag) => pmWq' = pmWq
    BY <2>1, <2>2, DecKeeps
  <2>4. /\ clk' \in BOOLEAN /\ tagFlag' \in BOOLEAN /\ susp' \in BOOLEAN
        /\ latched' \in BOOLEAN /\ eotOn' \in BOOLEAN /\ polling' \in BOOLEAN
        /\ rxWork' \in BOOLEAN /\ pWake' \in BOOLEAN /\ eotActivity' \in BOOLEAN
        /\ UNCHANGED <<backlog, fifo, seen, hwRate, bus>>
    BY <1>0, <2>1, <2>2, DecTypes
  <2>5. P!TypeOK'
    <3>2. FlagType'
      BY <1>0, <2>1, <2>4 DEF FlagType
    <3>3. StepType'
      BY <1>0, <2>1, <2>3 DEF StepType, P!PerfSteps, P!PmSteps, P!RxSteps
    <3>4. RateType' /\ FifoType' /\ QueueType'
      BY <1>0, <2>1, <2>3, <2>4 DEF RateType, FifoType, QueueType
    <3> QED BY <2>3, <3>2, <3>3, <3>4, PowerTypePartsNext
  <2>6. P!TagFirst(tagFlag) => cnt = 1 /\ cnt' = 1 /\ ~P!Queued("tag", pmWq)
    BY <1>0, <2>1, <2>2, <2>3, FewVotes DEF P!TagFirst, P!LastVote, P!VoteLeft, IrqVote
  <2>7. ~P!TagFirst(tagFlag) => cnt' = cnt - 1
    BY <2>3 DEF P!VoteLeft
  <2>8. TagInv' /\ P!WakeVoteReleased'
    BY <1>0, <2>1, <2>3, <2>6 DEF TagInv, P!WakeVoteReleased, TagVote
  <2>9. P!VotesBalance'
    <3>1. CASE P!TagFirst(tagFlag)
      BY <1>0, <2>1, <2>3, <2>6, <3>1 DEF P!VotesBalance, P!B, TagVote
    <3>2. CASE ~P!TagFirst(tagFlag)
      BY <1>0, <2>1, <2>3, <2>7, <3>2 DEF P!VotesBalance, P!B, TagInv
    <3> QED BY <3>1, <3>2
  <2> QED BY <2>3, <2>5, <2>8, <2>9 DEF PowerInv, SwitchInv
<1>5. ASSUME P!DeferDec PROVE PowerInv'
  <2>1. /\ P!Dec(tagFlag, FALSE) /\ pm = "irqDec" /\ pm' = "idle"
        /\ UNCHANGED <<client, proxy, perf, rx, decClients, relWork, stts, irqLine,
                      irqWq, curRate, napi, arrived>>
    BY <1>5 DEF P!DeferDec, P!irqVars, P!spsVars
  <2>2. /\ cnt > 0
        /\ cnt = 1 => rx \in {"idle", "dec"} /\ ~P!Queued("tag", pmWq)
        /\ tagFlag \in BOOLEAN
    BY <1>0, <2>1, FewVotes DEF TagInv, FlagType, TagVote, IrqVote
  <2>3. /\ SwitchInv' /\ cnt' = P!VoteLeft(tagFlag) /\ cnt' \in Nat /\ lock' \in P!LockSteps
        /\ pmWq' \in Seq(Works) /\ TagsOnce(pmWq')
        /\ P!TagFirst(tagFlag) => P!Queued("tag", pmWq')
        /\ ~P!TagFirst(tagFlag) => pmWq' = pmWq
    BY <2>1, <2>2, DecKeeps
  <2>4. /\ clk' \in BOOLEAN /\ tagFlag' \in BOOLEAN /\ susp' \in BOOLEAN
        /\ latched' \in BOOLEAN /\ eotOn' \in BOOLEAN /\ polling' \in BOOLEAN
        /\ rxWork' \in BOOLEAN /\ pWake' \in BOOLEAN /\ eotActivity' \in BOOLEAN
        /\ UNCHANGED <<backlog, fifo, seen, hwRate, bus>>
    BY <1>0, <2>1, <2>2, DecTypes
  <2>5. P!TypeOK'
    <3>2. FlagType'
      BY <1>0, <2>1, <2>4 DEF FlagType
    <3>3. StepType'
      BY <1>0, <2>1, <2>3 DEF StepType, P!PerfSteps, P!PmSteps, P!RxSteps
    <3>4. RateType' /\ FifoType' /\ QueueType'
      BY <1>0, <2>1, <2>3, <2>4 DEF RateType, FifoType, QueueType
    <3> QED BY <2>3, <3>2, <3>3, <3>4, PowerTypePartsNext
  <2>6. P!TagFirst(tagFlag) => cnt = 1 /\ cnt' = 1 /\ ~TagVote
    BY <1>0, <2>1, <2>2, <2>3, FewVotes DEF P!TagFirst, P!LastVote, P!VoteLeft, IrqVote
  <2>7. ~P!TagFirst(tagFlag) => cnt' = cnt - 1
    BY <2>3 DEF P!VoteLeft
  <2>8. TagInv' /\ P!WakeVoteReleased'
    BY <1>0, <2>1, <2>3, <2>6 DEF TagInv, P!WakeVoteReleased, TagVote
  <2>9. P!VotesBalance'
    <3>1. CASE P!TagFirst(tagFlag)
      BY <1>0, <2>1, <2>3, <2>6, <3>1 DEF P!VotesBalance, P!B, TagVote
    <3>2. CASE ~P!TagFirst(tagFlag)
      BY <1>0, <2>1, <2>3, <2>7, <3>2 DEF P!VotesBalance, P!B, TagInv
    <3> QED BY <3>1, <3>2
  <2> QED BY <2>3, <2>5, <2>8, <2>9 DEF PowerInv, SwitchInv
<1>6. ASSUME P!RxDec PROVE PowerInv'
  <2>1. /\ P!Dec(tagFlag, FALSE) /\ rx = "dec" /\ rx' = "idle"
        /\ UNCHANGED <<client, proxy, perf, pm, decClients, relWork, stts, irqLine,
                      irqWq, curRate, napi, arrived>>
    BY <1>6 DEF P!RxDec, P!irqVars, P!spsVars
  <2>2. /\ cnt > 0
        /\ cnt = 1 => rx \in {"idle", "dec"} /\ ~P!Queued("tag", pmWq)
        /\ tagFlag \in BOOLEAN
    BY <1>0, <2>1, FewVotes DEF TagInv, FlagType, TagVote, IrqVote
  <2>3. /\ SwitchInv' /\ cnt' = P!VoteLeft(tagFlag) /\ cnt' \in Nat /\ lock' \in P!LockSteps
        /\ pmWq' \in Seq(Works) /\ TagsOnce(pmWq')
        /\ P!TagFirst(tagFlag) => P!Queued("tag", pmWq')
        /\ ~P!TagFirst(tagFlag) => pmWq' = pmWq
    BY <2>1, <2>2, DecKeeps
  <2>4. /\ clk' \in BOOLEAN /\ tagFlag' \in BOOLEAN /\ susp' \in BOOLEAN
        /\ latched' \in BOOLEAN /\ eotOn' \in BOOLEAN /\ polling' \in BOOLEAN
        /\ rxWork' \in BOOLEAN /\ pWake' \in BOOLEAN /\ eotActivity' \in BOOLEAN
        /\ UNCHANGED <<backlog, fifo, seen, hwRate, bus>>
    BY <1>0, <2>1, <2>2, DecTypes
  <2>5. P!TypeOK'
    <3>2. FlagType'
      BY <1>0, <2>1, <2>4 DEF FlagType
    <3>3. StepType'
      BY <1>0, <2>1, <2>3 DEF StepType, P!PerfSteps, P!PmSteps, P!RxSteps
    <3>4. RateType' /\ FifoType' /\ QueueType'
      BY <1>0, <2>1, <2>3, <2>4 DEF RateType, FifoType, QueueType
    <3> QED BY <2>3, <3>2, <3>3, <3>4, PowerTypePartsNext
  <2>6. P!TagFirst(tagFlag) => cnt = 1 /\ cnt' = 1 /\ ~TagVote
    BY <1>0, <2>1, <2>2, <2>3, FewVotes DEF P!TagFirst, P!LastVote, P!VoteLeft, IrqVote
  <2>7. ~P!TagFirst(tagFlag) => cnt' = cnt - 1
    BY <2>3 DEF P!VoteLeft
  <2>8. TagInv' /\ P!WakeVoteReleased'
    BY <1>0, <2>1, <2>3, <2>6 DEF TagInv, P!WakeVoteReleased, TagVote
  <2>9. P!VotesBalance'
    <3>1. CASE P!TagFirst(tagFlag)
      BY <1>0, <2>1, <2>3, <2>6, <3>1 DEF P!VotesBalance, P!B, TagVote
    <3>2. CASE ~P!TagFirst(tagFlag)
      BY <1>0, <2>1, <2>3, <2>7, <3>2 DEF P!VotesBalance, P!B, TagInv
    <3> QED BY <3>1, <3>2
  <2> QED BY <2>3, <2>5, <2>8, <2>9 DEF PowerInv, SwitchInv
<1>7. ASSUME P!ApSuspend PROVE PowerInv'
  <2>1. /\ P!Dec(tagFlag, TRUE) /\ decClients /\ decClients' = FALSE
        /\ UNCHANGED <<client, proxy, perf, pm, rx, relWork, stts, irqLine,
                      irqWq, curRate, napi, arrived>>
    BY <1>7 DEF P!ApSuspend, P!irqVars, P!spsVars
  <2>2. /\ cnt > 0
        /\ cnt = 1 => rx \in {"idle", "dec"} /\ ~P!Queued("tag", pmWq)
        /\ tagFlag \in BOOLEAN
    BY <1>0, <2>1, FewVotes DEF TagInv, FlagType, TagVote, IrqVote
  <2>3. /\ SwitchInv' /\ cnt' = P!VoteLeft(tagFlag) /\ cnt' \in Nat /\ lock' \in P!LockSteps
        /\ pmWq' \in Seq(Works) /\ TagsOnce(pmWq')
        /\ P!TagFirst(tagFlag) => P!Queued("tag", pmWq')
        /\ ~P!TagFirst(tagFlag) => pmWq' = pmWq
    BY <2>1, <2>2, DecKeeps
  <2>4. /\ clk' \in BOOLEAN /\ tagFlag' \in BOOLEAN /\ susp' \in BOOLEAN
        /\ latched' \in BOOLEAN /\ eotOn' \in BOOLEAN /\ polling' \in BOOLEAN
        /\ rxWork' \in BOOLEAN /\ pWake' \in BOOLEAN /\ eotActivity' \in BOOLEAN
        /\ UNCHANGED <<backlog, fifo, seen, hwRate, bus>>
    BY <1>0, <2>1, <2>2, DecTypes
  <2>5. P!TypeOK'
    <3>1. decClients' \in BOOLEAN
      BY <1>0, <2>1 DEF P!KeepsVote, FlagType
    <3>2. FlagType'
      BY <1>0, <2>1, <2>4, <3>1 DEF FlagType
    <3>3. StepType'
      BY <1>0, <2>1, <2>3 DEF StepType, P!PerfSteps, P!PmSteps, P!RxSteps
    <3>4. RateType' /\ FifoType' /\ QueueType'
      BY <1>0, <2>1, <2>3, <2>4 DEF RateType, FifoType, QueueType
    <3> QED BY <2>3, <3>2, <3>3, <3>4, PowerTypePartsNext
  <2>6. P!TagFirst(tagFlag) => cnt = 1 /\ cnt' = 1 /\ ~TagVote
    BY <1>0, <2>1, <2>2, <2>3, FewVotes DEF P!TagFirst, P!LastVote, P!VoteLeft, IrqVote
  <2>7. ~P!TagFirst(tagFlag) => cnt' = cnt - 1
    BY <2>3 DEF P!VoteLeft
  <2>8. TagInv' /\ P!WakeVoteReleased'
    BY <1>0, <2>1, <2>3, <2>6 DEF TagInv, P!WakeVoteReleased, TagVote
  <2>9. P!VotesBalance'
    <3>1. CASE P!TagFirst(tagFlag)
      BY <1>0, <2>1, <2>3, <2>6, <3>1 DEF P!VotesBalance, P!B, TagVote
    <3>2. CASE ~P!TagFirst(tagFlag)
      BY <1>0, <2>1, <2>3, <2>7, <3>2 DEF P!VotesBalance, P!B, TagInv
    <3> QED BY <3>1, <3>2
  <2> QED BY <2>3, <2>5, <2>8, <2>9 DEF PowerInv, SwitchInv
<1>8. ASSUME P!ReleaseTimer PROVE PowerInv'
  <2>1. CASE P!KeepsVote \/ ~decClients
    <3>1. /\ UNCHANGED <<cnt, lock, clk, hwRate, bus, tagFlag, pmWq, decClients, curRate, client,
                         proxy, perf, pm, susp, backlog, fifo, seen, latched, eotOn, polling,
                         rxWork, pWake, rx, napi, arrived, stts, irqLine, irqWq>>
          /\ eotActivity' = FALSE /\ relWork' = P!KeepsVote
      BY <1>8, <2>1 DEF P!ReleaseTimer, P!SpsReleaseResource, P!RelWorkLeft, P!clkVars,
                        P!fifoVars, P!irqVars
    <3>2. eotActivity' \in BOOLEAN /\ relWork' \in BOOLEAN
      BY <1>0, <3>1 DEF P!KeepsVote, FlagType
    <3>3. FlagType' /\ StepType'
      BY <1>0, <3>1, <3>2 DEF FlagType, StepType
    <3>4. RateType' /\ FifoType' /\ QueueType' /\ cnt' \in Nat
      BY <1>0, <3>1 DEF RateType, FifoType, QueueType
    <3>5. P!VotesBalance' /\ TagInv'
      BY <1>0, <3>1 DEF P!VotesBalance, P!B, TagInv, TagsOnce, P!Queued
    <3>6. P!WakeVoteReleased'
      BY <2>1, <3>1 DEF P!WakeVoteReleased, P!KeepsVote
    <3>7. SwitchInv'
      BY <1>0, <3>1 DEF SwitchInv, ClockInv, EnableInv, ModeInv, AtWork, DrainInv, WakeInv,
                        RateInv
    <3> QED BY <3>3, <3>4, <3>5, <3>6, <3>7, PowerTypePartsNext DEF PowerInv, SwitchInv
  <2>2. CASE decClients /\ ~P!KeepsVote
    <3>1. /\ P!Dec(tagFlag, TRUE) /\ decClients /\ decClients' = FALSE
          /\ UNCHANGED <<client, proxy, perf, pm, rx, stts, irqLine, irqWq,
                        curRate, napi, arrived>>
          /\ relWork' = P!KeepsVote
      BY <1>8, <2>2 DEF P!ReleaseTimer, P!irqVars, P!spsVars, P!SpsReleaseResource, P!RelWorkLeft
    <3>2. /\ cnt > 0
          /\ cnt = 1 => rx \in {"idle", "dec"} /\ ~P!Queued("tag", pmWq)
          /\ tagFlag \in BOOLEAN
      BY <1>0, <3>1, FewVotes DEF TagInv, FlagType, TagVote, IrqVote
    <3>3. /\ SwitchInv' /\ cnt' = P!VoteLeft(tagFlag) /\ cnt' \in Nat /\ lock' \in P!LockSteps
          /\ pmWq' \in Seq(Works) /\ TagsOnce(pmWq')
          /\ P!TagFirst(tagFlag) => P!Queued("tag", pmWq')
          /\ ~P!TagFirst(tagFlag) => pmWq' = pmWq
      BY <3>1, <3>2, DecKeeps
    <3>4. /\ clk' \in BOOLEAN /\ tagFlag' \in BOOLEAN /\ susp' \in BOOLEAN
          /\ latched' \in BOOLEAN /\ eotOn' \in BOOLEAN /\ polling' \in BOOLEAN
          /\ rxWork' \in BOOLEAN /\ pWake' \in BOOLEAN /\ eotActivity' \in BOOLEAN
          /\ UNCHANGED <<backlog, fifo, seen, hwRate, bus>>
      BY <1>0, <3>1, <3>2, DecTypes
    <3>5. P!TypeOK'
      <4>1. decClients' \in BOOLEAN /\ relWork' \in BOOLEAN
        BY <1>0, <3>1 DEF P!KeepsVote, FlagType
      <4>2. FlagType'
        BY <1>0, <3>1, <3>4, <4>1 DEF FlagType
      <4>3. StepType'
        BY <1>0, <3>1, <3>3 DEF StepType, P!PerfSteps, P!PmSteps, P!RxSteps
      <4>4. RateType' /\ FifoType' /\ QueueType'
        BY <1>0, <3>1, <3>3, <3>4 DEF RateType, FifoType, QueueType
      <4> QED BY <3>3, <4>2, <4>3, <4>4, PowerTypePartsNext
    <3>6. P!TagFirst(tagFlag) => cnt = 1 /\ cnt' = 1 /\ ~TagVote
      BY <1>0, <3>1, <3>2, <3>3, FewVotes DEF P!TagFirst, P!LastVote, P!VoteLeft, IrqVote
    <3>7. ~P!TagFirst(tagFlag) => cnt' = cnt - 1
      BY <3>3 DEF P!VoteLeft
    <3>8. TagInv' /\ P!WakeVoteReleased'
      BY <1>0, <3>1, <3>3, <3>6 DEF TagInv, P!WakeVoteReleased, TagVote
    <3>9. P!VotesBalance'
      <4>1. CASE P!TagFirst(tagFlag)
        BY <1>0, <3>1, <3>3, <3>6, <4>1 DEF P!VotesBalance, P!B, TagVote
      <4>2. CASE ~P!TagFirst(tagFlag)
        BY <1>0, <3>1, <3>3, <3>7, <4>2 DEF P!VotesBalance, P!B, TagInv
      <4> QED BY <4>1, <4>2
    <3> QED BY <3>3, <3>5, <3>8, <3>9 DEF PowerInv, SwitchInv
  <2> QED BY <2>1, <2>2
<1> QED BY <1>1, <1>2, <1>3, <1>4, <1>5, <1>6, <1>7, <1>8

\* The other steps of the clock code and of the clients.
LEMMA PowerClockSteps ==
  ASSUME PowerInv
  PROVE  /\ P!SuspendClientNoBlock => PowerInv'
         /\ \A r \in Rates : P!SetPerfProfile(r) => PowerInv'
         /\ P!PerfApply => PowerInv'
         /\ P!EnableClks => PowerInv'
         /\ P!DisableClks => PowerInv'
         /\ P!TagStart => PowerInv'
         /\ P!DeferProcess => PowerInv'
         /\ P!Isr => PowerInv'
<1>0. /\ FlagType /\ StepType /\ RateType /\ FifoType /\ QueueType /\ cnt \in Nat
      /\ P!VotesBalance /\ TagInv /\ P!WakeVoteReleased /\ SwitchInv
  BY PowerTypeParts DEF PowerInv, SwitchInv
<1> USE DEF P!clkVars, P!irqVars, P!spsVars, P!fifoVars, P!modeVars
<1>1. ASSUME P!SuspendClientNoBlock PROVE PowerInv'
  <2>1. FlagType'
    <3>1. client' \in BOOLEAN
      BY <1>0, <1>1 DEF P!SuspendClientNoBlock, FlagType
    <3> QED BY <1>0, <1>1, <3>1 DEF P!SuspendClientNoBlock, FlagType
  <2>2. StepType'
    BY <1>0, <1>1 DEF P!SuspendClientNoBlock, P!NoBlockRefused, P!LastVote, P!Free, StepType,
        P!LockSteps, P!PerfSteps, P!PmSteps, P!RxSteps
  <2>3. RateType'
    BY <1>0, <1>1 DEF P!SuspendClientNoBlock, P!NoBlockRefused, P!LastVote, P!Free, RateType
  <2>4. FifoType' /\ cnt' \in Nat
    <3>1. cnt > 0 /\ cnt' = cnt - 1
      BY <1>0, <1>1, FewVotes DEF P!SuspendClientNoBlock
    <3>2. cnt' \in Nat
      BY <1>0, <3>1
    <3> QED BY <1>0, <1>1, <3>2 DEF P!SuspendClientNoBlock, FifoType
  <2>5. QueueType' /\ TagInv'
    BY <1>0, <1>1 DEF P!SuspendClientNoBlock, P!NoBlockRefused, P!LastVote, P!Free, QueueType,
        TagInv, TagsOnce, P!Queued
  <2>6. P!VotesBalance'
    BY <1>0, <1>1 DEF P!SuspendClientNoBlock, P!NoBlockRefused, P!LastVote, P!Free,
        P!VotesBalance, P!B, StepType
  <2>7. P!WakeVoteReleased'
    BY <1>0, <1>1 DEF P!SuspendClientNoBlock, P!NoBlockRefused, P!LastVote, P!Free,
        P!WakeVoteReleased
  <2>8. ClockInv' /\ EnableInv' /\ RateInv'
    BY <1>0, <1>1, FewVotes DEF P!SuspendClientNoBlock, P!NoBlockRefused, P!LastVote, P!Free,
        SwitchInv, ClockInv, EnableInv, RateInv
  <2>9. ModeInv' /\ DrainInv' /\ WakeInv'
    BY <1>0, <1>1, FewVotes DEF P!SuspendClientNoBlock, P!NoBlockRefused, P!LastVote, P!Free,
        SwitchInv, ClockInv, EnableInv, ModeInv, AtWork, DrainInv, WakeInv
  <2> QED BY <2>1, <2>2, <2>3, <2>4, <2>5, <2>6, <2>7, <2>8, <2>9, PowerTypePartsNext
          DEF PowerInv
<1>2. ASSUME NEW r \in Rates, P!SetPerfProfile(r) PROVE PowerInv'
  <2>1. FlagType'
    BY <1>0, <1>2 DEF P!SetPerfProfile, P!Free, FlagType
  <2>2. StepType'
    BY <1>0, <1>2 DEF P!SetPerfProfile, P!Free, StepType, P!LockSteps, P!PerfSteps, P!PmSteps,
        P!RxSteps
  <2>3. RateType'
    BY <1>0, <1>2 DEF P!SetPerfProfile, P!Free, RateType
  <2>4. FifoType' /\ cnt' \in Nat
    BY <1>0, <1>2 DEF P!SetPerfProfile, P!Free, FifoType
  <2>5. QueueType' /\ TagInv'
    BY <1>0, <1>2 DEF P!SetPerfProfile, P!Free, QueueType, TagInv, TagsOnce, P!Queued
  <2>6. P!VotesBalance'
    BY <1>0, <1>2 DEF P!SetPerfProfile, P!Free, P!VotesBalance, P!B, StepType
  <2>7. P!WakeVoteReleased'
    BY <1>0, <1>2 DEF P!SetPerfProfile, P!Free, P!WakeVoteReleased
  <2>8. ClockInv' /\ EnableInv' /\ RateInv'
    BY <1>0, <1>2, FewVotes DEF P!SetPerfProfile, P!Free, SwitchInv, ClockInv, EnableInv, RateInv
  <2>9. ModeInv' /\ DrainInv' /\ WakeInv'
    BY <1>0, <1>2, FewVotes DEF P!SetPerfProfile, P!Free, SwitchInv, ClockInv, EnableInv,
        ModeInv, AtWork, DrainInv, WakeInv
  <2> QED BY <2>1, <2>2, <2>3, <2>4, <2>5, <2>6, <2>7, <2>8, <2>9, PowerTypePartsNext
          DEF PowerInv
<1>3. ASSUME P!PerfApply PROVE PowerInv'
  <2>1. FlagType'
    BY <1>0, <1>3 DEF P!PerfApply, P!BusVote, FlagType
  <2>2. StepType'
    BY <1>0, <1>3 DEF P!PerfApply, P!BusVote, StepType, P!LockSteps, P!PerfSteps, P!PmSteps,
        P!RxSteps
  <2>3. RateType'
    BY <1>0, <1>3 DEF P!PerfApply, P!BusVote, RateType
  <2>4. FifoType' /\ cnt' \in Nat
    BY <1>0, <1>3 DEF P!PerfApply, P!BusVote, FifoType
  <2>5. QueueType' /\ TagInv'
    BY <1>0, <1>3 DEF P!PerfApply, P!BusVote, QueueType, TagInv, TagsOnce, P!Queued
  <2>6. P!VotesBalance'
    BY <1>0, <1>3 DEF P!PerfApply, P!BusVote, P!VotesBalance, P!B, StepType
  <2>7. P!WakeVoteReleased'
    BY <1>0, <1>3 DEF P!PerfApply, P!BusVote, P!WakeVoteReleased
  <2>8. ClockInv' /\ EnableInv' /\ RateInv'
    BY <1>0, <1>3, FewVotes DEF P!PerfApply, P!BusVote, SwitchInv, ClockInv, EnableInv, RateInv
  <2>9. ModeInv' /\ DrainInv' /\ WakeInv'
    BY <1>0, <1>3, FewVotes DEF P!PerfApply, P!BusVote, SwitchInv, ClockInv, EnableInv,
        ModeInv, AtWork, DrainInv, WakeInv
  <2> QED BY <2>1, <2>2, <2>3, <2>4, <2>5, <2>6, <2>7, <2>8, <2>9, PowerTypePartsNext
          DEF PowerInv
<1>4. ASSUME P!EnableClks PROVE PowerInv'
  <2>1. FlagType'
    <3>1. susp' = FALSE /\ latched' = (latched \/ backlog > 0)
      BY <1>4 DEF P!EnableClks, P!SuspendAppsPipes
    <3>2. susp' \in BOOLEAN /\ latched' \in BOOLEAN
      BY <3>1
    <3>3. \/ P!RxNotify /\ eotActivity' = TRUE
          \/ UNCHANGED <<eotActivity, polling, rxWork, pWake>> /\ eotOn' \in {eotOn, TRUE}
      BY <1>4 DEF P!EnableClks, P!IrqControl
    <3>4. /\ eotActivity' \in BOOLEAN /\ polling' \in BOOLEAN /\ rxWork' \in BOOLEAN
          /\ pWake' \in BOOLEAN /\ eotOn' \in BOOLEAN
      BY <1>0, <3>3 DEF P!RxNotify, FlagType
    <3> QED BY <1>0, <1>4, <3>2, <3>4 DEF P!EnableClks, FlagType
  <2>2. StepType'
    BY <1>0, <1>4 DEF P!EnableClks, P!BusVote, P!SuspendAppsPipes, P!RxNotify, P!IrqControl,
        StepType, P!LockSteps, P!PerfSteps, P!PmSteps, P!RxSteps
  <2>3. RateType'
    BY <1>0, <1>4 DEF P!EnableClks, P!BusVote, P!SuspendAppsPipes, P!RxNotify, P!IrqControl,
        RateType
  <2>4. FifoType' /\ cnt' \in Nat
    BY <1>0, <1>4 DEF P!EnableClks, P!BusVote, P!SuspendAppsPipes, P!RxNotify, P!IrqControl,
        FifoType
  <2>5. QueueType' /\ TagInv'
    BY <1>0, <1>4 DEF P!EnableClks, P!BusVote, P!SuspendAppsPipes, P!RxNotify, P!IrqControl,
        QueueType, TagInv, TagsOnce, P!Queued
  <2>6. P!VotesBalance'
    BY <1>0, <1>4 DEF P!EnableClks, P!BusVote, P!SuspendAppsPipes, P!RxNotify, P!IrqControl,
        P!VotesBalance, P!B, StepType
  <2>7. P!WakeVoteReleased'
    BY <1>0, <1>4 DEF P!EnableClks, P!BusVote, P!SuspendAppsPipes, P!RxNotify, P!IrqControl,
        P!WakeVoteReleased
  <2>8. ClockInv' /\ EnableInv' /\ RateInv'
    BY <1>0, <1>4, FewVotes DEF P!EnableClks, P!BusVote, P!SuspendAppsPipes, P!RxNotify,
        P!IrqControl, SwitchInv, ClockInv, EnableInv, RateInv
  <2>9. ModeInv' /\ DrainInv' /\ WakeInv'
    <3>1. lock = "enable" /\ clk /\ ~eotOn /\ rx \in {"idle", "poll"}
      BY <1>0, <1>4 DEF P!EnableClks, SwitchInv, ClockInv, EnableInv
    <3>2. lock' = "free" /\ clk' /\ ~susp' /\ rx' = rx
      BY <1>4, <3>1 DEF P!EnableClks, P!SuspendAppsPipes
    <3>3. DrainInv'
      BY <3>2 DEF DrainInv
    <3>4. \/ P!RxNotify
          \/ /\ UNCHANGED <<polling, rxWork, pWake>>
             /\ IF polling THEN eotOn' = eotOn ELSE eotOn' = TRUE
      BY <1>4 DEF P!EnableClks, P!IrqControl
    <3>5. ModeInv /\ WakeInv
      BY <1>0 DEF SwitchInv
    <3>6. CASE P!RxNotify
      BY <1>0, <3>1, <3>2, <3>3, <3>5, <3>6 DEF P!RxNotify, ModeInv, WakeInv, AtWork, FlagType
    <3>7. CASE /\ UNCHANGED <<polling, rxWork, pWake>>
               /\ IF polling THEN eotOn' = eotOn ELSE eotOn' = TRUE
      BY <1>0, <3>1, <3>2, <3>3, <3>5, <3>7 DEF ModeInv, WakeInv, AtWork, FlagType
    <3> QED BY <3>4, <3>6, <3>7
  <2> QED BY <2>1, <2>2, <2>3, <2>4, <2>5, <2>6, <2>7, <2>8, <2>9, PowerTypePartsNext
          DEF PowerInv
<1>5. ASSUME P!DisableClks PROVE PowerInv'
  <2>1. FlagType'
    <3>1. clk' \in BOOLEAN /\ eotOn' \in BOOLEAN
      BY <1>0, <1>5 DEF P!DisableClks, P!IrqControl, FlagType
    <3>2. UNCHANGED <<tagFlag, client, proxy, stts, irqLine, irqWq, decClients, eotActivity,
                      relWork, susp, latched, polling, rxWork, pWake>>
      BY <1>5 DEF P!DisableClks
    <3> QED BY <1>0, <3>1, <3>2 DEF FlagType
  <2>2. StepType'
    BY <1>0, <1>5 DEF P!DisableClks, P!IrqControl, StepType, P!LockSteps, P!PerfSteps,
        P!PmSteps, P!RxSteps
  <2>3. RateType'
    BY <1>0, <1>5 DEF P!DisableClks, P!IrqControl, RateType
  <2>4. FifoType' /\ cnt' \in Nat
    BY <1>0, <1>5 DEF P!DisableClks, P!IrqControl, FifoType
  <2>5. QueueType' /\ TagInv'
    BY <1>0, <1>5 DEF P!DisableClks, P!IrqControl, QueueType, TagInv, TagsOnce, P!Queued
  <2>6. P!VotesBalance'
    BY <1>0, <1>5 DEF P!DisableClks, P!IrqControl, P!VotesBalance, P!B, StepType
  <2>7. P!WakeVoteReleased'
    BY <1>0, <1>5 DEF P!DisableClks, P!IrqControl, P!WakeVoteReleased
  <2>8. ClockInv' /\ EnableInv' /\ RateInv'
    BY <1>0, <1>5, FewVotes DEF P!DisableClks, P!IrqControl, SwitchInv, ClockInv, EnableInv, RateInv
  <2>9. ModeInv' /\ DrainInv' /\ WakeInv'
    BY <1>0, <1>5, FewVotes DEF P!DisableClks, P!IrqControl, SwitchInv, ClockInv, EnableInv,
        ModeInv, AtWork, DrainInv, WakeInv
  <2> QED BY <2>1, <2>2, <2>3, <2>4, <2>5, <2>6, <2>7, <2>8, <2>9, PowerTypePartsNext
          DEF PowerInv
<1>6. ASSUME P!TagStart PROVE PowerInv'
  <2>1. FlagType'
    BY <1>0, <1>6 DEF P!TagStart, FlagType
  <2>2. StepType'
    BY <1>0, <1>6 DEF P!TagStart, StepType, P!LockSteps, P!PerfSteps, P!PmSteps, P!RxSteps
  <2>3. RateType'
    BY <1>0, <1>6 DEF P!TagStart, RateType
  <2>4. FifoType' /\ cnt' \in Nat
    BY <1>0, <1>6 DEF P!TagStart, FifoType
  <2>5. QueueType' /\ TagInv'
    BY <1>0, <1>6 DEF P!TagStart, QueueType, TagInv, TagsOnce, P!Queued
  <2>6. P!VotesBalance'
    <3>1. /\ pm = "idle" /\ pm' = "tag" /\ pmWq # <<>> /\ Head(pmWq) = "tag"
          /\ pmWq' = Tail(pmWq) /\ UNCHANGED <<cnt, client, proxy, decClients, perf, rx>>
      BY <1>6 DEF P!TagStart
    <3>2. P!Queued("tag", pmWq)
      BY <1>0, <3>1, TailKeeps DEF QueueType, TagInv
    <3> QED BY <1>0, <3>1, <3>2 DEF P!VotesBalance, P!B
  <2>7. P!WakeVoteReleased'
    BY <1>0, <1>6 DEF P!TagStart, P!WakeVoteReleased
  <2>8. ClockInv' /\ EnableInv' /\ RateInv'
    BY <1>0, <1>6, FewVotes DEF P!TagStart, SwitchInv, ClockInv, EnableInv, RateInv
  <2>9. ModeInv' /\ DrainInv' /\ WakeInv'
    BY <1>0, <1>6, FewVotes DEF P!TagStart, SwitchInv, ClockInv, EnableInv, ModeInv, AtWork,
        DrainInv, WakeInv
  <2> QED BY <2>1, <2>2, <2>3, <2>4, <2>5, <2>6, <2>7, <2>8, <2>9, PowerTypePartsNext
          DEF PowerInv
<1>7. ASSUME P!DeferProcess PROVE PowerInv'
  <2>1. FlagType'
    <3>1. irqWq' \in BOOLEAN /\ stts' \in BOOLEAN
      BY <1>0, <1>7 DEF P!DeferProcess, P!ProcessInterrupts, FlagType
    <3> QED BY <1>0, <1>7, <3>1 DEF P!DeferProcess, FlagType
  <2>2. StepType'
    BY <1>0, <1>7 DEF P!DeferProcess, P!ProcessInterrupts, P!Free, StepType, P!LockSteps,
        P!PerfSteps, P!PmSteps, P!RxSteps
  <2>3. RateType'
    BY <1>0, <1>7 DEF P!DeferProcess, P!ProcessInterrupts, P!Free, RateType
  <2>4. FifoType' /\ cnt' \in Nat
    BY <1>0, <1>7 DEF P!DeferProcess, P!ProcessInterrupts, P!Free, FifoType
  <2>5. QueueType' /\ TagInv'
    BY <1>0, <1>7 DEF P!DeferProcess, P!ProcessInterrupts, P!Free, QueueType, TagInv, TagsOnce,
        P!Queued
  <2>6. P!VotesBalance'
    BY <1>0, <1>7 DEF P!DeferProcess, P!ProcessInterrupts, P!Free, P!VotesBalance, P!B, StepType
  <2>7. P!WakeVoteReleased'
    BY <1>0, <1>7 DEF P!DeferProcess, P!ProcessInterrupts, P!Free, P!WakeVoteReleased
  <2>8. ClockInv' /\ EnableInv' /\ RateInv'
    BY <1>0, <1>7, FewVotes DEF P!DeferProcess, P!ProcessInterrupts, P!Free, SwitchInv,
        ClockInv, EnableInv, RateInv
  <2>9. ModeInv' /\ DrainInv' /\ WakeInv'
    BY <1>0, <1>7, FewVotes DEF P!DeferProcess, P!ProcessInterrupts, P!Free, SwitchInv,
        ClockInv, EnableInv, ModeInv, AtWork, DrainInv, WakeInv
  <2> QED BY <2>1, <2>2, <2>3, <2>4, <2>5, <2>6, <2>7, <2>8, <2>9, PowerTypePartsNext
          DEF PowerInv
<1>8. ASSUME P!Isr PROVE PowerInv'
  <2>1. FlagType'
    <3>1. irqWq' \in BOOLEAN /\ stts' \in BOOLEAN /\ irqLine' \in BOOLEAN
      BY <1>0, <1>8 DEF P!Isr, P!ProcessInterrupts, FlagType
    <3> QED BY <1>0, <1>8, <3>1 DEF P!Isr, FlagType
  <2>2. StepType'
    BY <1>0, <1>8 DEF P!Isr, P!ProcessInterrupts, P!Free, P!IsrDefers, StepType, P!LockSteps,
        P!PerfSteps, P!PmSteps, P!RxSteps
  <2>3. RateType'
    BY <1>0, <1>8 DEF P!Isr, P!ProcessInterrupts, P!Free, P!IsrDefers, RateType
  <2>4. FifoType' /\ cnt' \in Nat
    BY <1>0, <1>8 DEF P!Isr, P!ProcessInterrupts, P!Free, P!IsrDefers, FifoType
  <2>5. QueueType' /\ TagInv'
    <3>1. pmWq' \in {pmWq, P!QueueOnce(pmWq, "irq")} /\ pm' = pm
      BY <1>8 DEF P!Isr
    <3>2. pmWq \in Seq(Works) /\ TagsOnce(pmWq) /\ "irq" \in Works /\ "tag" \in Works
      BY <1>0 DEF QueueType, TagInv, Works
    <3>3. /\ P!QueueOnce(pmWq, "irq") \in Seq(Works) /\ TagsOnce(P!QueueOnce(pmWq, "irq"))
          /\ P!Queued("tag", P!QueueOnce(pmWq, "irq")) <=> P!Queued("tag", pmWq)
      BY <3>2, QueueOnceKeeps
    <3>4. /\ pmWq' \in Seq(Works) /\ TagsOnce(pmWq')
          /\ P!Queued("tag", pmWq') <=> P!Queued("tag", pmWq)
      BY <3>1, <3>2, <3>3
    <3> QED BY <1>0, <3>1, <3>4 DEF QueueType, TagInv
  <2>6. P!VotesBalance'
    <3>1. pmWq' \in {pmWq, P!QueueOnce(pmWq, "irq")}
      BY <1>8 DEF P!Isr
    <3>2. pmWq \in Seq(Works) /\ TagsOnce(pmWq) /\ "irq" \in Works /\ "tag" \in Works
      BY <1>0 DEF QueueType, TagInv, Works
    <3>3. P!Queued("tag", pmWq') <=> P!Queued("tag", pmWq)
      BY SMTT(30), <3>1, <3>2, QueueOnceKeeps
    <3>4. UNCHANGED <<cnt, client, proxy, decClients, perf, pm, rx>>
      BY <1>8 DEF P!Isr
    <3> QED BY <1>0, <3>3, <3>4 DEF P!VotesBalance, P!B
  <2>7. P!WakeVoteReleased'
    BY <1>0, <1>8 DEF P!Isr, P!ProcessInterrupts, P!Free, P!IsrDefers, P!WakeVoteReleased
  <2>8. ClockInv' /\ EnableInv' /\ RateInv'
    BY <1>0, <1>8, FewVotes DEF P!Isr, P!ProcessInterrupts, P!Free, P!IsrDefers, SwitchInv,
        ClockInv, EnableInv, RateInv
  <2>9. ModeInv' /\ DrainInv' /\ WakeInv'
    BY <1>0, <1>8, FewVotes DEF P!Isr, P!ProcessInterrupts, P!Free, P!IsrDefers, SwitchInv,
        ClockInv, EnableInv, ModeInv, AtWork, DrainInv, WakeInv
  <2> QED BY <2>1, <2>2, <2>3, <2>4, <2>5, <2>6, <2>7, <2>8, <2>9, PowerTypePartsNext
          DEF PowerInv
<1> QED BY <1>1, <1>2, <1>3, <1>4, <1>5, <1>6, <1>7, <1>8

\* The steps of the hardware, of the BAM's interrupt and of the receive work.
LEMMA PowerPipeSteps ==
  ASSUME PowerInv
  PROVE  /\ P!PacketArrives => PowerInv'
         /\ P!BamIsr => PowerInv'
         /\ P!RxPoll => PowerInv'
         /\ P!RxEnableEot => PowerInv'
         /\ P!RxClearPolling => PowerInv'
         /\ P!RxDrain => PowerInv'
         /\ P!RxRelax => PowerInv'
<1>0. /\ FlagType /\ StepType /\ RateType /\ FifoType /\ QueueType /\ cnt \in Nat
      /\ P!VotesBalance /\ TagInv /\ P!WakeVoteReleased /\ SwitchInv
  BY PowerTypeParts DEF PowerInv, SwitchInv
<1> USE DEF P!clkVars, P!irqVars, P!spsVars, P!fifoVars, P!modeVars
<1>1. ASSUME P!PacketArrives PROVE PowerInv'
  <2>1. FlagType'
    <3>1. CASE susp
      <4>1. UNCHANGED latched /\ stts' = TRUE /\ irqLine' = (irqLine \/ ~stts)
        BY <1>1, <3>1 DEF P!PacketArrives
      <4>2. stts' \in BOOLEAN /\ irqLine' \in BOOLEAN
        BY <4>1
      <4> QED BY <1>0, <1>1, <4>1, <4>2 DEF P!PacketArrives, FlagType
    <3>2. CASE ~susp
      <4>1. latched' = TRUE /\ UNCHANGED <<stts, irqLine>>
        BY <1>1, <3>2 DEF P!PacketArrives
      <4>2. latched' \in BOOLEAN
        BY <4>1
      <4> QED BY <1>0, <1>1, <4>1, <4>2 DEF P!PacketArrives, FlagType
    <3> QED BY <3>1, <3>2
  <2>2. StepType'
    BY <1>0, <1>1 DEF P!PacketArrives, StepType, P!LockSteps, P!PerfSteps, P!PmSteps, P!RxSteps
  <2>3. RateType'
    BY <1>0, <1>1 DEF P!PacketArrives, RateType
  <2>4. FifoType' /\ cnt' \in Nat
    BY <1>0, <1>1 DEF P!PacketArrives, FifoType
  <2>5. QueueType' /\ TagInv'
    BY <1>0, <1>1 DEF P!PacketArrives, QueueType, TagInv, TagsOnce, P!Queued
  <2>6. P!VotesBalance'
    BY <1>0, <1>1 DEF P!PacketArrives, P!VotesBalance, P!B, StepType
  <2>7. P!WakeVoteReleased'
    BY <1>0, <1>1 DEF P!PacketArrives, P!WakeVoteReleased
  <2>8. ClockInv' /\ EnableInv' /\ RateInv'
    BY <1>0, <1>1, FewVotes DEF P!PacketArrives, SwitchInv, ClockInv, EnableInv, RateInv
  <2>9. ModeInv' /\ DrainInv' /\ WakeInv'
    BY <1>0, <1>1, FewVotes DEF P!PacketArrives, SwitchInv, ClockInv, EnableInv, ModeInv,
        AtWork, DrainInv, WakeInv
  <2> QED BY <2>1, <2>2, <2>3, <2>4, <2>5, <2>6, <2>7, <2>8, <2>9, PowerTypePartsNext
          DEF PowerInv
<1>2. ASSUME P!BamIsr PROVE PowerInv'
  <2>1. FlagType'
    BY ZenonT(40), <1>0, <1>2 DEF P!BamIsr, P!RxNotify, FlagType
  <2>2. StepType'
    BY <1>0, <1>2 DEF P!BamIsr, P!RxNotify, StepType, P!LockSteps, P!PerfSteps, P!PmSteps, P!RxSteps
  <2>3. RateType'
    BY <1>0, <1>2 DEF P!BamIsr, P!RxNotify, RateType
  <2>4. FifoType' /\ cnt' \in Nat
    BY <1>0, <1>2 DEF P!BamIsr, P!RxNotify, FifoType
  <2>5. QueueType' /\ TagInv'
    BY <1>0, <1>2 DEF P!BamIsr, P!RxNotify, QueueType, TagInv, TagsOnce, P!Queued
  <2>6. P!VotesBalance'
    BY <1>0, <1>2 DEF P!BamIsr, P!RxNotify, P!VotesBalance, P!B, StepType
  <2>7. P!WakeVoteReleased'
    BY <1>0, <1>2 DEF P!BamIsr, P!RxNotify, P!WakeVoteReleased
  <2>8. ClockInv' /\ EnableInv' /\ RateInv'
    BY <1>0, <1>2, FewVotes DEF P!BamIsr, P!RxNotify, SwitchInv, ClockInv, EnableInv, RateInv
  <2>9. ModeInv' /\ DrainInv' /\ WakeInv'
    BY <1>0, <1>2, FewVotes DEF P!BamIsr, P!RxNotify, SwitchInv, ClockInv, EnableInv, ModeInv,
        AtWork, DrainInv, WakeInv
  <2> QED BY <2>1, <2>2, <2>3, <2>4, <2>5, <2>6, <2>7, <2>8, <2>9, PowerTypePartsNext
          DEF PowerInv
<1>3. ASSUME P!RxPoll PROVE PowerInv'
  <2>1. FlagType'
    BY <1>0, <1>3 DEF P!RxPoll, P!Free, P!SeenPolled, FlagType
  <2>2. StepType'
    BY <1>0, <1>3 DEF P!RxPoll, P!Free, P!SeenPolled, StepType, P!LockSteps, P!PerfSteps,
        P!PmSteps, P!RxSteps
  <2>3. RateType'
    BY <1>0, <1>3 DEF P!RxPoll, P!Free, P!SeenPolled, RateType
  <2>4. FifoType' /\ cnt' \in Nat
    BY <1>0, <1>3 DEF P!RxPoll, P!Free, P!SeenPolled, FifoType
  <2>5. QueueType' /\ TagInv'
    BY <1>0, <1>3 DEF P!RxPoll, P!Free, P!SeenPolled, QueueType, TagInv, TagsOnce, P!Queued
  <2>6. P!VotesBalance'
    BY <1>0, <1>3 DEF P!RxPoll, P!Free, P!SeenPolled, P!VotesBalance, P!B, StepType
  <2>7. P!WakeVoteReleased'
    BY <1>0, <1>3 DEF P!RxPoll, P!Free, P!SeenPolled, P!WakeVoteReleased
  <2>8. ClockInv' /\ EnableInv' /\ RateInv'
    BY <1>0, <1>3, FewVotes DEF P!RxPoll, P!Free, P!SeenPolled, SwitchInv, ClockInv, EnableInv,
        RateInv
  <2>9. ModeInv' /\ DrainInv' /\ WakeInv'
    BY <1>0, <1>3, FewVotes DEF P!RxPoll, P!Free, P!SeenPolled, SwitchInv, ClockInv, EnableInv,
        ModeInv, AtWork, DrainInv, WakeInv
  <2> QED BY <2>1, <2>2, <2>3, <2>4, <2>5, <2>6, <2>7, <2>8, <2>9, PowerTypePartsNext
          DEF PowerInv
<1>4. ASSUME P!RxEnableEot PROVE PowerInv'
  <2>1. FlagType'
    <3>1. eotOn' \in BOOLEAN
      BY <1>0, <1>4 DEF P!RxEnableEot, FlagType
    <3> QED BY <1>0, <1>4, <3>1 DEF P!RxEnableEot, FlagType
  <2>2. StepType'
    BY <1>0, <1>4 DEF P!RxEnableEot, StepType, P!LockSteps, P!PerfSteps, P!PmSteps, P!RxSteps
  <2>3. RateType'
    BY <1>0, <1>4 DEF P!RxEnableEot, RateType
  <2>4. FifoType' /\ cnt' \in Nat
    BY <1>0, <1>4 DEF P!RxEnableEot, FifoType
  <2>5. QueueType' /\ TagInv'
    BY <1>0, <1>4 DEF P!RxEnableEot, QueueType, TagInv, TagsOnce, P!Queued
  <2>6. P!VotesBalance'
    BY <1>0, <1>4 DEF P!RxEnableEot, P!VotesBalance, P!B, StepType
  <2>7. P!WakeVoteReleased'
    BY <1>0, <1>4 DEF P!RxEnableEot, P!WakeVoteReleased
  <2>8. ClockInv' /\ EnableInv' /\ RateInv'
    BY <1>0, <1>4, FewVotes DEF P!RxEnableEot, SwitchInv, ClockInv, EnableInv, RateInv
  <2>9. ModeInv' /\ DrainInv' /\ WakeInv'
    <3>1. lock # "enable" /\ clk /\ ~susp /\ cnt > 0
      BY <1>0, <1>4, FewVotes DEF P!RxEnableEot, SwitchInv, ClockInv, EnableInv, StepType,
          P!LockSteps
    <3>2. /\ rx = "toIntr" /\ polling /\ ~rxWork
      BY <1>0, <1>4 DEF P!RxEnableEot, SwitchInv, ModeInv, AtWork
    <3>3. eotOn' /\ rx' = "clear" /\ UNCHANGED <<polling, rxWork, pWake, lock, clk, susp, fifo>>
      BY <1>4, <3>2 DEF P!RxEnableEot
    <3> QED BY <3>1, <3>2, <3>3 DEF ModeInv, AtWork, DrainInv, WakeInv
  <2> QED BY <2>1, <2>2, <2>3, <2>4, <2>5, <2>6, <2>7, <2>8, <2>9, PowerTypePartsNext
          DEF PowerInv
<1>5. ASSUME P!RxClearPolling PROVE PowerInv'
  <2>1. FlagType'
    <3>1. polling' \in BOOLEAN
      BY <1>0, <1>5 DEF P!RxClearPolling, FlagType
    <3> QED BY <1>0, <1>5, <3>1 DEF P!RxClearPolling, FlagType
  <2>2. StepType'
    BY <1>0, <1>5 DEF P!RxClearPolling, P!AfterClear, StepType, P!LockSteps, P!PerfSteps,
        P!PmSteps, P!RxSteps
  <2>3. RateType'
    BY <1>0, <1>5 DEF P!RxClearPolling, P!AfterClear, RateType
  <2>4. FifoType' /\ cnt' \in Nat
    BY <1>0, <1>5 DEF P!RxClearPolling, P!AfterClear, FifoType
  <2>5. QueueType' /\ TagInv'
    BY <1>0, <1>5 DEF P!RxClearPolling, P!AfterClear, QueueType, TagInv, TagsOnce, P!Queued
  <2>6. P!VotesBalance'
    BY <1>0, <1>5 DEF P!RxClearPolling, P!AfterClear, P!VotesBalance, P!B, StepType
  <2>7. P!WakeVoteReleased'
    BY <1>0, <1>5 DEF P!RxClearPolling, P!AfterClear, P!WakeVoteReleased
  <2>8. ClockInv' /\ EnableInv' /\ RateInv'
    BY <1>0, <1>5, FewVotes DEF P!RxClearPolling, P!AfterClear, SwitchInv, ClockInv, EnableInv,
        RateInv
  <2>9. ModeInv' /\ DrainInv' /\ WakeInv'
    BY <1>0, <1>5, FewVotes DEF P!RxClearPolling, P!AfterClear, SwitchInv, ClockInv, EnableInv,
        ModeInv, AtWork, DrainInv, WakeInv
  <2> QED BY <2>1, <2>2, <2>3, <2>4, <2>5, <2>6, <2>7, <2>8, <2>9, PowerTypePartsNext
          DEF PowerInv
<1>6. ASSUME P!RxDrain PROVE PowerInv'
  <2>1. FlagType'
    BY <1>0, <1>6 DEF P!RxDrain, FlagType
  <2>2. StepType'
    BY <1>0, <1>6 DEF P!RxDrain, StepType, P!LockSteps, P!PerfSteps, P!PmSteps, P!RxSteps
  <2>3. RateType'
    BY <1>0, <1>6 DEF P!RxDrain, RateType
  <2>4. FifoType' /\ cnt' \in Nat
    BY <1>0, <1>6 DEF P!RxDrain, FifoType
  <2>5. QueueType' /\ TagInv'
    BY <1>0, <1>6 DEF P!RxDrain, QueueType, TagInv, TagsOnce, P!Queued
  <2>6. P!VotesBalance'
    BY <1>0, <1>6 DEF P!RxDrain, P!VotesBalance, P!B, StepType
  <2>7. P!WakeVoteReleased'
    BY <1>0, <1>6 DEF P!RxDrain, P!WakeVoteReleased
  <2>8. ClockInv' /\ EnableInv' /\ RateInv'
    BY <1>0, <1>6, FewVotes DEF P!RxDrain, SwitchInv, ClockInv, EnableInv, RateInv
  <2>9. ModeInv' /\ DrainInv' /\ WakeInv'
    <3>1. lock # "enable" /\ clk /\ ~susp /\ cnt > 0
      BY <1>0, <1>6, FewVotes DEF P!RxDrain, SwitchInv, ClockInv, EnableInv, StepType, P!LockSteps
    <3>2. /\ rx = "drain" /\ rx' \in {"drain", "relax"}
          /\ UNCHANGED <<eotOn, polling, rxWork, pWake, lock, clk, susp>>
      BY <1>6 DEF P!RxDrain
    <3>3. ModeInv /\ WakeInv
      BY <1>0 DEF SwitchInv
    <3> QED BY <3>1, <3>2, <3>3 DEF ModeInv, AtWork, DrainInv, WakeInv
  <2> QED BY <2>1, <2>2, <2>3, <2>4, <2>5, <2>6, <2>7, <2>8, <2>9, PowerTypePartsNext
          DEF PowerInv
<1>7. ASSUME P!RxRelax PROVE PowerInv'
  <2>1. FlagType'
    <3>1. pWake' \in BOOLEAN
      BY <1>0, <1>7 DEF P!RxRelax, FlagType
    <3> QED BY <1>0, <1>7, <3>1 DEF P!RxRelax, FlagType
  <2>2. StepType'
    BY <1>0, <1>7 DEF P!RxRelax, StepType, P!LockSteps, P!PerfSteps, P!PmSteps, P!RxSteps
  <2>3. RateType'
    BY <1>0, <1>7 DEF P!RxRelax, RateType
  <2>4. FifoType' /\ cnt' \in Nat
    BY <1>0, <1>7 DEF P!RxRelax, FifoType
  <2>5. QueueType' /\ TagInv'
    BY <1>0, <1>7 DEF P!RxRelax, QueueType, TagInv, TagsOnce, P!Queued
  <2>6. P!VotesBalance'
    BY <1>0, <1>7 DEF P!RxRelax, P!VotesBalance, P!B, StepType
  <2>7. P!WakeVoteReleased'
    BY <1>0, <1>7 DEF P!RxRelax, P!WakeVoteReleased
  <2>8. ClockInv' /\ EnableInv' /\ RateInv'
    BY <1>0, <1>7, FewVotes DEF P!RxRelax, SwitchInv, ClockInv, EnableInv, RateInv
  <2>9. ModeInv' /\ DrainInv' /\ WakeInv'
    BY <1>0, <1>7, FewVotes DEF P!RxRelax, SwitchInv, ClockInv, EnableInv, ModeInv, AtWork,
        DrainInv, WakeInv
  <2> QED BY <2>1, <2>2, <2>3, <2>4, <2>5, <2>6, <2>7, <2>8, <2>9, PowerTypePartsNext
          DEF PowerInv
<1> QED BY <1>1, <1>2, <1>3, <1>4, <1>5, <1>6, <1>7

\* The variables of the clocks and the pipe, without the proxy's calls.
pipeVars == <<cnt, lock, clk, curRate, hwRate, bus, tagFlag, client, proxy, perf, pmWq, pm,
              stts, irqLine, irqWq, decClients, eotActivity, relWork, susp, backlog, fifo,
              seen, latched, eotOn, polling, pWake, rxWork, rx, napi, arrived>>

\* What leaves them alone keeps the invariant.
LEMMA PowerFrame ==
  ASSUME PowerInv, UNCHANGED pipeVars
  PROVE  PowerInv'
<1>1. P!TypeOK'
  BY DEF pipeVars, PowerInv, P!TypeOK
<1>2. P!VotesBalance' /\ TagInv' /\ P!WakeVoteReleased'
  BY DEF pipeVars, PowerInv, P!VotesBalance, P!B, TagInv, TagsOnce, P!Queued,
         P!WakeVoteReleased
<1>3. ClockInv' /\ EnableInv' /\ ModeInv' /\ DrainInv' /\ WakeInv' /\ RateInv'
  BY DEF pipeVars, PowerInv, ClockInv, EnableInv, ModeInv, AtWork, DrainInv,
         WakeInv, RateInv
<1> QED BY <1>1, <1>2, <1>3 DEF PowerInv

\* The steps of the proxy's calls that only touch the flag.
ProxyFlagStep ==
  \/ P!ProxyVoteTest \/ P!ProxyVoteSet
  \/ \E u \in Unvoters : P!ProxyUnvoteTest(u) \/ P!ProxyUnvoteClear(u)
ProxyStep ==
  ProxyFlagStep \/ P!ProxyVoteInc \/ \E u \in Unvoters : P!ProxyUnvoteDec(u)

\* Nobody else touches the proxy's vote and calls.
LEMMA OthersLeaveProxy ==
  ASSUME P!Next
  PROVE  ProxyStep \/ UNCHANGED <<proxy, valid, voter, unvoter, overlapped, raced>>
<1> USE DEF P!proxyCalls
<1>1. P!Clients => ProxyStep \/ UNCHANGED <<proxy, valid, voter, unvoter, overlapped, raced>>
  BY DEF P!Clients, P!ResumeClient, P!SuspendClientSync, P!SuspendClientNoBlock, P!ApSuspend,
         P!SetPerfProfile, ProxyStep, ProxyFlagStep
<1>2. P!ClockStep \/ P!PerfStep \/ P!PmStep
        => UNCHANGED <<proxy, valid, voter, unvoter, overlapped, raced>>
  BY DEF P!ClockStep, P!EnableClks, P!DisableClks, P!PerfStep, P!PerfApply, P!PerfDec,
         P!PmStep, P!TagStart, P!TagDone, P!DeferStart, P!DeferProcess, P!DeferDec
<1>3. P!RxStep => UNCHANGED <<proxy, valid, voter, unvoter, overlapped, raced>>
  BY DEF P!RxStep, P!RxStart, P!RxPoll, P!RxEnableEot, P!RxClearPolling, P!RxDrain,
         P!RxRelax, P!RxDec
<1>4. P!Isr \/ P!SuspendHandler \/ P!ReleaseTimer \/ P!PacketArrives \/ P!BamIsr
        => UNCHANGED <<proxy, valid, voter, unvoter, overlapped, raced>>
  BY DEF P!Isr, P!SuspendHandler, P!ReleaseTimer, P!PacketArrives, P!BamIsr
<1> QED BY <1>1, <1>2, <1>3, <1>4 DEF P!Next

\* Calls of ipa2_proxy_clk_vote() and ipa2_proxy_clk_unvote() one at a time: what
\* the flag and the vote are at each step of the one under way.
ProxyApart ==
  /\ ~raced
  /\ \A u, v \in Unvoters : unvoter[u] # "idle" /\ unvoter[v] # "idle" => u = v
  /\ \A u \in Unvoters : unvoter[u] # "idle" => voter = "idle"
  /\ voter = "inc" => ~valid /\ ~proxy
  /\ voter = "set" => ~valid /\ proxy
  /\ \A u \in Unvoters : unvoter[u] = "dec" => valid /\ proxy
  /\ \A u \in Unvoters : unvoter[u] = "clear" => valid /\ ~proxy
  /\ ~P!ProxyBusy => (valid <=> proxy)
ProxyInv == P!ProxyTypeOK /\ proxy \in BOOLEAN /\ (~overlapped => ProxyApart)

\* The proxy's own steps keep its invariant.
LEMMA ProxySteps ==
  ASSUME ProxyInv, ProxyStep
  PROVE  ProxyInv'
<1> USE DEF P!ProxyBusy
<1>1. CASE P!ProxyVoteTest
  BY <1>1 DEF P!ProxyVoteTest, ProxyInv, P!ProxyTypeOK, ProxyApart
<1>2. CASE P!ProxyVoteInc
  <2>1. proxy' \in BOOLEAN /\ raced' \in BOOLEAN
    BY <1>2 DEF P!ProxyVoteInc
  <2> QED BY <1>2, <2>1 DEF P!ProxyVoteInc, ProxyInv, P!ProxyTypeOK, ProxyApart
<1>3. CASE P!ProxyVoteSet
  BY <1>3 DEF P!ProxyVoteSet, ProxyInv, P!ProxyTypeOK, ProxyApart
<1>4. ASSUME NEW u \in Unvoters, P!ProxyUnvoteTest(u) PROVE ProxyInv'
  BY <1>4 DEF P!ProxyUnvoteTest, ProxyInv, P!ProxyTypeOK, ProxyApart
<1>5. ASSUME NEW u \in Unvoters, P!ProxyUnvoteDec(u) PROVE ProxyInv'
  <2>1. proxy' \in BOOLEAN /\ raced' \in BOOLEAN
    BY <1>5 DEF P!ProxyUnvoteDec
  <2> QED BY <1>5, <2>1 DEF P!ProxyUnvoteDec, ProxyInv, P!ProxyTypeOK, ProxyApart
<1>6. ASSUME NEW u \in Unvoters, P!ProxyUnvoteClear(u) PROVE ProxyInv'
  BY <1>6 DEF P!ProxyUnvoteClear, ProxyInv, P!ProxyTypeOK, ProxyApart
<1> QED BY <1>1, <1>2, <1>3, <1>4, <1>5, <1>6 DEF ProxyStep, ProxyFlagStep

\* The invariant of the clocks, until a proxy vote is dropped or taken twice.
VoteInv == ProxyInv /\ (~raced => PowerInv)

\* Every step keeps the invariant.
LEMMA PowerStep == VoteInv /\ [MCNext]_allVars => VoteInv'
<1> SUFFICES ASSUME VoteInv, [MCNext]_allVars PROVE VoteInv'
  OBVIOUS
<1>1. CASE Power
  <2>1. P!Next
    BY <1>1 DEF Power
  <2>2. CASE ProxyStep
    <3>1. ProxyInv'
      BY <2>2, ProxySteps DEF VoteInv
    <3>2. ASSUME ~raced' PROVE PowerInv'
      <4>1. CASE ProxyFlagStep
        <5>1. UNCHANGED pipeVars /\ raced' = raced
          BY <4>1 DEF ProxyFlagStep, P!ProxyVoteTest, P!ProxyVoteSet, P!ProxyUnvoteTest,
             P!ProxyUnvoteClear, P!clkVars, P!irqVars, P!spsVars, P!fifoVars, P!modeVars, pipeVars
        <5> QED BY <3>2, <5>1, PowerFrame DEF VoteInv
      <4>2. CASE P!ProxyVoteInc
        <5>1. ~raced /\ ~proxy
          BY <3>2, <4>2 DEF P!ProxyVoteInc
        <5> QED BY <4>2, <5>1, PowerIncSteps DEF VoteInv
      <4>3. ASSUME NEW u \in Unvoters, P!ProxyUnvoteDec(u) PROVE PowerInv'
        <5>1. ~raced /\ proxy
          BY <3>2, <4>3 DEF P!ProxyUnvoteDec
        <5> QED BY <4>3, <5>1, PowerDecSteps DEF VoteInv
      <4> QED BY <2>2, <4>1, <4>2, <4>3 DEF ProxyStep
    <3> QED BY <3>1, <3>2 DEF VoteInv
  <2>3. CASE UNCHANGED <<proxy, valid, voter, unvoter, overlapped, raced>> /\ ~ProxyStep
    <3>1. ProxyInv'
      BY <2>3 DEF VoteInv, ProxyInv, P!ProxyTypeOK, ProxyApart, P!ProxyBusy
    <3>2. ASSUME ~raced PROVE PowerInv'
      <4>1. PowerInv
        BY <3>2 DEF VoteInv
      <4> QED BY <2>1, <2>3, <4>1, PowerIncSteps, PowerDecSteps, PowerClockSteps, PowerPipeSteps
              DEF P!Next, P!Clients, P!ClockStep, P!PerfStep, P!PmStep, P!RxStep,
                  ProxyStep, ProxyFlagStep
    <3> QED BY <2>3, <3>1, <3>2 DEF VoteInv
  <2> QED BY <2>1, <2>2, <2>3, OthersLeaveProxy
<1>2. CASE UNCHANGED powerVars
  <2>1. ProxyInv'
    BY <1>2 DEF powerVars, VoteInv, ProxyInv, P!ProxyTypeOK, ProxyApart, P!ProxyBusy
  <2>2. UNCHANGED pipeVars /\ raced' = raced
    BY <1>2 DEF powerVars, pipeVars
  <2> QED BY <2>1, <2>2, PowerFrame DEF VoteInv
<1> QED BY <1>1, <1>2 DEF MCNext, Timer, Wwan, allVars

\* The invariant holds after probe.
LEMMA PowerStart == MCInit => VoteInv
<1> SUFFICES ASSUME P!Init PROVE VoteInv
  BY DEF MCInit
<1>1. FlagType
  BY DEF P!Init, FlagType
<1>2. StepType /\ RateType
  BY RateAssumption
  DEF P!Init, StepType, RateType, P!LockSteps, P!PerfSteps, P!PmSteps, P!RxSteps
<1>3. FifoType /\ cnt \in Nat
  BY DEF P!Init, FifoType
<1>4. QueueType /\ TagInv /\ ~P!Queued("tag", pmWq)
  BY DEF P!Init, QueueType, TagInv, TagsOnce, P!Queued
<1>5. P!VotesBalance
  BY <1>4 DEF P!Init, P!VotesBalance, P!B
<1>6. SwitchInv /\ P!WakeVoteReleased
  BY DEF P!Init, SwitchInv, ClockInv, EnableInv, ModeInv, AtWork, DrainInv, WakeInv, RateInv,
         P!WakeVoteReleased
<1>7. ProxyInv
  BY DEF P!Init, ProxyInv, P!ProxyTypeOK, ProxyApart
<1>8. PowerInv
  BY <1>1, <1>2, <1>3, <1>4, <1>5, <1>6, PowerTypeParts DEF PowerInv, SwitchInv
<1> QED BY <1>7, <1>8 DEF VoteInv

\* The count of active clients is the number of parties that will give a vote
\* back, clocks, bus vote, rate and suspend bit follow it, and whoever touches
\* registers does so with the clocks on, whatever work, interrupts and callers
\* do at once (ipa2_inc_client_enable_clks(), ipa2_dec_client_disable_clks()).  It
\* ends where two overlapping calls of ipa2_proxy_clk_unvote(), which holds no lock,
\* drop one vote twice; calls one after the other never do.
THEOREM ClocksAreRight == MCSpec => []ClocksRight
<1>1. VoteInv => ClocksRight
  <2> SUFFICES ASSUME VoteInv PROVE ClocksRight
    OBVIOUS
  <2>0. P!ProxyTypeOK /\ P!ProxyFlagTrue
    BY DEF VoteInv, ProxyInv, ProxyApart, P!ProxyFlagTrue
  <2> SUFFICES ASSUME ~raced, PowerInv
               PROVE  /\ P!TypeOK /\ P!VotesBalance /\ P!ClocksFollowVotes
                      /\ P!RegistersClocked /\ P!RateSettled
    BY <2>0 DEF VoteInv, ClocksRight
  <2>1. P!TypeOK /\ P!VotesBalance
    BY DEF PowerInv
  <2>2. cnt > 0 => clk
    BY DEF PowerInv, P!TypeOK, P!LockSteps, ClockInv
  <2>3. P!ClocksFollowVotes
    BY DEF PowerInv, ClockInv, ModeInv, P!ClocksFollowVotes, P!Free
  <2>4. P!RegistersClocked
    <3>1. pm # "idle" => TagVote \/ IrqVote
      BY <2>1 DEF P!TypeOK, P!PmSteps, TagVote, IrqVote
    <3>2. latched /\ eotOn => clk
      BY DEF PowerInv, ModeInv
    <3> QED BY <2>2, <3>1, <3>2, FewVotes DEF P!RegistersClocked
  <2>5. P!RateSettled
    BY DEF PowerInv, RateInv, P!RateSettled, P!Free, P!BusVote
  <2> QED BY <2>1, <2>3, <2>4, <2>5
<1> QED BY <1>1, PowerStart, PowerStep, PTL DEF MCSpec

\* Gating loses nothing: no packet stays in the FIFO of a gated pipe without the
\* receive work being queued, a TAG process asked for comes before the gating, and
\* the vote of the suspend handler and the wakelock have somebody who gives them
\* back (ipa_suspend_apps_pipes(), ipa_sps_release_resource()).
THEOREM NothingLostByGating == MCSpec => []GatingLosesNothing
<1>1. VoteInv => GatingLosesNothing
  <2> SUFFICES ASSUME ~raced, PowerInv
               PROVE  /\ P!GatedPipeDrained /\ P!TagBeforeGating
                      /\ P!WakeVoteReleased /\ P!NoWakelockLeak
    BY DEF VoteInv, GatingLosesNothing
  <2>1. P!GatedPipeDrained
    BY DEF PowerInv, ClockInv, DrainInv, ModeInv, P!GatedPipeDrained, P!Free
  <2>2. P!TagBeforeGating
    BY DEF PowerInv, P!TypeOK, P!LockSteps, ClockInv, P!TagBeforeGating
  <2>3. P!NoWakelockLeak /\ P!WakeVoteReleased
    BY DEF PowerInv, WakeInv, P!NoWakelockLeak
  <2> QED BY <2>1, <2>2, <2>3
<1> QED BY <1>1, PowerStart, PowerStep, PTL DEF MCSpec

-----------------------------------------------------------------------------
(* The inactivity timer: a requested resource is held, an idle one is on its *)
(* way to be released, and the timer implements LazyRelease, with releases   *)
(* by other threads at any point of a request.                               *)
Bools ==
  /\ inited \in BOOLEAN /\ requested \in BOOLEAN /\ resched \in BOOLEAN
  /\ wip \in BOOLEAN /\ timer \in BOOLEAN /\ wake \in BOOLEAN
  /\ gap \in BOOLEAN /\ held \in BOOLEAN /\ overtaken \in BOOLEAN

\* A request between its two halves is one of a live timer, and what its second
\* half acquires is wanted, has a timer, or was overtaken.
GapCovered == gap => inited /\ (requested \/ wip \/ overtaken)

IInv == Bools /\ RequestedIsHeld /\ IdleIsReleased /\ GapCovered

\* All flags are clear before the timer is set up.
LEMMA InitIInv == Init => IInv
BY DEF Init, IInv, Bools, RequestedIsHeld, IdleIsReleased, GapCovered

\* Every critical section of the timer keeps the invariant.
LEMMA NextIInv ==
  ASSUME IInv, [Next]_vars
  PROVE  IInv'
<1> USE DEF IInv, Bools, RequestedIsHeld, IdleIsReleased, GapCovered
<1>1. CASE TimerInit
  BY <1>1 DEF TimerInit, Cleared
<1>2. CASE Destroy
  BY <1>2 DEF Destroy, Cleared
<1>3. CASE RequestFlag
  BY <1>3 DEF RequestFlag
<1>4. CASE RequestCall
  BY <1>4 DEF RequestCall
<1>5. CASE Release
  BY <1>5 DEF Release, Rearms
<1>6. CASE TimerFunc
  BY <1>6 DEF TimerFunc, NotIdle
<1>7. CASE UNCHANGED vars
  BY <1>7 DEF vars
<1>8. QED
  BY <1>1, <1>2, <1>3, <1>4, <1>5, <1>6, <1>7 DEF Next

\* Every step of the timer is a step of delayed release, or invisible to it.
LEMMA StepRefines ==
  ASSUME IInv, [Next]_vars
  PROVE  [Lazy!Next]_<<requested, gap, held>>
<1> USE DEF IInv, Bools, RequestedIsHeld, IdleIsReleased, GapCovered, Lazy!Next
<1>1. CASE TimerInit
  BY <1>1 DEF TimerInit, Cleared, Lazy!Reset
<1>2. CASE Destroy
  BY <1>2 DEF Destroy, Cleared, Lazy!Reset
<1>3. CASE RequestFlag
  BY <1>3 DEF RequestFlag, Lazy!Want
<1>4. CASE RequestCall
  BY <1>4 DEF RequestCall, Lazy!Acquire
<1>5. CASE Release
  <2>1. CASE requested
    BY <1>5, <2>1 DEF Release, Lazy!Drop
  <2>2. CASE ~requested
    BY <1>5, <2>2 DEF Release
  <2>3. QED
    BY <2>1, <2>2
<1>6. CASE TimerFunc
  <2>1. CASE resched \/ requested \/ ~held
    BY <1>6, <2>1 DEF TimerFunc, NotIdle
  <2>2. CASE ~resched /\ ~requested /\ held
    BY <1>6, <2>2 DEF TimerFunc, NotIdle, Lazy!Expire
  <2>3. QED
    BY <2>1, <2>2
<1>7. CASE UNCHANGED vars
  BY <1>7 DEF vars
<1>8. QED
  BY <1>1, <1>2, <1>3, <1>4, <1>5, <1>6, <1>7 DEF Next

\* The invariant holds throughout.
LEMMA TimerInvariant == Spec => []IInv
<1>1. IInv /\ [Next]_vars => IInv'
  BY NextIInv
<1>2. QED
  BY InitIInv, <1>1, PTL DEF Spec

\* A request whose call has returned, and that nobody has released since, holds
\* its resource, whatever the timer and other threads' releases do during the
\* call (ipa_rm_inactivity_timer_func() reads the flag and releases under one
\* spinlock).
THEOREM RequestedStaysHeld == Spec => []RequestedIsHeld
<1>1. IInv => RequestedIsHeld
  BY DEF IInv
<1>2. QED
  BY TimerInvariant, <1>1, PTL

\* What is held or keeps the phone awake is wanted, or a timer will release it,
\* or it was acquired by a request that a release and an expiry overtook
\* (ipa_rm_inactivity_timer_request_resource() asks after its unlock).
THEOREM IdleGetsReleased == Spec => []IdleIsReleased
<1>1. IInv => IdleIsReleased
  BY DEF IInv
<1>2. QED
  BY TimerInvariant, <1>1, PTL

\* The timer implements delayed release: it asks for the resource once for each
\* request and gives it back only while it is not wanted.
THEOREM TimerRefinesLazyRelease == Spec => ImplementsLazyRelease
<1>1. Init => Lazy!Init
  BY DEF Init, Lazy!Init
<1>2. IInv /\ [Next]_vars => [Lazy!Next]_<<requested, gap, held>>
  BY StepRefines
<1>3. QED
  BY TimerInvariant, <1>1, <1>2, PTL DEF Spec, ImplementsLazyRelease, Lazy!Spec
===============================================================================
