------------------------- MODULE ControlClientProofs -------------------------
(***************************************************************************)
(* Proofs about the control side: user-space messages, the restart of the  *)
(* modem, the endpoints of peripheral clients and the channels of the WWAN *)
(* device, for any number of threads, messages, peripherals and rules.     *)
(***************************************************************************)
EXTENDS MCControl, FiniteSetTheorems, TLAPS

\* A step is one part's; what another part's proof needs of it is that it leaves that
\* part's state alone.
LEMMA PartSteps ==
  ASSUME [MCNext]_allVars
  PROVE  /\ Modem \/ UNCHANGED mVars
         /\ Wwan \/ UNCHANGED wVars
         /\ Connections \/ UNCHANGED cVars
         /\ Messages \/ UNCHANGED gVars
BY DEF MCNext, allVars, Sps, Modem, Wwan, Qmi, Boot, Connections, TableEntries,
       TableMemory, RuleEncoding, Messages, Dma, NatIoctls, BusVotes

-----------------------------------------------------------------------------
(* User-space messages.  msg_list is the end of the log that no reader has    *)
(* taken yet; the cache is current up to the message that the holder of       *)
(* msg_lock has put on the list and not processed.                            *)
MsgPlacesOf(t) ==
  IF t \in Senders THEN {"idle", "process", "wake"}
  ELSE IF t \in Resenders THEN {"idle", "resend", "resendlock", "resendwake"}
  ELSE {"idle", "check", "last", "wait", "copy"}
MsgType ==
  /\ gLog \in Seq(G!Events) /\ gList \in Seq(Nat) /\ gCache \subseteq 1 .. Len(gLog)
  /\ gLock \in Senders \cup {NONE} /\ gWlock \in Resenders \cup {NONE}
  /\ gPc = [t \in G!Threads |-> gPc[t]] /\ \A t \in G!Threads : gPc[t] \in MsgPlacesOf(t)
  /\ gJob \in [G!Threads -> Nat] /\ gWoken \in [Readers -> BOOLEAN]
  /\ gMissed \subseteq WlanMacs
MsgLocks ==
  /\ \A s \in Senders : gPc[s] = "process" <=> gLock = s
  /\ \A s \in Senders : gPc[s] = "process" => gJob[s] = Len(gLog) /\ gJob[s] \in 1 .. Len(gLog)
                                              /\ gJob[s] \notin gCache
  /\ \A z \in Resenders : gPc[z] # "idle" <=> gWlock = z
  /\ \A z \in Resenders : gPc[z] = "resendlock" => gJob[z] \in gCache
  /\ \A c \in gCache : gLog[c].ev = "connect"

\* Messages taken off the list, and where they are.
MsgTaken == Len(gLog) - Len(gList)
MsgCopying(r) == gPc[r] = "copy"
MsgPlaces ==
  /\ MsgTaken \in Nat
  /\ \A i \in 1 .. Len(gList) : gList[i] = MsgTaken + i
  /\ \A p \in 1 .. MsgTaken :
       p \in gGot \/ p \in gDropped \/ \E r \in Readers : MsgCopying(r) /\ gJob[r] = p
  /\ gGot \subseteq 1 .. MsgTaken /\ gDropped \subseteq 1 .. MsgTaken /\ gGot \cap gDropped = {}
  /\ \A r \in Readers : MsgCopying(r) =>
       gJob[r] \in 1 .. MsgTaken /\ gJob[r] \notin gGot /\ gJob[r] \notin gDropped
  /\ \A r, q \in Readers : MsgCopying(r) /\ MsgCopying(q) /\ gJob[r] = gJob[q] => r = q

\* Messages processed, and the last of them about a client.
MsgSeen == IF gLock = NONE THEN Len(gLog) ELSE Len(gLog) - 1
MsgCached(m) == \E c \in gCache : gLog[c].mac = m
MsgIsLast(m, i) ==
  gLog[i].mac = m /\ \A j \in 1 .. MsgSeen : gLog[j].mac = m => j <= i
MsgCurrent(m) ==
  /\ (\E j \in 1 .. MsgSeen : gLog[j].mac = m) => \E i \in 1 .. MsgSeen : MsgIsLast(m, i)
  /\ m \notin gMissed =>
       (MsgCached(m) <=> \E i \in 1 .. MsgSeen : MsgIsLast(m, i) /\ gLog[i].ev = "connect")
MsgInv ==
  /\ MsgType /\ MsgLocks /\ MsgPlaces /\ (\A m \in WlanMacs : MsgCurrent(m))
  /\ G!NoLostWakeup

\* The kinds of threads do not overlap.
LEMMA MsgKinds ==
  /\ \A s \in Senders : s \in G!Threads /\ s \notin Resenders /\ s \notin Readers /\ s # NONE
                        /\ MsgPlacesOf(s) = {"idle", "process", "wake"}
  /\ \A z \in Resenders : z \in G!Threads /\ z \notin Senders /\ z \notin Readers /\ z # NONE
                        /\ MsgPlacesOf(z) = {"idle", "resend", "resendlock", "resendwake"}
  /\ \A r \in Readers : r \in G!Threads /\ r \notin Senders /\ r \notin Resenders
                        /\ MsgPlacesOf(r) = {"idle", "check", "last", "wait", "copy"}
BY MsgAssumption DEF G!Threads, MsgPlacesOf

\* A thread moves on, alone.
LEMMA MsgMove ==
  ASSUME MsgInv, NEW t \in G!Threads, NEW at \in MsgPlacesOf(t), gPc' = [gPc EXCEPT ![t] = at]
  PROVE  /\ gPc' = [u \in G!Threads |-> gPc'[u]]
         /\ \A u \in G!Threads : gPc'[u] \in MsgPlacesOf(u)
         /\ gPc'[t] = at /\ \A u \in G!Threads : u # t => gPc'[u] = gPc[u]
<1>1. gPc = [u \in G!Threads |-> gPc[u]] /\ \A u \in G!Threads : gPc[u] \in MsgPlacesOf(u)
  BY DEF MsgInv, MsgType
<1>2. QED
  BY <1>1

\* One thread's job changes, the others' do not.
LEMMA MsgJobMove ==
  ASSUME MsgInv, NEW t \in G!Threads, NEW j \in Nat, gJob' = [gJob EXCEPT ![t] = j]
  PROVE  /\ gJob' \in [G!Threads -> Nat]
         /\ gJob'[t] = j /\ \A u \in G!Threads : u # t => gJob'[u] = gJob[u]
BY DEF MsgInv, MsgType

\* What is kept by a step that leaves the list and the reader's hands alone ...
LEMMA MsgPlacesKept ==
  ASSUME MsgInv, UNCHANGED <<gLog, gList, gGot, gDropped>>,
         \A r \in Readers : gPc'[r] = "copy" <=> gPc[r] = "copy",
         \A r \in Readers : gPc[r] = "copy" => gJob'[r] = gJob[r]
  PROVE  MsgPlaces'
BY DEF MsgInv, MsgPlaces, MsgTaken, MsgCopying

\* ... and by one that leaves the log and the cache alone.
LEMMA MsgCurrentKept ==
  ASSUME MsgInv, UNCHANGED <<gLog, gCache, gMissed>>, gLock' = NONE <=> gLock = NONE
  PROVE  \A m \in WlanMacs : MsgCurrent(m)'
<1>1. MsgSeen' = MsgSeen
  BY DEF MsgSeen
<1>2. ASSUME NEW m \in WlanMacs PROVE MsgCurrent(m)'
  <2>1. \A i : MsgIsLast(m, i)' <=> MsgIsLast(m, i)
    BY <1>1 DEF MsgIsLast
  <2>2. MsgCached(m)' <=> MsgCached(m)
    BY DEF MsgCached
  <2>3. MsgCurrent(m)
    BY DEF MsgInv
  <2>4. QED
    BY <1>1, <2>1, <2>2, <2>3 DEF MsgCurrent
<1>3. QED
  BY <1>2

\* Both locks and the cache belong to senders and resenders.
LEMMA MsgReaderKeeps ==
  ASSUME MsgInv, NEW r \in Readers, UNCHANGED <<gLog, gCache, gLock, gWlock, gMissed>>,
         \A u \in G!Threads : u # r => gPc'[u] = gPc[u] /\ gJob'[u] = gJob[u]
  PROVE  MsgLocks' /\ \A m \in WlanMacs : MsgCurrent(m)'
<1>1. MsgLocks'
  BY MsgKinds DEF MsgInv, MsgLocks
<1>2. QED
  BY <1>1, MsgCurrentKept

\* wake_up() marks every reader that is not idle.
LEMMA MsgWoken ==
  ASSUME MsgInv, G!WakeUp, \A r \in Readers : gPc'[r] = gPc[r]
  PROVE  gWoken' \in [Readers -> BOOLEAN] /\ G!NoLostWakeup'
<1>1. gWoken' = [r \in Readers |-> gWoken[r] \/ gPc[r] # "idle"]
  BY DEF G!WakeUp
<1>2. \A r \in Readers : gPc'[r] = "wait" => gWoken'[r]
  BY <1>1
<1>3. QED
  BY <1>1, <1>2 DEF G!NoLostWakeup

\* A step in which no waker goes, no reader begins to wait and nothing is added.
LEMMA MsgStillWoken ==
  ASSUME MsgInv, gList' # <<>> => gList # <<>>,
         \A r \in Readers : gPc'[r] = "wait" => gPc[r] = "wait" /\ gWoken'[r] = gWoken[r],
         \A t \in Senders \cup Resenders :
           gPc[t] \in {"process", "wake", "resendwake"} => gPc'[t] \in {"process", "wake", "resendwake"}
  PROVE  G!NoLostWakeup'
BY DEF MsgInv, G!NoLostWakeup

\* A sender lists its message under msg_lock.
LEMMA MsgSendStep ==
  ASSUME MsgInv, NEW s \in Senders, NEW m \in G!Events, G!SendMsg(s, m)
  PROVE  MsgInv'
<1>1. /\ gPc[s] = "idle" /\ gLock = NONE /\ gLog' = Append(gLog, m)
      /\ gList' = Append(gList, Len(gLog) + 1) /\ gLock' = s
      /\ gJob' = [gJob EXCEPT ![s] = Len(gLog) + 1] /\ gPc' = [gPc EXCEPT ![s] = "process"]
      /\ UNCHANGED <<gCache, gWlock, gWoken, gGot, gDropped, gMissed>>
  BY DEF G!SendMsg, G!Enqueue, G!Go
<1>2. /\ gLog \in Seq(G!Events) /\ gList \in Seq(Nat) /\ Len(gLog) \in Nat
      /\ gCache \subseteq 1 .. Len(gLog)
  BY DEF MsgInv, MsgType
<1>3. /\ Len(gLog') = Len(gLog) + 1 /\ gLog' \in Seq(G!Events)
      /\ \A i \in 1 .. Len(gLog) : gLog'[i] = gLog[i]
  BY <1>1, <1>2
<1>4. /\ Len(gList') = Len(gList) + 1 /\ gList' \in Seq(Nat) /\ gList'[Len(gList) + 1] = Len(gLog) + 1
      /\ \A i \in 1 .. Len(gList) : gList'[i] = gList[i]
  BY <1>1, <1>2
<1>5. /\ gPc' = [u \in G!Threads |-> gPc'[u]]
      /\ \A u \in G!Threads : gPc'[u] \in MsgPlacesOf(u)
      /\ gPc'[s] = "process" /\ \A u \in G!Threads : u # s => gPc'[u] = gPc[u]
  BY <1>1, MsgMove, MsgKinds
<1>6. /\ gJob' \in [G!Threads -> Nat]
      /\ gJob'[s] = Len(gLog) + 1 /\ \A u \in G!Threads : u # s => gJob'[u] = gJob[u]
  <2>1. Len(gLog) + 1 \in Nat /\ s \in G!Threads
    BY <1>2, MsgKinds
  <2>2. QED
    BY <1>1, <2>1, MsgJobMove
<1>7. MsgType'
  <2>1. gCache' \subseteq 1 .. Len(gLog')
    BY <1>1, <1>2, <1>3
  <2>2. QED
    BY <1>1, <1>3, <1>4, <1>5, <1>6, <2>1 DEF MsgInv, MsgType
<1>8. MsgLocks'
  <2>1. \A u \in Senders : gPc'[u] = "process" <=> gLock' = u
    BY <1>1, <1>5, MsgKinds DEF MsgInv, MsgLocks
  <2>2. Len(gLog) + 1 \notin gCache
    BY <1>2
  <2>3. \A u \in Senders : gPc'[u] = "process" => gJob'[u] = Len(gLog') /\ gJob'[u] \in 1 .. Len(gLog') /\ gJob'[u] \notin gCache'
    BY <1>1, <1>2, <1>3, <1>6, <2>1, <2>2
  <2>4. \A z \in Resenders : gPc'[z] = gPc[z] /\ gJob'[z] = gJob[z]
    BY <1>5, <1>6, MsgKinds
  <2>5. \A c \in gCache' : gLog'[c].ev = "connect"
    BY <1>1, <1>2, <1>3 DEF MsgInv, MsgLocks
  <2>6. /\ \A z \in Resenders : gPc'[z] # "idle" <=> gWlock' = z
        /\ \A z \in Resenders : gPc'[z] = "resendlock" => gJob'[z] \in gCache'
    BY <1>1, <2>4 DEF MsgInv, MsgLocks
  <2>7. QED
    BY <2>1, <2>3, <2>5, <2>6 DEF MsgLocks
<1>9. MsgPlaces'
  <2>1. MsgTaken' = MsgTaken
    BY <1>2, <1>3, <1>4 DEF MsgTaken
  <2>2. \A r \in Readers : gPc'[r] = gPc[r] /\ gJob'[r] = gJob[r]
    BY <1>5, <1>6, MsgKinds
  <2>3. \A i \in 1 .. Len(gList') : gList'[i] = MsgTaken + i
    <3>1. \A i \in 1 .. Len(gList) : gList[i] = MsgTaken + i
      BY DEF MsgInv, MsgPlaces
    <3>2. MsgTaken + (Len(gList) + 1) = Len(gLog) + 1 /\ Len(gList) \in Nat
      BY <1>2 DEF MsgTaken
    <3>3. \A i \in 1 .. Len(gList) + 1 : i \in 1 .. Len(gList) \/ i = Len(gList) + 1
      BY <3>2
    <3>4. QED
      BY <1>4, <3>1, <3>2, <3>3
  <2>4. QED
    BY SMTT(30), <1>1, <2>1, <2>2, <2>3 DEF MsgInv, MsgPlaces, MsgCopying
<1>10. \A w \in WlanMacs : MsgCurrent(w)'
  <2>1. MsgSeen = Len(gLog) /\ MsgSeen' = Len(gLog)
    BY <1>1, <1>2, <1>3, MsgKinds DEF MsgSeen
  <2>2. ASSUME NEW w \in WlanMacs PROVE MsgCurrent(w)'
    <3>1. MsgCurrent(w)
      BY DEF MsgInv
    <3>2. MsgCached(w)' <=> MsgCached(w)
      BY <1>1, <1>2, <1>3 DEF MsgCached
    <3>3. \A i \in 1 .. Len(gLog) : MsgIsLast(w, i)' <=> MsgIsLast(w, i)
      BY <1>3, <2>1 DEF MsgIsLast
    <3>4. QED
      BY <1>1, <1>3, <2>1, <3>1, <3>2, <3>3 DEF MsgCurrent
  <2>3. QED
    BY <2>2
<1>11. G!NoLostWakeup'
  BY <1>5 DEF G!NoLostWakeup
<1>12. QED
  BY <1>7, <1>8, <1>9, <1>10, <1>11 DEF MsgInv

\* wlan_msg_process() brings the cache up to date with the message just listed.
LEMMA MsgProcessStep ==
  ASSUME MsgInv, NEW s \in Senders, G!WlanMsgProcess(s)
  PROVE  MsgInv'
<1> DEFINE p == gJob[s]
<1> DEFINE n == Len(gLog)
<1>1. /\ gPc[s] = "process"
      /\ gLog[p].ev # "other" => gWlock = NONE
      /\ gCache' \in G!CacheAfter(p) /\ G!NoteMissed(gLog[p]) /\ gLock' = NONE
      /\ gPc' = [gPc EXCEPT ![s] = "wake"]
      /\ UNCHANGED <<gLog, gList, gWlock, gJob, gWoken, gGot, gDropped>>
  BY DEF G!WlanMsgProcess, G!Go
<1>2. /\ gLock = s /\ p = n /\ n \in Nat /\ n > 0 /\ p \notin gCache
      /\ gCache \subseteq 1 .. n
  <2>1. n \in Nat /\ gCache \subseteq 1 .. n
    BY DEF MsgInv, MsgType
  <2>2. gLock = s /\ p = n /\ p \in 1 .. n /\ p \notin gCache
    BY <1>1 DEF MsgInv, MsgLocks
  <2>3. QED
    BY <2>1, <2>2
<1>3. /\ gPc' = [u \in G!Threads |-> gPc'[u]]
      /\ \A u \in G!Threads : gPc'[u] \in MsgPlacesOf(u)
      /\ gPc'[s] = "wake" /\ \A u \in G!Threads : u # s => gPc'[u] = gPc[u]
  BY <1>1, MsgMove, MsgKinds
<1>4. gLog[p] \in G!Events
  BY <1>2 DEF MsgInv, MsgType
<1>5. \/ gLog[p].ev \in {"connect", "disconnect"} /\ gLog[p].mac \in WlanMacs
      \/ gLog[p].ev = "other" /\ gLog[p].mac = NONE
  <2>1. CASE gLog[p] = [ev |-> "other", mac |-> NONE]
    BY <2>1
  <2>2. CASE gLog[p] # [ev |-> "other", mac |-> NONE]
    <3>1. PICK e \in {"connect", "disconnect"}, m \in WlanMacs : gLog[p] = [ev |-> e, mac |-> m]
      BY <1>4, <2>2 DEF G!Events
    <3>2. QED
      BY <3>1
  <2>3. QED
    BY <2>1, <2>2
<1>6. gLog[p].ev = "connect" => gCache' = gCache \cup {p} \/ gCache' = gCache
  BY <1>1 DEF G!CacheAfter
<1>7. gLog[p].ev = "disconnect" => gCache' = {c \in gCache : gLog[c].mac # gLog[p].mac}
  BY <1>1 DEF G!CacheAfter
<1>8. gLog[p].ev = "other" => gCache' = gCache
  BY <1>1 DEF G!CacheAfter
<1>9. gMissed' = IF gLog[p].ev = "connect" /\ gCache' = gCache THEN gMissed \cup {gLog[p].mac}
                 ELSE IF gLog[p].ev # "other" THEN gMissed \ {gLog[p].mac} ELSE gMissed
  BY <1>1 DEF G!NoteMissed
<1>10. gCache' \subseteq 1 .. n /\ \A c \in gCache' : gLog[c].ev = "connect"
  <2>1. \A c \in gCache : gLog[c].ev = "connect"
    BY DEF MsgInv, MsgLocks
  <2>2. p \in 1 .. n
    BY <1>2
  <2>3. QED
    BY <1>2, <1>5, <1>6, <1>7, <1>8, <2>1, <2>2
<1>11. MsgType'
  <2>1. gMissed' \subseteq WlanMacs
    BY <1>5, <1>9 DEF MsgInv, MsgType
  <2>2. QED
    BY <1>1, <1>3, <1>10, <2>1 DEF MsgInv, MsgType
<1>12. MsgLocks'
  <2>1. \A u \in Senders : gPc'[u] # "process" /\ u # NONE
    BY <1>2, <1>3, MsgKinds DEF MsgInv, MsgLocks
  <2>2. \A z \in Resenders : gPc'[z] = gPc[z]
    BY <1>3, MsgKinds
  <2>3. \A z \in Resenders : gPc[z] = "resendlock" => gJob[z] \in gCache'
    <3>1. CASE gLog[p].ev = "other"
      BY <1>8, <3>1 DEF MsgInv, MsgLocks
    <3>2. CASE gLog[p].ev # "other"
      BY <1>1, <3>2, MsgKinds DEF MsgInv, MsgLocks
    <3>3. QED
      BY <3>1, <3>2
  <2>4. QED
    BY <1>1, <1>10, <2>1, <2>2, <2>3 DEF MsgInv, MsgLocks
<1>13. MsgPlaces'
  BY <1>1, <1>3, MsgKinds, MsgPlacesKept
<1>14. ASSUME NEW m \in WlanMacs PROVE MsgCurrent(m)'
  <2>1. MsgSeen = n - 1 /\ MsgSeen' = n
    BY <1>1, <1>2, MsgKinds DEF MsgSeen
  <2>2. CASE gLog[p].mac = m
    <3>0. m # NONE
      BY MsgAssumption
    <3>1. gLog[p].ev \in {"connect", "disconnect"}
      BY <1>5, <2>2, <3>0
    <3>2. \A i \in 1 .. n : MsgIsLast(m, i)' <=> i = n
      BY <1>1, <1>2, <2>1, <2>2 DEF MsgIsLast
    <3>3. m \notin gMissed' => (MsgCached(m)' <=> gLog[p].ev = "connect")
      BY <1>1, <1>2, <1>6, <1>7, <1>9, <2>2, <3>1 DEF MsgCached
    <3>4. n \in 1 .. n
      BY <1>2
    <3>5. QED
      BY <1>1, <1>2, <2>1, <3>2, <3>3, <3>4 DEF MsgCurrent
  <2>3. CASE gLog[p].mac # m
    <3>1. MsgCached(m)' <=> MsgCached(m)
      BY <1>1, <1>5, <1>6, <1>7, <1>8, <2>3 DEF MsgCached
    <3>2. m \in gMissed' <=> m \in gMissed
      BY <1>9, <2>3
    <3>3. \A j \in 1 .. n : gLog[j].mac = m => j \in 1 .. n - 1
      BY <1>2, <2>3
    <3>4. \A i \in 1 .. n - 1 : i \in 1 .. n /\ (MsgIsLast(m, i)' <=> MsgIsLast(m, i))
      BY <1>1, <1>2, <2>1, <3>3 DEF MsgIsLast
    <3>5. \A i \in 1 .. n : MsgIsLast(m, i)' => i \in 1 .. n - 1
      BY <1>1, <3>3 DEF MsgIsLast
    <3>6. MsgCurrent(m)
      BY DEF MsgInv
    <3>7. (\E j \in 1 .. n : gLog[j].mac = m) => \E i \in 1 .. n : MsgIsLast(m, i)'
      BY <2>1, <3>3, <3>4, <3>6 DEF MsgCurrent
    <3>8. (\E i \in 1 .. n : MsgIsLast(m, i)' /\ gLog[i].ev = "connect")
            <=> \E i \in 1 .. n - 1 : MsgIsLast(m, i) /\ gLog[i].ev = "connect"
      BY <3>4, <3>5
    <3>9. QED
      BY <1>1, <2>1, <3>1, <3>2, <3>6, <3>7, <3>8 DEF MsgCurrent
  <2>4. QED
    BY <2>2, <2>3
<1>15. G!NoLostWakeup'
  BY <1>3 DEF G!NoLostWakeup
<1>16. QED
  BY <1>11, <1>12, <1>13, <1>14, <1>15 DEF MsgInv

\* The sender wakes the readers after it has let go of the lock.
LEMMA MsgSendWakeStep ==
  ASSUME MsgInv, NEW s \in Senders, G!SendWake(s)
  PROVE  MsgInv'
<1>1. /\ gPc[s] = "wake" /\ G!WakeUp /\ gPc' = [gPc EXCEPT ![s] = "idle"]
      /\ gJob' = [gJob EXCEPT ![s] = 0]
      /\ UNCHANGED <<gLog, gList, gCache, gLock, gWlock, gGot, gDropped, gMissed>>
  BY DEF G!SendWake, G!Return, G!Go
<1>2. /\ gPc' = [u \in G!Threads |-> gPc'[u]]
      /\ \A u \in G!Threads : gPc'[u] \in MsgPlacesOf(u)
      /\ gPc'[s] = "idle" /\ \A u \in G!Threads : u # s => gPc'[u] = gPc[u]
  BY <1>1, MsgMove, MsgKinds
<1>3. /\ gJob' \in [G!Threads -> Nat]
      /\ gJob'[s] = 0 /\ \A u \in G!Threads : u # s => gJob'[u] = gJob[u]
  BY <1>1, MsgJobMove, MsgKinds
<1>4. gWoken' \in [Readers -> BOOLEAN] /\ G!NoLostWakeup'
  BY <1>1, <1>2, MsgWoken, MsgKinds
<1>5. MsgType'
  BY <1>1, <1>2, <1>3, <1>4 DEF MsgInv, MsgType
<1>6. MsgLocks'
  BY <1>1, <1>2, <1>3, MsgKinds DEF MsgInv, MsgLocks
<1>7. MsgPlaces'
  BY <1>1, <1>2, <1>3, MsgKinds, MsgPlacesKept
<1>8. QED
  BY <1>1, <1>4, <1>5, <1>6, <1>7, MsgCurrentKept DEF MsgInv

\* The ioctl between two entries: taking the lock, choosing an entry, ending.
LEMMA MsgResendStep ==
  ASSUME MsgInv, NEW z \in Resenders, G!ResendWlanMsg(z) \/ G!ResendOne(z) \/ G!ResendEnd(z)
  PROVE  MsgInv'
<1>1. PICK at \in {"idle", "resend", "resendlock"}, j \in Nat :
        /\ gPc' = [gPc EXCEPT ![z] = at] /\ gJob' = [gJob EXCEPT ![z] = j]
        /\ gWlock' = IF at = "idle" THEN NONE ELSE z
        /\ at = "resendlock" => j \in gCache
  <2>0. z \in G!Threads /\ gJob \in [G!Threads -> Nat] /\ gCache \subseteq Nat
    BY MsgKinds DEF MsgInv, MsgType
  <2>1. CASE G!ResendWlanMsg(z)
    <3>1. gPc' = [gPc EXCEPT ![z] = "resend"] /\ gJob' = gJob /\ gWlock' = z
      BY <2>1 DEF G!ResendWlanMsg, G!Go
    <3>2. gJob' = [gJob EXCEPT ![z] = gJob[z]] /\ gJob[z] \in Nat
      BY <2>0, <3>1
    <3>3. QED
      BY <3>1, <3>2
  <2>2. CASE G!ResendOne(z)
    <3>1. gPc[z] = "resend"
      BY <2>2 DEF G!ResendOne
    <3>2. gWlock = z
      BY <3>1 DEF MsgInv, MsgLocks
    <3>3. \/ \E c \in gCache : /\ gJob' = [gJob EXCEPT ![z] = c] /\ gWlock' = gWlock
                             /\ gPc' = [gPc EXCEPT ![z] = "resendlock"]
          \/ /\ gPc' = [gPc EXCEPT ![z] = "idle"] /\ gJob' = [gJob EXCEPT ![z] = 0]
             /\ gWlock' = NONE
      BY <2>2 DEF G!ResendOne, G!Return, G!Go, G!Rest
    <3>4. QED
      BY <2>0, <3>2, <3>3
  <2>3. CASE G!ResendEnd(z)
    <3>1. gPc' = [gPc EXCEPT ![z] = "idle"] /\ gJob' = [gJob EXCEPT ![z] = 0] /\ gWlock' = NONE
      BY <2>3 DEF G!ResendEnd, G!Return, G!Go
    <3>2. QED
      BY <3>1
  <2>4. QED
    BY <2>1, <2>2, <2>3
<1>2. /\ gPc[z] \notin {"process", "wake", "resendwake"}
      /\ UNCHANGED <<gLog, gList, gCache, gLock, gWoken, gGot, gDropped, gMissed>>
      /\ gWlock = NONE \/ gWlock = z
  <2>2. gPc[z] = "resend" => gWlock = z
    BY DEF MsgInv, MsgLocks
  <2>3. gPc[z] = "idle" \/ gPc[z] = "resend"
    BY DEF G!ResendWlanMsg, G!ResendOne, G!ResendEnd
  <2>4. gPc[z] = "idle" => gWlock = NONE
    BY DEF G!ResendWlanMsg, G!ResendOne, G!ResendEnd
  <2>5. UNCHANGED <<gLog, gList, gCache, gLock, gWoken, gGot, gDropped, gMissed>>
    BY DEF G!ResendWlanMsg, G!ResendOne, G!ResendEnd
  <2>6. QED
    BY <2>2, <2>3, <2>4, <2>5
<1>3. /\ gPc' = [u \in G!Threads |-> gPc'[u]]
      /\ \A u \in G!Threads : gPc'[u] \in MsgPlacesOf(u)
      /\ gPc'[z] = at /\ \A u \in G!Threads : u # z => gPc'[u] = gPc[u]
  BY <1>1, MsgMove, MsgKinds
<1>4. /\ gJob' \in [G!Threads -> Nat]
      /\ gJob'[z] = j /\ \A u \in G!Threads : u # z => gJob'[u] = gJob[u]
  BY <1>1, MsgJobMove, MsgKinds
<1>5. MsgType'
  BY <1>1, <1>2, <1>3, <1>4 DEF MsgInv, MsgType
<1>6. MsgLocks'
  <2>1. \A s \in Senders : gPc'[s] = gPc[s] /\ gJob'[s] = gJob[s]
    BY <1>3, <1>4, MsgKinds
  <2>2. \A y \in Resenders : y # z => gPc'[y] = gPc[y] /\ gPc[y] = "idle"
    BY <1>2, <1>3, MsgKinds DEF MsgInv, MsgLocks
  <2>3. \A y \in Resenders : gPc'[y] # "idle" <=> gWlock' = y
    BY <1>1, <1>3, <2>2, MsgKinds
  <2>4. \A y \in Resenders : gPc'[y] = "resendlock" => gJob'[y] \in gCache'
    BY <1>1, <1>2, <1>3, <1>4, <2>2
  <2>5. QED
    BY <1>2, <2>1, <2>3, <2>4 DEF MsgInv, MsgLocks
<1>7. MsgPlaces'
  BY <1>2, <1>3, <1>4, MsgKinds, MsgPlacesKept
<1>8. G!NoLostWakeup'
  <2>1. \A t \in Senders \cup Resenders :
          gPc[t] \in {"process", "wake", "resendwake"} => gPc'[t] = gPc[t]
    BY <1>2, <1>3, MsgKinds
  <2>2. \A r \in Readers : gPc'[r] = gPc[r] /\ gWoken'[r] = gWoken[r]
    BY <1>2, <1>3, MsgKinds
  <2>3. QED
    BY <1>2, <2>1, <2>2, MsgStillWoken
<1>9. QED
  BY <1>2, <1>5, <1>6, <1>7, <1>8, MsgCurrentKept DEF MsgInv

\* A re-sender lists a copy of a cached message.
LEMMA MsgResendAddStep ==
  ASSUME MsgInv, NEW z \in Resenders, G!ResendAdd(z)
  PROVE  MsgInv'
<1> DEFINE p == gJob[z]
<1> DEFINE n == Len(gLog)
<1>1. /\ gPc[z] = "resendlock" /\ gLock = NONE /\ gLog' = Append(gLog, gLog[p])
      /\ gList' = Append(gList, n + 1) /\ gPc' = [gPc EXCEPT ![z] = "resendwake"]
      /\ UNCHANGED <<gCache, gLock, gWlock, gJob, gWoken, gGot, gDropped, gMissed>>
  BY DEF G!ResendAdd, G!Enqueue, G!Go
<1>2. /\ gLog \in Seq(G!Events) /\ gList \in Seq(Nat) /\ n \in Nat
      /\ gCache \subseteq 1 .. n
  BY DEF MsgInv, MsgType
<1>a. p \in gCache /\ p \in 1 .. n /\ gLog[p].ev = "connect" /\ gLog[p] \in G!Events
  <2>1. p \in gCache
    BY <1>1 DEF MsgInv, MsgLocks
  <2>2. p \in 1 .. n
    BY <1>2, <2>1
  <2>3. QED
    BY <1>2, <2>1, <2>2 DEF MsgInv, MsgLocks
<1>3. /\ Len(gLog') = n + 1 /\ gLog' \in Seq(G!Events) /\ gLog'[n + 1] = gLog[p]
      /\ \A i \in 1 .. n : gLog'[i] = gLog[i]
  BY <1>1, <1>2, <1>a
<1>4. /\ Len(gList') = Len(gList) + 1 /\ gList' \in Seq(Nat) /\ gList'[Len(gList) + 1] = n + 1
      /\ \A i \in 1 .. Len(gList) : gList'[i] = gList[i]
  BY <1>1, <1>2
<1>5. /\ gPc' = [u \in G!Threads |-> gPc'[u]]
      /\ \A u \in G!Threads : gPc'[u] \in MsgPlacesOf(u)
      /\ gPc'[z] = "resendwake" /\ \A u \in G!Threads : u # z => gPc'[u] = gPc[u]
  BY <1>1, MsgMove, MsgKinds
<1>6. MsgType'
  <2>1. gCache' \subseteq 1 .. Len(gLog')
    BY <1>1, <1>2, <1>3
  <2>2. QED
    BY <1>1, <1>3, <1>4, <1>5, <2>1 DEF MsgInv, MsgType
<1>7. MsgLocks'
  <2>1. \A s \in Senders : gPc'[s] # "process" /\ gLock' # s
    BY <1>1, <1>5, MsgKinds DEF MsgInv, MsgLocks
  <2>2. \A y \in Resenders : gPc'[y] # "idle" <=> gPc[y] # "idle"
    BY <1>1, <1>5, MsgKinds
  <2>3. \A y \in Resenders : gPc'[y] = "resendlock" => gPc[y] = "resendlock"
    BY <1>1, <1>5, MsgKinds
  <2>4. \A c \in gCache' : gLog'[c].ev = "connect"
    BY <1>1, <1>2, <1>3 DEF MsgInv, MsgLocks
  <2>5. QED
    BY <1>1, <2>1, <2>2, <2>3, <2>4 DEF MsgInv, MsgLocks
<1>8. MsgPlaces'
  <2>1. MsgTaken' = MsgTaken
    BY <1>2, <1>3, <1>4 DEF MsgTaken
  <2>2. \A r \in Readers : gPc'[r] = gPc[r] /\ gJob'[r] = gJob[r]
    BY <1>1, <1>5, MsgKinds
  <2>3. \A i \in 1 .. Len(gList') : gList'[i] = MsgTaken + i
    <3>1. \A i \in 1 .. Len(gList) : gList[i] = MsgTaken + i
      BY DEF MsgInv, MsgPlaces
    <3>2. MsgTaken + (Len(gList) + 1) = n + 1 /\ Len(gList) \in Nat
      BY <1>2 DEF MsgTaken
    <3>3. \A i \in 1 .. Len(gList) + 1 : i \in 1 .. Len(gList) \/ i = Len(gList) + 1
      BY <3>2
    <3>4. QED
      BY <1>4, <3>1, <3>2, <3>3
  <2>4. UNCHANGED <<gGot, gDropped>>
    BY <1>1
  <2>5. QED
    BY <2>1, <2>2, <2>3, <2>4 DEF MsgInv, MsgPlaces, MsgCopying
<1>9. ASSUME NEW m \in WlanMacs PROVE MsgCurrent(m)'
  <2>1. MsgSeen = n /\ MsgSeen' = n + 1
    BY <1>1, <1>3 DEF MsgSeen
  <2>2. MsgCached(m)' <=> MsgCached(m)
    BY <1>1, <1>2, <1>3 DEF MsgCached
  <2>3. CASE gLog[p].mac = m
    <3>1. \A i \in 1 .. n + 1 : MsgIsLast(m, i)' <=> i = n + 1
      BY <1>2, <1>3, <2>1, <2>3 DEF MsgIsLast
    <3>2. MsgCached(m) /\ n + 1 \in 1 .. n + 1
      BY <1>2, <1>a, <2>3 DEF MsgCached
    <3>3. QED
      BY <1>1, <1>3, <1>a, <2>1, <2>2, <3>1, <3>2 DEF MsgCurrent
  <2>4. CASE gLog[p].mac # m
    <3>1. \A j \in 1 .. n + 1 : gLog'[j].mac = m => j \in 1 .. n
      BY <1>2, <1>3, <2>4
    <3>2. \A i \in 1 .. n : i \in 1 .. n + 1 /\ (MsgIsLast(m, i)' <=> MsgIsLast(m, i))
      <4>1. \A i \in 1 .. n : i \in 1 .. n + 1
        BY <1>2
      <4>2. ASSUME NEW i \in 1 .. n PROVE MsgIsLast(m, i)' <=> MsgIsLast(m, i)
        <5>1. (\A j \in 1 .. n + 1 : gLog'[j].mac = m => j <= i)
                <=> \A j \in 1 .. n : gLog[j].mac = m => j <= i
          BY <1>3, <3>1, <4>1
        <5>2. QED
          BY <1>3, <2>1, <5>1 DEF MsgIsLast
      <4>3. QED
        BY <4>1, <4>2
    <3>3. \A i \in 1 .. n + 1 : MsgIsLast(m, i)' => i \in 1 .. n
      BY <3>1 DEF MsgIsLast
    <3>4. MsgCurrent(m)
      BY DEF MsgInv
    <3>5. (\E j \in 1 .. n + 1 : gLog'[j].mac = m) => \E i \in 1 .. n + 1 : MsgIsLast(m, i)'
      BY <1>3, <2>1, <3>1, <3>2, <3>4 DEF MsgCurrent
    <3>6. (\E i \in 1 .. n + 1 : MsgIsLast(m, i)' /\ gLog'[i].ev = "connect")
            <=> \E i \in 1 .. n : MsgIsLast(m, i) /\ gLog[i].ev = "connect"
      BY <1>3, <3>2, <3>3
    <3>7. QED
      BY <1>1, <2>1, <2>2, <3>4, <3>5, <3>6 DEF MsgCurrent
  <2>5. QED
    BY <2>3, <2>4
<1>10. G!NoLostWakeup'
  BY <1>5 DEF G!NoLostWakeup
<1>11. QED
  BY <1>6, <1>7, <1>8, <1>9, <1>10 DEF MsgInv

\* The re-sender wakes the readers for each copy.
LEMMA MsgResendWakeStep ==
  ASSUME MsgInv, NEW z \in Resenders, G!ResendWake(z)
  PROVE  MsgInv'
<1>1. /\ gPc[z] = "resendwake" /\ G!WakeUp /\ gPc' = [gPc EXCEPT ![z] = "resend"]
      /\ UNCHANGED <<gLog, gList, gCache, gLock, gWlock, gJob, gGot, gDropped, gMissed>>
  BY DEF G!ResendWake, G!Go
<1>2. /\ gPc' = [u \in G!Threads |-> gPc'[u]]
      /\ \A u \in G!Threads : gPc'[u] \in MsgPlacesOf(u)
      /\ gPc'[z] = "resend" /\ \A u \in G!Threads : u # z => gPc'[u] = gPc[u]
  BY <1>1, MsgMove, MsgKinds
<1>3. gWoken' \in [Readers -> BOOLEAN] /\ G!NoLostWakeup'
  BY <1>1, <1>2, MsgWoken, MsgKinds
<1>4. MsgType'
  BY <1>1, <1>2, <1>3 DEF MsgInv, MsgType
<1>5. MsgLocks'
  <2>1. \A s \in Senders : gPc'[s] = gPc[s]
    BY <1>2, MsgKinds
  <2>2. \A y \in Resenders : gPc'[y] # "idle" <=> gPc[y] # "idle"
    BY <1>1, <1>2, MsgKinds
  <2>3. \A y \in Resenders : gPc'[y] = "resendlock" => gPc[y] = "resendlock"
    BY <1>1, <1>2, MsgKinds
  <2>4. QED
    BY <1>1, <2>1, <2>2, <2>3 DEF MsgInv, MsgLocks
<1>6. MsgPlaces'
  BY <1>1, <1>2, MsgKinds, MsgPlacesKept
<1>7. QED
  BY <1>1, <1>3, <1>4, <1>5, <1>6, MsgCurrentKept DEF MsgInv

\* A reader that takes nothing and drops nothing.
LEMMA MsgReadStep ==
  ASSUME MsgInv, NEW r \in Readers,
         G!ReadStart(r) \/ G!ReadEmpty(r) \/ G!WaitWoken(r) \/ G!Interrupted(r)
  PROVE  MsgInv'
<1>1. PICK at \in {"idle", "check", "last", "wait"}, j \in Nat, w \in BOOLEAN :
        /\ gPc' = [gPc EXCEPT ![r] = at] /\ gJob' = [gJob EXCEPT ![r] = j]
        /\ gWoken' = [gWoken EXCEPT ![r] = w]
        /\ at = "wait" => gList = <<>>
  <2>0. /\ r \in G!Threads /\ gJob \in [G!Threads -> Nat] /\ gWoken \in [Readers -> BOOLEAN]
        /\ gJob[r] \in Nat /\ gWoken[r] \in BOOLEAN
        /\ gJob = [gJob EXCEPT ![r] = gJob[r]] /\ gWoken = [gWoken EXCEPT ![r] = gWoken[r]]
    BY MsgKinds DEF MsgInv, MsgType
  <2>1. CASE G!ReadStart(r)
    <3>1. gPc' = [gPc EXCEPT ![r] = "check"] /\ gJob' = gJob /\ gWoken' = gWoken
      BY <2>1 DEF G!ReadStart, G!Go
    <3>2. QED
      BY <2>0, <3>1
  <2>2. CASE G!ReadEmpty(r)
    <3>1. \/ /\ gPc' = [gPc EXCEPT ![r] = "idle"] /\ gJob' = [gJob EXCEPT ![r] = 0]
             /\ gWoken' = [gWoken EXCEPT ![r] = FALSE]
          \/ /\ gPc' = [gPc EXCEPT ![r] = "wait"] /\ gJob' = gJob /\ gWoken' = gWoken
             /\ gList = <<>>
      BY <2>2 DEF G!ReadEmpty, G!Leave, G!Return, G!Go
    <3>2. QED
      BY <2>0, <3>1
  <2>3. CASE G!WaitWoken(r)
    <3>1. /\ gPc' = [gPc EXCEPT ![r] = "check"] /\ gJob' = gJob
          /\ gWoken' = [gWoken EXCEPT ![r] = FALSE]
      BY <2>3 DEF G!WaitWoken, G!Go
    <3>2. QED
      BY <2>0, <3>1
  <2>4. CASE G!Interrupted(r)
    <3>1. /\ gPc' = [gPc EXCEPT ![r] = "last"] /\ gJob' = gJob
          /\ gWoken' = [gWoken EXCEPT ![r] = FALSE]
      BY <2>4 DEF G!Interrupted, G!Go
    <3>2. QED
      BY <2>0, <3>1
  <2>5. QED
    BY <2>1, <2>2, <2>3, <2>4
<1>2. /\ gPc[r] # "copy"
      /\ UNCHANGED <<gLog, gList, gCache, gLock, gWlock, gGot, gDropped, gMissed>>
  BY DEF G!ReadStart, G!ReadEmpty, G!WaitWoken, G!Interrupted
<1>3. /\ gPc' = [u \in G!Threads |-> gPc'[u]]
      /\ \A u \in G!Threads : gPc'[u] \in MsgPlacesOf(u)
      /\ gPc'[r] = at /\ \A u \in G!Threads : u # r => gPc'[u] = gPc[u]
  BY <1>1, MsgMove, MsgKinds
<1>4. /\ gJob' \in [G!Threads -> Nat]
      /\ gJob'[r] = j /\ \A u \in G!Threads : u # r => gJob'[u] = gJob[u]
  BY <1>1, MsgJobMove, MsgKinds
<1>5. gWoken' \in [Readers -> BOOLEAN] /\ \A q \in Readers : q # r => gWoken'[q] = gWoken[q]
  BY <1>1 DEF MsgInv, MsgType
<1>6. MsgType'
  BY <1>2, <1>3, <1>4, <1>5 DEF MsgInv, MsgType
<1>7. MsgLocks' /\ \A m \in WlanMacs : MsgCurrent(m)'
  BY <1>2, <1>3, <1>4, MsgReaderKeeps
<1>8. MsgPlaces'
  <2>1. \A q \in Readers : gPc'[q] = "copy" <=> gPc[q] = "copy"
    BY <1>2, <1>3, MsgKinds
  <2>2. \A q \in Readers : gPc[q] = "copy" => gJob'[q] = gJob[q]
    BY <1>2, <1>4, MsgKinds
  <2>3. QED
    BY <1>2, <2>1, <2>2, MsgPlacesKept
<1>9. G!NoLostWakeup'
  <2>1. \A t \in Senders \cup Resenders : gPc'[t] = gPc[t]
    BY <1>3, MsgKinds
  <2>2. CASE gList = <<>>
    BY <1>2, <2>2 DEF G!NoLostWakeup
  <2>3. CASE gList # <<>>
    <3>1. \A q \in Readers : gPc'[q] = "wait" => gPc[q] = "wait" /\ gWoken'[q] = gWoken[q]
      BY <1>1, <1>3, <1>5, <2>3, MsgKinds
    <3>2. QED
      BY <2>1, <2>3, <3>1, MsgStillWoken
  <2>4. QED
    BY <2>2, <2>3
<1>10. QED
  BY <1>6, <1>7, <1>8, <1>9 DEF MsgInv

\* A reader takes the oldest message off the list.
LEMMA MsgTakeStep ==
  ASSUME MsgInv, NEW r \in Readers, G!ReadTake(r)
  PROVE  MsgInv'
<1>1. /\ gPc[r] \in {"check", "last"} /\ gList # <<>> /\ gJob' = [gJob EXCEPT ![r] = Head(gList)]
      /\ gList' = Tail(gList) /\ gPc' = [gPc EXCEPT ![r] = "copy"]
      /\ UNCHANGED <<gLog, gCache, gLock, gWlock, gWoken, gGot, gDropped, gMissed>>
  BY DEF G!ReadTake, G!Go
<1>2. /\ gList \in Seq(Nat) /\ Len(gList) \in Nat /\ Len(gList) > 0 /\ Len(gLog) \in Nat
      /\ Head(gList) \in Nat /\ Head(gList) = gList[1]
  BY <1>1 DEF MsgInv, MsgType
<1>3. /\ gList' \in Seq(Nat) /\ Len(gList') = Len(gList) - 1
      /\ \A i \in 1 .. Len(gList') : gList'[i] = gList[i + 1] /\ i + 1 \in 1 .. Len(gList)
  BY <1>1, <1>2
<1>4. /\ gPc' = [u \in G!Threads |-> gPc'[u]]
      /\ \A u \in G!Threads : gPc'[u] \in MsgPlacesOf(u)
      /\ gPc'[r] = "copy" /\ \A u \in G!Threads : u # r => gPc'[u] = gPc[u]
  BY <1>1, MsgMove, MsgKinds
<1>5. /\ gJob' \in [G!Threads -> Nat]
      /\ gJob'[r] = Head(gList) /\ \A u \in G!Threads : u # r => gJob'[u] = gJob[u]
  BY <1>1, <1>2, MsgJobMove, MsgKinds
<1>6. MsgType'
  BY <1>1, <1>3, <1>4, <1>5 DEF MsgInv, MsgType
<1>7. MsgLocks' /\ \A m \in WlanMacs : MsgCurrent(m)'
  BY <1>1, <1>4, <1>5, MsgReaderKeeps
<1>8. MsgPlaces'
  <2>1. MsgTaken \in Nat /\ MsgTaken' = MsgTaken + 1
    <3>1. MsgTaken \in Nat
      BY DEF MsgInv, MsgPlaces
    <3>2. QED
      BY <1>1, <1>2, <1>3, <3>1 DEF MsgTaken
  <2>2. \A i \in 1 .. Len(gList) : gList[i] = MsgTaken + i
    BY DEF MsgInv, MsgPlaces
  <2>3. Head(gList) = MsgTaken + 1
    BY <1>2, <2>2
  <2>4. \A i \in 1 .. Len(gList') : gList'[i] = MsgTaken' + i
    BY <1>2, <1>3, <2>1, <2>2
  <2>5. \A q \in Readers : q # r => gPc'[q] = gPc[q] /\ gJob'[q] = gJob[q]
    BY <1>4, <1>5, MsgKinds
  <2>6. \A p \in 1 .. MsgTaken' : p \in gGot' \/ p \in gDropped' \/ \E q \in Readers : MsgCopying(q)' /\ gJob'[q] = p
    <3> SUFFICES ASSUME NEW p \in 1 .. MsgTaken' 
                 PROVE p \in gGot' \/ p \in gDropped' \/ \E q \in Readers : MsgCopying(q)' /\ gJob'[q] = p
      OBVIOUS
    <3>1. CASE p = MsgTaken + 1
      BY <1>4, <1>5, <2>3, <3>1 DEF MsgCopying
    <3>2. CASE p # MsgTaken + 1
      <4>1. p \in 1 .. MsgTaken
        BY <2>1, <3>2
      <4>2. CASE p \in gGot \/ p \in gDropped
        BY <1>1, <4>2
      <4>3. CASE \E q \in Readers : MsgCopying(q) /\ gJob[q] = p
        <5>1. PICK q \in Readers : MsgCopying(q) /\ gJob[q] = p
          BY <4>3
        <5>2. q # r
          BY <1>1, <5>1 DEF MsgCopying
        <5>3. QED
          BY <2>5, <5>1, <5>2 DEF MsgCopying
      <4>4. QED
        BY <4>1, <4>2, <4>3 DEF MsgInv, MsgPlaces
    <3>3. QED
      BY <3>1, <3>2
  <2>7. /\ gGot \subseteq 1 .. MsgTaken /\ gDropped \subseteq 1 .. MsgTaken /\ gGot \cap gDropped = {}
        /\ \A q \in Readers : MsgCopying(q) =>
             gJob[q] \in 1 .. MsgTaken /\ gJob[q] \notin gGot /\ gJob[q] \notin gDropped
        /\ \A x, q \in Readers : MsgCopying(x) /\ MsgCopying(q) /\ gJob[x] = gJob[q] => x = q
    BY DEF MsgInv, MsgPlaces
  <2>8. gGot' \subseteq 1 .. MsgTaken' /\ gDropped' \subseteq 1 .. MsgTaken' /\ gGot' \cap gDropped' = {}
    BY <1>1, <2>1, <2>7
  <2>9. \A q \in Readers : MsgCopying(q)' =>
             gJob'[q] \in 1 .. MsgTaken' /\ gJob'[q] \notin gGot' /\ gJob'[q] \notin gDropped'
    <3> SUFFICES ASSUME NEW q \in Readers, MsgCopying(q)'
                 PROVE  gJob'[q] \in 1 .. MsgTaken' /\ gJob'[q] \notin gGot' /\ gJob'[q] \notin gDropped'
      OBVIOUS
    <3>1. CASE q = r
      BY <1>1, <1>5, <2>1, <2>3, <2>7, <3>1
    <3>2. CASE q # r
      BY <1>1, <2>1, <2>5, <2>7, <3>2 DEF MsgCopying
    <3>3. QED
      BY <3>1, <3>2
  <2>10. \A x, q \in Readers : MsgCopying(x)' /\ MsgCopying(q)' /\ gJob'[x] = gJob'[q] => x = q
    <3>1. \A q \in Readers : q # r /\ MsgCopying(q)' => MsgCopying(q) /\ gJob'[q] = gJob[q] /\ gJob[q] # MsgTaken + 1
      BY <2>1, <2>5, <2>7 DEF MsgCopying
    <3>2. QED
      BY <1>5, <2>3, <2>7, <3>1
  <2>11. QED
    BY <2>1, <2>4, <2>6, <2>8, <2>9, <2>10 DEF MsgPlaces
<1>9. G!NoLostWakeup'
  <2>1. \A t \in Senders \cup Resenders : gPc'[t] = gPc[t]
    BY <1>4, MsgKinds
  <2>2. \A q \in Readers : gPc'[q] = "wait" => gPc[q] = "wait" /\ gWoken'[q] = gWoken[q]
    BY <1>1, <1>4, MsgKinds
  <2>3. QED
    BY <1>1, <2>1, <2>2, MsgStillWoken
<1>10. QED
  BY <1>6, <1>7, <1>8, <1>9 DEF MsgInv

\* A reader hands its message to user space, or loses it to a fault.
LEMMA MsgCopyStep ==
  ASSUME MsgInv, NEW r \in Readers, G!ReadCopy(r)
  PROVE  MsgInv'
<1>1. /\ gPc[r] = "copy"
      /\ \/ gGot' = gGot \cup {gJob[r]} /\ gDropped' = gDropped
         \/ gDropped' = gDropped \cup {gJob[r]} /\ gGot' = gGot
      /\ gPc' = [gPc EXCEPT ![r] = "idle"] /\ gJob' = [gJob EXCEPT ![r] = 0]
      /\ gWoken' = [gWoken EXCEPT ![r] = FALSE]
      /\ UNCHANGED <<gLog, gList, gCache, gLock, gWlock, gMissed>>
  BY DEF G!ReadCopy, G!Leave, G!Return, G!Go
<1>2. /\ gPc' = [u \in G!Threads |-> gPc'[u]]
      /\ \A u \in G!Threads : gPc'[u] \in MsgPlacesOf(u)
      /\ gPc'[r] = "idle" /\ \A u \in G!Threads : u # r => gPc'[u] = gPc[u]
  BY <1>1, MsgMove, MsgKinds
<1>3. /\ gJob' \in [G!Threads -> Nat]
      /\ gJob'[r] = 0 /\ \A u \in G!Threads : u # r => gJob'[u] = gJob[u]
  BY <1>1, MsgJobMove, MsgKinds
<1>4. gWoken' \in [Readers -> BOOLEAN] /\ \A q \in Readers : q # r => gWoken'[q] = gWoken[q]
  BY <1>1 DEF MsgInv, MsgType
<1>5. MsgType'
  BY <1>1, <1>2, <1>3, <1>4 DEF MsgInv, MsgType
<1>6. MsgLocks' /\ \A m \in WlanMacs : MsgCurrent(m)'
  BY <1>1, <1>2, <1>3, MsgReaderKeeps
<1>7. MsgPlaces'
  <2>1. MsgTaken' = MsgTaken /\ gList' = gList
    BY <1>1 DEF MsgTaken
  <2>2. \A q \in Readers : q # r => gPc'[q] = gPc[q] /\ gJob'[q] = gJob[q]
    BY <1>2, <1>3, MsgKinds
  <2>3. /\ gGot \subseteq 1 .. MsgTaken /\ gDropped \subseteq 1 .. MsgTaken /\ gGot \cap gDropped = {}
        /\ \A q \in Readers : MsgCopying(q) =>
             gJob[q] \in 1 .. MsgTaken /\ gJob[q] \notin gGot /\ gJob[q] \notin gDropped
        /\ \A x, q \in Readers : MsgCopying(x) /\ MsgCopying(q) /\ gJob[x] = gJob[q] => x = q
        /\ \A p \in 1 .. MsgTaken :
             p \in gGot \/ p \in gDropped \/ \E q \in Readers : MsgCopying(q) /\ gJob[q] = p
        /\ MsgTaken \in Nat /\ \A i \in 1 .. Len(gList) : gList[i] = MsgTaken + i
    BY DEF MsgInv, MsgPlaces
  <2>4. \A q \in Readers : MsgCopying(q)' <=> q # r /\ MsgCopying(q)
    BY <1>2, <2>2 DEF MsgCopying
  <2>5. MsgCopying(r)
    BY <1>1 DEF MsgCopying
  <2>6. \A p : p \in gGot' \/ p \in gDropped' <=> p \in gGot \/ p \in gDropped \/ p = gJob[r]
    BY <1>1
  <2>7. \A p \in 1 .. MsgTaken : p \in gGot' \/ p \in gDropped' \/ \E q \in Readers : MsgCopying(q)' /\ gJob'[q] = p
    BY <2>2, <2>3, <2>4, <2>6
  <2>8. gGot' \subseteq 1 .. MsgTaken /\ gDropped' \subseteq 1 .. MsgTaken /\ gGot' \cap gDropped' = {}
    <3>1. gJob[r] \in 1 .. MsgTaken /\ gJob[r] \notin gGot /\ gJob[r] \notin gDropped
      BY <2>3, <2>5
    <3>2. CASE gGot' = gGot \cup {gJob[r]} /\ gDropped' = gDropped
      BY ONLY ZenonT(40), <2>3, <3>1, <3>2
    <3>3. CASE gDropped' = gDropped \cup {gJob[r]} /\ gGot' = gGot
      BY ONLY <2>3, <3>1, <3>3
    <3>4. QED
      BY <1>1, <3>2, <3>3
  <2>9. \A q \in Readers : MsgCopying(q)' =>
             gJob'[q] \in 1 .. MsgTaken /\ gJob'[q] \notin gGot' /\ gJob'[q] \notin gDropped'
    BY <2>2, <2>3, <2>4, <2>5, <2>6
  <2>10. \A x, q \in Readers : MsgCopying(x)' /\ MsgCopying(q)' /\ gJob'[x] = gJob'[q] => x = q
    BY <2>2, <2>3, <2>4
  <2>11. QED
    BY <2>1, <2>3, <2>7, <2>8, <2>9, <2>10 DEF MsgPlaces
<1>8. G!NoLostWakeup'
  <2>1. \A t \in Senders \cup Resenders : gPc'[t] = gPc[t]
    BY <1>2, MsgKinds
  <2>2. \A q \in Readers : gPc'[q] = "wait" => gPc[q] = "wait" /\ gWoken'[q] = gWoken[q]
    BY <1>2, <1>4, MsgKinds
  <2>3. QED
    BY <1>1, <2>1, <2>2, MsgStillWoken
<1>9. QED
  BY <1>5, <1>6, <1>7, <1>8 DEF MsgInv

\* The invariant holds when the lists are empty.
LEMMA MsgStart == G!Init => MsgInv
<1> SUFFICES ASSUME G!Init PROVE MsgInv
  OBVIOUS
<1>1. /\ gLog = <<>> /\ gList = <<>> /\ gCache = {} /\ gLock = NONE /\ gWlock = NONE
      /\ gPc = [t \in G!Threads |-> "idle"] /\ gJob = [t \in G!Threads |-> 0]
      /\ gWoken = [r \in Readers |-> FALSE] /\ gGot = {} /\ gDropped = {} /\ gMissed = {}
  BY DEF G!Init
<1>2. \A t \in G!Threads : gPc[t] = "idle" /\ "idle" \in MsgPlacesOf(t)
  BY <1>1 DEF MsgPlacesOf
<1>3. gPc = [t \in G!Threads |-> gPc[t]]
  BY <1>1
<1>4. gLog \in Seq(G!Events) /\ gList \in Seq(Nat) /\ Len(gLog) = 0 /\ Len(gList) = 0
  BY <1>1
<1>5. MsgType
  BY <1>1, <1>2, <1>3, <1>4 DEF MsgType
<1>6. MsgLocks
  BY <1>1, <1>2, MsgKinds DEF MsgLocks
<1>7. MsgPlaces
  BY <1>1, <1>2, <1>4, MsgKinds DEF MsgPlaces, MsgTaken, MsgCopying
<1>8. \A m \in WlanMacs : MsgCurrent(m)
  BY <1>1, <1>4 DEF MsgCurrent, MsgCached, MsgSeen
<1>9. G!NoLostWakeup
  BY <1>1 DEF G!NoLostWakeup
<1>10. QED
  BY <1>5, <1>6, <1>7, <1>8, <1>9 DEF MsgInv

\* Steps of the other parts.
LEMMA MsgQuiet == MsgInv /\ UNCHANGED gVars => MsgInv'
<1> SUFFICES ASSUME MsgInv, UNCHANGED gVars PROVE MsgInv'
  OBVIOUS
<1>1. UNCHANGED <<gLog, gList, gCache, gLock, gWlock, gPc, gJob, gWoken, gGot, gDropped, gMissed>>
  BY DEF gVars
<1>2. MsgType' /\ MsgLocks'
  BY <1>1 DEF MsgInv, MsgType, MsgLocks
<1>3. MsgPlaces' /\ \A m \in WlanMacs : MsgCurrent(m)'
  BY <1>1, MsgPlacesKept, MsgCurrentKept
<1>4. G!NoLostWakeup'
  BY <1>1 DEF MsgInv, G!NoLostWakeup
<1>5. QED
  BY <1>2, <1>3, <1>4 DEF MsgInv

\* Every step of senders, re-senders and readers keeps the invariant.
LEMMA MsgStep == MsgInv /\ G!Next => MsgInv'
<1> SUFFICES ASSUME MsgInv, G!Next PROVE MsgInv'
  OBVIOUS
<1>1. ASSUME NEW s \in Senders, G!SenderStep(s) PROVE MsgInv'
  BY <1>1, MsgSendStep, MsgProcessStep, MsgSendWakeStep DEF G!SenderStep
<1>2. ASSUME NEW z \in Resenders, G!ResenderStep(z) PROVE MsgInv'
  BY <1>2, MsgResendStep, MsgResendAddStep, MsgResendWakeStep DEF G!ResenderStep
<1>3. ASSUME NEW r \in Readers, G!ReaderStep(r) PROVE MsgInv'
  BY <1>3, MsgReadStep, MsgTakeStep, MsgCopyStep DEF G!ReaderStep
<1>4. QED
  BY <1>1, <1>2, <1>3 DEF G!Next

\* The last message about a client is the one that the cache agrees with.
LEMMA MsgCacheCurrent == MsgInv => G!CacheIsCurrent
<1> SUFFICES ASSUME MsgInv, \A s \in Senders : gPc[s] # "process", NEW m \in WlanMacs, m \notin gMissed
             PROVE  MsgCached(m) <=> G!LastSays(m) = "connect"
  BY DEF G!CacheIsCurrent, MsgCached
<1>1. MsgSeen = Len(gLog)
  BY DEF MsgInv, MsgType, MsgLocks, MsgSeen
<1>2. MsgCurrent(m)
  BY DEF MsgInv
<1> DEFINE about == {i \in 1 .. Len(gLog) : gLog[i].mac = m}
<1>3. CASE about = {}
  <2>1. G!LastSays(m) = "disconnect"
    BY <1>3 DEF G!LastSays
  <2>2. ~MsgCached(m)
    BY <1>1, <1>2, <1>3 DEF MsgCurrent, MsgIsLast
  <2>3. QED
    BY <2>1, <2>2
<1>4. CASE about # {}
  <2>1. PICK i \in about : \A j \in about : j <= i
    BY <1>1, <1>2, <1>4 DEF MsgCurrent, MsgIsLast
  <2>2. \A k \in about : (\A j \in about : j <= k) => k = i
    <3>1. about \subseteq Int
      OBVIOUS
    <3>2. QED
      BY <2>1, <3>1
  <2>3. (CHOOSE k \in about : \A j \in about : j <= k) = i
    BY <2>1, <2>2
  <2>4. G!LastSays(m) = gLog[i].ev
    BY <1>4, <2>3 DEF G!LastSays
  <2>5. \A k \in 1 .. Len(gLog) : MsgIsLast(m, k) <=> k = i
    BY <1>1, <2>1, <2>2 DEF MsgIsLast
  <2>6. QED
    BY <1>1, <1>2, <2>1, <2>4, <2>5 DEF MsgCurrent
<1>5. QED
  BY <1>3, <1>4

\* The instance's names for library operators.
LEMMA MsgCardinality == (\A X : G!Cardinality(X) = Cardinality(X)) /\ \A s : G!ToSet(s) = {s[i] : i \in DOMAIN s}
BY DEF G!Cardinality, Cardinality, G!ToSet

\* A message that was logged is read, dropped, held by one reader or listed, in one
\* of these places only.
LEMMA MsgReadOnce == MsgInv => G!ReadOnce
<1> SUFFICES ASSUME MsgInv PROVE G!ReadOnce
  OBVIOUS
<1> DEFINE copying == {r \in Readers : gPc[r] = "copy"}
<1> DEFINE held == {gJob[r] : r \in copying}
<1>1. /\ MsgTaken \in Nat /\ \A i \in 1 .. Len(gList) : gList[i] = MsgTaken + i
      /\ \A p \in 1 .. MsgTaken :
           p \in gGot \/ p \in gDropped \/ \E r \in Readers : MsgCopying(r) /\ gJob[r] = p
      /\ gGot \subseteq 1 .. MsgTaken /\ gDropped \subseteq 1 .. MsgTaken /\ gGot \cap gDropped = {}
      /\ \A r \in Readers : MsgCopying(r) =>
           gJob[r] \in 1 .. MsgTaken /\ gJob[r] \notin gGot /\ gJob[r] \notin gDropped
      /\ \A r, q \in Readers : MsgCopying(r) /\ MsgCopying(q) /\ gJob[r] = gJob[q] => r = q
  BY DEF MsgInv, MsgPlaces
<1>2. held \cap (gGot \cup gDropped) = {}
  BY <1>1 DEF MsgCopying
<1>3. gGot \cup gDropped \cup held = 1 .. MsgTaken
  <2>1. \A p \in held : p \in 1 .. MsgTaken
    BY <1>1 DEF MsgCopying
  <2>2. \A p \in 1 .. MsgTaken : p \in gGot \/ p \in gDropped \/ p \in held
    BY <1>1 DEF MsgCopying
  <2>3. QED
    BY <1>1, <2>1, <2>2
<1>4. Len(gList) \in Nat /\ Len(gLog) \in Nat /\ DOMAIN gList = 1 .. Len(gList) /\ Len(gLog) = MsgTaken + Len(gList)
  BY <1>1 DEF MsgInv, MsgType, MsgTaken
<1>5. G!ToSet(gList) = MsgTaken + 1 .. Len(gLog)
  <2>1. G!ToSet(gList) = {gList[i] : i \in 1 .. Len(gList)}
    BY <1>4, MsgCardinality
  <2>2. \A p \in MsgTaken + 1 .. Len(gLog) : p - MsgTaken \in 1 .. Len(gList) /\ gList[p - MsgTaken] = p
    BY <1>1, <1>4
  <2>3. \A i \in 1 .. Len(gList) : gList[i] \in MsgTaken + 1 .. Len(gLog)
    BY <1>1, <1>4
  <2>4. QED
    BY <2>1, <2>2, <2>3
<1>6. (1 .. MsgTaken) \cup (MsgTaken + 1 .. Len(gLog)) = 1 .. Len(gLog)
  BY <1>1, <1>4
<1>7. Cardinality(copying) = Cardinality(held)
  <2>1. IsFiniteSet(copying)
    BY MsgAssumption, FS_Subset
  <2> DEFINE f == [r \in copying |-> gJob[r]]
  <2>2. f \in Bijection(copying, held)
    <3>1. f \in [copying -> held]
      OBVIOUS
    <3>2. \A r, q \in copying : f[r] = f[q] => r = q
      BY <1>1 DEF MsgCopying
    <3>3. \A p \in held : \E r \in copying : f[r] = p
      OBVIOUS
    <3>4. QED
      BY <3>1, <3>2, <3>3 DEF Bijection, Injection, Surjection, IsInjective
  <2>3. ExistsBijection(copying, held)
    BY <2>2 DEF ExistsBijection
  <2>4. QED
    BY <2>1, <2>3, FS_Bijection
<1>8. QED
  BY <1>1, <1>2, <1>3, <1>5, <1>6, <1>7, MsgCardinality DEF G!ReadOnce

\* The messages of /dev/ipa, for any number of senders, readers and WLAN clients: no
\* reader sleeps unwoken while a message waits, each message is in exactly one place,
\* and the cache agrees with the last message processed (ipa_intf.c).
THEOREM MessagesAreSound == MCSpec => []MessagesSound
<1>1. MCInit => MsgInv
  BY MsgStart DEF MCInit
<1>2. MsgInv /\ [MCNext]_allVars => MsgInv'
  <2> SUFFICES ASSUME MsgInv, [MCNext]_allVars PROVE MsgInv'
    OBVIOUS
  <2>1. CASE Messages
    BY <2>1, MsgStep DEF Messages
  <2>2. CASE UNCHANGED gVars
    BY <2>2, MsgQuiet
  <2>3. QED
    BY <2>1, <2>2, PartSteps
<1>3. MsgInv => MessagesSound
  <2>1. MsgInv => G!NoLostWakeup
    BY DEF MsgInv
  <2>2. QED
    BY <2>1, MsgCacheCurrent, MsgReadOnce DEF MessagesSound
<1>4. QED
  BY <1>1, <1>2, <1>3, PTL DEF MCSpec

-----------------------------------------------------------------------------
(* Modem restarts.  Before its first start nothing has been exchanged with   *)
(* the modem; after that a modem that is not up has left is_ssr set.  What   *)
(* the previous modem left behind is gone when the next one starts.          *)
ModemPlaces ==
  /\ mBoots \in Nat /\ mModem \in {"down", "powering", "up", "stopping"}
  /\ mArrive \in {"idle", "wait", "fin", "hs"} /\ mInd \in {"idle", "check"}
  /\ mHandler \in {"none", "drain"} \cup M!Shutting
  /\ mHandler \in M!Shutting => mModem = "stopping"
  /\ mBoots = 0 => mModem = "down" /\ ~mSsr
  /\ mModem = "stopping" => mSsr \/ mHandler = "told"
  /\ mSsr => ~mInitd \/ mHandler \in M!Shutting
  /\ mQueued => mModem = "up" \/ mHandler \in {"told", "marked", "voted", "flagged"}
  /\ mHandler \in {"stopped", "closed"} => mWqStopped
\* A modem that has not been up yet in this life of the driver.
ModemFresh ==
  mModem # "up" /\ ~mSsr /\ mHandler # "told" =>
    ~mInitFin /\ ~mIndFin /\ mArrive = "idle" /\ mInd = "idle" /\ mHandler = "none" /\ ~mUcLoaded
\* While ipa_qmi_service_exit() drains, and from then on until the next probe.
ModemDrained ==
  /\ mHandler = "drain" => mModem = "down" /\ mSsr /\ ~mClnt /\ mInd = "idle"
  /\ mModem = "powering" => ~mInitFin /\ ~mIndFin /\ mInd = "idle" /\ mHandler = "none"
  /\ mModem = "powering" /\ mSsr => ~mClnt
  /\ ~mDriver /\ mBoots = 0 => ~mClnt
\* The driver is there, or comes with the next start of the modem.
ModemDriver ==
  ~mFailed => /\ mSsr => ~mDriver \/ mHandler \in M!Shutting
              /\ mDriver => mInitd /\ mHeld = M!StageSet /\ mSvc /\ (mIoctls \/ mHandler = "closed")
              /\ mModem = "powering" => mDriver \/ mSsr
              /\ mModem = "up" => mDriver
\* Restarts that find the previous start over.
ModemVote ==
  ~mEarly =>
    /\ mModem # "up" => mArrive = "idle"
    /\ (mClnt \/ mHandler = "drain") => mWqs = 1
    /\ ~(mClnt \/ mHandler = "drain") => mWqs = 0
    /\ mVote => mVotes = 1
    /\ ~mVote => mVotes = (IF mHandler = "voted" THEN 1 ELSE 0)
    /\ M!BeforeTheVote => ~mVote
    /\ mSsr /\ mModem # "up" /\ ~M!BeforeTheVote => mVote
    /\ mModem = "stopping" => mUcLoaded
    /\ mModem # "up" /\ mBoots # 0 /\ (mSsr \/ mHandler = "told") => mTold = "shutdown"
    /\ mModem # "up" /\ mUcLoaded => mFirstHs
    /\ mModem = "up" /\ mUcLoaded /\ mVote => mFirstHs /\ (mArrive = "fin" \/ ~mInitFin)
ModemInv ==
  /\ ModemPlaces /\ ModemFresh /\ ModemDrained /\ ModemDriver /\ ModemVote
  /\ M!IndicationDelivered

\* Every step of restart, probe, handshake and indication keeps the invariant.
LEMMA ModemStep == ModemInv /\ M!Next => ModemInv'
<1> SUFFICES ASSUME ModemInv, M!Next PROVE ModemInv'
  OBVIOUS
<1> USE DEF ModemInv, ModemPlaces, ModemFresh, ModemDrained, ModemDriver, ModemVote,
            M!IndicationDelivered, M!Shutting, M!Answers, M!BeforeTheVote
<1>1. CASE M!ModuleInit
  BY <1>1 DEF M!ModuleInit, M!Probe, M!ProbeFail, M!QmiInit, M!QmiExit, M!ProxyUnvote, M!Keep
<1>2. CASE M!BeforePowerup
  BY <1>2 DEF M!BeforePowerup, M!Keep, M!ProxyVote, M!qmiVars
<1>3. CASE M!BeforePowerupEnd
  BY <1>3 DEF M!BeforePowerupEnd, M!ProxyVote, M!DropWq
<1>4. CASE M!BeforePowerupNoClient
  BY <1>4 DEF M!BeforePowerupNoClient, M!ProxyVote
<1>5. CASE M!AfterPowerup
  BY <1>5 DEF M!AfterPowerup, M!Probe, M!ProbeFail, M!QmiInit, M!QmiExit, M!ProxyUnvote,
      M!Keep, M!qmiVars
<1>6. CASE M!BeforeShutdown
  BY <1>6 DEF M!BeforeShutdown, M!qmiVars
<1>61. CASE M!ShutdownMark
  BY <1>61 DEF M!ShutdownMark, M!qmiVars
<1>62. CASE M!ShutdownVote
  BY <1>62 DEF M!ShutdownVote, M!qmiVars
<1>63. CASE M!ShutdownFlag
  BY <1>63 DEF M!ShutdownFlag, M!qmiVars
<1>64. CASE M!ShutdownStop
  BY <1>64 DEF M!ShutdownStop
<1>65. CASE M!ShutdownIoctls
  BY <1>65 DEF M!ShutdownIoctls, M!qmiVars
<1>66. CASE M!ShutdownRemove
  BY <1>66 DEF M!ShutdownRemove, M!Removed, M!qmiVars
<1>7. CASE M!AfterShutdown
  BY <1>7 DEF M!AfterShutdown, M!qmiVars
<1>8. CASE M!UcLoaded
  BY <1>8 DEF M!UcLoaded, M!ProxyUnvote, M!qmiVars
<1>9. CASE M!SvcNew
  BY <1>9 DEF M!SvcNew
<1>10. CASE M!SvcExit
  BY <1>10 DEF M!SvcExit
<1>11. CASE M!ArriveStart
  BY <1>11 DEF M!ArriveStart
<1>12. CASE M!ArriveReset
  BY <1>12 DEF M!ArriveReset
<1>13. CASE M!ArriveFin
  BY <1>13 DEF M!ArriveFin
<1>14. CASE M!ArriveHandshake
  BY <1>14 DEF M!ArriveHandshake, M!Unvotes, M!ProxyUnvote, M!Keep
<1>15. CASE M!ArriveInd
  BY <1>15 DEF M!ArriveInd
<1>16. CASE M!IndReq
  BY <1>16 DEF M!IndReq
<1>17. CASE M!IndCheck
  BY <1>17 DEF M!IndCheck
<1>18. QED
  BY ZenonT(40), <1>1, <1>2, <1>3, <1>4, <1>5, <1>6, <1>61, <1>62, <1>63, <1>64,
      <1>65, <1>66, <1>7, <1>8, <1>9, <1>10, <1>11, <1>12, <1>13, <1>14, <1>15, <1>16,
      <1>17 DEF M!Next

\* The invariant holds before the modem's first start.
LEMMA ModemStart == M!Init => ModemInv
BY DEF M!Init, ModemInv, ModemPlaces, ModemFresh, ModemDrained, ModemDriver, ModemVote,
       M!IndicationDelivered, M!Shutting, M!BeforeTheVote

\* Steps of the other parts.
LEMMA ModemQuiet == ModemInv /\ UNCHANGED mVars => ModemInv'
BY DEF mVars, ModemInv, ModemPlaces, ModemFresh, ModemDrained, ModemDriver, ModemVote,
       M!IndicationDelivered, M!Shutting, M!BeforeTheVote

\* Modem restarts, for any number of them: the proxy vote and its flag agree and end with
\* the handshake, the indication reaches the modem however its request and the handshake
\* interleave, the network device comes back and no work queue is left, but for the
\* restarts and failed probes the history variables name (rmnet_ipa.c, ipa_qmi_service.c).
THEOREM RestartsAreSettled == MCSpec => []RestartsSettle
<1>1. MCInit => ModemInv
  BY ModemStart DEF MCInit
<1>2. ModemInv /\ [MCNext]_allVars => ModemInv'
  <2> SUFFICES ASSUME ModemInv, [MCNext]_allVars PROVE ModemInv'
    OBVIOUS
  <2>1. CASE Modem
    BY <2>1, ModemStep DEF Modem
  <2>2. CASE UNCHANGED mVars
    BY <2>2, ModemQuiet
  <2>3. QED
    BY <2>1, <2>2, PartSteps
<1>3. ModemInv => RestartsSettle
  <2> SUFFICES ASSUME ModemInv PROVE RestartsSettle
    OBVIOUS
  <2>1. M!VoteSettled
    <3> SUFFICES ASSUME ~mEarly
                 PROVE  /\ mVotes = (IF mVote \/ mHandler = "voted" THEN 1 ELSE 0)
                        /\ mSsr /\ mModem # "up" /\ ~M!BeforeTheVote
                             => mVote /\ mTold = "shutdown"
                        /\ M!HandshakeOver => ~mVote
      BY DEF M!VoteSettled
    <3>1. mVotes = (IF mVote \/ mHandler = "voted" THEN 1 ELSE 0)
      BY DEF ModemInv, ModemVote, M!BeforeTheVote
    <3>2. mSsr /\ mModem # "up" /\ ~M!BeforeTheVote => mVote /\ mTold = "shutdown"
      BY DEF ModemInv, ModemVote, ModemPlaces
    <3>3. M!HandshakeOver => ~mVote
      BY DEF M!HandshakeOver, ModemInv, ModemVote
    <3>4. QED
      BY <3>1, <3>2, <3>3
  <2>2. M!ComesBack
    BY DEF M!ComesBack, ModemInv, ModemDriver, ModemPlaces, M!Shutting
  <2>3. M!NoWorkqueueLeak
    BY DEF M!NoWorkqueueLeak, ModemInv, ModemVote
  <2>4. QED
    BY <2>1, <2>2, <2>3 DEF ModemInv, RestartsSettle
<1>4. QED
  BY <1>1, <1>2, <1>3, PTL DEF MCSpec

-----------------------------------------------------------------------------
(* Peripheral clients.  A connected SPS pipe belongs to a valid endpoint with *)
(* its FIFOs, whatever stopped half way before; the counts are bounds, since  *)
(* failures leave them too high.                                              *)
EndpointRecords ==
  [valid : BOOLEAN, client : Peripherals \cup {"-"}, awake : BOOLEAN,
   disabled : BOOLEAN, leaving : BOOLEAN, ownFifo : BOOLEAN]
EndpointType ==
  /\ cHw \in {"v2_0", "v2_6L"}
  /\ cEp \in [C!AllPipes -> EndpointRecords]
  /\ cSps \in [C!AllPipes -> {"none", "allocated", "connected"}]
EndpointAwake == {p \in C!AllPipes : cEp[p].valid /\ cEp[p].awake}
EndpointConnected == {p \in C!AllPipes : cSps[p] = "connected"}
EndpointOwners ==
  \A p \in C!AllPipes :
    /\ cSps[p] = "connected" => cEp[p].valid /\ (cEp[p].ownFifo => p \in cFifos)
    /\ cEp[p].valid => cEp[p].client \in Peripherals /\ C!Mapping(cEp[p].client) = p /\ p # -1
EndpointInv ==
  /\ EndpointType /\ EndpointOwners /\ ~cTwice
  /\ cVotes \in Int /\ cVotes >= Cardinality(EndpointAwake)
  /\ cMapped \in Int
  /\ ~cBypass => cMapped >= Cardinality(EndpointConnected)

\* A bound on the size of a set follows one element that comes or goes.
LEMMA BoundFollows ==
  ASSUME NEW A, NEW R, NEW p, IsFiniteSet(A), \A q : q # p => (q \in A <=> q \in R),
         NEW v \in Int, NEW w \in Int, v >= Cardinality(A),
         p \in R => w >= v + (IF p \in A THEN 0 ELSE 1),
         p \notin R => w >= v - (IF p \in A THEN 1 ELSE 0)
  PROVE  w >= Cardinality(R)
<1>0. Cardinality(A) \in Nat
  BY FS_CardinalityType
<1>1. CASE p \in R
  <2>1. R = A \cup {p}
    BY <1>1
  <2>2. Cardinality(R) = IF p \in A THEN Cardinality(A) ELSE Cardinality(A) + 1
    BY <2>1, FS_AddElement
  <2>3. QED
    BY <1>0, <1>1, <2>2
<1>2. CASE p \notin R
  <2>1. R = A \ {p}
    BY <1>2
  <2>2. Cardinality(R) = IF p \in A THEN Cardinality(A) - 1 ELSE Cardinality(A)
    BY <2>1, FS_RemoveElement
  <2>3. QED
    BY <1>0, <1>2, <2>2
<1>3. QED
  BY <1>1, <1>2

\* The IPA has finitely many pipes.
LEMMA EndpointsFinite == IsFiniteSet(C!AllPipes)
<1> DEFINE P == Peripherals \cap DOMAIN C!PipesV2_0
<1> DEFINE L == Peripherals \cap DOMAIN C!PipesV2_6L
<1> DEFINE PS == {C!PipesV2_0[c] : c \in P}
<1> DEFINE LS == {C!PipesV2_6L[c] : c \in L}
<1>1. IsFiniteSet(P) /\ IsFiniteSet(L)
  BY ClientAssumption, FS_Subset
<1>2. IsFiniteSet(PS)
  <2>1. [c \in P |-> C!PipesV2_0[c]] \in Surjection(P, PS)
    BY DEF Surjection
  <2>2. QED
    BY <1>1, <2>1, FS_Surjection
<1>3. IsFiniteSet(LS)
  <2>1. [c \in L |-> C!PipesV2_6L[c]] \in Surjection(L, LS)
    BY DEF Surjection
  <2>2. QED
    BY <1>1, <2>1, FS_Surjection
<1>4. C!AllPipes = PS \cup LS
  BY DEF C!AllPipes
<1>5. QED
  BY <1>2, <1>3, <1>4, FS_Union

\* The pipe of a client that has one.
LEMMA EndpointMapped ==
  ASSUME EndpointInv, NEW c \in Peripherals, C!Mapping(c) # -1
  PROVE  /\ C!Mapping(c) \in C!AllPipes
         /\ c \in DOMAIN C!PipesV2_0 \cup DOMAIN C!PipesV2_6L
<1>1. cHw \in {"v2_0", "v2_6L"}
  BY DEF EndpointInv, EndpointType
<1>2. C!PipesOf["v2_0"] = C!PipesV2_0 /\ C!PipesOf["v2_6L"] = C!PipesV2_6L
  BY DEF C!PipesOf
<1>3. c \in DOMAIN C!PipesOf[cHw] /\ C!Mapping(c) = C!PipesOf[cHw][c]
  BY DEF C!Mapping
<1>4. QED
  BY <1>1, <1>2, <1>3 DEF C!AllPipes

\* The pipe of a client is one of them.
LEMMA EndpointPipes ==
  ASSUME EndpointInv, NEW p \in C!Pipes
  PROVE  p \in C!AllPipes
BY EndpointMapped DEF C!Pipes

\* What a call does to its own pipe.
LEMMA EndpointChange ==
  ASSUME EndpointInv, NEW p \in C!AllPipes, NEW x \in EndpointRecords,
         NEW s \in {"none", "allocated", "connected"},
         cEp' = [cEp EXCEPT ![p] = x], cSps' = [cSps EXCEPT ![p] = s],
         cHw' = cHw, cBypass' = cBypass, ~cTwice',
         \A q \in C!AllPipes : q # p /\ q \in cFifos => q \in cFifos',
         s = "connected" => x.valid /\ (x.ownFifo => p \in cFifos'),
         x.valid => x.client \in Peripherals /\ C!Mapping(x.client) = p /\ p # -1,
         cVotes' \in Int, cMapped' \in Int,
         x.valid /\ x.awake => cVotes' >= cVotes + (IF p \in EndpointAwake THEN 0 ELSE 1),
         ~(x.valid /\ x.awake) => cVotes' >= cVotes - (IF p \in EndpointAwake THEN 1 ELSE 0),
         ~cBypass /\ s = "connected" => cMapped' >= cMapped + (IF p \in EndpointConnected THEN 0 ELSE 1),
         ~cBypass /\ s # "connected" => cMapped' >= cMapped - (IF p \in EndpointConnected THEN 1 ELSE 0)
  PROVE  EndpointInv'
<1>1. /\ cEp \in [C!AllPipes -> EndpointRecords]
      /\ cSps \in [C!AllPipes -> {"none", "allocated", "connected"}]
  BY DEF EndpointInv, EndpointType
<1>2. /\ cEp' \in [C!AllPipes -> EndpointRecords]
      /\ cSps' \in [C!AllPipes -> {"none", "allocated", "connected"}]
      /\ cEp'[p] = x /\ cSps'[p] = s
      /\ \A q \in C!AllPipes : q # p => cEp'[q] = cEp[q] /\ cSps'[q] = cSps[q]
  BY <1>1
<1>3. EndpointType'
  BY <1>2 DEF EndpointInv, EndpointType
<1>4. \A c : C!Mapping(c)' = C!Mapping(c)
  BY DEF C!Mapping
<1>5. EndpointOwners'
  <2> SUFFICES ASSUME NEW q \in C!AllPipes
               PROVE  /\ cSps'[q] = "connected" => cEp'[q].valid /\ (cEp'[q].ownFifo => q \in cFifos')
                      /\ cEp'[q].valid => cEp'[q].client \in Peripherals /\ C!Mapping(cEp'[q].client) = q /\ q # -1
    BY <1>4 DEF EndpointOwners
  <2>1. CASE q = p
    BY <1>2, <2>1
  <2>2. CASE q # p
    BY <1>2, <2>2 DEF EndpointInv, EndpointOwners
  <2>3. QED
    BY <2>1, <2>2
<1>6. cVotes' >= Cardinality(EndpointAwake')
  <2>1. IsFiniteSet(EndpointAwake) /\ cVotes \in Int /\ cVotes >= Cardinality(EndpointAwake)
    BY EndpointsFinite, FS_Subset DEF EndpointInv, EndpointAwake
  <2>2. \A q : q # p => (q \in EndpointAwake <=> q \in EndpointAwake')
    BY <1>2 DEF EndpointAwake
  <2>3. p \in EndpointAwake' <=> x.valid /\ x.awake
    BY <1>2 DEF EndpointAwake
  <2>4. QED
    BY <2>1, <2>2, <2>3, BoundFollows
<1>7. ~cBypass' => cMapped' >= Cardinality(EndpointConnected')
  <2> SUFFICES ASSUME ~cBypass PROVE cMapped' >= Cardinality(EndpointConnected')
    OBVIOUS
  <2>1. IsFiniteSet(EndpointConnected) /\ cMapped \in Int /\ cMapped >= Cardinality(EndpointConnected)
    BY EndpointsFinite, FS_Subset DEF EndpointInv, EndpointConnected
  <2>2. \A q : q # p => (q \in EndpointConnected <=> q \in EndpointConnected')
    BY <1>2 DEF EndpointConnected
  <2>3. p \in EndpointConnected' <=> s = "connected"
    BY <1>2 DEF EndpointConnected
  <2>4. QED
    BY <2>1, <2>2, <2>3, BoundFollows
<1>8. QED
  BY <1>3, <1>5, <1>6, <1>7 DEF EndpointInv

\* Steps that touch no endpoint.
LEMMA EndpointQuiet == EndpointInv /\ UNCHANGED <<cHw, cBypass, cEp, cSps, cFifos, cMapped, cVotes, cTwice>> => EndpointInv'
<1> SUFFICES ASSUME EndpointInv, UNCHANGED <<cHw, cBypass, cEp, cSps, cFifos, cMapped, cVotes, cTwice>>
             PROVE  EndpointInv'
  OBVIOUS
<1>1. EndpointType' /\ EndpointOwners'
  BY DEF EndpointInv, EndpointType, EndpointOwners, C!Mapping
<1>2. EndpointAwake' = EndpointAwake /\ EndpointConnected' = EndpointConnected
  BY DEF EndpointAwake, EndpointConnected
<1>3. QED
  BY <1>1, <1>2 DEF EndpointInv

\* What the invariant says of one endpoint.
LEMMA EndpointFields ==
  ASSUME EndpointInv, NEW p \in C!AllPipes
  PROVE  /\ cEp[p] \in EndpointRecords /\ cEp = [cEp EXCEPT ![p] = cEp[p]]
         /\ cSps[p] \in {"none", "allocated", "connected"} /\ cSps = [cSps EXCEPT ![p] = cSps[p]]
         /\ p \in EndpointAwake <=> cEp[p].valid /\ cEp[p].awake
         /\ p \in EndpointConnected <=> cSps[p] = "connected"
         /\ cVotes \in Int /\ cMapped \in Int /\ ~cTwice
BY DEF EndpointInv, EndpointType, EndpointAwake, EndpointConnected

\* Who owns an endpoint and its FIFOs.
LEMMA EndpointOwned ==
  ASSUME EndpointInv, NEW p \in C!AllPipes
  PROVE  /\ cSps[p] = "connected" => cEp[p].valid /\ (cEp[p].ownFifo => p \in cFifos)
         /\ cEp[p].valid => cEp[p].client \in Peripherals /\ C!Mapping(cEp[p].client) = p /\ p # -1
BY DEF EndpointInv, EndpointOwners

\* An endpoint that memset() has cleared is not valid.
LEMMA EndpointZeroed == C!Zeroed \in EndpointRecords /\ ~C!Zeroed.valid
BY DEF C!Zeroed, EndpointRecords

\* A connect that stops half way gives back what it took, or leaves a count too
\* high.
LEMMA EndpointConnectFails ==
  ASSUME EndpointInv, NEW c \in Peripherals, NEW k \in BOOLEAN, NEW o \in BOOLEAN,
         C!ConnectFails(c, k, o)
  PROVE  EndpointInv'
<1>0. PICK p \in C!AllPipes : p = C!Mapping(c)
  BY EndpointMapped DEF C!ConnectFails
<1>1. /\ p # -1 /\ ~cEp[p].valid /\ cEp' = [cEp EXCEPT ![p] = C!Zeroed]
      /\ cMapped' = cMapped \/ cMapped' = cMapped + 1
      /\ UNCHANGED <<cHw, cBypass, cSps, cFifos, cVotes, cTwice>>
  BY <1>0 DEF C!ConnectFails, C!PeerMapped
<1>3. cSps[p] # "connected" /\ p \notin EndpointAwake /\ p \notin EndpointConnected
  BY <1>1, EndpointOwned, EndpointFields
<1>4. /\ cSps' = [cSps EXCEPT ![p] = cSps[p]] /\ cSps[p] \in {"none", "allocated", "connected"}
      /\ cVotes \in Int /\ cMapped \in Int /\ ~cTwice
  BY <1>1, EndpointFields
<1>5. cMapped' \in Int /\ cMapped' >= cMapped /\ cVotes' = cVotes
  BY <1>1, <1>4
<1>6. /\ cVotes' >= cVotes - (IF p \in EndpointAwake THEN 1 ELSE 0)
      /\ cMapped' >= cMapped - (IF p \in EndpointConnected THEN 1 ELSE 0)
  BY <1>3, <1>4, <1>5
<1>7. QED
  BY <1>1, <1>3, <1>4, <1>5, <1>6, EndpointChange, EndpointZeroed

\* A connect that succeeds.
LEMMA EndpointConnectStep ==
  ASSUME EndpointInv, NEW c \in Peripherals, NEW a \in BOOLEAN, NEW o \in BOOLEAN,
         C!Connect(c, a, o)
  PROVE  EndpointInv'
<1>0. PICK p \in C!AllPipes : p = C!Mapping(c)
  BY EndpointMapped DEF C!Connect
<1> DEFINE x == [C!Zeroed EXCEPT !.valid = TRUE, !.client = c, !.awake = a, !.ownFifo = o]
<1>1. /\ p # -1 /\ ~cEp[p].valid /\ cEp' = [cEp EXCEPT ![p] = x]
      /\ cSps' = [cSps EXCEPT ![p] = "connected"]
      /\ cFifos' = IF o THEN cFifos \cup {p} ELSE cFifos
      /\ cMapped' = IF ~cBypass THEN cMapped + 1 ELSE cMapped
      /\ cVotes' = IF a THEN cVotes + 1 ELSE cVotes
      /\ UNCHANGED <<cHw, cBypass, cTwice>>
  BY <1>0 DEF C!Connect, C!PeerMapped, C!PastPeerMap, C!ConnectedVote
<1>3. p \notin EndpointAwake /\ p \notin EndpointConnected
  BY <1>1, EndpointOwned, EndpointFields
<1>4. x \in EndpointRecords /\ x.valid /\ x.client = c /\ (x.awake <=> a) /\ (x.ownFifo <=> o)
  BY DEF C!Zeroed, EndpointRecords
<1>5. cVotes \in Int /\ cMapped \in Int /\ ~cTwice
  BY EndpointFields
<1>6. cVotes' \in Int /\ cMapped' \in Int /\ (a => cVotes' = cVotes + 1) /\ (~a => cVotes' = cVotes)
      /\ (~cBypass => cMapped' = cMapped + 1)
  BY <1>1, <1>5
<1>7. /\ \A q \in C!AllPipes : q # p /\ q \in cFifos => q \in cFifos'
      /\ o => p \in cFifos'
  BY <1>1
<1> HIDE DEF x
<1>8. /\ x.valid /\ x.awake => cVotes' >= cVotes + (IF p \in EndpointAwake THEN 0 ELSE 1)
      /\ ~(x.valid /\ x.awake) => cVotes' >= cVotes - (IF p \in EndpointAwake THEN 1 ELSE 0)
      /\ ~cBypass => cMapped' >= cMapped + (IF p \in EndpointConnected THEN 0 ELSE 1)
  BY <1>3, <1>4, <1>5, <1>6
<1>9. QED
  BY <1>0, <1>1, <1>4, <1>5, <1>6, <1>7, <1>8, EndpointChange

\* A disconnect, wherever it stops.
LEMMA EndpointDisconnectStep ==
  ASSUME EndpointInv, NEW p \in C!AllPipes, C!Disconnect(p)
  PROVE  EndpointInv'
<1>0. /\ cEp[p] \in EndpointRecords /\ cSps[p] \in {"none", "allocated", "connected"}
      /\ p \in EndpointAwake <=> cEp[p].valid /\ cEp[p].awake
      /\ p \in EndpointConnected <=> cSps[p] = "connected"
      /\ cVotes \in Int /\ cMapped \in Int /\ ~cTwice
  BY EndpointFields
<1>1. PICK stop \in C!Stops(p) :
        /\ C!Reaches(p, stop)
        /\ cMapped' = IF stop \in {"none", "unmap", "sps_free"} /\ ~cBypass THEN cMapped - 1 ELSE cMapped
        /\ cTwice' = (cTwice \/ (C!FreesFifos(p, stop) /\ cEp[p].ownFifo /\ p \notin cFifos))
        /\ cFifos' = IF C!FreesFifos(p, stop) THEN cFifos \ {p} ELSE cFifos
        /\ cSps' = [cSps EXCEPT ![p] = CASE stop = "none" -> "none"
                      [] stop # "none" /\ stop \in {"none", "unmap", "sps_free"} -> "allocated"
                      [] OTHER -> @]
        /\ cEp' = [cEp EXCEPT ![p] = IF stop = "none" THEN C!Zeroed
                      ELSE [cEp[p] EXCEPT !.leaving = @ \/ ~cEp[p].disabled]]
        /\ cVotes' = IF stop = "none" THEN (IF cEp[p].awake THEN cVotes ELSE cVotes + 1) - 1
                                      ELSE IF cEp[p].awake THEN cVotes ELSE cVotes + 1
  BY DEF C!Disconnect
<1>2. cEp[p].valid /\ UNCHANGED <<cHw, cBypass>>
  BY DEF C!Disconnect
<1> DEFINE past == stop \in {"none", "unmap", "sps_free"}
<1> DEFINE s == IF stop = "none" THEN "none" ELSE IF past THEN "allocated" ELSE cSps[p]
<1> DEFINE x == IF stop = "none" THEN C!Zeroed
                ELSE [cEp[p] EXCEPT !.leaving = @ \/ ~cEp[p].disabled]
<1>3. past => cSps[p] = "connected"
  BY <1>1 DEF C!Reaches
<1>4. C!FreesFifos(p, stop) => past
  BY DEF C!FreesFifos
<1>5. cSps[p] = "connected" => (cEp[p].ownFifo => p \in cFifos)
  BY EndpointOwned
<1>6. ~cTwice'
  BY <1>0, <1>1, <1>3, <1>4, <1>5
<1>7. cSps' = [cSps EXCEPT ![p] = s] /\ s \in {"none", "allocated", "connected"}
  <2>1. cSps \in [C!AllPipes -> {"none", "allocated", "connected"}]
    BY DEF EndpointInv, EndpointType
  <2>2. QED
    BY <1>0, <1>1, <2>1
<1>8. cEp' = [cEp EXCEPT ![p] = x]
  BY <1>1
<1>9. /\ x \in EndpointRecords
      /\ stop = "none" => ~x.valid
      /\ stop # "none" => x.valid /\ x.client = cEp[p].client /\ (x.awake <=> cEp[p].awake)
                          /\ (x.ownFifo <=> cEp[p].ownFifo)
  <2>1. CASE stop = "none"
    BY <2>1, EndpointZeroed
  <2>2. CASE stop # "none"
    BY <1>0, <1>2, <2>2 DEF EndpointRecords
  <2>3. QED
    BY <2>1, <2>2
<1>10. s = "connected" => ~past /\ cSps[p] = "connected" /\ stop # "none"
  OBVIOUS
<1>11. /\ cVotes' \in Int /\ cMapped' \in Int
       /\ stop = "none" => cVotes' >= cVotes - (IF p \in EndpointAwake THEN 1 ELSE 0)
       /\ stop # "none" => cVotes' >= cVotes + (IF p \in EndpointAwake THEN 0 ELSE 1) \/ (~cEp[p].awake /\ cVotes' >= cVotes)
  BY <1>0, <1>1, <1>2
<1>12. /\ past => cMapped' >= cMapped - 1
       /\ ~past => cMapped' = cMapped
  BY <1>0, <1>1
<1>13. /\ \A q \in C!AllPipes : q # p /\ q \in cFifos => q \in cFifos'
       /\ ~past => cFifos' = cFifos
  BY <1>1, <1>4
<1>14. cEp[p].client \in Peripherals /\ C!Mapping(cEp[p].client) = p /\ p # -1
  BY <1>2, EndpointOwned
<1>15. x.valid => stop # "none" /\ x.client \in Peripherals /\ C!Mapping(x.client) = p /\ p # -1
  BY <1>9, <1>14
<1>16. s = "connected" => x.valid /\ (x.ownFifo => p \in cFifos')
  BY <1>5, <1>9, <1>10, <1>13
<1>17. /\ x.valid /\ x.awake => cVotes' >= cVotes + (IF p \in EndpointAwake THEN 0 ELSE 1)
       /\ ~(x.valid /\ x.awake) => cVotes' >= cVotes - (IF p \in EndpointAwake THEN 1 ELSE 0)
  BY <1>0, <1>2, <1>9, <1>11
<1>18. /\ ~cBypass /\ s = "connected" => cMapped' >= cMapped + (IF p \in EndpointConnected THEN 0 ELSE 1)
       /\ ~cBypass /\ s # "connected" => cMapped' >= cMapped - (IF p \in EndpointConnected THEN 1 ELSE 0)
  BY <1>0, <1>3, <1>10, <1>12
<1> HIDE DEF s, x, past
<1>19. QED
  BY <1>2, <1>6, <1>7, <1>8, <1>9, <1>11, <1>13, <1>15, <1>16, <1>17, <1>18, EndpointChange

\* The calls that leave the counts, the FIFOs and the owner of the endpoint alone.
LEMMA EndpointOtherStep ==
  ASSUME EndpointInv, NEW p \in C!AllPipes,
         C!ResetEndpoint(p) \/ C!ClearEndpointDelay(p) \/ C!DisableEndpoint(p)
  PROVE  EndpointInv'
<1>0. /\ cEp[p] \in EndpointRecords /\ cSps[p] \in {"none", "allocated", "connected"}
      /\ cEp = [cEp EXCEPT ![p] = cEp[p]] /\ cSps = [cSps EXCEPT ![p] = cSps[p]]
      /\ p \in EndpointAwake <=> cEp[p].valid /\ cEp[p].awake
      /\ p \in EndpointConnected <=> cSps[p] = "connected"
      /\ cVotes \in Int /\ cMapped \in Int /\ ~cTwice
  BY EndpointFields
<1>1. UNCHANGED <<cHw, cBypass, cFifos, cMapped, cVotes, cTwice>>
  BY DEF C!ResetEndpoint, C!ClearEndpointDelay, C!DisableEndpoint
<1>2. PICK x \in EndpointRecords, s \in {"none", "allocated", "connected"} :
        /\ cEp' = [cEp EXCEPT ![p] = x] /\ cSps' = [cSps EXCEPT ![p] = s]
        /\ x.valid = cEp[p].valid /\ x.client = cEp[p].client /\ x.awake = cEp[p].awake
        /\ x.ownFifo = cEp[p].ownFifo
        /\ s = "connected" => cSps[p] = "connected"
  <2>0. cEp \in [C!AllPipes -> EndpointRecords]
    BY DEF EndpointInv, EndpointType
  <2>1. CASE C!ResetEndpoint(p)
    <3>1. cEp' = cEp
      BY <2>1 DEF C!ResetEndpoint
    <3>2. \/ cSps[p] = "connected" /\ (cSps' = [cSps EXCEPT ![p] = "connected"] \/ cSps' = [cSps EXCEPT ![p] = "allocated"])
          \/ cSps' = cSps
      BY <2>1 DEF C!ResetEndpoint
    <3>3. QED
      BY <1>0, <3>1, <3>2
  <2>2. CASE C!ClearEndpointDelay(p)
    <3> DEFINE x == [cEp[p] EXCEPT !.leaving = TRUE]
    <3>1. cEp' = [cEp EXCEPT ![p] = x] /\ cSps' = cSps
      BY <2>0, <2>2 DEF C!ClearEndpointDelay
    <3>2. /\ x \in EndpointRecords /\ x.valid = cEp[p].valid /\ x.client = cEp[p].client
          /\ x.awake = cEp[p].awake /\ x.ownFifo = cEp[p].ownFifo
      BY <1>0 DEF EndpointRecords
    <3> HIDE DEF x
    <3>3. QED
      BY <1>0, <3>1, <3>2
  <2>3. CASE C!DisableEndpoint(p)
    <3>0. PICK result \in {"ok", "error"} : cEp' = [cEp EXCEPT ![p].leaving = TRUE, ![p].disabled = @ \/ result = "ok"]
      BY <2>3 DEF C!DisableEndpoint
    <3> DEFINE x == [cEp[p] EXCEPT !.leaving = TRUE, !.disabled = @ \/ result = "ok"]
    <3>1. cEp' = [cEp EXCEPT ![p] = x] /\ cSps' = cSps
      BY <2>0, <2>3, <3>0 DEF C!DisableEndpoint
    <3>2. /\ x \in EndpointRecords /\ x.valid = cEp[p].valid /\ x.client = cEp[p].client
          /\ x.awake = cEp[p].awake /\ x.ownFifo = cEp[p].ownFifo
      BY <1>0 DEF EndpointRecords
    <3> HIDE DEF x
    <3>3. QED
      BY <1>0, <3>1, <3>2
  <2>4. QED
    BY <2>1, <2>2, <2>3
<1>3. /\ s = "connected" => x.valid /\ (x.ownFifo => p \in cFifos')
      /\ x.valid => x.client \in Peripherals /\ C!Mapping(x.client) = p /\ p # -1
  BY <1>1, <1>2, EndpointOwned
<1>4. /\ x.valid /\ x.awake => cVotes' >= cVotes + (IF p \in EndpointAwake THEN 0 ELSE 1)
      /\ ~(x.valid /\ x.awake) => cVotes' >= cVotes - (IF p \in EndpointAwake THEN 1 ELSE 0)
      /\ s = "connected" => cMapped' >= cMapped + (IF p \in EndpointConnected THEN 0 ELSE 1)
      /\ s # "connected" => cMapped' >= cMapped - (IF p \in EndpointConnected THEN 1 ELSE 0)
  BY <1>0, <1>1, <1>2
<1>5. QED
  BY <1>0, <1>1, <1>2, <1>3, <1>4, EndpointChange

\* The invariant holds with no endpoint in use.
LEMMA EndpointStart == C!Init => EndpointInv
<1> SUFFICES ASSUME C!Init PROVE EndpointInv
  OBVIOUS
<1>1. /\ cHw \in {"v2_0", "v2_6L"} /\ cEp = [p \in C!AllPipes |-> C!Zeroed]
      /\ cSps = [p \in C!AllPipes |-> "none"] /\ cFifos = {} /\ cMapped = 0 /\ cVotes = 0 /\ cTwice = FALSE
  BY DEF C!Init
<1>2. EndpointType /\ EndpointOwners
  BY <1>1, EndpointZeroed DEF EndpointType, EndpointOwners
<1>3. EndpointAwake = {} /\ EndpointConnected = {}
  BY <1>1, EndpointZeroed DEF EndpointAwake, EndpointConnected
<1>4. Cardinality({}) = 0
  BY FS_EmptySet
<1>5. QED
  BY <1>1, <1>2, <1>3, <1>4 DEF EndpointInv

\* Every call of a peripheral client keeps the invariant.
LEMMA EndpointStep == EndpointInv /\ C!Next => EndpointInv'
<1> SUFFICES ASSUME EndpointInv, C!Next PROVE EndpointInv'
  OBVIOUS
<1>1. ASSUME NEW c \in Peripherals,
             \/ C!Refused(c)
             \/ \E k, o \in BOOLEAN : C!ConnectFails(c, k, o)
             \/ \E a, o \in BOOLEAN : C!Connect(c, a, o)
      PROVE  EndpointInv'
  <2>1. CASE C!Refused(c)
    BY <2>1, EndpointQuiet DEF C!Refused
  <2>2. QED
    BY <1>1, <2>1, EndpointConnectFails, EndpointConnectStep
<1>2. ASSUME NEW p \in C!Pipes,
             \/ C!BadHandle(p) \/ C!Disconnect(p)
             \/ C!ResetEndpoint(p) \/ C!ClearEndpointDelay(p) \/ C!DisableEndpoint(p)
      PROVE  EndpointInv'
  <2>1. CASE C!BadHandle(p)
    BY <2>1, EndpointQuiet DEF C!BadHandle
  <2>2. p \in C!AllPipes
    BY EndpointPipes
  <2>3. QED
    BY <1>2, <2>1, <2>2, EndpointDisconnectStep, EndpointOtherStep
<1>3. QED
  BY <1>1, <1>2 DEF C!Next

\* The instance's name for a library operator.
LEMMA EndpointCardinality == \A X : C!Cardinality(X) = Cardinality(X)
BY DEF C!Cardinality, Cardinality

\* Peripheral clients, for every set of them and however many calls stop half way: a FIFO
\* is freed once, an endpoint that keeps the IPA awake has its vote, a connected pipe has
\* its peer mapped, and a valid endpoint is its client's pipe (ipa_client.c).
THEOREM EndpointsAreSound == MCSpec => []EndpointsSound
<1>1. MCInit => EndpointInv
  BY EndpointStart DEF MCInit
<1>2. EndpointInv /\ [MCNext]_allVars => EndpointInv'
  <2> SUFFICES ASSUME EndpointInv, [MCNext]_allVars PROVE EndpointInv'
    OBVIOUS
  <2>1. CASE Connections
    BY <2>1, EndpointStep DEF Connections
  <2>2. CASE UNCHANGED cVars
    BY <2>2, EndpointQuiet DEF cVars
  <2>3. QED
    BY <2>1, <2>2, PartSteps
<1>3. EndpointInv => EndpointsSound
  <2> SUFFICES ASSUME EndpointInv PROVE EndpointsSound
    OBVIOUS
  <2>1. C!FifoFreedOnce
    BY DEF EndpointInv, C!FifoFreedOnce
  <2>2. C!AwakeHasVote
    <3>1. {p \in C!Valid : cEp[p].awake} = EndpointAwake
      BY DEF C!Valid, EndpointAwake
    <3>2. QED
      BY <3>1, EndpointCardinality DEF C!AwakeHasVote, EndpointInv
  <2>3. C!PeerStaysMapped
    BY EndpointCardinality DEF C!PeerStaysMapped, EndpointInv, EndpointConnected
  <2>4. C!EndpointNamesClient
    <3> SUFFICES ASSUME NEW p \in C!Valid
                 PROVE  /\ C!Mapping(cEp[p].client) = p
                        /\ C!ClientStrings[C!Number(cEp[p].client)] = cEp[p].client
      BY DEF C!EndpointNamesClient
    <3>1. p \in C!AllPipes /\ cEp[p].valid
      BY DEF C!Valid
    <3>2. cEp[p].client \in Peripherals /\ C!Mapping(cEp[p].client) = p /\ p # -1
      BY <3>1, EndpointOwned
    <3>3. cEp[p].client \in DOMAIN C!PipesV2_0 \cup DOMAIN C!PipesV2_6L
      BY <3>2, EndpointMapped
    <3>4. QED
      BY <3>2, <3>3, ClientAssumption
  <2>5. QED
    BY <2>1, <2>2, <2>3, <2>4 DEF EndpointsSound
<1>4. QED
  BY <1>1, <1>2, <1>3, PTL DEF MCSpec

-----------------------------------------------------------------------------
(* What the WWAN driver keeps in the IPA's tables.  As long as nothing went   *)
(* astray, the tables hold exactly what the driver has noted: the headers and *)
(* interfaces of its channels, and the rules whose handles it has.            *)
ChannelHdrs == {wMux[i].id : i \in {k \in 1 .. Len(wMux) : wMux[k].hdr}}
ChannelRegs == {wMux[i].id : i \in {k \in 1 .. Len(wMux) : wMux[k].reg}}
ChannelType ==
  /\ wMux \in Seq(W!Channels) /\ wSpare \in W!Channels
  /\ wNum \in 0 .. MaxRules /\ wOldNum \in 0 .. MaxRules
  /\ wHw = [f \in W!Families |-> wHw[f]] /\ wFlt = [h \in DOMAIN wFlt |-> wFlt[h]]
  /\ \A i, j \in 1 .. Len(wMux) : wMux[i].id = wMux[j].id => i = j
ChannelsNoted ==
  /\ wSpare = W!NoChannel /\ wHdrs = ChannelHdrs /\ wRegs = ChannelRegs
  /\ \A i \in 1 .. Len(wMux) : wMux[i].reg => wMux[i].hdr
RulesNoted ==
  /\ \A i \in 1 .. wOldNum : wRules[i] # "max" /\ wHdls[i] \in DOMAIN wFlt
  /\ \A h \in DOMAIN wFlt : /\ \E i \in 1 .. wOldNum : wHdls[i] = h
                            /\ \E i \in 1 .. wOldNum : wRules[i] = wFlt[h]
  /\ \A f \in W!Families : wHw[f] = {h \in DOMAIN wFlt : wFlt[h] = f}
ChannelInv ==
  /\ ChannelType
  /\ ~wStray => /\ wUp => ChannelsNoted /\ RulesNoted
                /\ ~wUp => wFlt = W!Empty /\ wHdrs = {} /\ wRegs = {} /\ wMux = <<>>
                           /\ \A f \in W!Families : wHw[f] = {}

\* An unused channel is a channel.
LEMMA NoChannelType == W!NoChannel \in W!Channels
BY DEF W!NoChannel, W!Channels

\* The invariant holds before the first probe.
LEMMA ChannelStart == W!Init => ChannelInv
<1> SUFFICES ASSUME W!Init PROVE ChannelInv
  OBVIOUS
<1>1. /\ wMux = <<>> /\ wSpare = W!NoChannel /\ wNum = 0 /\ wOldNum = 0 /\ ~wUp /\ wFlt = W!Empty /\ wHdrs = {} /\ wRegs = {}
      /\ wHw = [f \in W!Families |-> {}]
  BY DEF W!Init
<1>2. ChannelType
  <2>1. wMux \in Seq(W!Channels) /\ Len(wMux) = 0
    BY <1>1
  <2>2. wFlt = [h \in DOMAIN wFlt |-> wFlt[h]] /\ wHw = [f \in W!Families |-> wHw[f]]
    BY <1>1 DEF W!Empty
  <2>3. QED
    BY <1>1, <2>1, <2>2, WwanAssumption, NoChannelType DEF ChannelType
<1>3. QED
  BY <1>1, <1>2 DEF ChannelInv

\* Steps that touch no channel or rule.
LEMMA ChannelQuiet ==
  ASSUME ChannelInv,
         UNCHANGED <<wUp, wMux, wSpare, wNum, wRules, wOldNum, wHdls, wFlt, wHw, wHdrs, wRegs, wStray>>
  PROVE  ChannelInv'
<1>1. ChannelType'
  BY DEF ChannelInv, ChannelType
<1>2. ChannelsNoted => ChannelsNoted'
  BY DEF ChannelsNoted, ChannelHdrs, ChannelRegs
<1>3. RulesNoted => RulesNoted'
  BY DEF RulesNoted
<1>4. QED
  BY <1>1, <1>2, <1>3 DEF ChannelInv

\* Probing the network device starts from empty tables.
LEMMA ChannelProbeStep == ChannelInv /\ W!Probe => ChannelInv'
<1> SUFFICES ASSUME ChannelInv, W!Probe PROVE ChannelInv'
  OBVIOUS
<1>1. /\ ~wUp /\ ~wStray /\ wUp' /\ wMux' = <<>> /\ wSpare' = W!NoChannel /\ wNum' = 0 /\ wOldNum' = 0
      /\ UNCHANGED <<wFlt, wHw, wHdrs, wRegs, wStray>>
  BY DEF W!Probe
<1>2. wFlt = W!Empty /\ wHdrs = {} /\ wRegs = {} /\ \A f \in W!Families : wHw[f] = {}
  BY <1>1 DEF ChannelInv
<1>3. wMux' \in Seq(W!Channels) /\ Len(wMux') = 0
  BY <1>1
<1>4. ChannelType'
  BY <1>1, <1>3, WwanAssumption, NoChannelType DEF ChannelInv, ChannelType
<1>5. ChannelsNoted'
  <2>1. ChannelHdrs' = {} /\ ChannelRegs' = {}
    BY <1>3 DEF ChannelHdrs, ChannelRegs
  <2>2. QED
    BY <1>1, <1>2, <1>3, <2>1 DEF ChannelsNoted
<1>6. RulesNoted'
  <2>1. DOMAIN wFlt' = {}
    BY <1>1, <1>2 DEF W!Empty
  <2>2. QED
    BY <1>1, <1>2, <2>1 DEF RulesNoted
<1>7. QED
  BY <1>1, <1>4, <1>5, <1>6 DEF ChannelInv

\* The modem's rules are replaced: what is installed is kept, or the change is noted.
LEMMA ChannelInstallStep == ChannelInv /\ W!InstallReq => ChannelInv'
<1> SUFFICES ASSUME ChannelInv, W!InstallReq PROVE ChannelInv'
  OBVIOUS
<1>1. /\ wNum' \in 0 .. MaxRules
      /\ ~wStray' => ~wStray /\ \A i \in 1 .. wOldNum : wRules'[i] = wRules[i]
      /\ UNCHANGED <<wUp, wMux, wSpare, wOldNum, wHdls, wFlt, wHw, wHdrs, wRegs>>
  <2>1. wNum' \in 0 .. MaxRules
    <3>1. PICK n \in 1 .. MaxRules + 1 : (n > MaxRules /\ wNum' = 0) \/ (~(n > MaxRules) /\ wNum' = n)
      BY DEF W!InstallReq
    <3>2. QED
      BY <3>1, WwanAssumption
  <2>2. wStray' = (wStray \/ \E i \in 1 .. wOldNum : wRules'[i] # wRules[i])
    BY DEF W!InstallReq
  <2>3. ~wStray' => ~wStray /\ \A i \in 1 .. wOldNum : wRules'[i] = wRules[i]
    BY <2>2
  <2>4. UNCHANGED <<wUp, wMux, wSpare, wOldNum, wHdls, wFlt, wHw, wHdrs, wRegs>>
    BY DEF W!InstallReq
  <2>5. QED
    BY <2>1, <2>3, <2>4
<1>2. ChannelType'
  BY <1>1 DEF ChannelInv, ChannelType
<1>3. ChannelsNoted => ChannelsNoted'
  BY <1>1 DEF ChannelsNoted, ChannelHdrs, ChannelRegs
<1>4. ~wStray' /\ RulesNoted => RulesNoted'
  BY <1>1 DEF RulesNoted
<1>5. QED
  BY <1>1, <1>2, <1>3, <1>4 DEF ChannelInv

\* The modem's rules arrive.
LEMMA ChannelRespStep == ChannelInv /\ W!InstallResp => ChannelInv'
BY ChannelQuiet DEF W!InstallResp

\* Rules are installed: all of them, into an empty table, or the loss is noted.
LEMMA ChannelAddRules ==
  ASSUME ChannelInv, NEW fails, W!AddUlRules(fails), wNum # 0
  PROVE  /\ wOldNum' = wNum
         /\ wHw' = [f \in W!Families |-> wHw'[f]] /\ wFlt' = [h \in DOMAIN wFlt' |-> wFlt'[h]]
         /\ \A f \in W!Families : wHw'[f] = {h \in DOMAIN wFlt' : wFlt'[h] = f}
         /\ ~wStray' => ~wStray /\ wOldNum = 0
         /\ ~wStray' /\ wFlt = W!Empty =>
              /\ \A i \in 1 .. wNum : wRules[i] # "max" /\ wHdls'[i] \in DOMAIN wFlt'
              /\ \A h \in DOMAIN wFlt' : /\ \E i \in 1 .. wNum : wHdls'[i] = h
                                         /\ \E i \in 1 .. wNum : wRules[i] = wFlt'[h]
<1> DEFINE ok == {i \in 1 .. wNum : wRules[i] # "max" /\ i \notin fails}
<1> DEFINE new == {W!Fresh(i) : i \in ok}
<1> DEFINE of(h) == CHOOSE i \in ok : W!Fresh(i) = h
<1>1. /\ wFlt' = [h \in DOMAIN wFlt \cup new |-> IF h \in new THEN wRules[of(h)] ELSE wFlt[h]]
      /\ wHdls' = [i \in 1 .. MaxRules |-> IF i \in ok THEN W!Fresh(i) ELSE wHdls[i]]
      /\ wHw' = [f \in W!Families |-> {h \in DOMAIN wFlt' : wFlt'[h] = f}]
      /\ wOldNum' = wNum
      /\ wStray' = (wStray \/ ok # 1 .. wNum \/ wOldNum # 0)
  BY DEF W!AddUlRules
<1>2. wHw' = [f \in W!Families |-> wHw'[f]] /\ \A f \in W!Families : wHw'[f] = {h \in DOMAIN wFlt' : wFlt'[h] = f}
  BY <1>1
<1>3. wFlt' = [h \in DOMAIN wFlt' |-> wFlt'[h]] /\ DOMAIN wFlt' = DOMAIN wFlt \cup new
  BY <1>1
<1>4. ~wStray' => ~wStray /\ ok = 1 .. wNum /\ wOldNum = 0
  BY <1>1
<1>5. ASSUME ~wStray', wFlt = W!Empty
      PROVE  /\ \A i \in 1 .. wNum : wRules[i] # "max" /\ wHdls'[i] \in DOMAIN wFlt'
             /\ \A h \in DOMAIN wFlt' : /\ \E i \in 1 .. wNum : wHdls'[i] = h
                                        /\ \E i \in 1 .. wNum : wRules[i] = wFlt'[h]
  <2>1. ok = 1 .. wNum /\ DOMAIN wFlt' = new
    BY <1>3, <1>4, <1>5 DEF W!Empty
  <2>2. \A i \in 1 .. wNum : i \in 1 .. MaxRules
    BY WwanAssumption DEF ChannelInv, ChannelType
  <2>3. \A i \in 1 .. wNum : wRules[i] # "max" /\ wHdls'[i] = W!Fresh(i) /\ W!Fresh(i) \in new
    BY <1>1, <2>1, <2>2
  <2>4. \A h \in new : of(h) \in ok
    OBVIOUS
  <2>5. \A h \in new : wFlt'[h] = wRules[of(h)]
    BY <1>1
  <2>6. QED
    BY <2>1, <2>3, <2>4, <2>5
<1>6. QED
  BY <1>1, <1>2, <1>3, <1>4, <1>5

\* Setting the egress format installs the rules.
LEMMA ChannelEgressStep == ChannelInv /\ W!SetEgress => ChannelInv'
<1> SUFFICES ASSUME ChannelInv, W!SetEgress PROVE ChannelInv'
  OBVIOUS
<1>1. wUp /\ UNCHANGED <<wUp, wMux, wSpare, wNum, wRules, wHdrs, wRegs>>
  BY DEF W!SetEgress
<1>2. ChannelsNoted => ChannelsNoted'
  BY <1>1 DEF ChannelsNoted, ChannelHdrs, ChannelRegs
<1>3. CASE wNum = 0
  <2>1. UNCHANGED <<wFlt, wHdls, wHw, wOldNum, wStray>>
    BY <1>3 DEF W!SetEgress
  <2>2. ChannelType' /\ (RulesNoted => RulesNoted')
    BY <1>1, <2>1 DEF ChannelInv, ChannelType, RulesNoted
  <2>3. QED
    BY <1>1, <1>2, <2>1, <2>2 DEF ChannelInv
<1>4. CASE wNum # 0
  <2>1. PICK fails : W!AddUlRules(fails)
    BY <1>4 DEF W!SetEgress
  <2>2. /\ wOldNum' = wNum
        /\ wHw' = [f \in W!Families |-> wHw'[f]] /\ wFlt' = [h \in DOMAIN wFlt' |-> wFlt'[h]]
        /\ \A f \in W!Families : wHw'[f] = {h \in DOMAIN wFlt' : wFlt'[h] = f}
        /\ ~wStray' => ~wStray /\ wOldNum = 0
        /\ ~wStray' /\ wFlt = W!Empty =>
             /\ \A i \in 1 .. wNum : wRules[i] # "max" /\ wHdls'[i] \in DOMAIN wFlt'
             /\ \A h \in DOMAIN wFlt' : /\ \E i \in 1 .. wNum : wHdls'[i] = h
                                        /\ \E i \in 1 .. wNum : wRules[i] = wFlt'[h]
    BY <1>4, <2>1, ChannelAddRules
  <2>3. ChannelType'
    BY <1>1, <2>2 DEF ChannelInv, ChannelType
  <2>4. ~wStray' => ChannelsNoted /\ RulesNoted /\ wOldNum = 0
    BY <1>1, <2>2 DEF ChannelInv
  <2>5. ~wStray' => wFlt = W!Empty
    <3>1. ASSUME ~wStray' PROVE DOMAIN wFlt = {}
      <4>1. RulesNoted /\ wOldNum = 0
        BY <2>4, <3>1
      <4>2. \A h \in DOMAIN wFlt : \E i \in 1 .. 0 : wHdls[i] = h
        BY <4>1 DEF RulesNoted
      <4>3. 1 .. 0 = {}
        OBVIOUS
      <4>4. QED
        BY <4>2, <4>3
    <3>2. wFlt = [h \in DOMAIN wFlt |-> wFlt[h]]
      BY DEF ChannelInv, ChannelType
    <3>3. QED
      BY <3>1, <3>2 DEF W!Empty
  <2>6. ~wStray' => RulesNoted'
    BY <1>1, <2>2, <2>5 DEF RulesNoted
  <2>7. QED
    BY <1>1, <1>2, <2>3, <2>4, <2>6 DEF ChannelInv
<1>5. QED
  BY <1>3, <1>4

\* Adding a mux channel adds its headers, and its interface if the rules are there.
LEMMA ChannelAddStep == ChannelInv /\ W!AddMux => ChannelInv'
<1> SUFFICES ASSUME ChannelInv, W!AddMux PROVE ChannelInv'
  OBVIOUS
<1>0. wUp /\ UNCHANGED <<wUp, wNum, wRules, wOldNum, wHdls, wFlt, wHw>>
  BY DEF W!AddMux
<1>a. wMux \in Seq(W!Channels) /\ \A i, j \in 1 .. Len(wMux) : wMux[i].id = wMux[j].id => i = j
  BY DEF ChannelInv, ChannelType
<1>b. RulesNoted => RulesNoted'
  BY <1>0 DEF RulesNoted
<1>1. PICK id \in MuxIds, d \in W!Channels :
        /\ ~W!Known(id) /\ d.id = id /\ wSpare' \in W!Channels
        /\ \/ wMux' = wMux /\ wStray'
           \/ /\ wMux' = Append(wMux, d) /\ wSpare' = W!NoChannel /\ (wStray' <=> wStray)
              /\ wSpare = W!NoChannel => /\ wHdrs' = IF d.hdr THEN wHdrs \cup {id} ELSE wHdrs
                                         /\ wRegs' = IF d.reg THEN wRegs \cup {id} ELSE wRegs
                                         /\ d.reg => d.hdr
  <2>0. wSpare \in W!Channels
    BY DEF ChannelInv, ChannelType
  <2>1. PICK id \in MuxIds, res \in {"ok", "nohdr", "nointf"} :
          /\ ~W!Known(id)
          /\ IF wNum # 0
             THEN LET c == [id |-> id, hdr |-> wSpare.hdr, reg |-> wSpare.reg]
                      d == [id |-> id, hdr |-> wSpare.hdr \/ res # "nohdr", reg |-> res = "ok"]
                  IN /\ W!Register(c, res)
                     /\ IF res = "ok" THEN wMux' = Append(wMux, d) /\ wSpare' = W!NoChannel
                                      ELSE wSpare' = d /\ UNCHANGED wMux
                     /\ wStray' = (wStray \/ res # "ok")
             ELSE /\ res = "ok"
                  /\ wMux' = Append(wMux, [id |-> id, hdr |-> wSpare.hdr, reg |-> FALSE])
                  /\ wSpare' = W!NoChannel
                  /\ UNCHANGED <<wHdrs, wRegs, wStray>>
    BY DEF W!AddMux
  <2>2. wSpare.hdr \in BOOLEAN /\ wSpare.reg \in BOOLEAN
    BY <2>0 DEF W!Channels
  <2>3. CASE wNum # 0
    <3> DEFINE d == [id |-> id, hdr |-> wSpare.hdr \/ res # "nohdr", reg |-> res = "ok"]
    <3>1. d \in W!Channels /\ d.id = id /\ (d.reg <=> res = "ok") /\ (d.hdr <=> wSpare.hdr \/ res # "nohdr")
      BY <2>2 DEF W!Channels
    <3>2. /\ wHdrs' = IF ~wSpare.hdr /\ res # "nohdr" THEN wHdrs \cup {id} ELSE wHdrs
          /\ wRegs' = IF res = "ok" THEN wRegs \cup {id} ELSE wRegs
      BY <2>1, <2>3 DEF W!Register
    <3>3. wStray' = (wStray \/ res # "ok")
      BY <2>1, <2>3
    <3>4. IF res = "ok" THEN wMux' = Append(wMux, d) /\ wSpare' = W!NoChannel
                        ELSE wSpare' = d /\ wMux' = wMux
      BY <2>1, <2>3
    <3>5. wSpare = W!NoChannel => ~wSpare.hdr
      BY DEF W!NoChannel
    <3> HIDE DEF d
    <3>6. CASE res = "ok"
      <4>1. wStray' <=> wStray
        BY <3>3, <3>6
      <4>2. wSpare' \in W!Channels
        BY <3>4, <3>6, NoChannelType
      <4>3. QED
        BY <2>1, <3>1, <3>2, <3>4, <3>5, <3>6, <4>1, <4>2
    <3>7. CASE res # "ok"
      BY <2>1, <3>1, <3>3, <3>4, <3>7
    <3>8. QED
      BY <3>6, <3>7
  <2>4. CASE wNum = 0
    <3> DEFINE d == [id |-> id, hdr |-> wSpare.hdr, reg |-> FALSE]
    <3>1. d \in W!Channels /\ d.id = id /\ ~d.reg /\ (d.hdr <=> wSpare.hdr)
      BY <2>2 DEF W!Channels
    <3>2. wMux' = Append(wMux, d) /\ wSpare' = W!NoChannel /\ UNCHANGED <<wHdrs, wRegs, wStray>>
      BY <2>1, <2>4
    <3>3. wSpare = W!NoChannel => ~wSpare.hdr
      BY DEF W!NoChannel
    <3> HIDE DEF d
    <3>4. QED
      BY <2>1, <3>1, <3>2, <3>3, NoChannelType
  <2>5. QED
    BY <2>3, <2>4
<1>2. CASE wMux' = wMux /\ wStray'
  BY <1>0, <1>1, <1>2 DEF ChannelInv, ChannelType
<1>3. CASE /\ wMux' = Append(wMux, d) /\ wSpare' = W!NoChannel /\ (wStray' <=> wStray)
           /\ wSpare = W!NoChannel => /\ wHdrs' = IF d.hdr THEN wHdrs \cup {id} ELSE wHdrs
                                      /\ wRegs' = IF d.reg THEN wRegs \cup {id} ELSE wRegs
                                      /\ d.reg => d.hdr
  <2> DEFINE n == Len(wMux)
  <2>1. /\ n \in Nat /\ Len(wMux') = n + 1 /\ wMux'[n + 1] = d /\ wMux' \in Seq(W!Channels)
        /\ \A i \in 1 .. n : wMux'[i] = wMux[i]
        /\ \A i \in 1 .. n + 1 : i \in 1 .. n \/ i = n + 1
    BY <1>3, <1>a
  <2>2. \A i \in 1 .. n : wMux[i].id # id
    BY <1>1 DEF W!Known
  <2>3. \A i, j \in 1 .. n + 1 : wMux'[i].id = wMux'[j].id => i = j
    BY <1>1, <1>a, <2>1, <2>2
  <2>4. ChannelType'
    BY <1>0, <1>1, <2>1, <2>3 DEF ChannelInv, ChannelType
  <2>5. ASSUME ~wStray' PROVE ChannelsNoted'
    <3>1. ChannelsNoted
      BY <1>0, <1>3, <2>5 DEF ChannelInv
    <3>2. ChannelHdrs' = IF d.hdr THEN ChannelHdrs \cup {id} ELSE ChannelHdrs
      BY <1>1, <2>1 DEF ChannelHdrs
    <3>3. ChannelRegs' = IF d.reg THEN ChannelRegs \cup {id} ELSE ChannelRegs
      BY <1>1, <2>1 DEF ChannelRegs
    <3>4. QED
      BY <1>1, <1>3, <2>1, <3>1, <3>2, <3>3 DEF ChannelsNoted
  <2>6. QED
    BY <1>0, <1>3, <1>b, <2>4, <2>5 DEF ChannelInv
<1>4. QED
  BY <1>1, <1>2, <1>3

\* Removing the device takes out what was noted.
LEMMA ChannelRemoveStep == ChannelInv /\ W!Remove => ChannelInv'
<1> SUFFICES ASSUME ChannelInv, W!Remove PROVE ChannelInv'
  OBVIOUS
<1> DEFINE gone == {wHdls[i] : i \in W!Deleted}
<1>1. /\ wUp /\ ~wUp' /\ wFlt' = [h \in DOMAIN wFlt \ gone |-> wFlt[h]]
      /\ wHw' = [f \in W!Families |->
                   IF \E i \in W!Deleted : wRules[i] = f
                   THEN {h \in DOMAIN wFlt' : wFlt'[h] = f} ELSE wHw[f]]
      /\ wHdrs' = wHdrs \ W!HdrsOf /\ wRegs' = wRegs \ W!RegsOf /\ wMux' = <<>>
      /\ wSpare' = W!NoChannel /\ UNCHANGED <<wNum, wRules, wOldNum, wHdls, wStray>>
  BY DEF W!Remove
<1>2. ChannelType'
  <2>1. wMux' \in Seq(W!Channels) /\ Len(wMux') = 0
    BY <1>1
  <2>2. wFlt' = [h \in DOMAIN wFlt' |-> wFlt'[h]] /\ wHw' = [f \in W!Families |-> wHw'[f]]
    BY <1>1
  <2>3. QED
    BY <1>1, <2>1, <2>2, NoChannelType DEF ChannelInv, ChannelType
<1>3. ASSUME ~wStray
      PROVE  wFlt' = W!Empty /\ wHdrs' = {} /\ wRegs' = {} /\ \A f \in W!Families : wHw'[f] = {}
  <2>1. ChannelsNoted /\ RulesNoted
    BY <1>1, <1>3 DEF ChannelInv
  <2>2. wHdrs' = {} /\ wRegs' = {}
    BY <1>1, <2>1 DEF ChannelsNoted, ChannelHdrs, ChannelRegs, W!HdrsOf, W!RegsOf
  <2>3. W!Deleted = 1 .. wOldNum
    <3>1. wOldNum \in Nat
      BY DEF ChannelInv, ChannelType
    <3>2. \A i \in 1 .. wOldNum : \A j \in 1 .. i : j \in 1 .. wOldNum
      BY <3>1
    <3>3. QED
      BY <2>1, <3>2 DEF W!Deleted, W!Deletable, RulesNoted
  <2>a. /\ \A h \in DOMAIN wFlt : \E i \in 1 .. wOldNum : wHdls[i] = h
        /\ \A h \in DOMAIN wFlt : \E i \in 1 .. wOldNum : wRules[i] = wFlt[h]
        /\ \A f \in W!Families : wHw[f] = {h \in DOMAIN wFlt : wFlt[h] = f}
    BY <2>1 DEF RulesNoted
  <2>4. DOMAIN wFlt \ gone = {}
    BY <2>a, <2>3
  <2>5. wFlt' = W!Empty /\ DOMAIN wFlt' = {}
    BY <1>1, <2>4 DEF W!Empty
  <2>6. ASSUME NEW f \in W!Families PROVE wHw'[f] = {}
    <3>1. CASE \E i \in W!Deleted : wRules[i] = f
      BY <1>1, <2>5, <3>1
    <3>2. CASE ~\E i \in W!Deleted : wRules[i] = f
      <4>1. wHw'[f] = {h \in DOMAIN wFlt : wFlt[h] = f}
        BY <1>1, <2>a, <3>2
      <4>2. QED
        BY <2>a, <2>3, <3>2, <4>1
    <3>3. QED
      BY <3>1, <3>2
  <2>7. QED
    BY <2>2, <2>5, <2>6
<1>4. QED
  BY <1>1, <1>2, <1>3 DEF ChannelInv

\* What the WWAN driver puts into the IPA's tables, for any number of mux channels and
\* rules and however often it is probed: a removed device leaves nothing behind unless a
\* call failed or rules changed under it, and channels do not share an id (rmnet_ipa.c).
THEOREM WwanTablesAreSound == MCSpec => []WwanTablesSound
<1>1. MCInit => ChannelInv
  BY ChannelStart DEF MCInit
<1>2. ChannelInv /\ [MCNext]_allVars => ChannelInv'
  <2> SUFFICES ASSUME ChannelInv, [MCNext]_allVars PROVE ChannelInv'
    OBVIOUS
  <2>1. CASE Wwan
    BY <2>1, ChannelProbeStep, ChannelInstallStep, ChannelRespStep, ChannelEgressStep,
       ChannelAddStep, ChannelRemoveStep DEF Wwan, W!Next
  <2>2. CASE UNCHANGED wVars
    BY <2>2, ChannelQuiet DEF wVars
  <2>3. QED
    BY <2>1, <2>2, PartSteps
<1>3. ChannelInv => WwanTablesSound
  <2> SUFFICES ASSUME ChannelInv PROVE WwanTablesSound
    OBVIOUS
  <2>1. W!RemovedClean
    BY DEF ChannelInv, W!RemovedClean
  <2>2. ASSUME ~wStray, NEW i \in 1 .. Len(wMux), wMux[i].reg
        PROVE  wMux[i].id \in wHdrs /\ wMux[i].id \in wRegs
    <3>1. CASE wUp
      BY <2>2, <3>1 DEF ChannelInv, ChannelsNoted, ChannelHdrs, ChannelRegs
    <3>2. CASE ~wUp
      <4>1. Len(wMux) = 0
        BY <2>2, <3>2 DEF ChannelInv
      <4>2. QED
        BY <4>1
    <3>3. QED
      BY <3>1, <3>2
  <2>3. W!ChannelsDistinct
    BY <2>2 DEF ChannelInv, ChannelType, W!ChannelsDistinct
  <2>4. QED
    BY <2>1, <2>3 DEF WwanTablesSound
<1>4. QED
  BY <1>1, <1>2, <1>3, PTL DEF MCSpec
===============================================================================
