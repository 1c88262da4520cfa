--------------------------- MODULE DatapathProofs ---------------------------
(***************************************************************************)
(* Proofs about what the driver exchanges with the hardware, for every     *)
(* number of callers, retries, packets and buffers.                        *)
(***************************************************************************)
EXTENDS MCDatapath, SequenceTheorems, FiniteSetTheorems, WellFoundedInduction, TLAPS

-----------------------------------------------------------------------------
(* The microcontroller's mailbox.  The invariant says where the answer of   *)
(* the command under way is at each point of ipa_uc_send_cmd(), and that an *)
(* interrupt work that is still queued, or still at it, when a command is   *)
(* armed belongs to a polled command: only those return without their work  *)
(* having ended, and no waited command has their number.  A work that no    *)
(* command was rung for since it read the mailbox has what is there.        *)
UcOps == U!Polled \cup U!Waited
UcStates == {"idle", "arm", "ring", "poll", "wait", "done"}
UcAnswers == {"0", "error", "retry"}
UcRsps == [op : {"INIT_COMPLETED", "CMD_COMPLETED"}, cmd : UcOps \cup {NONE},
           status : UcAnswers]

UcType ==
  /\ uInited \in BOOLEAN /\ uLoaded \in BOOLEAN /\ uHolb \in BOOLEAN /\ uIrq \in BOOLEAN
  /\ uOwner \in Callers \cup {NONE}
  /\ uPc \in [Callers -> UcStates]
  /\ uOp \in UcOps \cup {NONE} /\ uPending \in UcOps \cup {NONE}
  /\ uCompletion \in BOOLEAN /\ uStatus \in UcAnswers /\ uDoorbell \in BOOLEAN
  /\ uRsp \in UcRsps \cup {NONE}
  /\ uAnswer \in UcAnswers \cup {NONE} /\ uHeard \in BOOLEAN
  /\ uFresh \in BOOLEAN

\* uc_lock: one command at a time, and only once the firmware is up.
UcOneCommand ==
  /\ \A c \in Callers : uPc[c] # "idle" => uOwner = c
  /\ \A c \in Callers : uPc[c] # "idle" => uLoaded /\ uOp \in UcOps
  /\ uHolb => uLoaded
UcRung == \E c \in Callers : uPc[c] \in {"poll", "wait"}

\* The microcontroller is at work on the command that was rung for.
UcDoorbell == uDoorbell => UcRung /\ uRsp = NONE /\ uAnswer = NONE

\* The work, with what it read.
UcWork ==
  /\ uHdlr \in {"idle", "compare", "status", "complete"}
  /\ uHdlr # "idle" => uTaken \in UcRsps
  /\ uFresh => /\ uHdlr # "idle" /\ ~uIrq
                /\ uTaken = uRsp /\ uRsp # NONE /\ uRsp.op = "CMD_COMPLETED"

\* The work of an earlier command's interrupt is still queued, or at it.
UcStaleWork ==
  (~UcRung /\ (uIrq \/ uFresh) /\ uRsp # NONE /\ uRsp.op = "CMD_COMPLETED")
    => uRsp.cmd \in U!Polled

\* The answer is in the mailbox, and in uc_status once the work took it.
UcMailbox ==
  \/ uRsp = NONE /\ uAnswer = NONE
  \/ /\ uAnswer \in UcAnswers
     /\ uRsp = [op |-> "CMD_COMPLETED", cmd |-> uOp, status |-> uAnswer]
UcTaken ==
  /\ uHeard => uStatus = uAnswer
  /\ ~uHeard => uStatus = "0"
UcPlace(c) ==
  /\ uPc[c] = "ring" =>
       /\ uPending = uOp /\ uAnswer = NONE /\ ~uHeard
       /\ uOp \in U!Waited => ~uCompletion
       /\ uOp \in U!Waited => ~(uFresh /\ uHdlr \in {"status", "complete"})
  /\ uPc[c] = "poll" =>
       /\ uOp \in U!Polled /\ uPending = uOp
       /\ UcMailbox /\ UcTaken /\ uAnswer # "retry"
       /\ uHeard => uAnswer # NONE
  /\ uPc[c] = "wait" =>
       /\ uOp \in U!Waited /\ uPending = uOp
       /\ UcMailbox /\ UcTaken
       /\ uCompletion => uHeard /\ ~uIrq /\ uHdlr = "idle"
       /\ uFresh /\ uHdlr = "complete" => uHeard
       /\ uHeard => uAnswer # NONE
  /\ uPc[c] = "done" =>
       /\ uAnswer # NONE /\ UcMailbox /\ UcTaken
       /\ uOp \in U!Polled => uAnswer # "retry"
       /\ uOp \in U!Waited => uHeard /\ ~uIrq /\ uHdlr = "idle"

UcSound ==
  /\ UcType /\ UcOneCommand /\ UcDoorbell /\ UcWork /\ UcStaleWork
  /\ \A c \in Callers : UcPlace(c)
  /\ U!ReturnMatchesAnswer
UcInv == ~uOvertaken => UcSound

\* Steps of the interface and the firmware.
LEMMA UcOtherSteps ==
  ASSUME UcInv, ~uOvertaken
  PROVE  /\ U!InterfaceInit => UcInv'
         /\ U!FirmwareStarts => UcInv'
         /\ \A s \in UcAnswers : U!Answer(s) => UcInv'
<1> UcSound
  BY DEF UcInv
<1>1. U!InterfaceInit => UcInv'
  BY NoneAssumption
  DEF U!InterfaceInit, UcInv, UcSound, UcType, UcOneCommand, UcDoorbell, UcStaleWork, UcPlace, UcRung,
           UcWork, UcMailbox, UcTaken, UcStates, UcAnswers, UcOps, UcRsps, U!Polled, U!Waited,
           U!ReturnMatchesAnswer, U!work
<1>2. U!FirmwareStarts => UcInv'
  BY NoneAssumption
  DEF U!FirmwareStarts, UcInv, UcSound, UcType, UcOneCommand, UcDoorbell, UcStaleWork, UcPlace, UcRung,
           UcWork, UcMailbox, UcTaken, UcStates, UcAnswers, UcOps, UcRsps, U!Polled, U!Waited,
           U!ReturnMatchesAnswer, U!work
<1>4. ASSUME NEW s \in UcAnswers, U!Answer(s) PROVE UcInv'
  <2>1. PICK c \in Callers : uPc[c] \in {"poll", "wait"}
    BY <1>4 DEF U!Answer, UcSound, UcDoorbell, UcRung
  <2>2. \A d \in Callers : d # c => uPc[d] = "idle"
    BY <2>1 DEF UcSound, UcOneCommand
  <2>0. ~uFresh
    BY <1>4, NoneAssumption DEF U!Answer, UcSound, UcDoorbell, UcWork, UcRsps
  <2>3. /\ uRsp' = [op |-> "CMD_COMPLETED", cmd |-> uOp, status |-> s]
        /\ uAnswer' = s /\ s # NONE /\ uOp \in UcOps /\ ~uHeard
        /\ s = "retry" => uOp \in U!Waited
    BY <1>4, <2>1, NoneAssumption
    DEF U!Answer, UcSound, UcOneCommand, UcDoorbell, UcPlace, UcAnswers
  <2>4. UcType'
    <3>1. uRsp' \in UcRsps
      BY <2>3 DEF UcRsps
    <3> QED BY <1>4, <2>3, <3>1 DEF U!Answer, UcSound, UcType, U!work
  <2>5. UcOneCommand' /\ UcDoorbell' /\ UcWork' /\ UcStaleWork' /\ U!ReturnMatchesAnswer'
    BY <1>4, <2>0, <2>1 DEF U!Answer, UcSound, UcOneCommand, UcDoorbell, UcStaleWork, UcRung,
                      UcWork, U!work, U!ReturnMatchesAnswer
  <2>6. UcPlace(c)'
    BY <1>4, <2>0, <2>1, <2>3
    DEF U!Answer, UcSound, UcPlace, UcMailbox, UcTaken, U!Polled, U!Waited, U!work
  <2>7. \A d \in Callers : UcPlace(d)'
    BY <1>4, <2>2, <2>6 DEF U!Answer, UcPlace
  <2> QED BY <2>4, <2>5, <2>7 DEF UcInv, UcSound
<1> QED BY <1>1, <1>2, <1>4

\* The steps of the interrupt's work.
LEMMA UcWorkSteps ==
  ASSUME UcInv, ~uOvertaken
  PROVE  /\ U!ResponseHdlr => UcInv'
         /\ U!Compare => UcInv'
         /\ U!WriteStatus => UcInv'
         /\ U!Complete => UcInv'
<1> UcSound
  BY DEF UcInv
<1>1. ASSUME U!ResponseHdlr PROVE UcInv'
  <2> DEFINE done == uRsp # NONE /\ uRsp.op = "CMD_COMPLETED"
  <2>1. /\ uIrq /\ ~uIrq' /\ uHdlr = "idle" /\ ~uFresh
        /\ done => uHdlr' = "compare" /\ uTaken' = uRsp
        /\ ~done => uHdlr' = "idle"
        /\ uFresh' = done
        /\ UNCHANGED <<uInited, uOwner, uPc, uOp, uRetries, uPending, uCompletion, uStatus,
                       uDoorbell, uRsp, uAnswer, uHeard, uLast, uSends, uPanic, uOvertaken>>
    BY <1>1 DEF U!ResponseHdlr, UcSound, UcWork
  <2>2. UcType'
    BY <1>1, <2>1 DEF U!ResponseHdlr, UcSound, UcType
  <2>3. UcDoorbell' /\ UcWork' /\ U!ReturnMatchesAnswer'
    BY <2>1 DEF UcSound, UcDoorbell, UcWork, UcType, UcRung, U!ReturnMatchesAnswer
  <2>4. UcStaleWork'
    BY <2>1 DEF UcSound, UcStaleWork, UcRung
  <2>5. UcOneCommand'
    <3>1. (uLoaded => uLoaded') /\ (uHolb' => uHolb \/ uLoaded')
      BY <1>1 DEF U!ResponseHdlr
    <3> QED BY <2>1, <3>1 DEF UcSound, UcOneCommand
  <2>6. ASSUME NEW c \in Callers PROVE UcPlace(c)'
    <3>1. UcPlace(c)
      BY DEF UcSound
    <3>2. uHdlr' \notin {"status", "complete"}
      BY <2>1
    <3>3. (UcMailbox <=> UcMailbox') /\ (UcTaken <=> UcTaken')
      BY <2>1 DEF UcMailbox, UcTaken
    <3> QED BY <2>1, <3>1, <3>2, <3>3 DEF UcPlace
  <2> QED BY <2>2, <2>3, <2>4, <2>5, <2>6 DEF UcInv, UcSound
<1>2. ASSUME U!Compare PROVE UcInv'
  <2>1. /\ uHdlr = "compare"
        /\ \/ uTaken.cmd = uPending /\ uHdlr' = "status" /\ uTaken' = uTaken /\ uFresh' = uFresh
           \/ uHdlr' = "idle" /\ ~uFresh' /\ uFresh' \in BOOLEAN
        /\ UNCHANGED <<uInited, uLoaded, uOwner, uPc, uOp, uRetries, uPending, uCompletion,
                       uStatus, uDoorbell, uRsp, uIrq, uOvertaken, uHolb, uAnswer, uHeard,
                       uLast, uSends, uPanic>>
    BY <1>2 DEF U!Compare, U!HdlrEnds
  <2>2. UcType' /\ UcOneCommand' /\ UcDoorbell' /\ UcWork' /\ UcStaleWork' /\ U!ReturnMatchesAnswer'
    BY <2>1 DEF UcSound, UcType, UcOneCommand, UcDoorbell, UcWork, UcStaleWork, UcRung,
                U!ReturnMatchesAnswer
  <2>3. ASSUME NEW c \in Callers PROVE UcPlace(c)'
    <3>1. UcPlace(c) /\ UcStaleWork /\ UcWork /\ UcOneCommand
      BY DEF UcSound
    <3>2. (UcMailbox <=> UcMailbox') /\ (UcTaken <=> UcTaken')
      BY <2>1 DEF UcMailbox, UcTaken
    <3>3. CASE uPc[c] = "ring"
      <4>1. ~UcRung
        BY <3>1, <3>3 DEF UcRung, UcOneCommand
      <4>2. uFresh /\ uTaken.cmd = uPending => uOp \in U!Polled
        BY <3>1, <3>3, <4>1, NoneAssumption, <2>1 DEF UcStaleWork, UcPlace, UcWork, UcRsps
      <4>3. uOp \in U!Polled => uOp \notin U!Waited
        BY DEF U!Polled, U!Waited
      <4> QED BY <2>1, <3>1, <3>3, <4>2, <4>3 DEF UcPlace
    <3>4. CASE uPc[c] # "ring"
      BY <2>1, <3>1, <3>2, <3>4 DEF UcPlace
    <3> QED BY <3>3, <3>4
  <2> QED BY <2>2, <2>3 DEF UcInv, UcSound
<1>3. ASSUME U!WriteStatus PROVE UcInv'
  <2> SUFFICES ASSUME ~uOvertaken' PROVE UcSound'
    BY DEF UcInv
  <2>1. /\ uHdlr = "status" /\ uHdlr' = "complete" /\ uStatus' = uTaken.status
        /\ uHeard' = (uHeard \/ uAnswer # NONE)
        /\ UNCHANGED <<uInited, uLoaded, uOwner, uPc, uOp, uRetries, uPending, uCompletion,
                       uDoorbell, uRsp, uIrq, uTaken, uFresh, uHolb, uAnswer, uLast, uSends,
                       uPanic>>
    BY <1>3 DEF U!WriteStatus
  <2>2. uFresh \/ uOwner = NONE
    BY <1>3 DEF U!WriteStatus, U!Overtakes
  <2>3. UcType'
    BY <2>1 DEF UcSound, UcType, UcWork, UcRsps
  <2>4. UcOneCommand' /\ UcDoorbell' /\ UcWork' /\ UcStaleWork' /\ U!ReturnMatchesAnswer'
    BY <1>3, <2>1 DEF UcSound, UcOneCommand, UcDoorbell, UcWork, UcStaleWork, UcRung,
                U!ReturnMatchesAnswer
  <2>5. ASSUME NEW c \in Callers PROVE UcPlace(c)'
    <3>1. UcPlace(c) /\ UcWork /\ UcOneCommand
      BY DEF UcSound
    <3>2. CASE uPc[c] = "ring"
      BY <2>1, <3>1, <3>2 DEF UcPlace
    <3>3. CASE uPc[c] \in {"poll", "wait", "done"}
      <4>1. uFresh
        BY <2>2, <3>1, <3>3, NoneAssumption DEF UcOneCommand
      <4>2. UcMailbox /\ UcMailbox'
        BY <2>1, <3>1, <3>3 DEF UcPlace, UcMailbox
      <4>3. uTaken.status = uAnswer /\ uAnswer \in UcAnswers /\ uAnswer # NONE
        BY <3>1, <4>1, <4>2, NoneAssumption DEF UcMailbox, UcAnswers, UcWork, UcRsps
      <4>4. uHeard' /\ UcTaken'
        BY <2>1, <4>3 DEF UcTaken
      <4> QED BY <2>1, <3>1, <3>3, <4>2, <4>3, <4>4 DEF UcPlace
    <3> QED BY <2>1, <3>2, <3>3 DEF UcPlace
  <2> QED BY <2>3, <2>4, <2>5 DEF UcSound
<1>4. ASSUME U!Complete PROVE UcInv'
  <2> SUFFICES ASSUME ~uOvertaken' PROVE UcSound'
    BY DEF UcInv
  <2>1. /\ uHdlr = "complete" /\ uHdlr' = "idle" /\ uFresh' = FALSE /\ uCompletion' = TRUE
        /\ UNCHANGED <<uInited, uLoaded, uOwner, uPc, uOp, uRetries, uPending, uStatus,
                       uDoorbell, uRsp, uIrq, uHolb, uAnswer, uHeard, uLast, uSends,
                       uPanic>>
    BY <1>4 DEF U!Complete, U!HdlrEnds
  <2>2. uFresh \/ uOwner = NONE
    BY <1>4 DEF U!Complete, U!Overtakes
  <2>3. UcType'
    BY <2>1 DEF UcSound, UcType
  <2>4. UcOneCommand' /\ UcDoorbell' /\ UcWork' /\ UcStaleWork' /\ U!ReturnMatchesAnswer'
    BY <1>4, <2>1 DEF UcSound, UcOneCommand, UcDoorbell, UcWork, UcStaleWork, UcRung,
                U!ReturnMatchesAnswer
  <2>5. ASSUME NEW c \in Callers PROVE UcPlace(c)'
    <3>1. UcPlace(c) /\ UcWork /\ UcOneCommand
      BY DEF UcSound
    <3>2. (UcMailbox <=> UcMailbox') /\ (UcTaken <=> UcTaken')
      BY <2>1 DEF UcMailbox, UcTaken
    <3>3. uPc[c] # "idle" => uFresh /\ ~uIrq
      BY <2>2, <3>1, NoneAssumption DEF UcOneCommand, UcWork
    <3> QED BY <2>1, <3>1, <3>2, <3>3 DEF UcPlace
  <2> QED BY <2>3, <2>4, <2>5 DEF UcSound
<1> QED BY <1>1, <1>2, <1>3, <1>4

\* A command begins, and pending_cmd is written while the mailbox still holds
\* the answer of an earlier one.
LEMMA UcBeginSteps ==
  ASSUME UcInv, ~uOvertaken, NEW c \in Callers
  PROVE  /\ \A o \in UcOps : U!Begin(c, o) => UcInv'
         /\ U!HolbWork(c) => UcInv'
         /\ U!Arm(c) => UcInv'
<1> UcSound
  BY DEF UcInv
<1>1. ASSUME NEW o \in UcOps, U!Begin(c, o) PROVE UcInv'
  BY <1>1, NoneAssumption
  DEF U!Begin, UcInv, UcSound, UcType, UcOneCommand, UcDoorbell, UcStaleWork, UcPlace, UcRung,
           UcWork, U!work, UcMailbox, UcTaken, UcStates, UcAnswers, UcOps, UcRsps, U!Polled, U!Waited,
           U!ReturnMatchesAnswer
<1>2. ASSUME U!HolbWork(c) PROVE UcInv'
  <2>1. \A d \in Callers : uPc[d] = "idle"
    BY <1>2, NoneAssumption DEF U!HolbWork, UcSound, UcOneCommand
  <2>2. uPc'[c] = "arm" /\ \A d \in Callers : d # c => uPc'[d] = "idle"
    BY <1>2, <2>1 DEF U!HolbWork, UcSound, UcType
  <2>3. ~UcRung /\ ~UcRung'
    BY <2>1, <2>2 DEF UcRung
  <2>4. UcType'
    BY <1>2 DEF U!HolbWork, UcSound, UcType, UcStates, UcOps, U!Waited, U!work
  <2>5. UcOneCommand'
    BY <1>2, <2>2 DEF U!HolbWork, UcSound, UcOneCommand, UcOps, U!Waited
  <2>6. UcDoorbell' /\ UcWork' /\ UcStaleWork'
    BY <1>2, <2>3 DEF U!HolbWork, UcSound, UcDoorbell, UcStaleWork, UcWork, UcType, U!work
  <2>7. \A d \in Callers : UcPlace(d)'
    BY <2>2 DEF UcPlace
  <2>8. U!ReturnMatchesAnswer'
    BY <1>2 DEF U!HolbWork, UcSound, U!ReturnMatchesAnswer
  <2> QED BY <2>4, <2>5, <2>6, <2>7, <2>8 DEF UcInv, UcSound
<1>3. ASSUME U!Arm(c) PROVE UcInv'
  <2>1. uPc[c] = "arm" /\ uPc' = [uPc EXCEPT ![c] = "ring"] /\ uOwner = c
    BY <1>3 DEF U!Arm, UcSound, UcOneCommand
  <2>2. \A d \in Callers : d # c => uPc[d] = "idle" /\ uPc'[d] = "idle"
    BY <2>1 DEF UcSound, UcOneCommand, UcType
  <2>3. uPc'[c] = "ring" /\ ~UcRung /\ ~UcRung'
    BY <2>1, <2>2 DEF UcSound, UcType, UcRung
  <2>4. UcType'
    BY <1>3, <2>1 DEF U!Arm, UcSound, UcType, UcStates, UcOneCommand
  <2>5. UcOneCommand'
    BY <1>3, <2>1, <2>2, <2>3 DEF U!Arm, UcSound, UcOneCommand
  <2>6. UcDoorbell' /\ UcWork' /\ UcStaleWork'
    BY <1>3, <2>3 DEF U!Arm, UcSound, UcDoorbell, UcStaleWork, UcWork, UcType, U!work
  <2>7. \A d \in Callers : UcPlace(d)'
    BY <1>3, <2>2, <2>3 DEF U!Arm, UcPlace
  <2>8. U!ReturnMatchesAnswer'
    BY <1>3 DEF U!Arm, UcSound, U!ReturnMatchesAnswer
  <2> QED BY <2>4, <2>5, <2>6, <2>7, <2>8 DEF UcInv, UcSound
<1> QED BY <1>1, <1>2, <1>3

\* The doorbell rings, the answer is seen, and the command returns or goes again.
LEMMA UcCommandSteps ==
  ASSUME UcInv, ~uOvertaken, NEW c \in Callers
  PROVE  /\ U!Ring(c) => UcInv'
         /\ U!PollSees(c) => UcInv'
         /\ U!WaitEnds(c) => UcInv'
         /\ U!GiveUp(c) => UcInv'
         /\ U!Return(c) => UcInv'
         /\ U!Retry(c) => UcInv'
<1> UcSound
  BY DEF UcInv
<1>1. ASSUME U!Ring(c) PROVE UcInv'
  <2>1. /\ uPc[c] = "ring" /\ uRsp' = NONE /\ uStatus' = "0" /\ uDoorbell' = TRUE
        /\ uPc' = [uPc EXCEPT ![c] = IF uOp \in U!Polled THEN "poll" ELSE "wait"]
        /\ uFresh' = FALSE
        /\ UNCHANGED <<uHdlr, uTaken, uOvertaken, uInited, uLoaded, uOwner, uOp, uPending,
                       uCompletion, uIrq, uHolb, uAnswer, uHeard, uLast>>
    BY <1>1 DEF U!Ring
  <2>2. /\ uOwner = c /\ uOp \in UcOps
        /\ \A d \in Callers : d # c => uPc[d] = "idle" /\ uPc'[d] = "idle"
    BY <2>1 DEF UcSound, UcOneCommand, UcType
  <2>3. /\ uPc'[c] \in {"poll", "wait"}
        /\ uOp \in U!Polled => uPc'[c] = "poll"
        /\ uOp \notin U!Polled => uPc'[c] = "wait" /\ uOp \in U!Waited
    BY <2>1, <2>2 DEF UcSound, UcType, UcOps
  <2>4. UcType'
    BY <2>1 DEF UcSound, UcType, UcStates, UcAnswers
  <2>5. UcOneCommand' /\ UcWork' /\ U!ReturnMatchesAnswer'
    BY <2>1, <2>2 DEF UcSound, UcOneCommand, UcWork, U!ReturnMatchesAnswer
  <2>6. UcRung' /\ UcStaleWork'
    BY <2>3 DEF UcRung, UcStaleWork
  <2>7. UcPlace(c) /\ uAnswer = NONE
    BY <2>1 DEF UcSound, UcPlace
  <2>8. UcDoorbell' /\ UcMailbox' /\ UcTaken'
    BY <2>1, <2>6, <2>7 DEF UcDoorbell, UcMailbox, UcTaken, UcPlace
  <2>9. UcPlace(c)'
    BY <2>1, <2>3, <2>7, <2>8, NoneAssumption DEF UcPlace
  <2> QED BY <2>2, <2>4, <2>5, <2>6, <2>8, <2>9 DEF UcInv, UcSound, UcPlace
<1>2. U!PollSees(c) => UcInv'
  BY NoneAssumption
  DEF U!PollSees, UcInv, UcSound, UcType, UcOneCommand, UcDoorbell, UcStaleWork, UcPlace, UcRung,
           UcWork, UcMailbox, UcTaken, UcStates, UcAnswers, UcOps, UcRsps, U!Polled, U!Waited,
           U!ReturnMatchesAnswer, U!work
<1>3. U!WaitEnds(c) => UcInv'
  BY NoneAssumption
  DEF U!WaitEnds, UcInv, UcSound, UcType, UcOneCommand, UcDoorbell, UcStaleWork, UcPlace, UcRung,
           UcWork, UcMailbox, UcTaken, UcStates, UcAnswers, UcOps, UcRsps, U!Polled, U!Waited,
           U!ReturnMatchesAnswer, U!work
<1>4. U!GiveUp(c) => UcInv'
  BY NoneAssumption
  DEF U!GiveUp, UcInv, UcSound, UcType, UcOneCommand, UcDoorbell, UcStaleWork, UcPlace, UcRung,
           UcWork, UcMailbox, UcTaken, UcStates, UcAnswers, UcOps, UcRsps, U!Polled, U!Waited,
           U!ReturnMatchesAnswer, U!work
<1>5. U!Return(c) => UcInv'
  BY NoneAssumption
  DEF U!Return, UcInv, UcSound, UcType, UcOneCommand, UcDoorbell, UcStaleWork, UcPlace, UcRung,
           UcWork, UcMailbox, UcTaken, UcStates, UcAnswers, UcOps, UcRsps, U!Polled, U!Waited,
           U!ReturnMatchesAnswer, U!work
<1>6. U!Retry(c) => UcInv'
  BY NoneAssumption
  DEF U!Retry, UcInv, UcSound, UcType, UcOneCommand, UcDoorbell, UcStaleWork, UcPlace, UcRung,
           UcWork, UcMailbox, UcTaken, UcStates, UcAnswers, UcOps, UcRsps, U!Polled, U!Waited,
           U!ReturnMatchesAnswer, U!work
<1> QED BY <1>1, <1>2, <1>3, <1>4, <1>5, <1>6

\* No step breaks the invariant; the other parts leave the mailbox alone.
LEMMA UcStep == UcInv /\ [MCNext]_allVars => UcInv'
<1> SUFFICES ASSUME UcInv, [MCNext]_allVars PROVE UcInv'
  OBVIOUS
<1>1. CASE Microcontroller
  <2>1. U!Next /\ ~uOvertaken
    BY <1>1 DEF Microcontroller, U!Next
  <2> QED BY <2>1, UcOtherSteps, UcWorkSteps, UcBeginSteps, UcCommandSteps
             DEF U!Next, UcAnswers, UcOps
<1>2. CASE UNCHANGED uVars
  BY <1>2 DEF uVars, UcInv, UcSound, UcType, UcOneCommand, UcDoorbell, UcStaleWork, UcPlace, UcRung,
           UcWork, UcMailbox, UcTaken, UcStates, UcAnswers, UcOps, UcRsps, U!Polled, U!Waited,
           U!ReturnMatchesAnswer, U!work
<1> QED BY <1>1, <1>2 DEF MCNext, Fifo, Tx, Rx, Parse, allVars

\* A command to the microcontroller never returns 0 for an error, but for a
\* polled one whose answer nobody took, and the interrupt of one command, however
\* late its work runs, never ends the wait for another, as long as no command is sent
\* between the comparison and the writes of an earlier one's work: for any number of
\* callers (ipa_uc_send_cmd(), ipa_uc_response_hdlr()).
THEOREM UcAnswersAreRight == MCSpec => []UcAnswersMatch
<1>1. MCInit => UcInv
  BY NoneAssumption
  DEF MCInit, U!Init, UcInv, UcSound, UcType, UcOneCommand, UcDoorbell, UcStaleWork, UcPlace, UcRung,
           UcWork, UcMailbox, UcTaken, UcStates, UcAnswers, UcOps, UcRsps, U!Polled, U!Waited,
           U!ReturnMatchesAnswer, U!work
<1>2. UcInv => UcAnswersMatch
  BY DEF UcAnswersMatch, UcInv, UcSound, U!LateWorkHarmless, U!ReturnMatchesAnswer, UcPlace
<1> QED BY <1>1, <1>2, UcStep, PTL DEF MCSpec

-----------------------------------------------------------------------------
(* The descriptor FIFO.  The refinement needs that pipe_handler_eot() runs  *)
(* in one context at a time, although its flag is tested and set in two     *)
(* steps: what keeps the contexts apart is the pipe's mode.  A run that has *)
(* come to cache_offset then never passes what the hardware has completed,  *)
(* the four offsets keep their order around the ring, and the slots between *)
(* them hold consecutive descriptors.                                       *)

\* Adding to an offset wraps around once at most.
LEMMA Wraps ==
  ASSUME NEW n \in Nat \ {0}, NEW x \in 0 .. 2 * n - 1
  PROVE  x % n = IF x < n THEN x ELSE x - n
<1>1. PICK q \in Int : q = x \div n
  OBVIOUS
<1>2. PICK r \in 0 .. n - 1 : r = x % n
  OBVIOUS
<1>3. x = n * q + r
  BY <1>1, <1>2
<1>4. q >= 0 /\ q < 2
  BY <1>1
<1> QED BY <1>2, <1>3, <1>4
FifoRunning == {"loop", "event", "next"}

\* pipe_handler_eot() runs in one context at a time: a call runs it only on a polled
\* pipe, and no interrupt of a polled pipe begins.
FifoContexts ==
  /\ fH["isr"].pc # "take" /\ fH["call"].pc # "event"
  /\ fH["isr"].pc \in {"enter", "scan"} => ~fPolled
  /\ fH["call"].pc \in {"enter", "scan"} \cup FifoRunning => fPolled
  /\ fH["call"].pc \in {"scan"} \cup FifoRunning => fH["isr"].pc = "off"
  /\ fBusy <=> \E c \in F!Ctx : fH[c].pc \in FifoRunning
  /\ fH["call"].pc \in FifoRunning => ~fH["call"].enabled

\* The run under way has come to cache_offset, and ends no later than the hardware.
FifoScan == \A c \in F!Ctx : fH[c].pc \in FifoRunning =>
  /\ fH[c].off = fCache
  /\ F!Dist(fCache, fH[c].end) <= F!Dist(fCache, fRd)
  /\ fH[c].pc = "loop" => fH[c].end # fCache

\* A slot between the oldest descriptor not handed back and the next free one holds
\* the number of its descriptor.
FifoNumbers == \A s \in F!Slots :
  F!Dist(fAcked, s) < F!Dist(fAcked, fDesc) => fBuf[s] = fCount + 1 - F!Dist(s, fDesc)

FifoInv == F!TypeOK /\ F!OffsetsInOrder /\ FifoContexts /\ FifoScan /\ FifoNumbers
\* Offsets around the ring, without the division.
LEMMA FifoRing ==
  /\ NumDescs \in Nat \ {0} /\ F!Slots = 0 .. NumDescs - 1
  /\ \A a \in F!Slots : /\ F!Nxt(a) = IF a = NumDescs - 1 THEN 0 ELSE a + 1
                        /\ F!Nxt(a) \in F!Slots
  /\ \A a, b \in F!Slots : /\ F!Dist(a, b) = IF a <= b THEN b - a ELSE b + NumDescs - a
                           /\ F!Dist(a, b) \in F!Slots
<1>1. ASSUME NEW a \in F!Slots PROVE F!Nxt(a) = IF a = NumDescs - 1 THEN 0 ELSE a + 1
  <2>1. a + 1 \in 0 .. 2 * NumDescs - 1
    BY FifoAssumption DEF F!Slots
  <2>2. PICK x \in 0 .. 2 * NumDescs - 1 : x = a + 1
    BY <2>1
  <2>3. x % NumDescs = IF x < NumDescs THEN x ELSE x - NumDescs
    BY Wraps, FifoAssumption
  <2> QED BY <2>2, <2>3, FifoAssumption DEF F!Nxt, F!Slots
<1>2. ASSUME NEW a \in F!Slots, NEW b \in F!Slots
      PROVE  F!Dist(a, b) = IF a <= b THEN b - a ELSE b + NumDescs - a
  <2>1. b + NumDescs - a \in 0 .. 2 * NumDescs - 1
    BY FifoAssumption DEF F!Slots
  <2>2. PICK x \in 0 .. 2 * NumDescs - 1 : x = b + NumDescs - a
    BY <2>1
  <2>3. x % NumDescs = IF x < NumDescs THEN x ELSE x - NumDescs
    BY Wraps, FifoAssumption
  <2> QED BY <2>2, <2>3, FifoAssumption DEF F!Dist, F!Slots
<1> QED BY <1>1, <1>2, FifoAssumption DEF F!Slots

\* An offset that has not come to the end of a stretch goes one on and is still in
\* order.
LEMMA FifoAdvance ==
  ASSUME NEW a \in F!Slots, NEW b \in F!Slots, NEW c \in F!Slots, NEW d \in F!Slots, b # c,
         F!Dist(b, c) <= F!Dist(b, d), F!Dist(a, b) <= F!Dist(a, d)
  PROVE  /\ F!Nxt(b) \in F!Slots
         /\ F!Dist(F!Nxt(b), c) <= F!Dist(F!Nxt(b), d)
         /\ F!Dist(a, F!Nxt(b)) <= F!Dist(a, d)
<1>1. PICK n \in F!Slots : n = F!Nxt(b) /\ n = IF b = NumDescs - 1 THEN 0 ELSE b + 1
  BY FifoRing
<1>2. /\ F!Dist(n, c) = IF n <= c THEN c - n ELSE c + NumDescs - n
      /\ F!Dist(n, d) = IF n <= d THEN d - n ELSE d + NumDescs - n
      /\ F!Dist(a, n) = IF a <= n THEN n - a ELSE n + NumDescs - a
      /\ F!Dist(a, d) = IF a <= d THEN d - a ELSE d + NumDescs - a
      /\ F!Dist(a, b) = IF a <= b THEN b - a ELSE b + NumDescs - a
      /\ F!Dist(b, c) = IF b <= c THEN c - b ELSE c + NumDescs - b
      /\ F!Dist(b, d) = IF b <= d THEN d - b ELSE d + NumDescs - b
  BY FifoRing
<1>3. NumDescs \in Nat \ {0} /\ F!Slots = 0 .. NumDescs - 1
  BY FifoRing
<1>4. b # d
  BY <1>2, <1>3
<1>5. CASE b = NumDescs - 1
  BY <1>1, <1>2, <1>3, <1>4, <1>5
<1>6. CASE b # NumDescs - 1
  BY SMTT(30), <1>1, <1>2, <1>3, <1>4, <1>6
<1> QED BY <1>5, <1>6

\* The steps that move no offset.
LEMMA FifoQuietSteps ==
  ASSUME FifoInv, F!Isr \/ F!GetIovec \/ F!ToIntr \/ \E c \in F!Ctx : F!EotEnter(c) \/ F!EotEvent(c)
  PROVE  FifoInv' /\ UNCHANGED <<fDesc, fAcked, fRd, fBuf, fCount>>
<1>0. F!TypeOK /\ F!Ctx = {"isr", "call"} /\ F!Off \in [pc : {"off"}, off : F!Slots, end : F!Slots, enabled : BOOLEAN]
  BY FifoRing DEF FifoInv, F!Ctx, F!Off
<1>1. CASE F!Isr
  <2>1. /\ ~fPolled /\ fH["isr"].pc = "off" /\ fIrq' = FALSE
        /\ fH' = [fH EXCEPT !["isr"].pc = "enter"]
        /\ UNCHANGED <<fPolled, fAcked, fCache, fRd, fBusy, fGot, fDesc, fBuf, fCount>>
    BY <1>1 DEF F!Isr, F!IrqEnabled, F!fifoVars
  <2>2. F!TypeOK' /\ fH'["isr"].pc = "enter" /\ fH'["call"] = fH["call"]
    BY <1>0, <2>1 DEF F!TypeOK
  <2>3. F!OffsetsInOrder' /\ FifoNumbers'
    BY <2>1 DEF FifoInv, F!OffsetsInOrder, FifoNumbers
  <2>4. FifoScan'
    BY <1>0, <2>1, <2>2 DEF FifoInv, FifoScan, FifoRunning
  <2>5. FifoContexts'
    BY <1>0, <2>1, <2>2 DEF FifoInv, FifoContexts, FifoRunning
  <2> QED BY <2>1, <2>2, <2>3, <2>4, <2>5 DEF FifoInv
<1>2. CASE F!GetIovec
  BY <1>0, <1>2 DEF F!GetIovec, F!fifoVars, FifoInv, F!TypeOK, F!OffsetsInOrder, FifoContexts,
      FifoScan, FifoNumbers, FifoRunning
<1>3. CASE F!ToIntr
  BY <1>0, <1>3 DEF F!ToIntr, F!fifoVars, FifoInv, F!TypeOK, F!OffsetsInOrder, FifoContexts,
      FifoScan, FifoNumbers, FifoRunning
<1>4. ASSUME NEW c \in F!Ctx, F!EotEnter(c)
      PROVE  FifoInv' /\ UNCHANGED <<fDesc, fAcked, fRd, fBuf, fCount>>
  <2> DEFINE hs == [pc : {"off", "enter", "scan", "loop", "event", "next", "take"},
                    off : F!Slots, end : F!Slots, enabled : BOOLEAN]
             new == IF F!Runs THEN [fH[c] EXCEPT !.pc = "scan"] ELSE F!After(c)
  <2>1. /\ fH \in [F!Ctx -> hs] /\ fH[c].pc = "enter" /\ fH' = [fH EXCEPT ![c] = new]
        /\ UNCHANGED <<fPolled, fIrq, fAcked, fCache, fRd, fBusy, fGot, fDesc, fBuf, fCount>>
    BY <1>0, <1>4 DEF F!EotEnter, F!TypeOK, F!fifoVars
  <2>2. /\ new \in hs
        /\ new.pc = IF ~fBusy THEN "scan" ELSE IF c = "isr" THEN "off" ELSE "take"
    BY <1>0, <2>1 DEF F!Runs, F!After, F!Off
  <2> HIDE DEF new
  <2>3. /\ fH' \in [F!Ctx -> hs] /\ fH'[c] = new
        /\ \A d \in F!Ctx : d # c => fH'[d] = fH[d]
    BY <2>1, <2>2
  <2>4. F!TypeOK'
    BY <1>0, <2>1, <2>3 DEF F!TypeOK
  <2>5. F!OffsetsInOrder' /\ FifoNumbers'
    BY <2>1 DEF FifoInv, F!OffsetsInOrder, FifoNumbers
  <2>6. FifoScan'
    BY <2>1, <2>2, <2>3 DEF FifoInv, FifoScan, FifoRunning
  <2>7. FifoContexts'
    BY <1>0, <2>1, <2>2, <2>3 DEF FifoInv, FifoContexts, FifoRunning
  <2> QED BY <2>1, <2>4, <2>5, <2>6, <2>7 DEF FifoInv
<1>5. ASSUME NEW c \in F!Ctx, F!EotEvent(c)
      PROVE  FifoInv' /\ UNCHANGED <<fDesc, fAcked, fRd, fBuf, fCount>>
  BY <1>0, <1>5 DEF F!EotEvent, F!fifoVars, FifoInv, F!TypeOK, F!OffsetsInOrder, FifoContexts,
      FifoScan, FifoNumbers, FifoRunning
<1> QED BY <1>1, <1>2, <1>3, <1>4, <1>5

\* pipe_handler_eot() moves cache_offset up to where it saw the hardware.
LEMMA FifoScanSteps ==
  ASSUME FifoInv, \E c \in F!Ctx : F!EotScan(c) \/ F!EotStep(c) \/ F!EotNext(c)
  PROVE  FifoInv' /\ UNCHANGED <<fDesc, fAcked, fRd, fBuf, fCount>>
<1>0. F!TypeOK /\ F!Ctx = {"isr", "call"} /\ F!Off \in [pc : {"off"}, off : F!Slots, end : F!Slots, enabled : BOOLEAN]
  BY FifoRing DEF FifoInv, F!Ctx, F!Off
<1>1. ASSUME NEW c \in F!Ctx, F!EotScan(c)
      PROVE  FifoInv' /\ UNCHANGED <<fDesc, fAcked, fRd, fBuf, fCount>>
  <2>1. /\ fH[c].pc = "scan" /\ fH[c].pc \notin FifoRunning
        /\ UNCHANGED <<fPolled, fIrq, fAcked, fCache, fRd, fDesc, fBuf, fCount, fGot>>
    BY <1>1 DEF F!EotScan, F!fifoVars, FifoRunning
  <2>2. \A e \in F!Ctx : fH[e].pc \notin FifoRunning
    BY <1>0, <2>1 DEF FifoInv, FifoContexts, FifoRunning
  <2>3. /\ fBusy' = (fCache # fRd)
        /\ fH' = [fH EXCEPT ![c] = IF fCache = fRd THEN F!After(c)
                    ELSE [pc |-> "loop", off |-> fCache, end |-> fRd, enabled |-> ~fPolled]]
    BY <1>1 DEF F!EotScan
  <2>4. F!TypeOK'
    BY ZenonT(40), <1>0, <2>1, <2>3 DEF F!TypeOK, F!After, F!Off
  <2>5. F!OffsetsInOrder' /\ FifoNumbers'
    BY <2>1 DEF FifoInv, F!OffsetsInOrder, FifoNumbers
  <2>6. FifoContexts'
    BY <1>0, <2>1, <2>2, <2>3 DEF FifoInv, FifoContexts, FifoRunning, F!TypeOK, F!After, F!Off
  <2>7. FifoScan'
    <3>1. F!Dist(fCache, fRd) <= F!Dist(fCache, fRd)
      <4>1. fCache \in F!Slots /\ fRd \in F!Slots
        BY <1>0 DEF F!TypeOK
      <4>2. F!Dist(fCache, fRd) \in F!Slots /\ F!Slots = 0 .. NumDescs - 1 /\ NumDescs \in Nat
        BY <4>1, FifoRing
      <4> QED BY <4>2
    <3> QED BY <1>0, <2>1, <2>2, <2>3, <3>1 DEF FifoScan, FifoRunning, F!After, F!Off, F!TypeOK
  <2> QED BY <2>1, <2>4, <2>5, <2>6, <2>7 DEF FifoInv
<1>2. ASSUME NEW c \in F!Ctx, F!EotStep(c)
      PROVE  FifoInv' /\ UNCHANGED <<fDesc, fAcked, fRd, fBuf, fCount>>
  <2>1. /\ fH[c].pc = "loop" /\ fH[c].off = fCache /\ fCache' = F!Nxt(fCache)
        /\ fH' = [fH EXCEPT ![c] = [pc |-> IF fH[c].enabled THEN "event" ELSE "next",
                                    off |-> F!Nxt(fCache), end |-> fH[c].end, enabled |-> fH[c].enabled]]
        /\ UNCHANGED <<fPolled, fIrq, fAcked, fRd, fDesc, fBuf, fCount, fBusy, fGot>>
    BY <1>0, <1>2 DEF F!EotStep, F!fifoVars, FifoInv, FifoScan, FifoRunning, F!TypeOK
  <2>2. fCache \in F!Slots /\ fRd \in F!Slots /\ fAcked \in F!Slots /\ fH[c].end \in F!Slots /\ fDesc \in F!Slots
    BY <1>0, <1>2 DEF F!TypeOK
  <2>3. /\ F!Dist(fCache, fH[c].end) <= F!Dist(fCache, fRd) /\ fH[c].end # fCache
        /\ F!Dist(fAcked, fRd) <= F!Dist(fAcked, fDesc)
        /\ F!Dist(fAcked, fCache) <= F!Dist(fAcked, fRd)
    BY <2>1 DEF FifoInv, FifoScan, FifoRunning, F!OffsetsInOrder
  <2>4. /\ F!Dist(F!Nxt(fCache), fH[c].end) <= F!Dist(F!Nxt(fCache), fRd)
        /\ F!Dist(fAcked, F!Nxt(fCache)) <= F!Dist(fAcked, fRd)
        /\ F!Nxt(fCache) \in F!Slots
    BY <2>2, <2>3, FifoAdvance
  <2>5. F!TypeOK'
    BY <1>0, <2>1, <2>2, <2>4 DEF F!TypeOK
  <2>6. F!OffsetsInOrder' /\ FifoNumbers'
    BY <2>1, <2>3, <2>4 DEF FifoInv, F!OffsetsInOrder, FifoNumbers
  <2>7. FifoContexts'
    BY <1>0, <2>1 DEF FifoInv, FifoContexts, FifoRunning, F!TypeOK
  <2>8. \A e \in F!Ctx : e # c => fH[e].pc \notin FifoRunning
    BY <1>0, <2>1 DEF FifoInv, FifoContexts, FifoRunning
  <2>9. FifoScan'
    BY <1>0, <2>1, <2>4, <2>8 DEF FifoScan, FifoRunning, F!TypeOK
  <2> QED BY <2>1, <2>5, <2>6, <2>7, <2>9 DEF FifoInv
<1>3. ASSUME NEW c \in F!Ctx, F!EotNext(c)
      PROVE  FifoInv' /\ UNCHANGED <<fDesc, fAcked, fRd, fBuf, fCount>>
  <2>1. /\ fH[c].pc = "next"
        /\ UNCHANGED <<fPolled, fIrq, fAcked, fCache, fRd, fDesc, fBuf, fCount, fGot>>
    BY <1>3 DEF F!EotNext, F!fifoVars
  <2>2. \A e \in F!Ctx : e # c => fH[e].pc \notin FifoRunning
    BY <1>0, <2>1 DEF FifoInv, FifoContexts, FifoRunning
  <2>3. \/ /\ fBusy' = FALSE /\ fH' = [fH EXCEPT ![c] = F!After(c)]
        \/ /\ fH[c].off # fH[c].end /\ fBusy' = fBusy
           /\ fH' = [fH EXCEPT ![c] = [pc |-> "loop", off |-> fH[c].off, end |-> fH[c].end, enabled |-> fH[c].enabled]]
    BY <1>0, <1>3 DEF F!EotNext, F!TypeOK
  <2>4. PICK x : /\ fH' = [fH EXCEPT ![c] = x] /\ x \in [pc : {"off", "take", "loop"}, off : F!Slots, end : F!Slots, enabled : BOOLEAN]
                 /\ \/ fBusy' = FALSE /\ x = F!After(c)
                    \/ /\ fBusy' = fBusy /\ x.pc = "loop" /\ x.off = fH[c].off
                       /\ x.end = fH[c].end /\ x.enabled = fH[c].enabled /\ x.end # x.off
    <3>1. CASE fBusy' = FALSE /\ fH' = [fH EXCEPT ![c] = F!After(c)]
      BY <1>0, <3>1 DEF F!After, F!Off
    <3>2. CASE ~(fBusy' = FALSE /\ fH' = [fH EXCEPT ![c] = F!After(c)])
      <4>1. fH[c].off \in F!Slots /\ fH[c].end \in F!Slots /\ fH[c].enabled \in BOOLEAN
        BY <1>0 DEF F!TypeOK
      <4> QED BY <2>3, <3>2, <4>1
    <3> QED BY <3>1, <3>2
  <2>5. F!TypeOK'
    BY <1>0, <2>1, <2>4 DEF F!TypeOK
  <2>6. F!OffsetsInOrder' /\ FifoNumbers'
    BY <2>1 DEF FifoInv, F!OffsetsInOrder, FifoNumbers
  <2>7. FifoContexts'
    <3>1. fH'[c] = x /\ \A e \in F!Ctx : e # c => fH'[e] = fH[e]
      BY <1>0, <2>4 DEF F!TypeOK
    <3> QED BY <1>0, <2>1, <2>2, <2>4, <3>1 DEF FifoInv, FifoContexts, FifoRunning, F!After, F!Off
  <2>8. FifoScan'
    BY <1>0, <2>1, <2>2, <2>4 DEF FifoInv, FifoScan, FifoRunning, F!After, F!Off, F!TypeOK
  <2> QED BY <2>1, <2>5, <2>6, <2>7, <2>8 DEF FifoInv
<1> QED BY <1>1, <1>2, <1>3
\* A distance is a number of slots.
LEMMA FifoDistNat == \A a, b \in F!Slots : F!Dist(a, b) \in Nat /\ F!Dist(a, b) <= NumDescs - 1
<1>1. F!Slots = 0 .. NumDescs - 1 /\ NumDescs \in Nat
  BY FifoRing
<1>2. \A a, b \in F!Slots : F!Dist(a, b) \in F!Slots
  BY FifoRing
<1> QED BY <1>1, <1>2

\* Stretches of the ring add up, and one that begins or ends one further is one
\* longer or shorter.
LEMMA FifoAdds ==
  ASSUME NEW a \in F!Slots, NEW b \in F!Slots, NEW c \in F!Slots, F!Dist(a, b) <= F!Dist(a, c)
  PROVE  F!Dist(a, b) + F!Dist(b, c) = F!Dist(a, c)
<1>1. /\ F!Dist(a, b) = IF a <= b THEN b - a ELSE b + NumDescs - a
      /\ F!Dist(b, c) = IF b <= c THEN c - b ELSE c + NumDescs - b
      /\ F!Dist(a, c) = IF a <= c THEN c - a ELSE c + NumDescs - a
  BY FifoRing
<1>2. NumDescs \in Nat \ {0} /\ F!Slots = 0 .. NumDescs - 1
  BY FifoRing
<1> QED BY <1>1, <1>2

\* One slot further is one less to go.
LEMMA FifoNext ==
  ASSUME NEW a \in F!Slots, NEW b \in F!Slots, a # b
  PROVE  /\ F!Dist(F!Nxt(a), b) = F!Dist(a, b) - 1
         /\ F!Dist(a, b) > 0
         /\ \A c \in F!Slots : F!Dist(c, a) < F!Dist(c, b) => F!Dist(c, F!Nxt(a)) = F!Dist(c, a) + 1
<1>1. PICK n \in F!Slots : n = F!Nxt(a) /\ n = IF a = NumDescs - 1 THEN 0 ELSE a + 1
  BY FifoRing
<1>2. NumDescs \in Nat \ {0} /\ F!Slots = 0 .. NumDescs - 1
  BY FifoRing
<1>3. F!Dist(n, b) = F!Dist(a, b) - 1 /\ F!Dist(a, b) > 0
  <2>1. /\ F!Dist(n, b) = IF n <= b THEN b - n ELSE b + NumDescs - n
        /\ F!Dist(a, b) = IF a <= b THEN b - a ELSE b + NumDescs - a
    BY FifoRing
  <2> QED BY <1>1, <1>2, <2>1
<1>4. ASSUME NEW c \in F!Slots, F!Dist(c, a) < F!Dist(c, b)
      PROVE  F!Dist(c, n) = F!Dist(c, a) + 1
  <2>1. /\ F!Dist(c, n) = IF c <= n THEN n - c ELSE n + NumDescs - c
        /\ F!Dist(c, a) = IF c <= a THEN a - c ELSE a + NumDescs - c
        /\ F!Dist(c, b) = IF c <= b THEN b - c ELSE b + NumDescs - c
    BY FifoRing
  <2>2. CASE a = NumDescs - 1
    BY <1>1, <1>2, <1>4, <2>1, <2>2
  <2>3. CASE a # NumDescs - 1
    BY <1>1, <1>2, <1>4, <2>1, <2>3
  <2> QED BY <2>2, <2>3
<1> QED BY <1>1, <1>3, <1>4

\* The offsets are in order, as lengths of stretches.
FifoDists ==
  /\ fAcked \in F!Slots /\ fCache \in F!Slots /\ fRd \in F!Slots /\ fDesc \in F!Slots
  /\ F!Dist(fAcked, fRd) \in Nat /\ F!Dist(fRd, fDesc) \in Nat
  /\ F!Dist(fAcked, fCache) \in Nat /\ F!Dist(fCache, fRd) \in Nat
  /\ F!Dist(fAcked, fDesc) = F!Dist(fAcked, fRd) + F!Dist(fRd, fDesc)
  /\ F!Dist(fAcked, fRd) = F!Dist(fAcked, fCache) + F!Dist(fCache, fRd)
  /\ F!Dist(fCache, fDesc) = F!Dist(fCache, fRd) + F!Dist(fRd, fDesc)
  /\ F!Dist(fAcked, fDesc) \in 0 .. NumDescs - 1 /\ fCount \in Nat
\* Distances between offsets in order add up around the ring.
LEMMA FifoDistances == F!TypeOK /\ F!OffsetsInOrder => FifoDists
<1> SUFFICES ASSUME F!TypeOK, F!OffsetsInOrder PROVE FifoDists
  OBVIOUS
<1>1. fAcked \in F!Slots /\ fCache \in F!Slots /\ fRd \in F!Slots /\ fDesc \in F!Slots
  BY DEF F!TypeOK
<1>2. NumDescs \in Nat \ {0} /\ F!Slots = 0 .. NumDescs - 1
  BY FifoRing
<1>3. /\ F!Dist(fAcked, fRd) \in F!Slots /\ F!Dist(fRd, fDesc) \in F!Slots
      /\ F!Dist(fAcked, fCache) \in F!Slots /\ F!Dist(fCache, fRd) \in F!Slots
      /\ F!Dist(fAcked, fDesc) \in F!Slots /\ F!Dist(fCache, fDesc) \in F!Slots
  BY <1>1, FifoRing
<1>4. /\ F!Dist(fAcked, fRd) + F!Dist(fRd, fDesc) = F!Dist(fAcked, fDesc)
      /\ F!Dist(fAcked, fCache) + F!Dist(fCache, fRd) = F!Dist(fAcked, fRd)
  BY <1>1, FifoAdds DEF F!OffsetsInOrder
<1>5. F!Dist(fAcked, fCache) + F!Dist(fCache, fDesc) = F!Dist(fAcked, fDesc)
  <2>1. F!Dist(fAcked, fCache) <= F!Dist(fAcked, fDesc)
    BY <1>2, <1>3 DEF F!OffsetsInOrder
  <2> QED BY <1>1, <2>1, FifoAdds
<1>6. fCount \in Nat
  BY FifoAssumption DEF F!TypeOK
<1> QED BY SMTT(30), <1>1, <1>2, <1>3, <1>4, <1>5, <1>6 DEF FifoDists

\* The hardware completes a descriptor.
LEMMA FifoCompleteStep ==
  ASSUME FifoInv, F!Complete
  PROVE  /\ FifoInv'
         /\ F!Dist(fRd, fDesc)' = F!Dist(fRd, fDesc) - 1 /\ F!Dist(fRd, fDesc) > 0
         /\ F!Dist(fAcked, fRd)' = F!Dist(fAcked, fRd) + 1
         /\ UNCHANGED <<fAcked, fDesc, fBuf, fCount>>
<1>1. /\ fRd # fDesc /\ fRd' = F!Nxt(fRd) /\ fIrq' = TRUE
      /\ UNCHANGED <<fPolled, fAcked, fCache, fDesc, fBuf, fCount, fBusy, fH, fGot>>
  BY DEF F!Complete, F!fifoVars
<1>2. FifoDists
  BY FifoDistances DEF FifoInv
<1>3. /\ F!Dist(F!Nxt(fRd), fDesc) = F!Dist(fRd, fDesc) - 1 /\ F!Dist(fRd, fDesc) > 0
      /\ \A c \in F!Slots : F!Dist(c, fRd) < F!Dist(c, fDesc) => F!Dist(c, F!Nxt(fRd)) = F!Dist(c, fRd) + 1
  BY <1>1, <1>2, FifoNext DEF FifoDists
<1>4. F!Dist(fAcked, F!Nxt(fRd)) = F!Dist(fAcked, fRd) + 1 /\ F!Dist(fCache, F!Nxt(fRd)) = F!Dist(fCache, fRd) + 1
  BY <1>2, <1>3 DEF FifoDists
<1>5. F!TypeOK'
  BY <1>1, <1>2, FifoRing DEF FifoInv, F!TypeOK, FifoDists
<1>6. F!OffsetsInOrder'
  BY <1>1, <1>2, <1>3, <1>4 DEF F!OffsetsInOrder, FifoDists
<1>7. FifoContexts' /\ FifoNumbers'
  BY <1>1 DEF FifoInv, FifoContexts, FifoNumbers
<1>8. FifoScan'
  <2> SUFFICES ASSUME NEW c \in F!Ctx, fH[c].pc \in FifoRunning
               PROVE  /\ fH[c].off = fCache
                      /\ F!Dist(fCache, fH[c].end) <= F!Dist(fCache, F!Nxt(fRd))
                      /\ fH[c].pc = "loop" => fH[c].end # fCache
    BY <1>1 DEF FifoScan
  <2>1. /\ fH[c].off = fCache /\ F!Dist(fCache, fH[c].end) <= F!Dist(fCache, fRd)
        /\ fH[c].pc = "loop" => fH[c].end # fCache
    BY DEF FifoInv, FifoScan
  <2>2. fH[c].end \in F!Slots
    BY DEF FifoInv, F!TypeOK
  <2>3. F!Dist(fCache, fH[c].end) \in F!Slots /\ F!Slots = 0 .. NumDescs - 1 /\ NumDescs \in Nat
    BY <1>2, <2>2, FifoRing DEF FifoDists
  <2> QED BY <1>2, <1>4, <2>1, <2>3 DEF FifoDists
<1> QED BY <1>1, <1>3, <1>4, <1>5, <1>6, <1>7, <1>8 DEF FifoInv
\* sps_get_iovec() hands back the oldest descriptor, or none.
LEMMA FifoTakeStep ==
  ASSUME FifoInv, F!TakeIovec
  PROVE  /\ FifoInv'
         /\ UNCHANGED <<fRd, fDesc, fBuf, fCount>>
         /\ \/ UNCHANGED fAcked
            \/ F!Dist(fAcked, fRd)' = F!Dist(fAcked, fRd) - 1 /\ F!Dist(fAcked, fRd) > 0
<1>1. /\ fH["call"].pc = "take" /\ fH' = [fH EXCEPT !["call"] = F!Off]
      /\ UNCHANGED <<fPolled, fIrq, fCache, fRd, fDesc, fBuf, fCount, fBusy>>
      /\ \/ UNCHANGED <<fGot, fAcked>>
         \/ fAcked # fCache /\ fGot' = fBuf[fAcked] /\ fAcked' = F!Nxt(fAcked)
  BY DEF F!TakeIovec, F!Returns, F!fifoVars
<1>2. FifoDists
  BY FifoDistances DEF FifoInv
<1>3. F!Ctx = {"isr", "call"} /\ F!Off \in [pc : {"off"}, off : F!Slots, end : F!Slots, enabled : BOOLEAN]
  BY FifoRing DEF FifoInv, F!Ctx, F!Off
<1>4. F!TypeOK'
  <2>1. F!Nxt(fAcked) \in F!Slots
    BY <1>2, FifoRing DEF FifoDists
  <2>2. fAcked' \in F!Slots /\ fGot' \in 0 .. MaxXfers
    BY <1>1, <1>2, <2>1 DEF FifoInv, F!TypeOK, FifoDists
  <2>3. fH' \in [F!Ctx -> [pc : {"off", "enter", "scan", "loop", "event", "next", "take"},
                          off : F!Slots, end : F!Slots, enabled : BOOLEAN]]
    BY <1>1, <1>3 DEF FifoInv, F!TypeOK
  <2> QED BY <1>1, <2>2, <2>3 DEF FifoInv, F!TypeOK
<1>5. FifoContexts'
  BY <1>1, <1>3 DEF FifoInv, FifoContexts, FifoRunning, F!TypeOK
<1>6. FifoScan'
  BY <1>1, <1>3 DEF FifoInv, FifoScan, FifoRunning, F!TypeOK
<1>7. CASE UNCHANGED fAcked
  <2>1. F!OffsetsInOrder' /\ FifoNumbers'
    BY <1>1, <1>7 DEF FifoInv, F!OffsetsInOrder, FifoNumbers
  <2> QED BY <1>1, <1>4, <1>5, <1>6, <1>7, <2>1 DEF FifoInv
<1>8. CASE fAcked # fCache /\ fAcked' = F!Nxt(fAcked)
  <2>1. F!Dist(fAcked, fCache) > 0
    BY <1>2, <1>8, FifoNext DEF FifoDists
  <2>2. F!Dist(fAcked, fAcked) = 0
    BY <1>2, FifoRing DEF FifoDists
  <2>3. fAcked # fRd /\ fAcked # fDesc
    BY <1>2, <2>1, <2>2 DEF FifoDists
  <2>4. \A s \in F!Slots : fAcked # s => F!Dist(F!Nxt(fAcked), s) = F!Dist(fAcked, s) - 1
    BY <1>2, FifoNext DEF FifoDists
  <2>5. /\ F!Dist(F!Nxt(fAcked), fRd) = F!Dist(fAcked, fRd) - 1
        /\ F!Dist(F!Nxt(fAcked), fCache) = F!Dist(fAcked, fCache) - 1
        /\ F!Dist(F!Nxt(fAcked), fDesc) = F!Dist(fAcked, fDesc) - 1
    BY <1>2, <1>8, <2>3, <2>4 DEF FifoDists
  <2>6. F!OffsetsInOrder'
    BY <1>1, <1>2, <1>8, <2>5 DEF F!OffsetsInOrder, FifoDists
  <2>7. FifoNumbers'
    <3> SUFFICES ASSUME NEW s \in F!Slots, F!Dist(F!Nxt(fAcked), s) < F!Dist(F!Nxt(fAcked), fDesc)
                 PROVE  fBuf[s] = fCount + 1 - F!Dist(s, fDesc)
      BY <1>1, <1>8 DEF FifoNumbers
    <3>1. F!Dist(F!Nxt(fAcked), fAcked) = NumDescs - 1
      <4>1. PICK n \in F!Slots : n = F!Nxt(fAcked) /\ n = IF fAcked = NumDescs - 1 THEN 0 ELSE fAcked + 1
        BY <1>2, FifoRing DEF FifoDists
      <4>2. F!Dist(n, fAcked) = IF n <= fAcked THEN fAcked - n ELSE fAcked + NumDescs - n
        BY <1>2, FifoRing DEF FifoDists
      <4>3. F!Slots = 0 .. NumDescs - 1 /\ NumDescs \in Nat \ {0} /\ fAcked \in F!Slots
        BY <1>2, FifoRing DEF FifoDists
      <4> QED BY <4>1, <4>2, <4>3
    <3>2. s # fAcked
      BY <1>2, <2>5, <3>1, FifoAssumption DEF FifoDists
    <3>3. F!Dist(fAcked, s) \in Int
      BY <1>2, FifoRing DEF FifoDists
    <3>4. F!Dist(fAcked, s) < F!Dist(fAcked, fDesc)
      BY <1>2, <2>4, <2>5, <3>2, <3>3 DEF FifoDists
    <3> QED BY <3>4 DEF FifoInv, FifoNumbers
  <2>8. F!Dist(fAcked, fRd) > 0
    BY <1>2, <2>1 DEF FifoDists
  <2>9. F!Dist(fAcked, fRd)' = F!Dist(fAcked, fRd) - 1
    BY <1>1, <1>8, <2>5
  <2> QED BY <1>1, <1>4, <1>5, <1>6, <2>6, <2>7, <2>8, <2>9 DEF FifoInv
<1> QED BY <1>1, <1>7, <1>8
\* Writing k descriptors: the free stretch ends before the oldest one.
LEMMA FifoWraps ==
  ASSUME NEW a \in F!Slots, NEW d \in F!Slots, NEW k \in Nat, k <= F!Dist(F!Nxt(d), a)
  PROVE  /\ (d + k) % NumDescs \in F!Slots
         /\ F!Dist(a, (d + k) % NumDescs) = F!Dist(a, d) + k
         /\ F!Dist(a, d) + k <= NumDescs - 1
         /\ \A s \in F!Slots : F!Dist(a, s) <= F!Dist(a, d) =>
              /\ F!Dist(s, (d + k) % NumDescs) = F!Dist(s, d) + k
              /\ F!Dist(d, s) < k => s = d
         /\ \A s \in F!Slots : F!Dist(a, s) >= F!Dist(a, d) /\ F!Dist(a, s) < F!Dist(a, d) + k =>
              /\ F!Dist(d, s) < k
              /\ F!Dist(s, (d + k) % NumDescs) = k - F!Dist(d, s)
<1>0. NumDescs \in Nat \ {0} /\ F!Slots = 0 .. NumDescs - 1
  BY FifoRing
<1>1. PICK n \in F!Slots : n = F!Nxt(d) /\ n = IF d = NumDescs - 1 THEN 0 ELSE d + 1
  BY FifoRing
<1>2. /\ F!Dist(n, a) = IF n <= a THEN a - n ELSE a + NumDescs - n
      /\ F!Dist(a, d) = IF a <= d THEN d - a ELSE d + NumDescs - a
  BY FifoRing
<1>3. F!Dist(a, d) + k <= NumDescs - 1
  BY <1>0, <1>1, <1>2
<1>4. PICK x \in 0 .. 2 * NumDescs - 1 : x = d + k
  BY <1>0, <1>2, <1>3
<1>5. x % NumDescs = IF x < NumDescs THEN x ELSE x - NumDescs
  BY <1>0, Wraps
<1>6. PICK e \in F!Slots : e = (d + k) % NumDescs /\ e = IF d + k < NumDescs THEN d + k ELSE d + k - NumDescs
  BY <1>0, <1>4, <1>5
<1>7. F!Dist(a, e) = F!Dist(a, d) + k
  <2>1. F!Dist(a, e) = IF a <= e THEN e - a ELSE e + NumDescs - a
    BY FifoRing
  <2> QED BY SMTT(30), <1>0, <1>2, <1>3, <1>6, <2>1
<1>8. ASSUME NEW s \in F!Slots, F!Dist(a, s) <= F!Dist(a, d)
      PROVE  F!Dist(s, e) = F!Dist(s, d) + k /\ (F!Dist(d, s) < k => s = d)
  <2>1. /\ F!Dist(a, s) = IF a <= s THEN s - a ELSE s + NumDescs - a
        /\ F!Dist(s, e) = IF s <= e THEN e - s ELSE e + NumDescs - s
        /\ F!Dist(s, d) = IF s <= d THEN d - s ELSE d + NumDescs - s
        /\ F!Dist(d, s) = IF d <= s THEN s - d ELSE s + NumDescs - d
    BY FifoRing
  <2>2. F!Dist(d, s) < k => s = d
    BY <1>0, <1>2, <1>3, <1>8, <2>1
  <2>3. CASE a <= d
    <3>1. d + k < NumDescs \/ d + k - NumDescs < a
      BY <1>0, <1>2, <1>3, <2>3
    <3>2. a <= s /\ s <= d
      BY <1>0, <1>2, <1>8, <2>1, <2>3
    <3>3. F!Dist(s, d) = d - s
      BY <1>0, <2>1, <3>2
    <3>4. F!Dist(s, e) = d + k - s
      <4>1. CASE d + k < NumDescs
        BY <1>0, <1>6, <2>1, <3>2, <4>1
      <4>2. CASE ~(d + k < NumDescs)
        <5>1. e = d + k - NumDescs /\ e < a
          BY <1>0, <1>6, <3>1, <4>2
        <5> QED BY <1>0, <2>1, <3>2, <5>1
      <4> QED BY <4>1, <4>2
    <3> QED BY <1>0, <2>2, <3>3, <3>4
  <2>4. CASE d < a
    <3>1. d + k < NumDescs /\ e = d + k /\ e < a
      BY <1>0, <1>2, <1>3, <1>6, <2>4
    <3>2. CASE s <= d
      BY <1>0, <2>1, <2>2, <3>1, <3>2
    <3>3. CASE ~(s <= d)
      <4>1. a <= s
        BY <1>0, <1>2, <1>8, <2>1, <2>4, <3>3
      <4> QED BY <1>0, <2>1, <2>2, <2>4, <3>1, <3>3, <4>1
    <3> QED BY <3>2, <3>3
  <2> QED BY <1>0, <2>3, <2>4
<1>9. ASSUME NEW s \in F!Slots, F!Dist(a, s) >= F!Dist(a, d), F!Dist(a, s) < F!Dist(a, d) + k
      PROVE  F!Dist(d, s) < k /\ F!Dist(s, e) = k - F!Dist(d, s)
  <2>1. /\ F!Dist(a, s) = IF a <= s THEN s - a ELSE s + NumDescs - a
        /\ F!Dist(s, e) = IF s <= e THEN e - s ELSE e + NumDescs - s
        /\ F!Dist(d, s) = IF d <= s THEN s - d ELSE s + NumDescs - d
    BY FifoRing
  <2> QED BY SMTT(30), <1>0, <1>2, <1>3, <1>6, <1>9, <2>1
<1> QED BY <1>3, <1>6, <1>7, <1>8, <1>9

\* sps_transfer() numbers the new descriptors and leaves the others alone.
LEMMA FifoTransferStep ==
  ASSUME FifoInv, NEW k \in 1 .. NumDescs, F!Transfer(k)
  PROVE  /\ FifoInv'
         /\ F!Dist(fRd, fDesc)' = F!Dist(fRd, fDesc) + k
         /\ F!Dist(fAcked, fDesc) + k <= NumDescs - 1
         /\ fCount' = fCount + k
         /\ UNCHANGED <<fAcked, fRd>>
<1>1. /\ k <= F!Dist(F!Nxt(fDesc), fAcked) /\ fCount + k <= MaxXfers
      /\ fBuf' = F!Written(k) /\ fDesc' = (fDesc + k) % NumDescs /\ fCount' = fCount + k
      /\ UNCHANGED <<fPolled, fIrq, fAcked, fCache, fRd, fBusy, fH, fGot>>
  BY DEF F!Transfer, F!FreeCount
<1>2. FifoDists
  BY FifoDistances DEF FifoInv
<1>3. k \in Nat /\ k >= 1 /\ MaxXfers \in Nat /\ fCount \in 0 .. MaxXfers
  BY FifoAssumption DEF FifoInv, F!TypeOK
<1>4. /\ fDesc' \in F!Slots
      /\ F!Dist(fAcked, fDesc') = F!Dist(fAcked, fDesc) + k
      /\ F!Dist(fAcked, fDesc) + k <= NumDescs - 1
      /\ \A s \in F!Slots : F!Dist(fAcked, s) <= F!Dist(fAcked, fDesc) =>
           /\ F!Dist(s, fDesc') = F!Dist(s, fDesc) + k
           /\ F!Dist(fDesc, s) < k => s = fDesc
      /\ \A s \in F!Slots : F!Dist(fAcked, s) >= F!Dist(fAcked, fDesc) /\ F!Dist(fAcked, s) < F!Dist(fAcked, fDesc) + k =>
           /\ F!Dist(fDesc, s) < k
           /\ F!Dist(s, fDesc') = k - F!Dist(fDesc, s)
  BY <1>1, <1>2, <1>3, FifoWraps DEF FifoDists
<1>5. F!Dist(fRd, fDesc') = F!Dist(fRd, fDesc) + k
  BY <1>2, <1>4 DEF FifoDists
<1>6. F!TypeOK'
  <2>1. ASSUME NEW s \in F!Slots PROVE F!Dist(fDesc, s) \in Nat
    <3>1. F!Dist(fDesc, s) \in F!Slots /\ F!Slots = 0 .. NumDescs - 1 /\ NumDescs \in Nat
      BY <1>2, FifoRing DEF FifoDists
    <3> QED BY <3>1
  <2>2. F!Written(k) \in [F!Slots -> 0 .. MaxXfers]
    <3>1. ASSUME NEW s \in F!Slots PROVE (IF F!Dist(fDesc, s) < k THEN fCount + F!Dist(fDesc, s) + 1 ELSE fBuf[s]) \in 0 .. MaxXfers
      BY <1>1, <1>3, <2>1 DEF FifoInv, F!TypeOK
    <3> QED BY <3>1 DEF F!Written
  <2>3. fCount' \in 0 .. MaxXfers
    BY <1>1, <1>3
  <2> QED BY <1>1, <1>4, <2>2, <2>3 DEF FifoInv, F!TypeOK
<1>7. F!OffsetsInOrder'
  <2>1. F!Dist(fAcked, fCache) <= F!Dist(fAcked, fRd) /\ F!Dist(fAcked, fRd) <= F!Dist(fAcked, fDesc')
    BY <1>2, <1>3, <1>4 DEF FifoDists
  <2> QED BY <1>1, <2>1 DEF F!OffsetsInOrder
<1>8. FifoContexts' /\ FifoScan'
  BY <1>1 DEF FifoInv, FifoContexts, FifoScan
<1>9. FifoNumbers'
  <2> SUFFICES ASSUME NEW s \in F!Slots, F!Dist(fAcked, s) < F!Dist(fAcked, fDesc')
               PROVE  fBuf'[s] = fCount' + 1 - F!Dist(s, fDesc')
    BY <1>1 DEF FifoNumbers
  <2>1. fBuf'[s] = IF F!Dist(fDesc, s) < k THEN fCount + F!Dist(fDesc, s) + 1 ELSE fBuf[s]
    BY <1>1 DEF F!Written
  <2>2. /\ F!Dist(fAcked, s) \in Nat /\ F!Dist(fDesc, s) \in Nat /\ F!Dist(s, fDesc) \in Nat
        /\ F!Dist(fDesc, fDesc) = 0 /\ F!Dist(fAcked, fDesc) \in Nat
    BY <1>2, FifoRing DEF FifoDists
  <2>3. CASE F!Dist(fAcked, s) < F!Dist(fAcked, fDesc)
    <3>1. ~(F!Dist(fDesc, s) < k)
      BY <1>2, <1>4, <2>2, <2>3
    <3>2. fBuf[s] = fCount + 1 - F!Dist(s, fDesc)
      BY <2>3 DEF FifoInv, FifoNumbers
    <3>3. F!Dist(s, fDesc') = F!Dist(s, fDesc) + k
      BY <1>4, <2>2, <2>3
    <3> QED BY <1>1, <1>3, <2>1, <2>2, <3>1, <3>2, <3>3
  <2>4. CASE F!Dist(fAcked, s) >= F!Dist(fAcked, fDesc)
    <3>1. F!Dist(fDesc, s) < k /\ F!Dist(s, fDesc') = k - F!Dist(fDesc, s)
      BY <1>4, <2>4
    <3> QED BY <1>1, <1>3, <2>1, <2>2, <3>1
  <2> QED BY <2>2, <2>3, <2>4
<1> QED BY <1>1, <1>4, <1>5, <1>6, <1>7, <1>8, <1>9 DEF FifoInv
\* Consecutive numbers, the first of them lo + 1.
Run(lo, n) == [i \in 1 .. n |-> lo + i]

\* Consecutive numbers as a sequence.
LEMMA RunSeq ==
  ASSUME NEW lo \in Int, NEW n \in Nat
  PROVE  /\ Run(lo, n) \in Seq(Int) /\ Len(Run(lo, n)) = n
         /\ \A i \in 1 .. n : Run(lo, n)[i] = lo + i
         /\ n = 0 => Run(lo, n) = << >>
<1>1. Run(lo, n) \in Seq(Int) /\ Len(Run(lo, n)) = n /\ \A i \in 1 .. n : Run(lo, n)[i] = lo + i
  BY DEF Run
<1>2. n = 0 => Run(lo, n) = << >>
  BY <1>1
<1> QED BY <1>1, <1>2

\* Two runs that meet are one.
LEMMA RunConcat ==
  ASSUME NEW lo \in Int, NEW n \in Nat, NEW k \in Nat
  PROVE  Run(lo, n) \o Run(lo + n, k) = Run(lo, n + k)
<1>1. PICK x \in Seq(Int) : x = Run(lo, n) /\ Len(x) = n /\ \A i \in 1 .. n : x[i] = lo + i
  BY RunSeq
<1>2. PICK y \in Seq(Int) : y = Run(lo + n, k) /\ Len(y) = k /\ \A i \in 1 .. k : y[i] = lo + n + i
  <2>1. PICK m \in Int : m = lo + n
    OBVIOUS
  <2>2. Run(m, k) \in Seq(Int) /\ Len(Run(m, k)) = k /\ \A i \in 1 .. k : Run(m, k)[i] = m + i
    BY RunSeq
  <2> QED BY <2>1, <2>2
<1>3. PICK z \in Seq(Int) : z = Run(lo, n + k) /\ Len(z) = n + k /\ \A i \in 1 .. n + k : z[i] = lo + i
  <2>1. PICK m \in Nat : m = n + k
    OBVIOUS
  <2>2. Run(lo, m) \in Seq(Int) /\ Len(Run(lo, m)) = m /\ \A i \in 1 .. m : Run(lo, m)[i] = lo + i
    BY RunSeq
  <2> QED BY <2>1, <2>2
<1>4. /\ x \o y \in Seq(Int) /\ Len(x \o y) = n + k
      /\ \A i \in 1 .. n + k : (x \o y)[i] = IF i <= n THEN x[i] ELSE y[i - n]
  BY SMTT(30), <1>1, <1>2, ConcatProperties
<1>5. ASSUME NEW i \in 1 .. n + k PROVE (x \o y)[i] = lo + i
  <2>1. CASE i <= n
    BY <1>1, <1>4, <2>1
  <2>2. CASE ~(i <= n)
    <3>1. i - n \in 1 .. k
      BY <2>2
    <3>2. y[i - n] = lo + n + (i - n)
      BY <1>2, <3>1
    <3> QED BY <1>4, <2>2, <3>2
  <2> QED BY <2>1, <2>2
<1>6. x \o y \in Seq(Int) /\ z \in Seq(Int) /\ Len(x \o y) = Len(z)
  BY <1>3, <1>4
<1>7. \A i \in 1 .. Len(x \o y) : (x \o y)[i] = z[i]
  BY <1>3, <1>4, <1>5
<1>8. x \o y = z
  BY <1>6, <1>7, SeqEqual
<1> QED BY <1>1, <1>2, <1>3, <1>8

\* What taking the first of a run leaves.
LEMMA RunTail ==
  ASSUME NEW lo \in Int, NEW n \in Nat \ {0}
  PROVE  /\ Tail(Run(lo, n)) = Run(lo + 1, n - 1)
         /\ SubSeq(Run(lo, n), 1, 1) = Run(lo, 1)
         /\ SubSeq(Run(lo, n), 2, n) = Run(lo + 1, n - 1)
<1>1. PICK x \in Seq(Int) : x = Run(lo, n) /\ Len(x) = n /\ \A i \in 1 .. n : x[i] = lo + i
  BY RunSeq
<1>2. PICK y \in Seq(Int) : y = Run(lo + 1, n - 1) /\ Len(y) = n - 1 /\ \A i \in 1 .. n - 1 : y[i] = lo + 1 + i
  <2>1. PICK m \in Int, l \in Nat : m = lo + 1 /\ l = n - 1
    OBVIOUS
  <2>2. Run(m, l) \in Seq(Int) /\ Len(Run(m, l)) = l /\ \A i \in 1 .. l : Run(m, l)[i] = m + i
    BY RunSeq
  <2> QED BY <2>1, <2>2
<1>3. PICK z \in Seq(Int) : z = Run(lo, 1) /\ Len(z) = 1 /\ z[1] = lo + 1
  <2>1. PICK l \in Nat : l = 1
    OBVIOUS
  <2>2. Run(lo, l) \in Seq(Int) /\ Len(Run(lo, l)) = l /\ \A i \in 1 .. l : Run(lo, l)[i] = lo + i
    BY RunSeq
  <2> QED BY <2>1, <2>2
<1>4. Tail(x) = SubSeq(x, 2, n)
  BY <1>1, TailIsSubSeq
<1>5. SubSeq(x, 2, n) = y
  <2>1. \A i \in 2 .. n : x[i] \in Int
    BY <1>1
  <2>2. /\ SubSeq(x, 2, n) \in Seq(Int) /\ Len(SubSeq(x, 2, n)) = n - 1
        /\ \A i \in 1 .. n - 1 : SubSeq(x, 2, n)[i] = x[i + 1]
    <3>1. PICK m \in Int : m = 2
      OBVIOUS
    <3>2. /\ SubSeq(x, m, n) \in Seq(Int) /\ Len(SubSeq(x, m, n)) = IF m <= n THEN n - m + 1 ELSE 0
          /\ \A i \in 1 .. n - m + 1 : SubSeq(x, m, n)[i] = x[m + i - 1]
      BY <2>1, <3>1, SubSeqProperties
    <3> QED BY <3>1, <3>2
  <2>3. \A i \in 1 .. n - 1 : SubSeq(x, 2, n)[i] = y[i]
    BY <1>1, <1>2, <2>2
  <2> QED BY <1>2, <2>2, <2>3, SeqEqual
<1>6. SubSeq(x, 1, 1) = z
  <2>1. \A i \in 1 .. 1 : x[i] \in Int
    BY <1>1
  <2>2. /\ SubSeq(x, 1, 1) \in Seq(Int) /\ Len(SubSeq(x, 1, 1)) = 1
        /\ SubSeq(x, 1, 1)[1] = x[1]
    BY <2>1, SubSeqProperties
  <2>3. \A i \in 1 .. 1 : SubSeq(x, 1, 1)[i] = z[i]
    BY <1>1, <1>3, <2>2
  <2> QED BY <1>3, <2>2, <2>3, SeqEqual
<1> QED BY <1>1, <1>2, <1>3, <1>4, <1>5, <1>6

\* What the pipe holds, as the queue sees it.
FifoRuns ==
  /\ F!Slice(fRd, fDesc) = Run(fCount - F!Dist(fRd, fDesc), F!Dist(fRd, fDesc))
  /\ F!Slice(fAcked, fRd) = Run(fCount - F!Dist(fAcked, fDesc), F!Dist(fAcked, fRd))
\* The slots between two offsets hold a run of descriptor numbers.
LEMMA FifoSlices == FifoInv => FifoRuns
<1> SUFFICES ASSUME FifoInv PROVE FifoRuns
  OBVIOUS
<1>1. FifoDists /\ fCount \in Nat
  BY FifoDistances, FifoAssumption DEF FifoInv, F!TypeOK
<1>2. ASSUME NEW a \in F!Slots, NEW b \in F!Slots, NEW i \in 1 .. F!Dist(a, b)
      PROVE  /\ (a + i - 1) % NumDescs \in F!Slots
             /\ F!Dist(a, (a + i - 1) % NumDescs) = i - 1
  <2>1. NumDescs \in Nat \ {0} /\ F!Slots = 0 .. NumDescs - 1 /\ F!Dist(a, b) \in F!Slots
    BY FifoRing
  <2>2. PICK x \in 0 .. 2 * NumDescs - 1 : x = a + i - 1
    BY <2>1
  <2>3. x % NumDescs = IF x < NumDescs THEN x ELSE x - NumDescs
    BY <2>1, Wraps
  <2>4. PICK e \in F!Slots : e = (a + i - 1) % NumDescs /\ e = IF x < NumDescs THEN x ELSE x - NumDescs
    BY <2>1, <2>2, <2>3
  <2>5. F!Dist(a, e) = IF a <= e THEN e - a ELSE e + NumDescs - a
    BY FifoRing
  <2> QED BY <2>1, <2>2, <2>4, <2>5
<1>3. ASSUME NEW i \in 1 .. F!Dist(fRd, fDesc)
      PROVE  fBuf[(fRd + i - 1) % NumDescs] = fCount - F!Dist(fRd, fDesc) + i
  <2>1. PICK e \in F!Slots : e = (fRd + i - 1) % NumDescs /\ F!Dist(fRd, e) = i - 1
    BY <1>1, <1>2 DEF FifoDists
  <2>2. F!Dist(fRd, e) + F!Dist(e, fDesc) = F!Dist(fRd, fDesc)
    BY <1>1, <2>1, FifoAdds DEF FifoDists
  <2>3. F!Dist(fAcked, e) + F!Dist(e, fDesc) = F!Dist(fAcked, fDesc)
    <3>1. /\ F!Dist(fAcked, fRd) = IF fAcked <= fRd THEN fRd - fAcked ELSE fRd + NumDescs - fAcked
          /\ F!Dist(fAcked, e) = IF fAcked <= e THEN e - fAcked ELSE e + NumDescs - fAcked
          /\ F!Dist(fRd, e) = IF fRd <= e THEN e - fRd ELSE e + NumDescs - fRd
          /\ F!Dist(e, fDesc) = IF e <= fDesc THEN fDesc - e ELSE fDesc + NumDescs - e
      BY <1>1, FifoRing DEF FifoDists
    <3>2. NumDescs \in Nat \ {0} /\ F!Slots = 0 .. NumDescs - 1
      BY FifoRing
    <3>3. /\ F!Dist(fAcked, fRd) + F!Dist(fRd, e) <= NumDescs - 1
          /\ fAcked \in F!Slots /\ fRd \in F!Slots
      <4>1. F!Dist(e, fDesc) \in Nat /\ F!Dist(fRd, e) \in Nat
        BY <1>1, FifoDistNat DEF FifoDists
      <4>2. F!Dist(fRd, e) <= F!Dist(fRd, fDesc)
        BY <1>1, <2>2, <4>1 DEF FifoDists
      <4> QED BY <1>1, <4>1, <4>2, FifoAssumption DEF FifoDists
    <3>4. F!Dist(fAcked, e) = F!Dist(fAcked, fRd) + F!Dist(fRd, e)
      BY <3>1, <3>2, <3>3
    <3>5. F!Dist(e, fDesc) \in Nat /\ F!Dist(fRd, e) \in Nat
      BY <1>1, FifoDistNat DEF FifoDists
    <3> QED BY <1>1, <2>2, <3>4, <3>5 DEF FifoDists
  <2>4. F!Dist(e, fDesc) \in Nat /\ F!Dist(fAcked, e) \in Int
    BY <1>1, FifoDistNat DEF FifoDists
  <2>5. F!Dist(fAcked, e) < F!Dist(fAcked, fDesc)
    BY <1>1, <2>1, <2>2, <2>3, <2>4 DEF FifoDists
  <2>6. fBuf[e] = fCount + 1 - F!Dist(e, fDesc)
    BY <2>5 DEF FifoInv, FifoNumbers
  <2> QED BY <1>1, <2>1, <2>2, <2>4, <2>6 DEF FifoDists
<1>4. ASSUME NEW i \in 1 .. F!Dist(fAcked, fRd)
      PROVE  fBuf[(fAcked + i - 1) % NumDescs] = fCount - F!Dist(fAcked, fDesc) + i
  <2>1. PICK e \in F!Slots : e = (fAcked + i - 1) % NumDescs /\ F!Dist(fAcked, e) = i - 1
    BY <1>1, <1>2 DEF FifoDists
  <2>2. F!Dist(fAcked, e) < F!Dist(fAcked, fDesc)
    BY <1>1, <2>1 DEF FifoDists
  <2>3. F!Dist(fAcked, e) + F!Dist(e, fDesc) = F!Dist(fAcked, fDesc)
    BY <1>1, <2>1, <2>2, FifoAdds DEF FifoDists
  <2>4. F!Dist(e, fDesc) \in Int
    BY <1>1, FifoDistNat DEF FifoDists
  <2>5. fBuf[e] = fCount + 1 - F!Dist(e, fDesc)
    BY <2>2 DEF FifoInv, FifoNumbers
  <2> QED BY <1>1, <2>1, <2>3, <2>4, <2>5 DEF FifoDists
<1> QED BY <1>3, <1>4 DEF F!Slice, Run, FifoRuns
\* A new pipe is empty.
LEMMA FifoStart == MCInit => FifoInv
<1> SUFFICES ASSUME MCInit PROVE FifoInv
  OBVIOUS
<1>1. F!Init
  BY DEF MCInit
<1>2. 0 \in F!Slots /\ F!Off \in [pc : {"off"}, off : F!Slots, end : F!Slots, enabled : BOOLEAN]
  BY FifoAssumption DEF F!Slots, F!Off
<1>3. F!TypeOK
  <2>1. fH \in [F!Ctx -> [pc : {"off", "enter", "scan", "loop", "event", "next", "take"},
                         off : F!Slots, end : F!Slots, enabled : BOOLEAN]]
    BY <1>1, <1>2 DEF F!Init
  <2>2. fBuf \in [F!Slots -> 0 .. MaxXfers] /\ 0 \in 0 .. MaxXfers
    BY <1>1, FifoAssumption DEF F!Init
  <2> QED BY <1>1, <1>2, <2>1, <2>2 DEF F!Init, F!TypeOK
<1>4. F!Dist(0, 0) = 0
  BY <1>2, FifoRing
<1>5. F!OffsetsInOrder
  BY <1>1, <1>4 DEF F!Init, F!OffsetsInOrder
<1>6. FifoContexts /\ FifoScan
  BY <1>1 DEF F!Init, FifoContexts, FifoScan, FifoRunning, F!Off, F!Ctx
<1>7. FifoNumbers
  BY <1>1, <1>2, <1>4, FifoDistNat DEF F!Init, FifoNumbers
<1> QED BY <1>3, <1>5, <1>6, <1>7 DEF FifoInv

\* Steps of the other parts.
LEMMA FifoQuiet == FifoInv /\ UNCHANGED fVars => FifoInv'
BY DEF FifoInv, F!TypeOK, F!OffsetsInOrder, FifoContexts, FifoScan, FifoNumbers, fVars

\* The steps of the handler that look, and those that move offsets.
LEMMA FifoHandler ==
  (\E c \in F!Ctx : F!Handler(c)) =>
    \/ \E c \in F!Ctx : F!EotEnter(c) \/ F!EotEvent(c)
    \/ \E c \in F!Ctx : F!EotScan(c) \/ F!EotStep(c) \/ F!EotNext(c)
BY DEF F!Handler

\* Every step of the FIFO keeps the invariant.
LEMMA FifoStep == FifoInv /\ F!Next => FifoInv'
<1> SUFFICES ASSUME FifoInv, F!Next PROVE FifoInv'
  OBVIOUS
<1>1. CASE \E k \in 1 .. NumDescs : F!Transfer(k)
  BY <1>1, FifoTransferStep
<1>2. CASE F!Complete
  BY <1>2, FifoCompleteStep
<1>3. CASE F!TakeIovec
  BY <1>3, FifoTakeStep
<1>4. CASE F!Isr \/ F!GetIovec \/ F!ToIntr
  BY <1>4, FifoQuietSteps
<1>5. CASE \E c \in F!Ctx : F!Handler(c)
  BY <1>5, FifoHandler, FifoQuietSteps, FifoScanSteps
<1> QED BY <1>1, <1>2, <1>3, <1>4, <1>5 DEF F!Next

FifoQueue == <<F!Slice(fRd, fDesc), F!Slice(fAcked, fRd), fCount>>

\* Nothing the queue sees depends on anything but the offsets and the slots between.
LEMMA FifoSame == UNCHANGED <<fDesc, fAcked, fRd, fBuf, fCount>> => UNCHANGED FifoQueue
BY DEF FifoQueue, F!Slice

\* The distances, from the whole invariant.
LEMMA FifoCounts == FifoInv => FifoDists
BY FifoDistances DEF FifoInv

\* Every step of the pipe is one of the queue, or none.
LEMMA FifoSimulates ==
  ASSUME FifoInv, F!Next
  PROVE  F!Queue!Next \/ UNCHANGED FifoQueue
<1>0. FifoInv'
  BY FifoStep
<1>1. FifoDists /\ FifoDists' /\ fCount \in Nat /\ fCount' \in Nat
  <2>1. FifoDists /\ FifoDists'
    BY <1>0, FifoCounts, PTL
  <2> QED BY <2>1 DEF FifoDists
<1>2. /\ F!Slice(fRd, fDesc) = Run(fCount - F!Dist(fRd, fDesc), F!Dist(fRd, fDesc))
      /\ F!Slice(fAcked, fRd) = Run(fCount - F!Dist(fAcked, fDesc), F!Dist(fAcked, fRd))
  BY FifoSlices DEF FifoRuns
<1>3. /\ F!Slice(fRd, fDesc)' = Run(fCount' - F!Dist(fRd, fDesc)', F!Dist(fRd, fDesc)')
      /\ F!Slice(fAcked, fRd)' = Run(fCount' - F!Dist(fAcked, fDesc)', F!Dist(fAcked, fRd)')
  <2>1. FifoRuns'
    BY <1>0, FifoSlices, PTL
  <2> QED BY <2>1 DEF FifoRuns
<1>4. PICK p \in Nat, r \in Nat : p = F!Dist(fRd, fDesc) /\ r = F!Dist(fAcked, fRd)
  BY <1>1 DEF FifoDists
<1>5. PICK q \in Nat, s \in Nat : q = F!Dist(fRd, fDesc)' /\ s = F!Dist(fAcked, fRd)'
  BY <1>1 DEF FifoDists
<1>6. PICK b \in Int, a \in Int : b = fCount - p /\ a = fCount - p - r
  BY <1>1, <1>4
<1>7. PICK d \in Int, c \in Int : d = fCount' - q /\ c = fCount' - q - s
  BY <1>1, <1>5
<1>8. /\ F!Slice(fRd, fDesc) = Run(b, p) /\ F!Slice(fAcked, fRd) = Run(a, r)
      /\ Len(Run(b, p)) = p /\ Len(Run(a, r)) = r
  <2>1. fCount - F!Dist(fAcked, fDesc) = a
    BY <1>1, <1>4, <1>6 DEF FifoDists
  <2>2. Len(Run(b, p)) = p /\ Len(Run(a, r)) = r
    BY RunSeq
  <2> QED BY <1>2, <1>4, <1>6, <2>1, <2>2
<1>9. F!Slice(fRd, fDesc)' = Run(d, q) /\ F!Slice(fAcked, fRd)' = Run(c, s)
  <2>1. fCount' - F!Dist(fAcked, fDesc)' = c
    BY <1>1, <1>5, <1>7 DEF FifoDists
  <2> QED BY <1>3, <1>5, <1>7, <2>1
<1>10. ASSUME NEW k \in 1 .. NumDescs, F!Transfer(k)
       PROVE  F!Queue!Next
  <2>1. /\ q = p + k /\ p + r + k <= NumDescs - 1 /\ fCount' = fCount + k
        /\ UNCHANGED <<fAcked, fRd>> /\ s = r
    BY <1>1, <1>4, <1>5, <1>10, FifoTransferStep DEF FifoDists
  <2>2. d = b /\ c = a
    BY <1>1, <1>4, <1>5, <1>6, <1>7, <2>1
  <2>3. Run(b, p) \o Run(fCount, k) = Run(b, q)
    <3>1. PICK m \in Int : m = fCount /\ m = b + p
      BY <1>1, <1>4, <1>6
    <3>2. k \in Nat
      OBVIOUS
    <3>3. Run(b, p) \o Run(b + p, k) = Run(b, p + k)
      BY <3>2, RunConcat
    <3> QED BY <2>1, <3>1, <3>3
  <2>4. Run(fCount, k) = [i \in 1 .. k |-> fCount + i]
    BY DEF Run
  <2>5. k \in 1 .. NumDescs - 1
    BY <2>1, FifoAssumption
  <2>6. Len(Run(b, p)) + Len(Run(a, r)) + k <= NumDescs - 1
    BY <1>8, <2>1
  <2> QED BY <1>8, <1>9, <2>1, <2>2, <2>3, <2>4, <2>5, <2>6 DEF F!Queue!Next, F!Queue!Submit
<1>11. CASE F!Complete
  <2>1. q = p - 1 /\ p > 0 /\ s = r + 1 /\ fCount' = fCount
    BY <1>4, <1>5, <1>11, FifoCompleteStep
  <2>2. d = b + 1 /\ c = a /\ b = a + r
    BY <1>1, <1>4, <1>5, <1>6, <1>7, <2>1
  <2>3. /\ SubSeq(Run(b, p), 1, 1) = Run(b, 1)
        /\ SubSeq(Run(b, p), 2, p) = Run(b + 1, p - 1)
    <3>1. p \in Nat \ {0}
      BY <2>1
    <3> QED BY <3>1, RunTail
  <2>4. Run(a, r) \o Run(a + r, 1) = Run(a, r + 1)
    <3>1. PICK k \in Nat : k = 1
      OBVIOUS
    <3>2. Run(a, r) \o Run(a + r, k) = Run(a, r + k)
      BY RunConcat
    <3> QED BY <3>1, <3>2
  <2>5. /\ 1 \in 1 .. Len(F!Slice(fRd, fDesc))
        /\ F!Slice(fAcked, fRd)' = F!Slice(fAcked, fRd) \o SubSeq(F!Slice(fRd, fDesc), 1, 1)
        /\ F!Slice(fRd, fDesc)' = SubSeq(F!Slice(fRd, fDesc), 1 + 1, Len(F!Slice(fRd, fDesc)))
    <3>1. 1 \in 1 .. p /\ 1 + 1 = 2
      BY <2>1
    <3>2. Run(d, q) = Run(b + 1, p - 1) /\ Run(c, s) = Run(a, r + 1) /\ Run(b, 1) = Run(a + r, 1)
      BY <2>1, <2>2
    <3> QED BY <1>8, <1>9, <2>3, <2>4, <3>1, <3>2
  <2>6. F!Queue!Complete
    BY <2>1, <2>5 DEF F!Queue!Complete
  <2> QED BY <2>6 DEF F!Queue!Next
<1>12. CASE F!TakeIovec
  <2>1. UNCHANGED <<fRd, fDesc, fBuf, fCount>> /\ (UNCHANGED fAcked \/ (s = r - 1 /\ r > 0))
    BY <1>4, <1>5, <1>12, FifoTakeStep
  <2>2. CASE UNCHANGED fAcked
    BY <2>1, <2>2, FifoSame
  <2>3. CASE s = r - 1 /\ r > 0
    <3>1. q = p
      BY <1>4, <1>5, <2>1
    <3>2. d = b /\ c = a + 1
      BY <1>1, <1>4, <1>5, <1>6, <1>7, <2>1, <2>3, <3>1
    <3>3. Tail(Run(a, r)) = Run(a + 1, r - 1)
      <4>1. r \in Nat \ {0}
        BY <2>3
      <4> QED BY <4>1, RunTail
    <3>4. Run(a, r) # << >>
      BY <1>8, <2>3
    <3>5. F!Queue!HandBack
      BY <1>8, <1>9, <2>1, <2>3, <3>1, <3>2, <3>3, <3>4 DEF F!Queue!HandBack
    <3> QED BY <3>5 DEF F!Queue!Next
  <2> QED BY <2>1, <2>2, <2>3
<1>13. CASE F!Isr \/ F!GetIovec \/ F!ToIntr
  BY <1>13, FifoQuietSteps, FifoSame
<1>14. CASE \E c1 \in F!Ctx : F!Handler(c1)
  BY <1>14, FifoHandler, FifoQuietSteps, FifoScanSteps, FifoSame
<1> QED BY <1>10, <1>11, <1>12, <1>13, <1>14 DEF F!Next

\* The descriptor FIFO of a pipe implements the bounded queue, for every size: however
\* the interrupt, the polling calls and the hardware interleave, descriptors are
\* handed back in the order they were submitted, each once and none before the
\* hardware completed it (sps_bam_pipe_transfer(), pipe_handler_eot(),
\* sps_bam_pipe_get_iovec()).
THEOREM FifoIsQueue == MCSpec => FifoImplementsDescQueue
<1>1. MCInit => F!Queue!Init
  <2> SUFFICES ASSUME MCInit PROVE F!Queue!Init
    OBVIOUS
  <2>1. fDesc = 0 /\ fRd = 0 /\ fAcked = 0 /\ fCount = 0
    BY DEF MCInit, F!Init
  <2>2. F!Dist(0, 0) = 0
    BY FifoAssumption DEF F!Dist
  <2>3. F!Slice(0, 0) = << >>
    BY <2>2 DEF F!Slice
  <2> QED BY <2>1, <2>3 DEF F!Queue!Init
<1>2. FifoInv /\ [MCNext]_allVars => FifoInv' /\ [F!Queue!Next]_FifoQueue
  <2> SUFFICES ASSUME FifoInv, [MCNext]_allVars PROVE FifoInv' /\ [F!Queue!Next]_FifoQueue
    OBVIOUS
  <2>1. F!Next \/ UNCHANGED fVars
    BY DEF MCNext, allVars, Fifo, Tx, Rx, Parse, Microcontroller
  <2>2. CASE F!Next
    BY <2>2, FifoStep, FifoSimulates
  <2>3. CASE UNCHANGED fVars
    BY <2>3, FifoQuiet, FifoSame DEF fVars
  <2> QED BY <2>1, <2>2, <2>3
<1> QED BY <1>1, <1>2, FifoStart, PTL
        DEF MCSpec, FifoImplementsDescQueue, F!ImplementsDescQueue, F!Queue!Spec, FifoQueue

-----------------------------------------------------------------------------
(***************************************************************************)
(* Receive buffers.  What an allocation takes must be unused, so the       *)
(* invariant says where every owned buffer is: on the wrapper list, in a   *)
(* slot between the ring's indices, or in the producer's hands.            *)
(***************************************************************************)
\* What a sequence holds, and that it holds nothing twice.
Els(s) == {s[i] : i \in 1 .. Len(s)}
Once(s) == \A i, j \in 1 .. Len(s) : s[i] = s[j] => i = j

\* What a concatenation holds.
LEMMA ElsConcat ==
  ASSUME NEW A, NEW s \in Seq(A), NEW t \in Seq(A)
  PROVE  /\ s \o t \in Seq(A) /\ Len(s \o t) = Len(s) + Len(t)
         /\ Els(s \o t) = Els(s) \cup Els(t)
         /\ Once(s) /\ Once(t) /\ Els(s) \cap Els(t) = {} => Once(s \o t)
<1>1. /\ s \o t \in Seq(A) /\ Len(s \o t) = Len(s) + Len(t)
      /\ \A i \in 1 .. Len(s) + Len(t) : (s \o t)[i] = IF i <= Len(s) THEN s[i] ELSE t[i - Len(s)]
  BY ConcatProperties
<1>2. Len(s) \in Nat /\ Len(t) \in Nat
  OBVIOUS
<1>3. \A i \in 1 .. Len(s) : i \in 1 .. Len(s) + Len(t) /\ (s \o t)[i] = s[i]
  BY <1>1, <1>2
<1>4. \A i \in 1 .. Len(t) : i + Len(s) \in 1 .. Len(s) + Len(t) /\ (s \o t)[i + Len(s)] = t[i]
  <2> TAKE i \in 1 .. Len(t)
  <2>1. i + Len(s) \in 1 .. Len(s) + Len(t) /\ ~(i + Len(s) <= Len(s)) /\ i + Len(s) - Len(s) = i
    BY <1>2
  <2> QED BY <1>1, <2>1
<1>5. \A i \in 1 .. Len(s) + Len(t) : ~(i <= Len(s)) => i - Len(s) \in 1 .. Len(t)
  BY <1>2
<1>6. Els(s \o t) = Els(s) \cup Els(t)
  <2>1. ASSUME NEW x \in Els(s \o t) PROVE x \in Els(s) \cup Els(t)
    <3>1. PICK i \in 1 .. Len(s) + Len(t) : x = (s \o t)[i]
      BY <1>1, <2>1 DEF Els
    <3>2. CASE i <= Len(s)
      BY <1>1, <1>2, <3>1, <3>2 DEF Els
    <3>3. CASE ~(i <= Len(s))
      BY <1>1, <1>5, <3>1, <3>3 DEF Els
    <3> QED BY <3>2, <3>3
  <2>2. ASSUME NEW x \in Els(s) PROVE x \in Els(s \o t)
    BY <1>1, <1>3, <2>2 DEF Els
  <2>3. ASSUME NEW x \in Els(t) PROVE x \in Els(s \o t)
    <3>1. PICK i \in 1 .. Len(t) : x = t[i]
      BY <2>3 DEF Els
    <3>2. i + Len(s) \in 1 .. Len(s \o t) /\ x = (s \o t)[i + Len(s)]
      BY <1>1, <1>4, <3>1
    <3> QED BY <3>2 DEF Els
  <2> QED BY <2>1, <2>2, <2>3
<1>7. ASSUME Once(s), Once(t), Els(s) \cap Els(t) = {} PROVE Once(s \o t)
  <2> SUFFICES ASSUME NEW i \in 1 .. Len(s) + Len(t), NEW j \in 1 .. Len(s) + Len(t), (s \o t)[i] = (s \o t)[j]
               PROVE  i = j
    BY <1>1 DEF Once
  <2>1. \A k \in 1 .. Len(s) : s[k] \in Els(s)
    BY DEF Els
  <2>2. \A k \in 1 .. Len(t) : t[k] \in Els(t)
    BY DEF Els
  <2>3. CASE i <= Len(s) /\ j <= Len(s)
    BY <1>1, <1>2, <1>7, <2>3 DEF Once
  <2>4. CASE i <= Len(s) /\ ~(j <= Len(s))
    BY <1>1, <1>2, <1>5, <1>7, <2>1, <2>2, <2>4
  <2>5. CASE ~(i <= Len(s)) /\ j <= Len(s)
    BY <1>1, <1>2, <1>5, <1>7, <2>1, <2>2, <2>5
  <2>6. CASE ~(i <= Len(s)) /\ ~(j <= Len(s))
    <3>1. i - Len(s) \in 1 .. Len(t) /\ j - Len(s) \in 1 .. Len(t) /\ t[i - Len(s)] = t[j - Len(s)]
      BY <1>1, <1>5, <2>6
    <3>2. i - Len(s) = j - Len(s)
      BY <1>7, <3>1 DEF Once
    <3> QED BY <1>2, <3>2
  <2> QED BY <2>3, <2>4, <2>5, <2>6
<1> QED BY <1>1, <1>6, <1>7

\* What taking the first element leaves.
LEMMA ElsTail ==
  ASSUME NEW A, NEW s \in Seq(A), s # << >>
  PROVE  /\ Tail(s) \in Seq(A) /\ Len(Tail(s)) = Len(s) - 1 /\ Len(s) >= 1
         /\ Els(s) = {s[1]} \cup Els(Tail(s))
         /\ Once(s) => Once(Tail(s)) /\ s[1] \notin Els(Tail(s))
<1>1. /\ Tail(s) \in Seq(A) /\ Len(Tail(s)) = Len(s) - 1
      /\ \A i \in 1 .. Len(s) - 1 : Tail(s)[i] = s[i + 1]
  BY HeadTailProperties
<1>2. Len(s) \in Nat /\ Len(s) >= 1
  BY EmptySeq
<1>3. \A i \in 1 .. Len(s) : i = 1 \/ i - 1 \in 1 .. Len(s) - 1
  BY <1>2
<1>4. Els(s) = {s[1]} \cup Els(Tail(s))
  <2>1. ASSUME NEW x \in Els(s) PROVE x \in {s[1]} \cup Els(Tail(s))
    <3>1. PICK i \in 1 .. Len(s) : x = s[i]
      BY <2>1 DEF Els
    <3>2. CASE i = 1
      BY <3>1, <3>2
    <3>3. CASE i - 1 \in 1 .. Len(s) - 1
      <4>1. Tail(s)[i - 1] = s[i]
        BY <1>1, <1>2, <3>3
      <4> QED BY <1>1, <3>1, <3>3, <4>1 DEF Els
    <3> QED BY <1>3, <3>2, <3>3
  <2>2. ASSUME NEW x \in Els(Tail(s)) PROVE x \in Els(s)
    <3>1. PICK i \in 1 .. Len(s) - 1 : x = s[i + 1]
      BY <1>1, <2>2 DEF Els
    <3>2. i + 1 \in 1 .. Len(s)
      BY <1>2
    <3> QED BY <3>1, <3>2 DEF Els
  <2>3. s[1] \in Els(s)
    BY <1>2 DEF Els
  <2> QED BY <2>1, <2>2, <2>3
<1>5. ASSUME Once(s) PROVE Once(Tail(s)) /\ s[1] \notin Els(Tail(s))
  <2>1. \A i \in 1 .. Len(s) - 1 : i + 1 \in 1 .. Len(s) /\ i + 1 # 1 /\ 1 \in 1 .. Len(s)
    BY <1>2
  <2>2. Once(Tail(s))
    <3> SUFFICES ASSUME NEW i \in 1 .. Len(s) - 1, NEW j \in 1 .. Len(s) - 1, Tail(s)[i] = Tail(s)[j]
                 PROVE  i = j
      BY <1>1 DEF Once
    <3>1. s[i + 1] = s[j + 1]
      BY <1>1
    <3>2. i + 1 = j + 1
      BY <1>5, <2>1, <3>1 DEF Once
    <3> QED BY <3>2
  <2>3. ASSUME NEW i \in 1 .. Len(s) - 1 PROVE s[1] # Tail(s)[i]
    BY <1>1, <1>5, <2>1 DEF Once
  <2> QED BY <1>1, <2>2, <2>3 DEF Els
<1> QED BY <1>1, <1>2, <1>4, <1>5

\* How many slots b is after a.
RxDist(a, b) == (b + R!Capacity - a) % R!Capacity

\* The ring of buffer pointers: its slots, and how far one is from another.
LEMMA RxRing ==
  /\ PoolSize \in Nat /\ R!Capacity = PoolSize + 1 /\ R!Slots = 0 .. PoolSize
  /\ R!Bufs = 1 .. 2 * PoolSize + 3
  /\ \A a, b \in R!Slots : RxDist(a, b) = IF a <= b THEN b - a ELSE b + PoolSize + 1 - a
<1>1. PoolSize \in Nat /\ R!Capacity = PoolSize + 1 /\ R!Slots = 0 .. PoolSize /\ R!Bufs = 1 .. 2 * PoolSize + 3
  BY PoolAssumption DEF R!Capacity, R!Slots, R!Bufs
<1>2. ASSUME NEW a \in R!Slots, NEW b \in R!Slots
      PROVE  RxDist(a, b) = IF a <= b THEN b - a ELSE b + PoolSize + 1 - a
  <2>1. PICK n \in Nat \ {0}, x \in Nat : n = PoolSize + 1 /\ x \in 0 .. 2 * n - 1 /\ x = b + n - a
    BY <1>1
  <2>2. x % n = IF x < n THEN x ELSE x - n
    BY <2>1, Wraps
  <2> QED BY <1>1, <2>1, <2>2 DEF RxDist
<1> QED BY <1>1, <1>2

\* A distance is less than the capacity.
LEMMA RxDistType == \A a, b \in R!Slots : RxDist(a, b) \in 0 .. PoolSize
<1>1. PoolSize \in Nat /\ R!Slots = 0 .. PoolSize
  BY RxRing
<1> TAKE a, b \in R!Slots
<1>2. RxDist(a, b) = IF a <= b THEN b - a ELSE b + PoolSize + 1 - a
  BY RxRing
<1> QED BY <1>1, <1>2

\* k slots after h.
LEMMA RxAfter ==
  ASSUME NEW h \in R!Slots, NEW k \in 0 .. PoolSize
  PROVE  /\ (h + k) % R!Capacity \in R!Slots
         /\ (h + k) % R!Capacity = IF h + k <= PoolSize THEN h + k ELSE h + k - PoolSize - 1
         /\ RxDist(h, (h + k) % R!Capacity) = k
<1>1. PoolSize \in Nat /\ R!Slots = 0 .. PoolSize /\ R!Capacity = PoolSize + 1
  BY RxRing
<1>2. PICK n \in Nat \ {0}, x \in Nat : n = PoolSize + 1 /\ x \in 0 .. 2 * n - 1 /\ x = h + k
  BY <1>1
<1>3. x % n = IF x < n THEN x ELSE x - n
  BY <1>2, Wraps
<1>4. PICK e \in R!Slots : e = (h + k) % R!Capacity /\ e = IF h + k <= PoolSize THEN h + k ELSE h + k - PoolSize - 1
  BY <1>1, <1>2, <1>3
<1>5. RxDist(h, e) = IF h <= e THEN e - h ELSE e + PoolSize + 1 - h
  BY RxRing
<1>6. RxDist(h, e) = k
  BY <1>1, <1>4, <1>5
<1> QED BY <1>4, <1>6

\* Slots at the same distance are the same.
LEMMA RxSameSlot ==
  ASSUME NEW h \in R!Slots, NEW s \in R!Slots, NEW e \in R!Slots, RxDist(h, s) = RxDist(h, e)
  PROVE  s = e
<1>1. PoolSize \in Nat /\ R!Slots = 0 .. PoolSize
  BY RxRing
<1>2. /\ RxDist(h, s) = IF h <= s THEN s - h ELSE s + PoolSize + 1 - h
      /\ RxDist(h, e) = IF h <= e THEN e - h ELSE e + PoolSize + 1 - h
  BY RxRing
<1>3. h \in Int /\ s \in Int /\ e \in Int /\ h <= PoolSize /\ s <= PoolSize /\ e <= PoolSize /\ 0 <= s /\ 0 <= e
  BY <1>1
<1>4. (IF h <= s THEN s - h ELSE s + PoolSize + 1 - h) = (IF h <= e THEN e - h ELSE e + PoolSize + 1 - h)
  BY <1>2
<1>5. s <= e /\ e <= s
  BY <1>1, <1>3, <1>4
<1> QED BY <1>3, <1>5

\* Taking k buffers from the ring.
LEMMA RxAdvance ==
  ASSUME NEW h \in R!Slots, NEW t \in R!Slots, NEW k \in 0 .. PoolSize, k <= RxDist(h, t),
         NEW e \in R!Slots, e = (h + k) % R!Capacity
  PROVE  /\ RxDist(e, t) = RxDist(h, t) - k
         /\ \A s \in R!Slots :
              RxDist(e, s) < RxDist(e, t) <=> k <= RxDist(h, s) /\ RxDist(h, s) < RxDist(h, t)
<1>1. PoolSize \in Nat /\ R!Slots = 0 .. PoolSize
  BY RxRing
<1>2. e = IF h + k <= PoolSize THEN h + k ELSE h + k - PoolSize - 1
  BY RxAfter
<1>3. /\ RxDist(h, t) = IF h <= t THEN t - h ELSE t + PoolSize + 1 - h
      /\ RxDist(e, t) = IF e <= t THEN t - e ELSE t + PoolSize + 1 - e
  BY RxRing
<1>4. RxDist(e, t) = RxDist(h, t) - k
  BY <1>1, <1>2, <1>3
<1>5. ASSUME NEW s \in R!Slots
      PROVE  RxDist(e, s) = IF k <= RxDist(h, s) THEN RxDist(h, s) - k ELSE RxDist(h, s) + PoolSize + 1 - k
  <2>1. /\ RxDist(h, s) = IF h <= s THEN s - h ELSE s + PoolSize + 1 - h
        /\ RxDist(e, s) = IF e <= s THEN s - e ELSE s + PoolSize + 1 - e
    BY RxRing
  <2>2. CASE h + k <= PoolSize
    BY <1>1, <1>2, <2>1, <2>2
  <2>3. CASE ~(h + k <= PoolSize)
    BY SMTT(30), <1>1, <1>2, <2>1, <2>3
  <2> QED BY <2>2, <2>3
<1>6. ASSUME NEW s \in R!Slots
      PROVE  RxDist(e, s) < RxDist(e, t) <=> k <= RxDist(h, s) /\ RxDist(h, s) < RxDist(h, t)
  <2>1. RxDist(h, s) \in 0 .. PoolSize /\ RxDist(h, t) \in 0 .. PoolSize
    BY RxDistType
  <2> QED BY <1>1, <1>4, <1>5, <2>1
<1> QED BY <1>4, <1>6

\* Publishing one more buffer.
LEMMA RxExtend ==
  ASSUME NEW h \in R!Slots, NEW t \in R!Slots, RxDist(h, t) < PoolSize,
         NEW e \in R!Slots, e = (t + 1) % R!Capacity
  PROVE  /\ RxDist(h, e) = RxDist(h, t) + 1
         /\ \A s \in R!Slots :
              RxDist(h, s) < RxDist(h, e) <=> RxDist(h, s) < RxDist(h, t) \/ s = t
<1>1. PoolSize \in Nat /\ R!Slots = 0 .. PoolSize
  BY RxRing
<1>2. /\ RxDist(h, t) = IF h <= t THEN t - h ELSE t + PoolSize + 1 - h
      /\ RxDist(h, e) = IF h <= e THEN e - h ELSE e + PoolSize + 1 - h
  BY RxRing
<1>3. e = IF t + 1 <= PoolSize THEN t + 1 ELSE t + 1 - PoolSize - 1
  <2>1. PICK k \in 0 .. PoolSize : k = 1
    BY <1>1, <1>2
  <2>2. (t + k) % R!Capacity = IF t + k <= PoolSize THEN t + k ELSE t + k - PoolSize - 1
    BY RxAfter
  <2> QED BY <2>1, <2>2
<1>4. RxDist(h, e) = RxDist(h, t) + 1
  BY <1>1, <1>2, <1>3
<1>5. ASSUME NEW s \in R!Slots
      PROVE  RxDist(h, s) < RxDist(h, e) <=> RxDist(h, s) < RxDist(h, t) \/ s = t
  <2>1. RxDist(h, s) \in 0 .. PoolSize /\ RxDist(h, t) \in 0 .. PoolSize
    BY RxDistType
  <2>2. RxDist(h, s) = RxDist(h, t) => s = t
    BY RxSameSlot
  <2> QED BY <1>4, <2>1, <2>2
<1> QED BY <1>4, <1>5

\* The slots of the ring that hold a buffer, and what they hold.
RxLive == {s \in R!Slots : RxDist(rHead, s) < RxDist(rHead, rTail)}
RxRinged == {rCache[s] : s \in RxLive}

RxType ==
  /\ rMode \in {"plain", "fast"} /\ rHandling \in BOOLEAN
  /\ rPhase \in {"down", "filling", "up", "flushing"}
  /\ rList \in Seq(R!Bufs) /\ rPosted \in Seq(R!Bufs) /\ rFilled \in Seq(R!Bufs)
  /\ rAdding \in Seq(R!Bufs) /\ rCached \in Nat /\ rDelayed \in BOOLEAN
  /\ rHead \in R!Slots /\ rTail \in R!Slots /\ rCurr \in R!Slots
  /\ rCache \in [R!Slots -> R!Bufs \cup {0}]
  /\ rProd \in {"off", "queued", "alloc", "write", "publish"}
  /\ rHeld \in R!Bufs \cup {0}

RxOrder == rList = (rFilled \o rPosted) \o rAdding

\* The setup posts one buffer at a time, and may add one to a list that a handler
\* has filled up since.
RxFill ==
  /\ rAdding # << >> => rPhase = "filling" /\ Len(rAdding) = 1
  /\ Len(rList) <= PoolSize + 1
  /\ rPhase = "filling" /\ rCached <= PoolSize => Len(rList) <= PoolSize

\* An empty list has a replenisher on its way, from the first buffer on.
RxKept ==
  rPhase = "up" \/ (rPhase = "filling" /\ rCached > 0) =>
    (rList = << >> => rHandling \/ rDelayed)

\* The producer works at the end of the ring, and keeps its buffer until it is
\* published.
RxProducer ==
  /\ rProd \in {"alloc", "write", "publish"} => rCurr = rTail
  /\ rProd \in {"write", "publish"} => RxDist(rHead, rTail) < PoolSize
  /\ rHeld # 0 <=> rProd \in {"write", "publish"}
  /\ rProd = "publish" => rCache[rCurr] = rHeld

RxDistinct ==
  /\ Once(rList)
  /\ \A s, t \in RxLive : rCache[s] = rCache[t] => s = t
  /\ RxRinged \subseteq R!Bufs
  /\ Els(rList) \cap RxRinged = {}
  /\ rHeld \notin Els(rList) \cup RxRinged

RxOwned == rOwned = Els(rList) \cup RxRinged \cup ({rHeld} \ {0})

\* A pipe that is down has no buffers and nobody works on it.
RxDown == rPhase = "down" => rList = << >> /\ rHead = rTail /\ rProd = "off" /\ ~rHandling

RxInv ==
  /\ RxType /\ RxOrder /\ RxFill /\ RxProducer /\ RxDistinct /\ RxOwned /\ RxDown
  /\ RxKept

\* n numbers name at most n things.
LEMMA ImageBound ==
  ASSUME NEW n \in Nat, NEW f, DOMAIN f = 1 .. n
  PROVE  /\ IsFiniteSet({f[i] : i \in 1 .. n})
         /\ Cardinality({f[i] : i \in 1 .. n}) \in Nat
         /\ Cardinality({f[i] : i \in 1 .. n}) <= n
<1>1. PICK T1 : T1 = {f[i] : i \in 1 .. n}
  OBVIOUS
<1>2. PICK g : g = [i \in 1 .. n |-> f[i]]
  OBVIOUS
<1>3. g \in Surjection(1 .. n, T1)
  BY <1>1, <1>2 DEF Surjection
<1>4. IsFiniteSet(1 .. n)
  <2>1. PICK a \in Int, b \in Int : a = 1 /\ b = n
    OBVIOUS
  <2>2. IsFiniteSet(a .. b)
    BY FS_Interval
  <2> QED BY <2>1, <2>2
<1>5. IsFiniteSet(T1)
  BY <1>3, <1>4, FS_Surjection
<1>6. ExistsSurjection(1 .. n, T1)
  BY <1>3 DEF ExistsSurjection
<1> QED BY <1>1, <1>5, <1>6, FS_SurjCardinalityBound, FS_CardinalityType

\* What the ring holds, slot by slot.
LEMMA RxRingBufs ==
  ASSUME RxType
  PROVE  /\ R!InRing = RxDist(rHead, rTail) /\ R!InRing \in 0 .. PoolSize
         /\ R!RingBufs = [i \in 1 .. R!InRing |-> rCache[(rHead + i - 1) % R!Capacity]]
         /\ \A i \in 1 .. R!InRing : /\ (rHead + i - 1) % R!Capacity \in RxLive
                                     /\ RxDist(rHead, (rHead + i - 1) % R!Capacity) = i - 1
         /\ \A s \in RxLive : /\ RxDist(rHead, s) + 1 \in 1 .. R!InRing
                              /\ s = (rHead + (RxDist(rHead, s) + 1) - 1) % R!Capacity
         /\ RxRinged = {R!RingBufs[i] : i \in 1 .. R!InRing}
<1>1. rHead \in R!Slots /\ rTail \in R!Slots /\ PoolSize \in Nat
  BY RxRing DEF RxType
<1>2. R!InRing = RxDist(rHead, rTail) /\ R!InRing \in 0 .. PoolSize
  BY <1>1, RxDistType DEF R!InRing, RxDist
<1>3. R!RingBufs = [i \in 1 .. R!InRing |-> rCache[(rHead + i - 1) % R!Capacity]]
  BY DEF R!RingBufs
<1>4. ASSUME NEW i \in 1 .. R!InRing
      PROVE  /\ (rHead + i - 1) % R!Capacity \in RxLive
             /\ RxDist(rHead, (rHead + i - 1) % R!Capacity) = i - 1
  <2>1. PICK k \in 0 .. PoolSize : k = i - 1
    BY <1>1, <1>2
  <2>2. (rHead + k) % R!Capacity \in R!Slots /\ RxDist(rHead, (rHead + k) % R!Capacity) = k
    BY <1>1, RxAfter
  <2>3. rHead + i - 1 = rHead + k
    BY <1>1, <2>1, RxRing
  <2> QED BY <1>2, <2>1, <2>2, <2>3 DEF RxLive
<1>5. ASSUME NEW s \in RxLive
      PROVE  /\ RxDist(rHead, s) + 1 \in 1 .. R!InRing
             /\ s = (rHead + (RxDist(rHead, s) + 1) - 1) % R!Capacity
  <2>1. s \in R!Slots /\ RxDist(rHead, s) < R!InRing
    BY <1>2 DEF RxLive
  <2>2. PICK k \in 0 .. PoolSize : k = RxDist(rHead, s)
    BY <1>1, <2>1, RxDistType
  <2>3. (rHead + k) % R!Capacity \in R!Slots /\ RxDist(rHead, (rHead + k) % R!Capacity) = k
    BY <1>1, RxAfter
  <2>4. s = (rHead + k) % R!Capacity
    BY <1>1, <2>1, <2>2, <2>3, RxSameSlot
  <2>5. rHead + (k + 1) - 1 = rHead + k /\ k + 1 \in 1 .. R!InRing
    <3>1. rHead \in Int /\ PoolSize \in Nat
      BY <1>1, RxRing
    <3> QED BY <1>2, <2>1, <2>2, <3>1
  <2> QED BY <2>2, <2>4, <2>5
<1>6. RxRinged = {R!RingBufs[i] : i \in 1 .. R!InRing}
  <2>1. ASSUME NEW x \in RxRinged PROVE x \in {R!RingBufs[i] : i \in 1 .. R!InRing}
    <3>1. PICK s \in RxLive : x = rCache[s]
      BY <2>1 DEF RxRinged
    <3>2. PICK i \in 1 .. R!InRing : s = (rHead + i - 1) % R!Capacity
      BY <1>5
    <3> QED BY <1>3, <3>1, <3>2
  <2>2. ASSUME NEW i \in 1 .. R!InRing PROVE R!RingBufs[i] \in RxRinged
    BY <1>3, <1>4 DEF RxRinged
  <2> QED BY <2>1, <2>2
<1> QED BY <1>2, <1>3, <1>4, <1>5, <1>6

\* There are more buffers than the list, the ring and the producer can hold: enough
\* for what the list lacks.
LEMMA RxEnough ==
  ASSUME RxInv
  PROVE  /\ IsFiniteSet(R!Unused)
         /\ Cardinality(R!Unused) \in Nat
         /\ Cardinality(R!Unused) > PoolSize + 1 - Len(rList)
         /\ R!Unused \in SUBSET Nat /\ R!Unused # {}
         /\ R!Unused \subseteq R!Bufs
<1>1. PoolSize \in Nat /\ R!Bufs = 1 .. 2 * PoolSize + 3
  BY RxRing
<1>2. /\ IsFiniteSet(Els(rList)) /\ Cardinality(Els(rList)) \in Nat
      /\ Cardinality(Els(rList)) <= Len(rList) /\ Len(rList) \in Nat
  <2>1. Len(rList) \in Nat /\ DOMAIN rList = 1 .. Len(rList)
    BY DEF RxInv, RxType
  <2> QED BY <2>1, ImageBound DEF Els
<1>3. /\ IsFiniteSet(RxRinged) /\ Cardinality(RxRinged) \in Nat
      /\ Cardinality(RxRinged) <= PoolSize
  <2>1. PICK n, f : /\ n \in 0 .. PoolSize
                    /\ n = R!InRing /\ f = R!RingBufs /\ DOMAIN f = 1 .. n
                    /\ RxRinged = {f[i] : i \in 1 .. n}
    BY RxRingBufs DEF RxInv
  <2>2. n \in Nat
    BY <1>1, <2>1
  <2>3. /\ IsFiniteSet({f[i] : i \in 1 .. n}) /\ Cardinality({f[i] : i \in 1 .. n}) \in Nat
        /\ Cardinality({f[i] : i \in 1 .. n}) <= n
    BY <2>1, <2>2, ImageBound
  <2> QED BY <1>1, <2>1, <2>3
<1>4. /\ IsFiniteSet({rHeld} \ {0}) /\ Cardinality({rHeld} \ {0}) \in Nat
      /\ Cardinality({rHeld} \ {0}) <= 1
  <2>1. IsFiniteSet({rHeld}) /\ Cardinality({rHeld}) = 1
    BY FS_Singleton
  <2>2. {rHeld} \ {0} \in SUBSET {rHeld}
    OBVIOUS
  <2>3. IsFiniteSet({rHeld} \ {0}) /\ Cardinality({rHeld} \ {0}) <= Cardinality({rHeld})
    BY <2>1, <2>2, FS_Subset
  <2> QED BY <2>1, <2>3, FS_CardinalityType
<1>5. /\ IsFiniteSet(Els(rList) \cup RxRinged) /\ Cardinality(Els(rList) \cup RxRinged) \in Nat
      /\ Cardinality(Els(rList) \cup RxRinged) <= Len(rList) + PoolSize
  <2>1. PICK a, b : a = Els(rList) /\ b = RxRinged
    OBVIOUS
  <2>2. /\ IsFiniteSet(a \cup b)
        /\ Cardinality(a \cup b) = Cardinality(a) + Cardinality(b) - Cardinality(a \cap b)
    BY <1>2, <1>3, <2>1, FS_Union
  <2>3. IsFiniteSet(a \cap b) /\ Cardinality(a \cap b) \in Nat
    BY <1>2, <2>1, FS_Intersection, FS_CardinalityType
  <2>4. Cardinality(a \cup b) \in Nat
    BY <2>2, FS_CardinalityType
  <2> QED BY <1>1, <1>2, <1>3, <2>1, <2>2, <2>3, <2>4
<1>6. IsFiniteSet(rOwned) /\ Cardinality(rOwned) \in Nat /\ Cardinality(rOwned) <= Len(rList) + PoolSize + 1
  <2>1. PICK a, b : a = Els(rList) \cup RxRinged /\ b = {rHeld} \ {0}
    OBVIOUS
  <2>2. /\ IsFiniteSet(a \cup b)
        /\ Cardinality(a \cup b) = Cardinality(a) + Cardinality(b) - Cardinality(a \cap b)
    BY <1>4, <1>5, <2>1, FS_Union
  <2>3. IsFiniteSet(a \cap b) /\ Cardinality(a \cap b) \in Nat
    BY <1>5, <2>1, FS_Intersection, FS_CardinalityType
  <2>4. Cardinality(a \cup b) \in Nat
    BY <2>2, FS_CardinalityType
  <2>5. rOwned = a \cup b
    BY <2>1 DEF RxInv, RxOwned
  <2>6. Cardinality(rOwned) <= Len(rList) + PoolSize + 1
    BY <1>1, <1>2, <1>4, <1>5, <2>1, <2>2, <2>3, <2>5
  <2> QED BY <2>2, <2>4, <2>5, <2>6
<1>7. IsFiniteSet(R!Bufs) /\ Cardinality(R!Bufs) = 2 * PoolSize + 3
  <2>1. PICK a \in Int, b \in Int : a = 1 /\ b = 2 * PoolSize + 3
    BY <1>1
  <2>2. IsFiniteSet(a .. b) /\ Cardinality(a .. b) = IF a > b THEN 0 ELSE b - a + 1
    BY FS_Interval
  <2> QED BY <1>1, <2>1, <2>2
<1>8. /\ IsFiniteSet(R!Bufs \ rOwned)
      /\ Cardinality(R!Bufs \ rOwned) = Cardinality(R!Bufs) - Cardinality(R!Bufs \cap rOwned)
  BY <1>7, FS_Difference
<1>9. Cardinality(R!Bufs \cap rOwned) \in Nat /\ Cardinality(R!Bufs \cap rOwned) <= Cardinality(rOwned)
  BY <1>6, FS_Intersection, FS_CardinalityType
<1>10. Cardinality(R!Bufs \ rOwned) \in Nat
  BY <1>8, FS_CardinalityType
<1>11. Len(rList) <= PoolSize + 1
  BY DEF RxInv, RxFill
<1>12. Cardinality(R!Bufs \ rOwned) > PoolSize + 1 - Len(rList)
  BY <1>1, <1>2, <1>6, <1>7, <1>8, <1>9, <1>11
<1>13. Cardinality(R!Bufs \ rOwned) # 0
  BY <1>1, <1>2, <1>11, <1>12
<1>14. R!Bufs \ rOwned # {}
  BY <1>13, FS_EmptySet
<1>15. R!Bufs \ rOwned \in SUBSET Nat
  BY <1>1
<1> QED BY <1>8, <1>10, <1>12, <1>14, <1>15 DEF R!Unused

\* The smallest of some natural numbers is one of them.
LEMMA RxMin ==
  ASSUME NEW A \in SUBSET Nat, A # {}
  PROVE  R!Min(A) \in A
<1>1. PICK rel : rel = OpToRel(<, Nat)
  BY Zenon
<1>2. IsWellFoundedOn(rel, Nat)
  BY <1>1, NatLessThanWellFounded, Zenon
<1>3. PICK x \in A : \A y \in A : ~(<<y, x>> \in rel)
  BY <1>2, WFMin
<1>4. \A y \in A : x <= y
  <2> TAKE y \in A
  <2>1. <<y, x>> \in rel <=> y < x
    BY <1>1 DEF OpToRel
  <2> QED BY <1>3, <2>1
<1> QED BY <1>4 DEF R!Min

\* An allocation finds an unused buffer.
LEMMA RxAllocates ==
  ASSUME RxInv
  PROVE  R!Min(R!Unused) \in R!Unused /\ \A s \in R!Slots : R!ForSlot(s) \in R!Unused
<1>1. R!Unused \in SUBSET Nat /\ R!Unused # {}
  BY RxEnough
<1>2. R!Min(R!Unused) \in R!Unused
  BY <1>1, RxMin
<1>3. ASSUME NEW s \in R!Slots PROVE R!ForSlot(s) \in R!Unused
  <2>1. PICK own : own = {b \in R!Unused : (b - 1) % R!Capacity = s}
    OBVIOUS
  <2>2. R!ForSlot(s) = R!Min(IF own = {} THEN R!Unused ELSE own)
    BY <2>1 DEF R!ForSlot
  <2>3. CASE own = {}
    BY <1>2, <2>2, <2>3
  <2>4. CASE own # {}
    <3>1. own \in SUBSET Nat
      BY <1>1, <2>1
    <3>2. R!Min(own) \in own
      BY <2>4, <3>1, RxMin
    <3> QED BY <2>1, <2>2, <2>4, <3>2
  <2> QED BY <2>3, <2>4
<1> QED BY <1>2, <1>3

\* An allocation of k buffers finds k unused ones.
LEMMA RxFresh ==
  ASSUME RxInv, NEW k \in Nat, k <= PoolSize + 1 - Len(rList)
  PROVE  /\ R!Fresh(k) \in Seq(R!Bufs) /\ Len(R!Fresh(k)) = k /\ Once(R!Fresh(k))
         /\ Els(R!Fresh(k)) \subseteq R!Unused /\ R!Range(R!Fresh(k)) = Els(R!Fresh(k))
<1>1. PICK n \in Nat : n = Cardinality(R!Unused) /\ IsFiniteSet(R!Unused) /\ k <= n
  <2>1. PoolSize \in Nat /\ Len(rList) \in Nat
    BY RxRing DEF RxInv, RxType
  <2> QED BY <2>1, RxEnough
<1>2. PICK f \in Bijection(1 .. n, R!Unused) : TRUE
  BY <1>1, FS_CardinalityType DEF ExistsBijection
<1>3. f \in [1 .. n -> R!Unused] /\ \A a, b \in 1 .. n : f[a] = f[b] => a = b
  BY <1>2 DEF Bijection, Injection, IsInjective
<1>4. PICK g : g = [i \in 1 .. k |-> f[i]]
  OBVIOUS
<1>5. g \in [1 .. k -> R!Unused] /\ R!IsInjective(g)
  <2>1. \A i \in 1 .. k : i \in 1 .. n
    BY <1>1
  <2> QED BY <1>3, <1>4, <2>1 DEF R!IsInjective
<1>6. R!Fresh(k) \in [1 .. k -> R!Unused] /\ R!IsInjective(R!Fresh(k))
  BY <1>5 DEF R!Fresh
<1>7. PICK h \in [1 .. k -> R!Unused] : h = R!Fresh(k) /\ R!IsInjective(h)
  BY <1>6
<1>8. h \in Seq(R!Bufs) /\ Len(h) = k /\ DOMAIN h = 1 .. k
  <2>1. h \in [1 .. k -> R!Bufs]
    BY <1>7, RxEnough
  <2> QED BY <2>1
<1>9. Once(h) /\ Els(h) \subseteq R!Unused /\ R!Range(h) = Els(h)
  BY <1>7, <1>8 DEF Once, Els, R!IsInjective, R!Range
<1> QED BY <1>7, <1>8, <1>9

\* The producer of the ring.
LEMMA RxStartStep == RxInv /\ R!ReplStart => RxInv'
<1> SUFFICES ASSUME RxInv, R!ReplStart PROVE RxInv'
  OBVIOUS
<1>1. /\ rProd = "queued" /\ rProd' = "alloc" /\ rCurr' = rTail
      /\ UNCHANGED <<rMode, rPhase, rList, rPosted, rFilled, rAdding, rCached,
                     rHandling, rDelayed, rHead, rTail, rCache, rHeld, rOwned>>
  BY DEF R!ReplStart, R!ring, R!fill
<1>2. RxLive' = RxLive /\ RxRinged' = RxRinged
  BY <1>1 DEF RxLive, RxRinged
<1>3. RxType' /\ RxOrder' /\ RxFill' /\ RxDown' /\ RxKept'
  BY <1>1 DEF RxInv, RxType, RxOrder, RxFill, RxDown, RxKept
<1>4. RxProducer' /\ RxDistinct' /\ RxOwned'
  BY <1>1, <1>2 DEF RxInv, RxProducer, RxDistinct, RxOwned
<1> QED BY <1>3, <1>4 DEF RxInv

\* A ring that is not full has room for one more.
LEMMA RxFull ==
  ASSUME RxInv, rProd = "alloc"
  PROVE  ~R!RingFull => RxDist(rHead, rTail) < PoolSize
<1>1. rCurr = rTail /\ rTail \in R!Slots /\ rHead \in R!Slots
  BY DEF RxInv, RxType, RxProducer
<1>2. PoolSize \in Nat /\ R!Slots = 0 .. PoolSize
  BY RxRing
<1>3. CASE PoolSize = 0
  <2>1. rTail + 1 = 1 /\ rHead = 0 /\ R!Capacity = 1
    BY <1>1, <1>2, <1>3, RxRing
  <2>2. 1 % 1 = 0
    OBVIOUS
  <2> QED BY <1>1, <2>1, <2>2 DEF R!RingFull
<1>4. CASE PoolSize # 0
  <2>1. PICK k \in 0 .. PoolSize : k = 1
    BY <1>2, <1>4
  <2>2. (rTail + k) % R!Capacity = IF rTail + k <= PoolSize THEN rTail + k ELSE rTail + k - PoolSize - 1
    BY <1>1, RxAfter
  <2>3. R!RingFull <=> rHead = IF rTail + 1 <= PoolSize THEN rTail + 1 ELSE rTail + 1 - PoolSize - 1
    BY <1>1, <2>1, <2>2 DEF R!RingFull
  <2>4. RxDist(rHead, rTail) = IF rHead <= rTail THEN rTail - rHead ELSE rTail + PoolSize + 1 - rHead
    BY <1>1, RxRing
  <2> QED BY <1>1, <1>2, <2>3, <2>4
<1> QED BY <1>3, <1>4

\* The producer allocates a buffer nobody owns, or gives up.
LEMMA RxAllocStep == RxInv /\ (\E ok \in BOOLEAN : R!ReplAlloc(ok)) => RxInv'
<1> SUFFICES ASSUME RxInv, NEW ok \in BOOLEAN, R!ReplAlloc(ok) PROVE RxInv'
  OBVIOUS
<1>1. /\ rProd = "alloc"
      /\ UNCHANGED <<rMode, rPhase, rList, rPosted, rFilled, rAdding, rCached,
                     rHandling, rDelayed, rHead, rTail, rCache, rCurr>>
  BY DEF R!ReplAlloc, R!ring, R!fill
<1>2. RxLive' = RxLive /\ RxRinged' = RxRinged
  BY <1>1 DEF RxLive, RxRinged
<1>3. CASE ok /\ ~R!RingFull
  <2>1. rProd' = "write" /\ rHeld' = R!ForSlot(rCurr) /\ rOwned' = rOwned \cup {rHeld'}
    BY <1>3 DEF R!ReplAlloc
  <2>2. rHeld' \in R!Unused
    BY <2>1, RxAllocates DEF RxInv, RxType
  <2>3. rHeld' \in R!Bufs /\ rHeld' \notin rOwned /\ rHeld' # 0
    BY <2>1, <2>2, RxRing DEF R!Unused
  <2>4. rHeld = 0 /\ rOwned = Els(rList) \cup RxRinged
    BY <1>1 DEF RxInv, RxProducer, RxOwned
  <2>5. RxDist(rHead, rTail) < PoolSize
    BY <1>1, <1>3, RxFull
  <2>6. RxType' /\ RxOrder' /\ RxFill' /\ RxDown' /\ RxKept'
    BY <1>1, <2>1, <2>3 DEF RxInv, RxType, RxOrder, RxFill, RxDown, RxKept
  <2>7. RxProducer'
    BY <1>1, <2>1, <2>3, <2>5 DEF RxInv, RxProducer
  <2>8. RxDistinct' /\ RxOwned'
    BY <1>1, <1>2, <2>1, <2>3, <2>4 DEF RxInv, RxDistinct, RxOwned
  <2> QED BY <2>6, <2>7, <2>8 DEF RxInv
<1>4. CASE ~(ok /\ ~R!RingFull)
  <2>1. rProd' = R!AfterFailure /\ UNCHANGED <<rHeld, rOwned>>
    BY <1>4 DEF R!ReplAlloc
  <2>2. rProd' \in {"alloc", "off"}
    BY <2>1 DEF R!AfterFailure
  <2>3. RxType' /\ RxOrder' /\ RxFill' /\ RxDown' /\ RxKept'
    BY <1>1, <2>1, <2>2 DEF RxInv, RxType, RxOrder, RxFill, RxDown, RxKept
  <2>4. RxProducer' /\ RxDistinct' /\ RxOwned'
    BY <1>1, <1>2, <2>1, <2>2 DEF RxInv, RxProducer, RxDistinct, RxOwned
  <2> QED BY <2>3, <2>4 DEF RxInv
<1> QED BY <1>3, <1>4

\* The slot the producer writes is not one of those that hold a buffer.
LEMMA RxWriteStep == RxInv /\ R!ReplWrite => RxInv'
<1> SUFFICES ASSUME RxInv, R!ReplWrite PROVE RxInv'
  OBVIOUS
<1>1. /\ rProd = "write" /\ rProd' = "publish" /\ rCache' = [rCache EXCEPT ![rCurr] = rHeld]
      /\ UNCHANGED <<rMode, rPhase, rList, rPosted, rFilled, rAdding, rCached,
                     rHandling, rDelayed, rHead, rTail, rHeld, rCurr, rOwned>>
  BY DEF R!ReplWrite, R!fill
<1>2. rCurr = rTail /\ rTail \in R!Slots /\ rHeld # 0 /\ rHead \in R!Slots
  BY <1>1 DEF RxInv, RxProducer, RxType
<1>3. RxLive' = RxLive /\ rCurr \notin RxLive
  <2>1. RxDist(rHead, rTail) \in Int
    BY <1>2, RxDistType
  <2> QED BY <1>1, <1>2, <2>1 DEF RxLive
<1>4. RxLive \subseteq R!Slots /\ \A s \in RxLive : rCache'[s] = rCache[s]
  BY <1>1, <1>3 DEF RxInv, RxType, RxLive
<1>5. RxRinged' = RxRinged
  BY <1>3, <1>4 DEF RxRinged
<1>6. RxType' /\ RxOrder' /\ RxFill' /\ RxDown' /\ RxKept'
  BY <1>1 DEF RxInv, RxType, RxOrder, RxFill, RxDown, RxKept
<1>7. RxProducer'
  BY <1>1, <1>2 DEF RxInv, RxType, RxProducer
<1>8. RxDistinct' /\ RxOwned'
  BY <1>1, <1>3, <1>4, <1>5 DEF RxInv, RxDistinct, RxOwned
<1> QED BY <1>6, <1>7, <1>8 DEF RxInv

\* Publishing moves the producer's buffer into the ring.
LEMMA RxPublishStep == RxInv /\ R!ReplPublish => RxInv'
<1> SUFFICES ASSUME RxInv, R!ReplPublish PROVE RxInv'
  OBVIOUS
<1>1. /\ rProd = "publish" /\ rProd' = "alloc" /\ rHeld' = 0
      /\ rTail' = (rCurr + 1) % R!Capacity /\ rCurr' = (rCurr + 1) % R!Capacity
      /\ UNCHANGED <<rMode, rPhase, rList, rPosted, rFilled, rAdding, rCached,
                     rHandling, rDelayed, rHead, rCache, rOwned>>
  BY DEF R!ReplPublish, R!fill
<1>2. /\ rCurr = rTail /\ rTail \in R!Slots /\ rHead \in R!Slots /\ RxDist(rHead, rTail) < PoolSize
      /\ rHeld # 0 /\ rCache[rTail] = rHeld /\ rHeld \in R!Bufs
  BY <1>1 DEF RxInv, RxProducer, RxType
<1>3. rTail' \in R!Slots
  <2>1. PoolSize \in Nat /\ RxDist(rHead, rTail) \in 0 .. PoolSize
    BY <1>2, RxDistType, RxRing
  <2>2. PICK k \in 0 .. PoolSize : k = 1
    BY <1>2, <2>1
  <2>3. (rTail + k) % R!Capacity \in R!Slots
    BY <1>2, RxAfter
  <2> QED BY <1>1, <1>2, <2>2, <2>3
<1>4. \A s \in R!Slots : RxDist(rHead, s) < RxDist(rHead, rTail') <=> RxDist(rHead, s) < RxDist(rHead, rTail) \/ s = rTail
  BY <1>1, <1>2, <1>3, RxExtend
<1>5. RxLive' = RxLive \cup {rTail}
  BY <1>1, <1>2, <1>4 DEF RxLive
<1>6. RxRinged' = RxRinged \cup {rHeld}
  BY <1>1, <1>2, <1>5 DEF RxRinged
<1>7. RxType' /\ RxOrder' /\ RxFill' /\ RxDown' /\ RxKept'
  BY <1>1, <1>3 DEF RxInv, RxType, RxOrder, RxFill, RxDown, RxKept
<1>8. RxProducer'
  BY <1>1 DEF RxProducer
<1>9. RxDistinct'
  <2>1. \A s \in RxLive : rCache[s] # rHeld
    BY DEF RxInv, RxDistinct, RxRinged
  <2>2. 0 \notin R!Bufs /\ Els(rList) \subseteq R!Bufs
    BY RxRing DEF RxInv, RxType, Els
  <2>3. rHeld' \notin Els(rList) \cup RxRinged'
    BY <1>1, <1>2, <1>6, <2>2 DEF RxInv, RxDistinct
  <2>4. \A s, t \in RxLive' : rCache'[s] = rCache'[t] => s = t
    BY <1>1, <1>2, <1>5, <2>1 DEF RxInv, RxDistinct
  <2> QED BY <1>1, <1>2, <1>6, <2>3, <2>4 DEF RxInv, RxDistinct
<1>10. RxOwned'
  BY <1>1, <1>2, <1>6 DEF RxInv, RxOwned
<1> QED BY <1>7, <1>8, <1>9, <1>10 DEF RxInv

\* The pipe and the receive handler.
LEMMA RxReceiveStep == RxInv /\ R!Receive => RxInv'
<1> SUFFICES ASSUME RxInv, R!Receive PROVE RxInv'
  OBVIOUS
<1>1. /\ rPosted # << >> /\ rFilled' = Append(rFilled, rPosted[1]) /\ rPosted' = Tail(rPosted)
      /\ UNCHANGED <<rMode, rPhase, rList, rAdding, rCached, rHandling, rDelayed, rHead, rTail, rCache, rProd, rHeld, rCurr, rOwned>>
  BY DEF R!Receive, R!ring, R!producer, R!fill
<1>2. rPosted \in Seq(R!Bufs) /\ rFilled \in Seq(R!Bufs) /\ rList = (rFilled \o rPosted) \o rAdding
  BY DEF RxInv, RxType, RxOrder
<1>3. rFilled' \in Seq(R!Bufs) /\ rPosted' \in Seq(R!Bufs) /\ rFilled' \o rPosted' = rFilled \o rPosted
  <2>1. Len(rPosted) \in Nat /\ Len(rPosted) >= 1 /\ rPosted[1] \in R!Bufs
    BY <1>1, <1>2, EmptySeq
  <2>2. /\ Tail(rPosted) \in Seq(R!Bufs) /\ Len(Tail(rPosted)) = Len(rPosted) - 1
        /\ \A i \in 1 .. Len(rPosted) - 1 : Tail(rPosted)[i] = rPosted[i + 1]
    BY <1>1, <1>2, HeadTailProperties
  <2>3. /\ Append(rFilled, rPosted[1]) \in Seq(R!Bufs) /\ Len(Append(rFilled, rPosted[1])) = Len(rFilled) + 1
        /\ \A i \in 1 .. Len(rFilled) : Append(rFilled, rPosted[1])[i] = rFilled[i]
        /\ Append(rFilled, rPosted[1])[Len(rFilled) + 1] = rPosted[1]
    BY <1>2, <2>1, AppendProperties
  <2>4. PICK a \in Seq(R!Bufs), b \in Seq(R!Bufs) : a = Append(rFilled, rPosted[1]) /\ b = Tail(rPosted)
    BY <2>2, <2>3
  <2>5. /\ a \o b \in Seq(R!Bufs) /\ Len(a \o b) = Len(a) + Len(b)
        /\ \A i \in 1 .. Len(a) + Len(b) : (a \o b)[i] = IF i <= Len(a) THEN a[i] ELSE b[i - Len(a)]
    BY ConcatProperties
  <2>6. /\ rFilled \o rPosted \in Seq(R!Bufs) /\ Len(rFilled \o rPosted) = Len(rFilled) + Len(rPosted)
        /\ \A i \in 1 .. Len(rFilled) + Len(rPosted) :
             (rFilled \o rPosted)[i] = IF i <= Len(rFilled) THEN rFilled[i] ELSE rPosted[i - Len(rFilled)]
    BY <1>2, ConcatProperties
  <2>7. Len(rFilled) \in Nat
    BY <1>2
  <2>8. Len(a \o b) = Len(rFilled \o rPosted)
    BY <2>1, <2>2, <2>3, <2>4, <2>5, <2>6, <2>7
  <2>9. ASSUME NEW i \in 1 .. Len(rFilled) + Len(rPosted) PROVE (a \o b)[i] = (rFilled \o rPosted)[i]
    <3>1. Len(a) = Len(rFilled) + 1 /\ Len(a) + Len(b) = Len(rFilled) + Len(rPosted)
      BY <2>1, <2>2, <2>3, <2>4, <2>7
    <3>2. CASE i <= Len(rFilled)
      BY <2>3, <2>4, <2>5, <2>6, <2>7, <3>1, <3>2
    <3>3. CASE i = Len(rFilled) + 1
      BY <2>1, <2>3, <2>4, <2>5, <2>6, <2>7, <3>1, <3>3
    <3>4. CASE i > Len(rFilled) + 1
      <4>0. PICK j \in Int : j = i - Len(rFilled) - 1
        <5>1. i \in Int
          BY <2>1, <2>7
        <5>2. i - Len(rFilled) - 1 \in Int
          BY <2>7, <5>1
        <5> QED BY <5>2
      <4>1. j \in 1 .. Len(rPosted) - 1 /\ i = Len(rFilled) + 1 + j
        BY <2>1, <2>7, <3>4, <4>0
      <4>2. (a \o b)[i] = b[j] /\ b[j] = rPosted[j + 1]
        BY <2>2, <2>4, <2>5, <2>7, <3>1, <4>1
      <4>3. (rFilled \o rPosted)[i] = rPosted[j + 1]
        <5>1. ~(i <= Len(rFilled)) /\ i - Len(rFilled) = j + 1
          BY <2>7, <4>1
        <5> QED BY <2>6, <5>1
      <4> QED BY <4>2, <4>3
    <3>5. i \in Int /\ Len(rFilled) \in Int
      BY <2>1, <2>7
    <3>6. i <= Len(rFilled) \/ i = Len(rFilled) + 1 \/ i > Len(rFilled) + 1
      BY <3>5
    <3> QED BY <3>2, <3>3, <3>4, <3>6
  <2>10. a \o b = rFilled \o rPosted
    BY <2>5, <2>6, <2>8, <2>9, SeqEqual
  <2> QED BY <1>1, <2>2, <2>3, <2>4, <2>10
<1>4. RxLive' = RxLive /\ RxRinged' = RxRinged
  BY <1>1 DEF RxLive, RxRinged
<1>5. RxType' /\ RxOrder' /\ RxFill' /\ RxDown' /\ RxKept'
  BY <1>1, <1>2, <1>3 DEF RxInv, RxType, RxOrder, RxFill, RxDown, RxKept
<1>6. RxProducer' /\ RxDistinct' /\ RxOwned'
  BY <1>1, <1>4 DEF RxInv, RxProducer, RxDistinct, RxOwned
<1> QED BY <1>5, <1>6 DEF RxInv

\* Lists of wrappers, put together.
LEMMA RxAssoc ==
  ASSUME NEW a \in Seq(R!Bufs), NEW b \in Seq(R!Bufs), NEW c \in Seq(R!Bufs)
  PROVE  a \o (b \o c) = (a \o b) \o c
BY ConcatAssociative

\* The parts of a list of wrappers, element by element.
LEMMA RxAt ==
  ASSUME NEW a \in Seq(R!Bufs), NEW b \in Seq(R!Bufs)
  PROVE  /\ Len(a) \in Nat /\ Len(a \o b) = Len(a) + Len(b)
         /\ DOMAIN (a \o b) = 1 .. Len(a) + Len(b)
         /\ \A j \in 1 .. Len(a) + Len(b) :
              (a \o b)[j] = IF j <= Len(a) THEN a[j] ELSE b[j - Len(a)]
         /\ Els(a \o b) = Els(a) \cup Els(b)
<1>1. Len(a) \in Nat
  OBVIOUS
<1>2. /\ a \o b \in Seq(R!Bufs) /\ Len(a \o b) = Len(a) + Len(b)
      /\ \A j \in 1 .. Len(a) + Len(b) :
           (a \o b)[j] = IF j <= Len(a) THEN a[j] ELSE b[j - Len(a)]
  BY ConcatProperties
<1>3. Els(a \o b) = Els(a) \cup Els(b)
  BY ElsConcat
<1>4. PICK ab \in Seq(R!Bufs) : ab = a \o b
  BY <1>2
<1>5. DOMAIN ab = 1 .. Len(ab)
  OBVIOUS
<1> QED BY ONLY <1>1, <1>2, <1>3, <1>4, <1>5

\* The receive handler takes the first wrapper.
LEMMA RxCommonStep == RxInv /\ R!RxCommon => RxInv'
<1> SUFFICES ASSUME RxInv, R!RxCommon PROVE RxInv'
  OBVIOUS
<1>1. /\ rFilled # << >> /\ rList' = Tail(rList) /\ rFilled' = Tail(rFilled)
      /\ rOwned' = rOwned \ {rList[1]} /\ rHandling' = TRUE
      /\ UNCHANGED <<rMode, rPhase, rPosted, rAdding, rCached, rDelayed, rHead, rTail, rCache, rProd, rHeld, rCurr>>
  BY DEF R!RxCommon, R!ring, R!producer, R!fill
<1>0. PICK pipe : pipe = rPosted \o rAdding
  OBVIOUS
<1>2. /\ pipe \in Seq(R!Bufs) /\ rFilled \in Seq(R!Bufs) /\ rList \in Seq(R!Bufs)
      /\ rList = rFilled \o pipe /\ Len(rList) <= PoolSize + 1
  <2>1. /\ rPosted \in Seq(R!Bufs) /\ rAdding \in Seq(R!Bufs) /\ rFilled \in Seq(R!Bufs)
        /\ rList \in Seq(R!Bufs) /\ rList = (rFilled \o rPosted) \o rAdding
        /\ Len(rList) <= PoolSize + 1
    BY DEF RxInv, RxType, RxOrder, RxFill
  <2> QED BY <1>0, <2>1, ConcatAssociative, ConcatProperties
<1>3. Len(rFilled) \in Nat /\ Len(rFilled) >= 1 /\ Len(pipe) \in Nat
  BY <1>1, <1>2, EmptySeq
<1>4. Len(rList) = Len(rFilled) + Len(pipe)
  BY <1>2, ConcatProperties
<1>5. rList # << >>
  BY <1>2, <1>3, <1>4
<1>6. rFilled' \in Seq(R!Bufs) /\ rList' \in Seq(R!Bufs) /\ Len(rList') = Len(rList) - 1
  BY <1>1, <1>2, <1>5, ElsTail
<1>7. rList' = rFilled' \o pipe
  <2>1. /\ Len(Tail(rFilled)) = Len(rFilled) - 1
        /\ \A i \in 1 .. Len(rFilled) - 1 : Tail(rFilled)[i] = rFilled[i + 1]
    BY <1>1, <1>2, HeadTailProperties
  <2>2. \A i \in 1 .. Len(rList) - 1 : Tail(rList)[i] = rList[i + 1]
    BY <1>2, <1>5, HeadTailProperties
  <2>3. PICK a \in Seq(R!Bufs) : a = rFilled'
    BY <1>6
  <2>4. /\ a \o pipe \in Seq(R!Bufs) /\ Len(a \o pipe) = Len(a) + Len(pipe)
        /\ \A i \in 1 .. Len(a) + Len(pipe) : (a \o pipe)[i] = IF i <= Len(a) THEN a[i] ELSE pipe[i - Len(a)]
    BY <1>2, ConcatProperties
  <2>5. \A i \in 1 .. Len(rFilled) + Len(pipe) :
          rList[i] = IF i <= Len(rFilled) THEN rFilled[i] ELSE pipe[i - Len(rFilled)]
    BY <1>2, ConcatProperties
  <2>6. Len(a) = Len(rFilled) - 1 /\ Len(a) + Len(pipe) = Len(rList) - 1
    BY <1>1, <1>3, <1>4, <2>1, <2>3
  <2>7. ASSUME NEW i \in 1 .. Len(rList) - 1 PROVE (a \o pipe)[i] = rList'[i]
    <3>1. i + 1 \in 1 .. Len(rFilled) + Len(pipe) /\ rList'[i] = rList[i + 1]
      BY <1>1, <1>3, <1>4, <2>2
    <3>2. CASE i <= Len(a)
      <4>1. i + 1 <= Len(rFilled) /\ i \in 1 .. Len(rFilled) - 1
        BY <1>3, <2>6, <3>2
      <4> QED BY <1>1, <2>1, <2>3, <2>4, <2>5, <2>6, <3>1, <3>2, <4>1
    <3>3. CASE ~(i <= Len(a))
      <4>1. ~(i + 1 <= Len(rFilled)) /\ i - Len(a) = i + 1 - Len(rFilled)
        BY <1>3, <2>6, <3>3
      <4> QED BY <2>4, <2>5, <2>6, <3>1, <3>3, <4>1
    <3> QED BY <3>2, <3>3
  <2>8. a \o pipe = rList'
    BY <1>6, <2>4, <2>6, <2>7, SeqEqual
  <2> QED BY <2>3, <2>8
<1>8. /\ Els(rList) = {rList[1]} \cup Els(rList') /\ Once(rList') /\ rList[1] \notin Els(rList')
  BY <1>1, <1>2, <1>5, ElsTail DEF RxInv, RxDistinct
<1>9. RxLive' = RxLive /\ RxRinged' = RxRinged
  BY <1>1 DEF RxLive, RxRinged
<1>10. RxType' /\ RxOrder' /\ RxFill'
  <2>1. RxType'
    BY <1>1, <1>6 DEF RxInv, RxType
  <2>2. PoolSize \in Nat /\ Len(rList) \in Int
    BY <1>3, <1>4, RxRing
  <2>3. RxFill'
    BY <1>1, <1>6, <2>2 DEF RxInv, RxFill
  <2>4. rFilled' \o (rPosted \o rAdding) = (rFilled' \o rPosted) \o rAdding
    <3>1. rPosted \in Seq(R!Bufs) /\ rAdding \in Seq(R!Bufs)
      BY DEF RxInv, RxType
    <3>2. PICK a \in Seq(R!Bufs) : a = rFilled'
      BY <1>6
    <3>3. a \o (rPosted \o rAdding) = (a \o rPosted) \o rAdding
      BY ONLY <3>1, RxAssoc
    <3> QED BY ONLY <3>2, <3>3
  <2>5. RxOrder'
    BY <1>0, <1>1, <1>7, <2>4 DEF RxOrder
  <2> QED BY <2>1, <2>3, <2>5
<1>11. RxDown' /\ RxKept'
  BY <1>1, <1>5 DEF RxInv, RxDown, RxKept
<1>12. RxProducer'
  BY <1>1 DEF RxInv, RxProducer
<1>13. RxDistinct'
  BY <1>1, <1>8, <1>9 DEF RxInv, RxDistinct
<1>14. RxOwned'
  BY <1>1, <1>8, <1>9 DEF RxInv, RxDistinct, RxOwned
<1> QED BY <1>10, <1>11, <1>12, <1>13, <1>14 DEF RxInv

\* Tearing the pipe down frees what is on the list and in the ring, and the producer
\* is idle.
LEMMA RxTeardownStep == RxInv /\ R!TeardownEnd => RxInv'
<1> SUFFICES ASSUME RxInv, R!TeardownEnd PROVE RxInv'
  OBVIOUS
<1>1. /\ ~rHandling /\ rProd = "off" /\ rPhase = "flushing" /\ rPhase' = "down"
      /\ rList' = << >> /\ rPosted' = << >> /\ rFilled' = << >> /\ rHead' = rTail
      /\ rOwned' = rOwned \ (R!Range(rList) \cup R!Range(R!RingBufs))
      /\ UNCHANGED <<rMode, rAdding, rCached, rHandling, rDelayed, rTail, rCache, rProd, rHeld, rCurr>>
  BY DEF R!TeardownEnd, R!producer, R!fill
<1>2. R!Range(rList) = Els(rList)
  <2>1. rList \in Seq(R!Bufs)
    BY DEF RxInv, RxType
  <2>2. DOMAIN rList = 1 .. Len(rList)
    BY ONLY <2>1
  <2> QED BY ONLY <2>2 DEF R!Range, Els
<1>3. R!Range(R!RingBufs) = RxRinged
  <2>1. /\ R!RingBufs = [i \in 1 .. R!InRing |-> rCache[(rHead + i - 1) % R!Capacity]]
        /\ RxRinged = {R!RingBufs[i] : i \in 1 .. R!InRing}
    BY RxRingBufs DEF RxInv
  <2>2. DOMAIN R!RingBufs = 1 .. R!InRing
    BY ONLY <2>1
  <2> QED BY ONLY <2>1, <2>2 DEF R!Range
<1>4. rHeld = 0
  BY <1>1 DEF RxInv, RxProducer
<1>5. rOwned' = {}
  BY <1>1, <1>2, <1>3, <1>4 DEF RxInv, RxOwned
<1>6. RxLive' = {} /\ RxRinged' = {}
  <2>1. rTail \in R!Slots
    BY DEF RxInv, RxType
  <2>2. RxDist(rTail, rTail) = 0 /\ \A s \in R!Slots : RxDist(rTail, s) \in 0 .. PoolSize
    <3>1. RxDist(rTail, rTail) = IF rTail <= rTail THEN rTail - rTail ELSE rTail + PoolSize + 1 - rTail
      BY <2>1, RxRing
    <3>2. rTail \in Int
      BY <2>1, RxRing
    <3>3. RxDist(rTail, rTail) = 0
      BY <3>1, <3>2
    <3> QED BY <2>1, <3>3, RxDistType
  <2> QED BY <1>1, <2>2 DEF RxLive, RxRinged
<1>7. << >> \in Seq(R!Bufs) /\ Els(<< >>) = {} /\ Once(<< >>) /\ << >> \o << >> = << >> /\ Len(<< >>) = 0
  BY DEF Els, Once
<1>8. RxType' /\ RxOrder' /\ RxFill' /\ RxDown' /\ RxKept'
  <2>0. rAdding = << >>
    BY <1>1 DEF RxInv, RxFill
  <2>1. RxType'
    BY <1>1, <1>7 DEF RxInv, RxType
  <2>2. 0 <= PoolSize + 1
    BY RxRing
  <2>3. RxOrder' /\ RxFill'
    BY <1>1, <1>7, <2>0, <2>2 DEF RxOrder, RxFill
  <2> QED BY <1>1, <2>1, <2>3 DEF RxInv, RxDown, RxKept
<1>9. RxProducer' /\ RxDistinct' /\ RxOwned'
  BY <1>1, <1>4, <1>5, <1>6, <1>7 DEF RxInv, RxProducer, RxDistinct, RxOwned
<1> QED BY <1>8, <1>9 DEF RxInv

\* Posting buffers keeps the list in the pipe's order.
LEMMA RxPost ==
  ASSUME RxInv, NEW new \in Seq(R!Bufs), R!Post(new), rFilled' = rFilled,
         rAdding' = rAdding, rCached' = rCached, rPhase' = rPhase,
         rAdding = << >> \/ new = << >>, Len(new) <= R!Lack
  PROVE  /\ rList' \in Seq(R!Bufs) /\ rPosted' \in Seq(R!Bufs) /\ RxOrder' /\ RxFill'
         /\ Els(rList') = Els(rList) \cup Els(new)
         /\ Once(new) /\ Els(rList) \cap Els(new) = {} => Once(rList')
<1>1. rList' = rList \o new /\ rPosted' = rPosted \o new
  BY DEF R!Post
<1>2. /\ rPosted \in Seq(R!Bufs) /\ rFilled \in Seq(R!Bufs) /\ rList \in Seq(R!Bufs)
      /\ rAdding \in Seq(R!Bufs) /\ rList = (rFilled \o rPosted) \o rAdding /\ Once(rList)
  BY DEF RxInv, RxType, RxOrder, RxDistinct
<1>3. rPosted' \in Seq(R!Bufs)
  BY <1>1, <1>2, ElsConcat
<1>4. /\ rList' \in Seq(R!Bufs) /\ Len(rList') = Len(rList) + Len(new)
      /\ Els(rList') = Els(rList) \cup Els(new)
      /\ Once(new) /\ Els(rList) \cap Els(new) = {} => Once(rList')
  <2>1. rList \o new \in Seq(R!Bufs) /\ Len(rList \o new) = Len(rList) + Len(new)
    BY <1>2, ElsConcat
  <2>2. Els(rList \o new) = Els(rList) \cup Els(new)
    BY ONLY <1>2, new \in Seq(R!Bufs), RxAt, Zenon
  <2>3. Once(new) /\ Els(rList) \cap Els(new) = {} => Once(rList \o new)
    BY <1>2, ElsConcat
  <2> QED BY <1>1, <2>1, <2>2, <2>3, Zenon
<1>5. RxOrder'
  <2>1. CASE rAdding = << >>
    <3>1. (rFilled \o rPosted) \o new = rFilled \o (rPosted \o new)
      BY ONLY <1>2, new \in Seq(R!Bufs), RxAssoc, Zenon
    <3>2. rFilled \o rPosted \in Seq(R!Bufs) /\ rPosted \o new \in Seq(R!Bufs)
      BY <1>2, ConcatProperties
    <3>3. rFilled \o (rPosted \o new) \in Seq(R!Bufs)
      BY <1>2, <3>2, ConcatProperties
    <3>4. rList = rFilled \o rPosted
      BY <1>2, <2>1, <3>2, ConcatEmptySeq
    <3>5. (rFilled \o (rPosted \o new)) \o << >> = rFilled \o (rPosted \o new)
      BY <3>3, ConcatEmptySeq
    <3> QED BY <1>1, <2>1, <3>1, <3>4, <3>5 DEF RxOrder
  <2>2. CASE new = << >>
    <3>1. rList' = rList /\ rPosted' = rPosted
      BY <1>1, <1>2, <2>2, ConcatEmptySeq
    <3> QED BY <1>2, <3>1 DEF RxOrder
  <2> QED BY <2>1, <2>2
<1>6. RxFill'
  <2>1. PoolSize \in Nat /\ Len(rList) \in Nat /\ Len(new) \in Nat
    BY <1>2, RxRing
  <2>2. Len(rList') <= PoolSize \/ Len(rList') = Len(rList)
    BY <1>4, <2>1 DEF R!Lack
  <2>3. Len(rList') \in Nat
    BY <1>4, <2>1
  <2> QED BY <2>1, <2>2, <2>3 DEF RxInv, RxFill
<1> QED BY <1>3, <1>4, <1>5, <1>6

\* The buffers taken from the ring leave it.
LEMMA RxFastStep ==
  ASSUME RxInv, rPhase # "down", NEW k \in 0 .. PoolSize, NEW waits \in BOOLEAN,
         R!FastReplenish(k, waits), rAdding = << >> \/ k = 0,
         UNCHANGED <<rMode, rPhase, rFilled, rAdding, rCached>>, rHandling' \in BOOLEAN
  PROVE  RxInv'
<1>1. /\ k <= R!Lack /\ k <= R!InRing /\ R!Post(SubSeq(R!RingBufs, 1, k))
      /\ rHead' = (rHead + k) % R!Capacity /\ rProd' \in {rProd, R!Queue}
      /\ rCache' = [s \in R!Slots |-> IF s \in R!Taken(k) THEN 0 ELSE rCache[s]]
      /\ UNCHANGED <<rMode, rPhase, rFilled, rAdding, rCached, rTail, rHeld, rCurr, rOwned>>
  BY DEF R!FastReplenish, R!HeadAfter
<1>2. rProd' = rProd \/ (rProd = "off" /\ rProd' = "queued")
  BY <1>1 DEF R!Queue
<1>3. /\ rHead \in R!Slots /\ rTail \in R!Slots /\ PoolSize \in Nat /\ Len(rList) \in Nat
      /\ rCache \in [R!Slots -> R!Bufs \cup {0}] /\ RxRinged \subseteq R!Bufs
  BY RxRing DEF RxInv, RxType, RxDistinct
<1>4. rHead' \in R!Slots
  BY <1>1, <1>3, RxAfter
<1>5. R!InRing = RxDist(rHead, rTail) /\ RxDist(rHead, rTail) \in 0 .. PoolSize
  BY RxRingBufs DEF RxInv
<1>6. /\ RxDist(rHead', rTail) = RxDist(rHead, rTail) - k
      /\ \A s \in R!Slots :
           RxDist(rHead', s) < RxDist(rHead', rTail)
             <=> k <= RxDist(rHead, s) /\ RxDist(rHead, s) < RxDist(rHead, rTail)
  BY <1>1, <1>3, <1>4, <1>5, RxAdvance
<1>7. RxLive' = {s \in RxLive : k <= RxDist(rHead, s)}
  BY <1>1, <1>6 DEF RxLive
<1>21. \A s \in R!Slots : k <= RxDist(rHead, s) => rCache'[s] = rCache[s]
  <2> SUFFICES ASSUME NEW s \in R!Slots, s \in R!Taken(k) PROVE ~(k <= RxDist(rHead, s))
    BY <1>1
  <2>1. PICK i \in 1 .. k : s = (rHead + i - 1) % R!Capacity
    BY DEF R!Taken
  <2>2. PICK d \in 0 .. PoolSize : d = i - 1 /\ rHead + i - 1 = rHead + d /\ d < k
    <3>1. rHead \in Int
      BY <1>3, RxRing
    <3> QED BY <1>3, <3>1
  <2>3. RxDist(rHead, s) = d
    BY <1>3, <2>1, <2>2, RxAfter
  <2> QED BY <2>2, <2>3
<1>8. PICK new : new = SubSeq(R!RingBufs, 1, k)
  OBVIOUS
<1>9. /\ new \in Seq(R!Bufs) /\ Len(new) = k
      /\ \A i \in 1 .. k : new[i] = rCache[(rHead + i - 1) % R!Capacity]
  <2>1. new = [i \in 1 .. k |-> R!RingBufs[i]]
    <3>1. PICK f : f = R!RingBufs
      OBVIOUS
    <3>2. SubSeq(f, 1, k) = [i \in 1 .. k |-> f[i]]
      <4>1. \A i \in 1 .. k : i + 1 - 1 = i
        OBVIOUS
      <4> QED BY <4>1
    <3> QED BY <1>8, <3>1, <3>2
  <2>2. \A i \in 1 .. k : i \in 1 .. R!InRing
    BY <1>1, <1>3, <1>5
  <2>3. \A i \in 1 .. k : R!RingBufs[i] = rCache[(rHead + i - 1) % R!Capacity] /\ R!RingBufs[i] \in R!Bufs
    BY <1>3, <2>2, RxRingBufs DEF RxInv
  <2>4. new \in [1 .. k -> R!Bufs] /\ k \in Nat
    BY <1>3, <2>1, <2>3
  <2>5. new \in Seq(R!Bufs) /\ Len(new) = k
    BY <2>4
  <2>6. \A i \in 1 .. k : new[i] = rCache[(rHead + i - 1) % R!Capacity]
    BY <2>1, <2>3
  <2> QED BY <2>5, <2>6
<1>10. Els(new) = {rCache[s] : s \in {s \in RxLive : RxDist(rHead, s) < k}}
  <2>1. \A i \in 1 .. k : i \in 1 .. R!InRing
    BY <1>1, <1>3, <1>5
  <2>2. ASSUME NEW i \in 1 .. k
        PROVE  new[i] \in {rCache[s] : s \in {s \in RxLive : RxDist(rHead, s) < k}}
    <3>1. PICK s \in RxLive : s = (rHead + i - 1) % R!Capacity /\ RxDist(rHead, s) = i - 1
      BY <2>1, RxRingBufs DEF RxInv
    <3>2. RxDist(rHead, s) < k
      BY <3>1
    <3> QED BY <1>9, <3>1, <3>2
  <2>3. ASSUME NEW s \in RxLive, RxDist(rHead, s) < k PROVE rCache[s] \in Els(new)
    <3>1. PICK i \in 1 .. R!InRing : i = RxDist(rHead, s) + 1 /\ s = (rHead + i - 1) % R!Capacity
      BY RxRingBufs DEF RxInv
    <3>2. RxDist(rHead, s) \in Int
      BY <1>3, RxDistType, RxRing DEF RxLive
    <3>3. i \in 1 .. k
      BY <1>3, <1>5, <2>3, <3>1, <3>2
    <3> QED BY <1>9, <3>1, <3>3 DEF Els
  <2> QED BY <1>9, <2>2, <2>3 DEF Els
<1>11. Once(new)
  <2> SUFFICES ASSUME NEW i \in 1 .. k, NEW j \in 1 .. k, new[i] = new[j]
               PROVE  i = j
    BY <1>9 DEF Once
  <2>1. i \in 1 .. R!InRing /\ j \in 1 .. R!InRing
    BY <1>1, <1>3, <1>5
  <2>2. PICK s \in RxLive : s = (rHead + i - 1) % R!Capacity /\ RxDist(rHead, s) = i - 1
    BY <2>1, RxRingBufs DEF RxInv
  <2>3. PICK e \in RxLive : e = (rHead + j - 1) % R!Capacity /\ RxDist(rHead, e) = j - 1
    BY <2>1, RxRingBufs DEF RxInv
  <2>4. s = e
    BY <1>9, <2>2, <2>3 DEF RxInv, RxDistinct
  <2>5. i - 1 = j - 1
    BY <2>2, <2>3, <2>4
  <2> QED BY <2>5
<1>12. \A s \in RxLive : RxDist(rHead, s) \in Int
  BY <1>3, RxDistType, RxRing DEF RxLive
<1>13. Els(new) \cup RxRinged' = RxRinged
  <2>1. \A s \in RxLive' : s \in RxLive /\ rCache'[s] = rCache[s]
    BY <1>7, <1>21 DEF RxLive
  <2>2. RxRinged' = {rCache[s] : s \in {s \in RxLive : k <= RxDist(rHead, s)}}
    BY <1>7, <2>1 DEF RxRinged
  <2>3. PICK near, far : /\ near = {s \in RxLive : RxDist(rHead, s) < k}
                         /\ far = {s \in RxLive : k <= RxDist(rHead, s)}
    OBVIOUS
  <2>4. near \cup far = RxLive
    BY <1>3, <1>12, <2>3
  <2>5. RxRinged = {rCache[s] : s \in RxLive}
    BY DEF RxRinged
  <2>6. Els(new) = {rCache[s] : s \in near} /\ RxRinged' = {rCache[s] : s \in far}
    BY ONLY <1>10, <2>2, <2>3
  <2> QED BY ONLY <2>4, <2>5, <2>6
<1>14. Els(new) \cap RxRinged' = {}
  <2> SUFFICES ASSUME NEW s \in RxLive, NEW e \in RxLive, RxDist(rHead, s) < k, k <= RxDist(rHead, e),
                      rCache[s] = rCache[e]
               PROVE  FALSE
    <3>1. \A s \in RxLive' : s \in RxLive /\ rCache'[s] = rCache[s]
      BY <1>7, <1>21 DEF RxLive
    <3> QED BY <1>7, <1>10, <3>1 DEF RxRinged
  <2>1. s = e
    BY DEF RxInv, RxDistinct
  <2>2. RxDist(rHead, s) \in Int /\ k \in Int
    BY <1>12
  <2> QED BY <2>1, <2>2
<1>15. /\ rList' \in Seq(R!Bufs) /\ rPosted' \in Seq(R!Bufs) /\ RxOrder' /\ RxFill'
       /\ Els(rList') = Els(rList) \cup Els(new) /\ Once(rList')
  <2>1. Len(new) <= R!Lack /\ (rAdding = << >> \/ new = << >>)
    BY <1>1, <1>9, EmptySeq
  <2>2. Els(rList) \cap Els(new) = {}
    BY <1>13 DEF RxInv, RxDistinct
  <2>3. R!Post(new)
    BY <1>1, <1>8
  <2> QED BY <1>1, <1>9, <1>11, <2>1, <2>2, <2>3, RxPost
<1>16. RxType'
  <2>1. rCache' \in [R!Slots -> R!Bufs \cup {0}]
    BY <1>1, <1>3
  <2>2. rDelayed' \in BOOLEAN
    BY DEF R!FastReplenish
  <2> QED BY <1>1, <1>2, <1>4, <1>15, <2>1, <2>2 DEF RxInv, RxType
<1>17. RxProducer'
  <2>1. RxDist(rHead, rTail) < PoolSize => RxDist(rHead', rTail) < PoolSize
    BY <1>3, <1>5, <1>6
  <2>2. rProd = "publish" => rCache'[rCurr] = rCache[rCurr]
    <3>1. k <= RxDist(rHead, rTail)
      BY <1>1, <1>5
    <3> QED BY <1>3, <1>21, <3>1 DEF RxInv, RxProducer
  <2> QED BY <1>1, <1>2, <2>1, <2>2 DEF RxInv, RxProducer
<1>18. RxDistinct'
  <2>1. RxLive' \subseteq RxLive
    BY <1>7
  <2>2. \A s, t \in RxLive' : rCache'[s] = rCache'[t] => s = t
    <3>1. \A s \in RxLive' : rCache'[s] = rCache[s]
      BY <1>7, <1>21 DEF RxLive
    <3> QED BY <2>1, <3>1 DEF RxInv, RxDistinct
  <2>3. RxRinged' \subseteq R!Bufs /\ Els(rList') \cap RxRinged' = {} /\ rHeld' \notin Els(rList') \cup RxRinged'
    BY <1>1, <1>13, <1>14, <1>15 DEF RxInv, RxDistinct
  <2> QED BY <1>15, <2>2, <2>3 DEF RxDistinct
<1>19. RxOwned'
  BY <1>1, <1>13, <1>15 DEF RxInv, RxOwned
<1>20. RxDown' /\ RxKept'
  <2>1. rList' = << >> => rDelayed'
    <3>1. Len(rList') = Len(rList) + k
      <4>1. rList' = rList \o new /\ rList \in Seq(R!Bufs)
        BY <1>1, <1>8 DEF R!Post, RxInv, RxType
      <4> QED BY ONLY <1>9, <4>1, RxAt
    <3>2. rList' = << >> => Len(rList) + k = 0
      BY <3>1
    <3>3. Len(rList) + k = 0 => R!Reschedule(Len(rList) + k)
      BY PoolAssumption DEF R!Reschedule
    <3> QED BY <3>2, <3>3 DEF R!FastReplenish
  <2> QED BY <1>1, <2>1 DEF RxDown, RxKept
<1> QED BY <1>15, <1>16, <1>17, <1>18, <1>19, <1>20 DEF RxInv

\* The buffers allocated for the pipe are nobody else's.
LEMMA RxPlainStep ==
  ASSUME RxInv, rPhase # "down", NEW k \in 0 .. PoolSize, NEW waits \in BOOLEAN,
         R!PlainReplenish(k, waits), rAdding = << >> \/ k = 0,
         UNCHANGED <<rMode, rPhase, rFilled, rAdding, rCached>>, rHandling' \in BOOLEAN
  PROVE  RxInv'
<1>1. /\ k <= R!Lack /\ R!Post(R!Fresh(k)) /\ rOwned' = rOwned \cup R!Range(R!Fresh(k))
      /\ UNCHANGED <<rMode, rPhase, rFilled, rAdding, rCached, rHead, rTail, rCache, rProd, rHeld, rCurr>>
  BY DEF R!PlainReplenish, R!ring, R!producer
<1>2. PoolSize \in Nat /\ Len(rList) \in Nat /\ k \in Nat
  BY RxRing DEF RxInv, RxType
<1>13. k <= PoolSize + 1 - Len(rList)
  BY <1>1, <1>2 DEF R!Lack, RxInv, RxFill
<1>3. PICK new : new = R!Fresh(k)
  OBVIOUS
<1>4. /\ new \in Seq(R!Bufs) /\ Len(new) = k /\ Once(new)
      /\ Els(new) \subseteq R!Unused /\ rOwned' = rOwned \cup Els(new)
  BY <1>1, <1>2, <1>3, <1>13, RxFresh
<1>5. Els(new) \subseteq R!Bufs /\ Els(new) \cap rOwned = {}
  BY <1>4 DEF R!Unused
<1>6. RxLive' = RxLive /\ RxRinged' = RxRinged
  BY <1>1 DEF RxLive, RxRinged
<1>7. /\ Els(rList) \cap Els(new) = {} /\ Els(new) \cap RxRinged = {} /\ rHeld \notin Els(new)
  <2>1. 0 \notin R!Bufs
    BY RxRing
  <2> QED BY <1>5, <2>1 DEF RxInv, RxOwned
<1>8. /\ rList' \in Seq(R!Bufs) /\ rPosted' \in Seq(R!Bufs) /\ RxOrder' /\ RxFill'
      /\ Els(rList') = Els(rList) \cup Els(new) /\ Once(rList')
  <2>1. Len(new) <= R!Lack /\ (rAdding = << >> \/ new = << >>)
    BY <1>1, <1>4, EmptySeq
  <2>2. R!Post(new)
    BY <1>1, <1>3
  <2> QED BY <1>1, <1>4, <1>7, <2>1, <2>2, RxPost
<1>9. RxType'
  <2>1. rDelayed' \in BOOLEAN
    BY DEF R!PlainReplenish
  <2> QED BY <1>1, <1>8, <2>1 DEF RxInv, RxType
<1>10. RxProducer' /\ RxDown'
  BY <1>1 DEF RxInv, RxProducer, RxDown
<1>14. RxKept'
  <2>1. rList' = << >> => rDelayed'
    <3>1. Len(rList') = Len(rList) + k
      BY <1>1, <1>3, <1>4, ConcatProperties DEF R!Post, RxInv, RxType
    <3>2. rList' = << >> => Len(rList) + k = 0 /\ k = 0 /\ Len(rList) = 0
      BY <1>2, <3>1
    <3>3. Len(rList) = 0 /\ k = 0 => k < R!Lack
      BY PoolAssumption DEF R!Lack
    <3> QED BY <3>2, <3>3 DEF R!PlainReplenish
  <2> QED BY <2>1 DEF RxKept
<1>11. RxDistinct'
  BY <1>1, <1>6, <1>7, <1>8 DEF RxInv, RxDistinct
<1>12. RxOwned'
  BY <1>1, <1>4, <1>6, <1>8 DEF RxInv, RxOwned
<1> QED BY <1>8, <1>9, <1>10, <1>11, <1>12, <1>14 DEF RxInv

\* Either way of replenishing, from the handler or from the delayed work, unless it
\* crosses the setup's posting.
LEMMA RxReplenishStep ==
  ASSUME RxInv, NEW k \in 0 .. PoolSize, R!RxReplenish(k) \/ R!ReplenishWork(k),
         rRace' = "none"
  PROVE  RxInv'
<1>1. PICK waits \in BOOLEAN :
        /\ rPhase # "down" /\ R!Replenish(k, waits) /\ UNCHANGED <<rMode, rPhase, rFilled>>
        /\ rHandling' \in BOOLEAN
  BY DEF RxInv, RxType, RxDown, R!RxReplenish, R!ReplenishWork
<1>2. (rAdding = << >> \/ k = 0) /\ UNCHANGED <<rAdding, rCached>>
  BY <1>1 DEF R!Replenish, R!fill
<1> QED BY <1>1, <1>2, RxFastStep, RxPlainStep DEF R!Replenish

\* Setting the pipe up: the ring has the first j buffers, the pipe none yet.
LEMMA RxSetupStep ==
  ASSUME RxInv, NEW j \in 0 .. PoolSize, R!Setup(j)
  PROVE  RxInv'
<1>1. /\ rPhase = "down" /\ rMode' \in {"fast", "plain"} /\ rPhase' = "filling"
      /\ rHead' = 0 /\ rTail' = j /\ rCached' = 0 /\ rDelayed' = FALSE
      /\ rCache' = [s \in R!Slots |-> IF s < j THEN s + 1 ELSE 0]
      /\ rOwned' = 1 .. j
      /\ UNCHANGED <<rList, rPosted, rFilled, rAdding, rHandling, rProd, rHeld, rCurr>>
  BY DEF R!Setup, R!producer
<1>2. PoolSize \in Nat /\ R!Slots = 0 .. PoolSize /\ R!Bufs = 1 .. 2 * PoolSize + 3
  BY RxRing
<1>3. rList = << >> /\ rHeld = 0 /\ rProd = "off" /\ Els(<< >>) = {} /\ Len(<< >>) = 0
  BY <1>1 DEF RxInv, RxDown, RxProducer, Els
<1>5. RxOrder' /\ RxFill' /\ RxKept'
  <2>1. RxOrder'
    BY <1>1 DEF RxInv, RxOrder
  <2>2. RxFill'
    BY <1>1, <1>2, <1>3 DEF RxInv, RxFill
  <2> QED BY <1>1, <2>1, <2>2 DEF RxKept
<1>6. RxType'
  <2>1. 0 \in R!Slots /\ j \in R!Slots
    BY <1>2
  <2>2. rCache' \in [R!Slots -> R!Bufs \cup {0}]
    <3>1. \A s \in R!Slots : (IF s < j THEN s + 1 ELSE 0) \in R!Bufs \cup {0}
      BY <1>2
    <3> QED BY <1>1, <3>1
  <2> QED BY <1>1, <2>1, <2>2 DEF RxInv, RxType
<1>7. RxLive' = 0 .. j - 1
  <2>1. ASSUME NEW s \in R!Slots PROVE RxDist(0, s) = s
    <3>1. PICK z \in R!Slots : z = 0
      BY <1>2
    <3>2. RxDist(z, s) = IF z <= s THEN s - z ELSE s + PoolSize + 1 - z
      BY RxRing
    <3>3. s \in Nat
      BY <1>2
    <3> QED BY <3>1, <3>2, <3>3
  <2>2. j \in R!Slots
    BY <1>2
  <2>3. RxLive' = {s \in R!Slots : s < j}
    BY <1>1, <2>1, <2>2 DEF RxLive
  <2> QED BY <1>2, <2>3
<1>8. RxRinged' = 1 .. j
  <2>1. \A s \in 0 .. j - 1 : s \in R!Slots /\ s < j /\ s + 1 \in 1 .. j
    BY <1>2
  <2>2. \A s \in 0 .. j - 1 : rCache'[s] = s + 1
    BY <1>1, <2>1
  <2>3. RxRinged' = {s + 1 : s \in 0 .. j - 1}
    BY <1>7, <2>2 DEF RxRinged
  <2>4. ASSUME NEW b \in 1 .. j PROVE b \in {s + 1 : s \in 0 .. j - 1}
    <3>1. b - 1 \in 0 .. j - 1 /\ b = (b - 1) + 1
      OBVIOUS
    <3> QED BY <3>1
  <2> QED BY <2>1, <2>3, <2>4
<1>10. RxDistinct'
  <2>1. \A s, t \in 0 .. j - 1 : rCache'[s] = rCache'[t] => s = t
    <3>1. \A s \in 0 .. j - 1 : s \in Int /\ s \in R!Slots /\ s < j
      BY <1>2
    <3>2. \A s \in 0 .. j - 1 : rCache'[s] = s + 1
      BY <1>1, <3>1
    <3>3. \A s, t \in 0 .. j - 1 : s + 1 = t + 1 => s = t
      OBVIOUS
    <3> QED BY <3>2, <3>3
  <2>2. 1 .. j \subseteq R!Bufs /\ 0 \notin 1 .. j
    BY <1>2
  <2> QED BY <1>1, <1>3, <1>7, <1>8, <2>1, <2>2 DEF RxInv, RxDistinct
<1>11. RxOwned'
  BY <1>1, <1>3, <1>8 DEF RxOwned
<1>12. RxProducer' /\ RxDown'
  BY <1>1, <1>3 DEF RxProducer, RxDown
<1> QED BY <1>5, <1>6, <1>10, <1>11, <1>12 DEF RxInv

\* The setup lists a buffer that nobody owns ...
LEMMA RxFillAddStep == RxInv /\ R!FillAdd => RxInv'
<1> SUFFICES ASSUME RxInv, R!FillAdd PROVE RxInv'
  OBVIOUS
<1>1. PICK x : x = R!Min(R!Unused)
  OBVIOUS
<1>2. /\ rPhase = "filling" /\ rAdding = << >> /\ rCached < PoolSize
      /\ rAdding' = <<x>> /\ rList' = rList \o <<x>> /\ rCached' = Len(rList')
      /\ rOwned' = rOwned \cup {x}
      /\ UNCHANGED <<rMode, rPhase, rPosted, rFilled, rHandling, rDelayed, rHead, rTail, rCache,
                     rProd, rHeld, rCurr>>
  BY <1>1 DEF R!FillAdd, R!ring, R!producer
<1>3. x \in R!Bufs /\ x \notin rOwned /\ x # 0
  BY <1>1, RxAllocates, RxRing DEF R!Unused
<1>4. /\ <<x>> \in Seq(R!Bufs) /\ Len(<<x>>) = 1 /\ <<x>>[1] = x /\ Els(<<x>>) = {x}
      /\ Once(<<x>>)
  BY <1>3 DEF Els, Once
<1>5. /\ rList \in Seq(R!Bufs) /\ Once(rList) /\ x \notin Els(rList) \cup RxRinged /\ x # rHeld
      /\ PoolSize \in Nat /\ rCached \in Nat
  BY <1>3, RxRing DEF RxInv, RxType, RxDistinct, RxOwned
<1>6. /\ rList' \in Seq(R!Bufs) /\ Len(rList') = Len(rList) + 1 /\ Once(rList')
      /\ Els(rList') = Els(rList) \cup {x}
  <2>1. Els(rList) \cap Els(<<x>>) = {}
    BY <1>4, <1>5
  <2>2. rList \o <<x>> \in Seq(R!Bufs) /\ Len(rList \o <<x>>) = Len(rList) + Len(<<x>>)
    BY <1>4, <1>5, ElsConcat
  <2>3. Els(rList \o <<x>>) = Els(rList) \cup Els(<<x>>)
    BY ONLY <1>4, <1>5, RxAt, Zenon
  <2>4. Once(rList \o <<x>>)
    BY <1>4, <1>5, <2>1, ElsConcat
  <2> QED BY <1>2, <1>4, <2>2, <2>3, <2>4, Zenon
<1>7. Len(rList) \in Nat /\ Len(rList) <= PoolSize
  BY <1>2, <1>5 DEF RxInv, RxFill
<1>8. RxLive' = RxLive /\ RxRinged' = RxRinged
  BY <1>2 DEF RxLive, RxRinged
<1>9. RxType'
  BY <1>2, <1>4, <1>6, <1>7 DEF RxInv, RxType
<1>10. RxOrder'
  <2>1. rFilled \o rPosted \in Seq(R!Bufs)
    BY ConcatProperties DEF RxInv, RxType
  <2>2. rList = rFilled \o rPosted
    BY <1>2, <2>1, ConcatEmptySeq DEF RxInv, RxOrder
  <2> QED BY <1>2, <2>2 DEF RxOrder
<1>11. RxFill'
  BY <1>2, <1>4, <1>5, <1>6, <1>7 DEF RxFill
<1>12. RxProducer' /\ RxDown' /\ RxKept'
  <2>1. rList' # << >>
    BY <1>6, <1>7
  <2> QED BY <1>2, <2>1 DEF RxInv, RxProducer, RxDown, RxKept
<1>13. RxDistinct' /\ RxOwned'
  BY <1>2, <1>3, <1>5, <1>6, <1>8 DEF RxInv, RxDistinct, RxOwned
<1> QED BY <1>9, <1>10, <1>11, <1>12, <1>13 DEF RxInv

\* ... and posts it, or ends.
LEMMA RxFillPostStep == RxInv /\ (R!FillPost \/ R!FillEnd \/ R!TeardownCancel) => RxInv'
<1> SUFFICES ASSUME RxInv, R!FillPost \/ R!FillEnd \/ R!TeardownCancel PROVE RxInv'
  OBVIOUS
<1>1. CASE R!FillPost
  <2>1. /\ rAdding # << >> /\ rPosted' = rPosted \o rAdding /\ rAdding' = << >>
        /\ UNCHANGED <<rMode, rPhase, rList, rFilled, rCached, rHandling, rDelayed, rHead, rTail,
                       rCache, rProd, rHeld, rCurr, rOwned>>
    BY <1>1 DEF R!FillPost, R!ring, R!producer
  <2>2. RxLive' = RxLive /\ RxRinged' = RxRinged
    BY <2>1 DEF RxLive, RxRinged
  <2>3. /\ rPosted \in Seq(R!Bufs) /\ rFilled \in Seq(R!Bufs) /\ rAdding \in Seq(R!Bufs)
        /\ rList = (rFilled \o rPosted) \o rAdding /\ rList \in Seq(R!Bufs)
    BY DEF RxInv, RxType, RxOrder
  <2>4. rPosted' \in Seq(R!Bufs) /\ << >> \in Seq(R!Bufs)
    BY <2>1, <2>3, ConcatProperties
  <2>5. RxOrder'
    <3>1. rList = rFilled \o (rPosted \o rAdding)
      BY <2>3, ConcatAssociative
    <3>2. rList \o << >> = rList
      BY <2>3, ConcatEmptySeq
    <3> QED BY <2>1, <3>1, <3>2 DEF RxOrder
  <2>6. RxType' /\ RxFill' /\ RxDown' /\ RxKept'
    BY <2>1, <2>4 DEF RxInv, RxType, RxFill, RxDown, RxKept
  <2>7. RxProducer' /\ RxDistinct' /\ RxOwned'
    BY <2>1, <2>2 DEF RxInv, RxProducer, RxDistinct, RxOwned
  <2> QED BY <2>5, <2>6, <2>7 DEF RxInv
<1>2. CASE R!FillEnd \/ R!TeardownCancel
  <2>1. /\ UNCHANGED <<rMode, rList, rPosted, rFilled, rAdding, rHandling, rHead, rTail, rCache,
                       rProd, rHeld, rCurr, rOwned>>
        /\ rCached' \in {0, rCached} /\ rDelayed' \in BOOLEAN
        /\ rPhase' \in {"up", "flushing"} /\ rPhase # "down" /\ rAdding = << >>
    BY <1>2 DEF R!FillEnd, R!TeardownCancel, R!ring, R!producer, R!fill, RxInv, RxFill
  <2>2. RxLive' = RxLive /\ RxRinged' = RxRinged
    BY <2>1 DEF RxLive, RxRinged
  <2>3. RxType' /\ RxOrder' /\ RxFill' /\ RxDown'
    BY <2>1 DEF RxInv, RxType, RxOrder, RxFill, RxDown
  <2>4. RxProducer' /\ RxDistinct' /\ RxOwned'
    BY <2>1, <2>2 DEF RxInv, RxProducer, RxDistinct, RxOwned
  <2>5. RxKept'
    <3>1. CASE R!TeardownCancel
      BY <3>1 DEF R!TeardownCancel, RxKept
    <3>2. CASE R!FillEnd
      <4>1. /\ rPhase = "filling" /\ rList' = rList /\ rHandling' = rHandling
            /\ rDelayed' = (rDelayed \/ (rCached = 0 /\ PoolSize > 0))
        BY <3>2 DEF R!FillEnd
      <4>2. rCached = 0 \/ rCached > 0
        BY DEF RxInv, RxType
      <4>3. CASE rCached = 0
        <5>1. PoolSize > 0
          BY PoolAssumption
        <5>2. rDelayed'
          BY ONLY <4>1, <4>3, <5>1, Zenon
        <5> QED BY ONLY <5>2 DEF RxKept
      <4>4. CASE rCached > 0
        BY <4>1, <4>4 DEF RxInv, RxKept
      <4> QED BY <4>2, <4>3, <4>4
    <3> QED BY <1>2, <3>1, <3>2
  <2> QED BY <2>3, <2>4, <2>5 DEF RxInv
<1> QED BY <1>1, <1>2

\* A buffer that the pipe refuses is the last of the list.
LEMMA RxFillRefusedStep == RxInv /\ R!FillRefused => RxInv'
<1> SUFFICES ASSUME RxInv, R!FillRefused PROVE RxInv'
  OBVIOUS
<1>1. PICK i \in DOMAIN rList : rList[i] = rAdding[1] /\ rList' = R!RemoveAt(rList, i)
  BY DEF R!FillRefused
<1>2. PICK x, ab : x = rAdding[1] /\ ab = rFilled \o rPosted
  OBVIOUS
<1>3. /\ rAdding # << >> /\ rAdding' = << >> /\ rOwned' = rOwned \ {x}
      /\ rPhase' = "up" /\ rCached' = 0 /\ rDelayed' = (rDelayed \/ Len(rList') = 0)
      /\ UNCHANGED <<rMode, rPosted, rFilled, rHandling, rHead, rTail, rCache, rProd, rHeld, rCurr>>
  BY <1>2 DEF R!FillRefused, R!ring, R!producer
<1>4. /\ ab \in Seq(R!Bufs) /\ rAdding \in Seq(R!Bufs) /\ Len(rAdding) = 1
      /\ rList = ab \o rAdding /\ rList \in Seq(R!Bufs) /\ Once(rList) /\ rPhase = "filling"
  BY <1>2, <1>3, ConcatProperties DEF RxInv, RxType, RxOrder, RxFill, RxDistinct
<1>5. Len(ab) \in Nat /\ Len(rList) = Len(ab) + 1 /\ DOMAIN rList = 1 .. Len(rList)
  <2>1. Len(ab) \in Nat /\ Len(ab \o rAdding) = Len(ab) + Len(rAdding)
    BY ONLY <1>4, RxAt, Zenon
  <2>2. DOMAIN rList = 1 .. Len(rList)
    BY ONLY <1>4
  <2> QED BY ONLY <1>4, <2>1, <2>2
<1>6. \A j \in 1 .. Len(ab) + 1 : rList[j] = IF j <= Len(ab) THEN ab[j] ELSE rAdding[j - Len(ab)]
  BY ONLY <1>4, RxAt
<1>7. rList[Len(rList)] = x
  BY <1>2, <1>5, <1>6
<1>8. i = Len(rList)
  <2>1. PICK n \in 1 .. Len(rList) : n = Len(rList)
    BY ONLY <1>5
  <2>2. i \in 1 .. Len(rList) /\ rList[i] = rList[n]
    BY ONLY <1>1, <1>2, <1>5, <1>7, <2>1
  <2>3. \A p, q \in 1 .. Len(rList) : rList[p] = rList[q] => p = q
    BY ONLY <1>4 DEF Once
  <2> QED BY ONLY <2>1, <2>2, <2>3
<1>9. rList' = ab
  <2>1. rList' = SubSeq(rList, 1, i - 1) \o SubSeq(rList, i + 1, Len(rList))
    BY <1>1 DEF R!RemoveAt
  <2>2. SubSeq(rList, i + 1, Len(rList)) = << >>
    BY <1>4, <1>5, <1>8
  <2>3. SubSeq(rList, 1, Len(ab)) = ab
    <3>1. SubSeq(rList, 1, Len(ab)) = [j \in 1 .. Len(ab) |-> rList[j]]
      <4>1. PICK m \in Nat : m = Len(ab) /\ m <= Len(rList)
        BY <1>5
      <4>2. SubSeq(rList, 1, m) = [j \in 1 .. m |-> rList[j]]
        <5>1. \A j \in 1 .. m : j + 1 - 1 = j
          OBVIOUS
        <5> QED BY <5>1
      <4> QED BY <4>1, <4>2
    <3>2. \A j \in 1 .. Len(ab) : rList[j] = ab[j]
      BY <1>5, <1>6
    <3>3. [j \in 1 .. Len(ab) |-> rList[j]] = [j \in 1 .. Len(ab) |-> ab[j]]
      BY <3>2
    <3>4. ab = [j \in 1 .. Len(ab) |-> ab[j]]
      BY <1>4
    <3> QED BY <3>1, <3>3, <3>4
  <2>4. i - 1 = Len(ab)
    BY <1>5, <1>8
  <2> QED BY <1>4, <2>1, <2>2, <2>3, <2>4, ConcatEmptySeq
<1>10. Els(rList) = Els(ab) \cup {x} /\ x \notin Els(ab) /\ Once(ab) /\ x \in R!Bufs
  <2>1. \A j \in 1 .. Len(ab) : rList[j] = ab[j] /\ j # Len(rList) /\ j \in 1 .. Len(rList)
    BY <1>5, <1>6
  <2>2. Once(ab)
    BY <1>4, <2>1 DEF Once
  <2>3. x \notin Els(ab)
    <3> SUFFICES ASSUME NEW j \in 1 .. Len(ab), ab[j] = x PROVE FALSE
      BY DEF Els
    <3>1. rList[j] = rList[Len(rList)] /\ Len(rList) \in 1 .. Len(rList)
      BY <1>5, <1>7, <2>1
    <3> QED BY <1>4, <2>1, <3>1 DEF Once
  <2>4. Els(rAdding) = {x}
    BY <1>2, <1>4 DEF Els
  <2>5. Els(rList) = Els(ab) \cup Els(rAdding)
    BY ONLY <1>4, RxAt, Zenon
  <2>6. x \in R!Bufs
    <3>1. 1 \in 1 .. Len(rAdding)
      BY ONLY <1>4
    <3> QED BY ONLY <1>2, <1>4, <3>1, ElementOfSeq
  <2> QED BY <2>2, <2>3, <2>4, <2>5, <2>6
<1>11. RxLive' = RxLive /\ RxRinged' = RxRinged
  BY <1>3 DEF RxLive, RxRinged
<1>12. RxType'
  <2>1. << >> \in Seq(R!Bufs) /\ rDelayed' \in BOOLEAN
    BY <1>3
  <2> QED BY <1>3, <1>4, <1>9, <2>1 DEF RxInv, RxType
<1>13. RxOrder'
  <2>1. ab \o << >> = ab
    BY <1>4, ConcatEmptySeq
  <2> QED BY <1>2, <1>3, <1>9, <2>1 DEF RxOrder
<1>14. RxFill' /\ RxDown' /\ RxKept'
  <2>1. Len(rList') <= PoolSize + 1
    <3>1. Len(rList) <= PoolSize + 1 /\ PoolSize \in Nat
      BY RxRing DEF RxInv, RxFill
    <3> QED BY <1>5, <1>9, <3>1
  <2>2. rList' = << >> => rDelayed'
    BY <1>3
  <2> QED BY <1>3, <2>1, <2>2 DEF RxFill, RxDown, RxKept
<1>15. RxProducer'
  BY <1>3 DEF RxInv, RxProducer
<1>16. RxDistinct'
  BY <1>3, <1>9, <1>10, <1>11 DEF RxInv, RxDistinct
<1>17. RxOwned'
  <2>1. x \notin RxRinged /\ x # rHeld
    BY <1>10 DEF RxInv, RxDistinct
  <2> QED BY <1>3, <1>9, <1>10, <1>11, <2>1 DEF RxInv, RxOwned
<1> QED BY <1>12, <1>13, <1>14, <1>15, <1>16, <1>17 DEF RxInv

\* The invariant holds before the pipe is set up.
LEMMA RxStart == MCInit => RxInv
<1> SUFFICES ASSUME MCInit PROVE RxInv
  OBVIOUS
<1>1. /\ rMode = "plain" /\ rPhase = "down" /\ rList = << >> /\ rPosted = << >> /\ rFilled = << >>
      /\ rAdding = << >> /\ rCached = 0 /\ rDelayed = FALSE
      /\ rHandling = FALSE /\ rHead = 0 /\ rTail = 0 /\ rCache = [s \in R!Slots |-> 0]
      /\ rProd = "off" /\ rHeld = 0 /\ rCurr = 0 /\ rOwned = {}
  BY DEF MCInit, R!Init
<1>2. PoolSize \in Nat /\ 0 \in R!Slots
  BY RxRing
<1>3. RxLive = {} /\ RxRinged = {}
  <2>1. PICK z \in R!Slots : z = 0
    BY <1>2
  <2>2. RxDist(z, z) = IF z <= z THEN z - z ELSE z + PoolSize + 1 - z
    BY RxRing
  <2>3. RxDist(0, 0) = 0
    BY <2>1, <2>2
  <2>4. \A s \in R!Slots : RxDist(0, s) \in 0 .. PoolSize
    BY <1>2, RxDistType
  <2>5. \A s \in R!Slots : ~(RxDist(0, s) < 0)
    BY <2>4
  <2> QED BY <1>1, <2>3, <2>5 DEF RxLive, RxRinged
<1>4. << >> \in Seq(R!Bufs) /\ Els(<< >>) = {} /\ Once(<< >>) /\ << >> \o << >> = << >> /\ Len(<< >>) = 0
  BY DEF Els, Once
<1>5. RxType
  BY <1>1, <1>2, <1>4 DEF RxType
<1>6. RxOrder /\ RxFill
  BY <1>1, <1>2, <1>4 DEF RxOrder, RxFill
<1>7. RxProducer /\ RxDistinct /\ RxOwned /\ RxDown /\ RxKept
  BY <1>1, <1>3, <1>4 DEF RxProducer, RxDistinct, RxOwned, RxDown, RxKept
<1> QED BY <1>5, <1>6, <1>7 DEF RxInv

\* Steps of the other parts.
LEMMA RxQuiet == RxInv /\ UNCHANGED rVars => RxInv'
BY DEF RxInv, RxType, RxOrder, RxFill, RxProducer, RxDistinct, RxOwned, RxDown, RxKept, RxLive,
       RxRinged, rVars

\* Every step of the receive pipe keeps the invariant, unless it is one of the races.
LEMMA RxStep == RxInv /\ R!Next /\ rRace' = "none" => RxInv'
<1> SUFFICES ASSUME RxInv, R!Step, rRace' = "none" PROVE RxInv'
  BY DEF R!Next
<1>1. CASE R!ReplStart \/ (\E ok \in BOOLEAN : R!ReplAlloc(ok)) \/ R!ReplWrite \/ R!ReplPublish
  BY <1>1, RxStartStep, RxAllocStep, RxWriteStep, RxPublishStep
<1>2. CASE R!Receive \/ R!RxCommon \/ R!TeardownCancel \/ R!TeardownEnd
  BY <1>2, RxReceiveStep, RxCommonStep, RxTeardownStep, RxFillPostStep
<1>3. CASE \E j \in 0 .. PoolSize : R!Setup(j)
  BY <1>3, RxSetupStep
<1>4. CASE \E k \in 0 .. PoolSize : R!RxReplenish(k) \/ R!ReplenishWork(k)
  BY <1>4, RxReplenishStep
<1>5. CASE R!FillAdd \/ R!FillPost \/ R!FillRefused \/ R!FillEnd
  BY <1>5, RxFillAddStep, RxFillPostStep, RxFillRefusedStep
<1> QED BY <1>1, <1>2, <1>3, <1>4, <1>5 DEF R!Step

\* The list, the ring and the producer's buffer, as one sequence.
LEMMA RxAllOnce == RxInv => R!BuffersDistinct
<1> SUFFICES ASSUME RxInv PROVE R!BuffersDistinct
  OBVIOUS
<1>1. PoolSize \in Nat /\ R!Bufs = 1 .. 2 * PoolSize + 3 /\ 0 \notin R!Bufs
  BY RxRing
<1>2. rList \in Seq(R!Bufs) /\ Once(rList) /\ RxRinged \subseteq R!Bufs
  BY DEF RxInv, RxType, RxDistinct
<1>3. PICK n, f :
        /\ n \in 0 .. PoolSize
        /\ n = R!InRing /\ f = R!RingBufs /\ DOMAIN f = 1 .. n
        /\ f = [i \in 1 .. n |-> rCache[(rHead + i - 1) % R!Capacity]]
        /\ RxRinged = {f[i] : i \in 1 .. n}
  BY RxRingBufs DEF RxInv
<1>4. f \in Seq(R!Bufs) /\ Len(f) = n /\ Els(f) = RxRinged
  <2>1. f \in [1 .. n -> R!Bufs] /\ n \in Nat
    BY <1>1, <1>2, <1>3
  <2>2. f \in Seq(R!Bufs) /\ Len(f) = n
    BY <1>3, <2>1
  <2> QED BY <1>3, <2>2 DEF Els
<1>5. Once(f)
  <2> SUFFICES ASSUME NEW i \in 1 .. n, NEW j \in 1 .. n, f[i] = f[j] PROVE i = j
    BY <1>4 DEF Once
  <2>1. i \in 1 .. R!InRing /\ j \in 1 .. R!InRing
    BY <1>3
  <2>2. PICK s \in RxLive : s = (rHead + i - 1) % R!Capacity /\ RxDist(rHead, s) = i - 1
    BY <2>1, RxRingBufs DEF RxInv
  <2>3. PICK e \in RxLive : e = (rHead + j - 1) % R!Capacity /\ RxDist(rHead, e) = j - 1
    BY <2>1, RxRingBufs DEF RxInv
  <2>4. s = e
    BY <1>3, <2>2, <2>3 DEF RxInv, RxDistinct
  <2>5. i - 1 = j - 1
    BY <2>2, <2>3, <2>4
  <2> QED BY <2>5
<1>6. PICK g : g = IF rHeld > 0 THEN <<rHeld>> ELSE << >>
  OBVIOUS
<1>7. g \in Seq(R!Bufs) /\ Once(g) /\ Els(g) = {rHeld} \ {0}
  <2>1. rHeld \in R!Bufs \cup {0}
    BY DEF RxInv, RxType
  <2>2. CASE rHeld = 0
    BY <1>6, <2>2 DEF Once, Els
  <2>3. CASE rHeld \in R!Bufs
    <3>1. rHeld > 0 /\ g = <<rHeld>>
      BY <1>1, <1>6, <2>3
    <3>2. g \in Seq(R!Bufs) /\ Len(g) = 1 /\ g[1] = rHeld
      BY <2>3, <3>1
    <3>3. Els(g) = {rHeld}
      BY <3>2 DEF Els
    <3> QED BY <1>1, <2>3, <3>2, <3>3 DEF Once
  <2> QED BY <2>1, <2>2, <2>3
<1>8. PICK a : a = rList \o f
  OBVIOUS
<1>9. a \in Seq(R!Bufs) /\ Els(a) = Els(rList) \cup RxRinged /\ Once(a)
  BY <1>2, <1>4, <1>5, <1>8, ElsConcat DEF RxInv, RxDistinct
<1>10. PICK b : b = a \o g
  OBVIOUS
<1>11. b \in Seq(R!Bufs) /\ Els(b) = rOwned /\ Once(b)
  <2>1. Els(a) \cap Els(g) = {}
    BY <1>7, <1>9 DEF RxInv, RxDistinct
  <2> QED BY <1>7, <1>9, <1>10, <2>1, ElsConcat DEF RxInv, RxOwned
<1>12. R!IsInjective(b) /\ R!Range(b) \subseteq rOwned
  BY <1>11 DEF R!IsInjective, R!Range, Once, Els
<1>13. b = rList \o R!RingBufs \o (IF rHeld > 0 THEN <<rHeld>> ELSE << >>)
  BY <1>3, <1>6, <1>8, <1>10
<1> QED BY <1>12, <1>13 DEF R!BuffersDistinct

\* The wrapper list of a receive pipe is in step with its descriptors, no buffer is
\* in two places while the ring's producer and the replenishers work without a lock
\* between them, and a torn down pipe has given every buffer back, for every pool
\* size (ipa_wq_repl_rx, ipa_fast_replenish_rx_cache, ipa_cleanup_rx).  A pipe without
\* buffers has a replenisher on its way.  All until a handler replenishes in the middle
\* of the setup's posting, or the delayed work outlives its pipe.
THEOREM RxBuffersAreSound == MCSpec => []RxSound
<1> DEFINE Good == rRace = "none" => RxInv
<1>1. Good /\ [MCNext]_allVars => Good'
  <2> SUFFICES ASSUME Good, [MCNext]_allVars, rRace' = "none" PROVE RxInv'
    OBVIOUS
  <2>1. R!Next \/ UNCHANGED rVars
    BY DEF MCNext, allVars, Fifo, Tx, Rx, Parse, Microcontroller
  <2>2. rRace = "none"
    BY <2>1 DEF R!Next, rVars
  <2> QED BY <2>1, <2>2, RxStep, RxQuiet
<1>2. Good => RxSound
  <2> SUFFICES ASSUME RxInv PROVE R!ListMatchesPipe /\ R!NoBufferLeak /\ R!NotForgotten
    BY RxAllOnce DEF RxSound, R!BuffersSound
  <2>1. R!ListMatchesPipe /\ R!NotForgotten
    BY DEF RxInv, RxOrder, RxKept, R!ListMatchesPipe, R!NotForgotten
  <2>2. ASSUME rPhase = "down" PROVE rOwned = {}
    <3>1. rList = << >> /\ rHead = rTail /\ rHeld = 0 /\ Els(<< >>) = {}
      BY <2>2 DEF RxInv, RxDown, RxProducer, Els
    <3>2. RxRinged = {}
      <4>1. rTail \in R!Slots /\ rHead \in R!Slots
        BY DEF RxInv, RxType
      <4>2. RxDist(rTail, rTail) = IF rTail <= rTail THEN rTail - rTail ELSE rTail + PoolSize + 1 - rTail
        BY <4>1, RxRing
      <4>3. rTail \in Int
        BY <4>1, RxRing
      <4>4. RxDist(rHead, rTail) = 0
        BY <3>1, <4>2, <4>3
      <4>5. \A s \in R!Slots : RxDist(rHead, s) \in 0 .. PoolSize
        BY <4>1, RxDistType
      <4>6. \A s \in R!Slots : ~(RxDist(rHead, s) < 0)
        BY <4>5
      <4> QED BY <4>4, <4>6 DEF RxLive, RxRinged
    <3> QED BY <3>1, <3>2 DEF RxInv, RxOwned
  <2> QED BY <2>1, <2>2 DEF R!NoBufferLeak
<1>3. MCInit => Good
  BY RxStart
<1> QED BY <1>1, <1>2, <1>3, PTL DEF MCSpec
-----------------------------------------------------------------------------
(* Sending.  The wrappers of a packet are a block of the list: the first one *)
(* holds their number, the last one the owner's callback.  Packets are in    *)
(* the order they were sent in, the hardware has the end of the list, and    *)
(* what it has finished waits at the head for the work items of its packets. *)
TxCalls == {"done", "mul", "part"}
TxWrapper == [pkt : Nat, cnt : Nat, cb : TxCalls \cup {"kfree", "none"}]
TxDesc == [pkt : Nat, eot : BOOLEAN]

TxLast(s, i) == i = Len(s) \/ s[i + 1].pkt # s[i].pkt
TxFirst(s, i) == i = 1 \/ s[i - 1].pkt # s[i].pkt
TxPkts(s) == {s[i].pkt : i \in 1 .. Len(s)}
TxOrdered(s) ==
  /\ \A i \in 1 .. Len(s) : TxLast(s, i) <=> s[i].cb \in TxCalls
  /\ \A i, j \in 1 .. Len(s) : i <= j => s[i].pkt <= s[j].pkt
TxBlock(s, i, n) ==
  /\ n > 0 /\ i + n - 1 <= Len(s) /\ TxLast(s, i + n - 1)
  /\ \A j \in i .. i + n - 1 : s[j].pkt = s[i].pkt
TxBlocked(s) == \A i \in 1 .. Len(s) : TxFirst(s, i) => TxBlock(s, i, s[i].cnt)
TxAgrees(s, f) ==
  /\ Len(f) <= Len(s)
  /\ \A i \in 1 .. Len(f) : /\ f[i].pkt = s[Len(s) - Len(f) + i].pkt
                            /\ f[i].eot <=> TxLast(s, Len(s) - Len(f) + i)
\* The packets that end among the first d descriptors.
TxEnded(s, d) == {s[i].pkt : i \in {i \in 1 .. d : TxLast(s, i)}}
TxQueued(q, e) ==
  /\ \A i, j \in 1 .. Len(q) : i < j => q[i] < q[j]
  /\ {q[i] : i \in 1 .. Len(q)} = e
TxCredits(s) == {i \in 1 .. Len(s) : s[i].cb \in {"mul", "part"}}

TxType ==
  /\ tPolicy \in T!Policies /\ tList \in Seq(TxWrapper) /\ tFifo \in Seq(TxDesc)
  /\ tWorks \in Seq(Nat) /\ tOffered \in Nat /\ tSent \subseteq 1 .. tOffered
  /\ tCalled \in [T!Pkts -> Nat]
TxLists ==
  /\ TxPkts(tList) \subseteq tSent /\ TxOrdered(tList) /\ TxAgrees(tList, tFifo)
  /\ tPolicy # "poll" => TxBlocked(tList)
TxDone == Len(tList) - Len(tFifo)
TxNoticed ==
  /\ tPolicy # "poll" => /\ TxQueued(tWorks, TxEnded(tList, TxDone))
                         /\ ~tIrq /\ tPoller = "off"
  /\ tPolicy = "poll" => tWorks = << >> /\ tDone = TxDone
TxCalled == \A p \in T!Pkts :
  tCalled[p] = IF p \in tSent \ TxPkts(tList) THEN 1 ELSE 0
TxAvail ==
  /\ tAvail = FifoSize - Cardinality(TxCredits(tList)) + (IF tMul.dec THEN 1 ELSE 0)
  /\ tMul \in [left : Nat, dec : BOOLEAN]
  /\ tMul.left <= tAvail /\ (tMul.dec => tMul.left > 0)
TxInv == TxType /\ TxLists /\ TxNoticed /\ TxCalled /\ TxAvail

\* A set of integers has as many members as its shifted copy.
LEMMA CountShifted ==
  ASSUME NEW A \in SUBSET Int, IsFiniteSet(A), NEW n \in Int
  PROVE  IsFiniteSet({a + n : a \in A}) /\ Cardinality({a + n : a \in A}) = Cardinality(A)
<1>1. PICK B : B = {a + n : a \in A}
  OBVIOUS
<1>2. PICK g : g = [a \in A |-> a + n]
  OBVIOUS
<1>3. g \in Bijection(A, B)
  <2>1. \A a, b \in A : a + n = b + n => a = b
    OBVIOUS
  <2> QED BY <1>1, <1>2, <2>1 DEF Bijection, Injection, Surjection, IsInjective
<1>4. ExistsBijection(A, B)
  BY <1>3 DEF ExistsBijection
<1> QED BY <1>1, <1>4, FS_Bijection

\* The members up to n and those after n.
LEMMA CountSplit ==
  ASSUME NEW l \in Nat, NEW n \in Nat, n <= l, NEW A \in SUBSET (1 .. l)
  PROVE  /\ Cardinality({i \in 1 .. n : i \in A}) \in Nat
         /\ Cardinality({j \in 1 .. l - n : n + j \in A}) \in Nat
         /\ Cardinality(A) = Cardinality({i \in 1 .. n : i \in A})
                             + Cardinality({j \in 1 .. l - n : n + j \in A})
<1>1. PICK B, C : B = {i \in 1 .. n : i \in A} /\ C = {j \in 1 .. l - n : n + j \in A}
  OBVIOUS
<1>2. IsFiniteSet(1 .. l)
  <2>1. PICK a \in Int, b \in Int : a = 1 /\ b = l
    OBVIOUS
  <2>2. IsFiniteSet(a .. b)
    BY FS_Interval
  <2> QED BY <2>1, <2>2
<1>3. IsFiniteSet(A) /\ B \subseteq A
  BY <1>1, <1>2, FS_Subset
<1>4. IsFiniteSet(B) /\ Cardinality(B) \in Nat
  BY <1>3, FS_Subset, FS_CardinalityType
<1>5. C \in SUBSET (1 .. l) /\ C \in SUBSET Int
  BY <1>1
<1>6. IsFiniteSet(C) /\ Cardinality(C) \in Nat
  BY <1>2, <1>5, FS_Subset, FS_CardinalityType
<1>7. PICK D : D = {c + n : c \in C}
  OBVIOUS
<1>8. IsFiniteSet(D) /\ Cardinality(D) = Cardinality(C)
  <2>1. n \in Int
    OBVIOUS
  <2> QED BY <1>5, <1>6, <1>7, <2>1, CountShifted
<1>9. A = B \cup D
  <2>1. ASSUME NEW a \in A PROVE a \in B \cup D
    <3>1. CASE a <= n
      BY <1>1, <3>1
    <3>2. CASE ~(a <= n)
      <4>1. PICK c \in Int : c = a - n
        OBVIOUS
      <4>2. c \in 1 .. l - n /\ n + c = a /\ c + n = a
        BY <3>2, <4>1
      <4>3. c \in C
        BY <1>1, <4>2
      <4> QED BY <1>7, <4>2, <4>3
    <3> QED BY <3>1, <3>2
  <2>2. ASSUME NEW c \in C PROVE c + n \in A
    <3>1. c + n = n + c
      BY <1>5
    <3> QED BY <1>1, <3>1
  <2> QED BY <1>3, <1>7, <2>1, <2>2
<1>10. B \cap D = {}
  <2>1. \A c \in C : ~(c + n <= n)
    BY <1>1
  <2>2. \A i \in B : i <= n
    BY <1>1
  <2> QED BY <1>7, <2>1, <2>2
<1>11. Cardinality(A) = Cardinality(B) + Cardinality(D) - Cardinality(B \cap D)
  BY <1>4, <1>8, <1>9, FS_Union
<1>12. Cardinality(B \cap D) = 0
  BY <1>10, FS_EmptySet
<1> QED BY <1>1, <1>4, <1>6, <1>8, <1>11, <1>12

\* The fields of a wrapper.
LEMMA TxFields ==
  ASSUME NEW s \in Seq(TxWrapper), NEW i \in 1 .. Len(s)
  PROVE  s[i] \in TxWrapper /\ s[i].pkt \in Nat /\ s[i].cnt \in Nat /\ Len(s) \in Nat
<1>1. s[i] \in TxWrapper /\ Len(s) \in Nat
  OBVIOUS
<1> QED BY <1>1 DEF TxWrapper

\* What follows the end of a packet is a later packet.
LEMMA TxLater ==
  ASSUME NEW s \in Seq(TxWrapper), TxOrdered(s),
         NEW i \in 1 .. Len(s), NEW j \in 1 .. Len(s), TxLast(s, i), i < j
  PROVE  s[i].pkt < s[j].pkt
<1>1. PICK k \in 1 .. Len(s) : k = i + 1 /\ i <= k /\ k <= j
  <2>1. Len(s) \in Nat
    OBVIOUS
  <2>2. i + 1 \in 1 .. Len(s) /\ i <= i + 1 /\ i + 1 <= j
    BY <2>1
  <2> QED BY <2>2
<1>2. i # Len(s)
  <2>1. Len(s) \in Nat
    OBVIOUS
  <2> QED BY <2>1
<1>3. s[k].pkt # s[i].pkt
  BY <1>1, <1>2 DEF TxLast
<1>4. s[i].pkt <= s[k].pkt /\ s[k].pkt <= s[j].pkt
  BY <1>1 DEF TxOrdered
<1>5. s[i].pkt \in Nat /\ s[j].pkt \in Nat /\ s[k].pkt \in Nat
  BY TxFields
<1> QED BY <1>3, <1>4, <1>5

\* What is left of the list when the first n wrappers are taken off it.
LEMMA TxSuffix ==
  ASSUME NEW s \in Seq(TxWrapper), NEW n \in 0 .. Len(s), NEW t, t = SubSeq(s, n + 1, Len(s))
  PROVE  /\ t \in Seq(TxWrapper) /\ Len(t) = Len(s) - n
         /\ \A j \in 1 .. Len(t) : /\ n + j \in 1 .. Len(s) /\ t[j] = s[n + j]
                                   /\ TxLast(t, j) <=> TxLast(s, n + j)
         /\ TxOrdered(s) => TxOrdered(t)
         /\ TxBlocked(s) /\ (n = 0 \/ TxLast(s, n)) => TxBlocked(t)
<1>1. PICK l \in Nat : l = Len(s) /\ n \in 0 .. l
  OBVIOUS
<1>2. PICK m \in Nat : m = l - n
  <2>1. l - n \in Nat
    BY <1>1
  <2> QED BY <2>1
<1>3. t \in Seq(TxWrapper) /\ Len(t) = m /\ \A j \in 1 .. m : t[j] = s[n + j]
  <2>1. PICK a \in 1 .. l + 1 : a = n + 1
    BY <1>1
  <2>2. t = SubSeq(s, a, l)
    BY <1>1, <2>1
  <2>3. /\ SubSeq(s, a, l) \in Seq(TxWrapper)
        /\ Len(SubSeq(s, a, l)) = IF a <= l THEN l - a + 1 ELSE 0
        /\ \A j \in 1 .. l - a + 1 : SubSeq(s, a, l)[j] = s[a + j - 1]
    BY <1>1, SubSeqProperties
  <2>4. l - a + 1 = m /\ (~(a <= l) => m = 0)
    BY <1>1, <1>2, <2>1
  <2>5. \A j \in 1 .. m : a + j - 1 = n + j
    BY <1>1, <1>2, <2>1
  <2> QED BY <2>2, <2>3, <2>4, <2>5
<1>4. \A j \in 1 .. m : n + j \in 1 .. l
  BY <1>1, <1>2
<1>5. ASSUME NEW j \in 1 .. m PROVE TxLast(t, j) <=> TxLast(s, n + j)
  <2>1. TxLast(t, j) <=> j = m \/ t[j + 1].pkt # t[j].pkt
    BY <1>3 DEF TxLast
  <2>2. TxLast(s, n + j) <=> n + j = l \/ s[n + j + 1].pkt # s[n + j].pkt
    BY <1>1 DEF TxLast
  <2>3. j = m <=> n + j = l
    BY <1>1, <1>2
  <2>4. CASE j # m
    <3>1. PICK k \in 1 .. m : k = j + 1 /\ n + k = n + j + 1
      BY <2>4
    <3>2. t[k] = s[n + k] /\ t[j] = s[n + j]
      BY <1>3
    <3> QED BY <2>1, <2>2, <2>3, <2>4, <3>1, <3>2
  <2> QED BY <2>1, <2>2, <2>3, <2>4
<1>6. ASSUME TxOrdered(s) PROVE TxOrdered(t)
  <2>1. ASSUME NEW j \in 1 .. m PROVE TxLast(t, j) <=> t[j].cb \in TxCalls
    <3>1. PICK i \in 1 .. l : i = n + j
      BY <1>4
    <3> QED BY <1>1, <1>3, <1>5, <1>6, <3>1 DEF TxOrdered
  <2>2. ASSUME NEW i \in 1 .. m, NEW j \in 1 .. m, i <= j PROVE t[i].pkt <= t[j].pkt
    <3>1. PICK a \in 1 .. l, b \in 1 .. l : a = n + i /\ b = n + j
      BY <1>4
    <3>2. a <= b
      BY <1>1, <1>2, <2>2, <3>1
    <3>3. s[a].pkt <= s[b].pkt
      BY <1>1, <1>6, <3>2 DEF TxOrdered
    <3> QED BY <1>3, <3>1, <3>3
  <2> QED BY <1>3, <2>1, <2>2 DEF TxOrdered
<1>7. ASSUME TxBlocked(s), n = 0 \/ TxLast(s, n), NEW j \in 1 .. m, TxFirst(t, j)
      PROVE  TxBlock(t, j, t[j].cnt)
  <2>1. PICK i \in 1 .. l : i = n + j
    BY <1>4
  <2>2. TxFirst(s, i)
    <3>1. CASE j = 1
      <4>1. CASE n = 0
        BY <2>1, <3>1, <4>1 DEF TxFirst
      <4>2. CASE n # 0
        <5>1. n # l /\ i = n + 1 /\ i - 1 = n
          BY <1>1, <1>2, <2>1, <3>1
        <5>2. s[n + 1].pkt # s[n].pkt
          BY <1>1, <1>7, <4>2, <5>1 DEF TxLast
        <5> QED BY <5>1, <5>2 DEF TxFirst
      <4> QED BY <4>1, <4>2
    <3>2. CASE j # 1
      <4>1. PICK k \in 1 .. m : k = j - 1
        BY <3>2
      <4>2. n + k = i - 1
        BY <1>1, <1>2, <2>1, <4>1
      <4>3. t[k].pkt # t[j].pkt
        BY <1>7, <3>2, <4>1 DEF TxFirst
      <4>4. t[k] = s[i - 1] /\ t[j] = s[i]
        BY <1>3, <2>1, <4>2
      <4> QED BY <4>3, <4>4 DEF TxFirst
    <3> QED BY <3>1, <3>2
  <2>3. PICK c \in Nat : c = s[i].cnt /\ c = t[j].cnt
    <3>1. s[i].cnt \in Nat
      BY <1>1, TxFields
    <3> QED BY <1>3, <2>1, <3>1
  <2>4. TxBlock(s, i, c)
    BY <1>1, <1>7, <2>2, <2>3 DEF TxBlocked
  <2>5. c > 0 /\ i + c - 1 <= l /\ TxLast(s, i + c - 1)
    BY <1>1, <2>4 DEF TxBlock
  <2>6. PICK e \in 1 .. m : e = j + c - 1 /\ n + e = i + c - 1
    <3>1. j + c - 1 \in 1 .. m /\ n + (j + c - 1) = i + c - 1
      BY <1>1, <1>2, <2>1, <2>3, <2>5, SMTT(30)
    <3> QED BY <3>1
  <2>7. TxLast(t, e) /\ e <= m
    BY <1>5, <2>5, <2>6
  <2>8. ASSUME NEW k \in j .. e PROVE t[k].pkt = t[j].pkt
    <3>1. k \in 1 .. m /\ n + k \in i .. i + c - 1
      BY <1>1, <1>2, <2>1, <2>3, <2>6, SMTT(30)
    <3>2. s[n + k].pkt = s[i].pkt
      BY <2>4, <3>1 DEF TxBlock
    <3> QED BY <1>3, <2>1, <3>1, <3>2
  <2> QED BY <1>3, <2>3, <2>5, <2>6, <2>7, <2>8 DEF TxBlock
<1> QED BY <1>1, <1>2, <1>3, <1>4, <1>5, <1>6, <1>7 DEF TxBlocked

\* The callbacks of a packet: the last one, and no other, is the owner's.
TxCallbacks(cbs) ==
  /\ cbs \in Seq(TxCalls \cup {"kfree", "none"}) /\ Len(cbs) >= 1
  /\ \A i \in 1 .. Len(cbs) : cbs[i] \in TxCalls <=> i = Len(cbs)

\* The wrappers and the descriptors of a packet.
LEMMA TxWrapped ==
  ASSUME NEW p \in Nat, NEW cbs, TxCallbacks(cbs), NEW w, w = T!Wrappers(p, cbs),
         NEW d, d = T!Descs(p, cbs)
  PROVE  /\ w \in Seq(TxWrapper) /\ Len(w) = Len(cbs) /\ w[1].cnt = Len(cbs)
         /\ \A i \in 1 .. Len(cbs) : w[i].pkt = p /\ w[i].cb = cbs[i]
         /\ d \in Seq(TxDesc) /\ Len(d) = Len(cbs)
         /\ \A i \in 1 .. Len(cbs) : d[i].pkt = p /\ (d[i].eot <=> i = Len(cbs))
<1>1. PICK m \in Nat : m = Len(cbs) /\ m >= 1
  BY DEF TxCallbacks
<1>2. \A i \in 1 .. m : cbs[i] \in TxCalls \cup {"kfree", "none"}
  BY <1>1 DEF TxCallbacks
<1>3. \A i \in 1 .. m : T!WrapperCnt(m, i) \in Nat
  BY <1>1 DEF T!WrapperCnt, T!LAST
<1>4. T!WrapperCnt(m, 1) = m
  BY <1>1 DEF T!WrapperCnt
<1>5. w = [i \in 1 .. m |-> [pkt |-> p, cnt |-> T!WrapperCnt(m, i), cb |-> cbs[i]]]
  BY <1>1 DEF T!Wrappers
<1>6. w \in [1 .. m -> TxWrapper]
  BY <1>2, <1>3, <1>5 DEF TxWrapper
<1>7. w \in Seq(TxWrapper) /\ Len(w) = m
  BY <1>6
<1>8. w[1].cnt = m /\ \A i \in 1 .. m : w[i].pkt = p /\ w[i].cb = cbs[i]
  BY <1>1, <1>4, <1>5
<1>9. d = [i \in 1 .. m |-> [pkt |-> p, eot |-> i = m]]
  BY <1>1 DEF T!Descs
<1>10. d \in [1 .. m -> TxDesc]
  BY <1>9 DEF TxDesc
<1>11. d \in Seq(TxDesc) /\ Len(d) = m
  BY <1>10
<1>12. ASSUME NEW i \in 1 .. m PROVE d[i].pkt = p /\ (d[i].eot <=> i = m)
  <2>1. d[i] = [pkt |-> p, eot |-> i = m]
    BY <1>9
  <2>2. d[i].pkt = p /\ d[i].eot = (i = m)
    BY ONLY <2>1
  <2> QED BY <2>2
<1> QED BY <1>1, <1>7, <1>8, <1>11, <1>12

\* The wrappers of a later packet at the end of the list.
TxJoined(s, w, p, t) ==
  /\ t = s \o w /\ TxOrdered(s) /\ \A i \in 1 .. Len(s) : s[i].pkt < p
  /\ Len(w) >= 1
  /\ \A k \in 1 .. Len(w) : w[k].pkt = p /\ (w[k].cb \in TxCalls <=> k = Len(w))
LEMMA TxAppended ==
  ASSUME NEW s \in Seq(TxWrapper), NEW w \in Seq(TxWrapper), NEW p \in Nat,
         NEW t, TxJoined(s, w, p, t)
  PROVE  /\ t \in Seq(TxWrapper) /\ Len(t) = Len(s) + Len(w)
         /\ \A i \in 1 .. Len(s) : /\ i \in 1 .. Len(t) /\ t[i] = s[i]
                                   /\ TxLast(t, i) <=> TxLast(s, i)
         /\ \A k \in 1 .. Len(w) : /\ Len(s) + k \in 1 .. Len(t) /\ t[Len(s) + k] = w[k]
                                   /\ TxLast(t, Len(s) + k) <=> k = Len(w)
         /\ TxPkts(t) = TxPkts(s) \cup {p}
         /\ TxOrdered(t)
         /\ TxBlocked(s) /\ w[1].cnt = Len(w) => TxBlocked(t)
<1>1. PICK l \in Nat, m \in Nat : l = Len(s) /\ m = Len(w) /\ m >= 1
  BY DEF TxJoined
<1>2. /\ t \in Seq(TxWrapper) /\ Len(t) = l + m
      /\ \A i \in 1 .. l + m : t[i] = IF i <= l THEN s[i] ELSE w[i - l]
  BY <1>1, ConcatProperties DEF TxJoined
<1>3. \A i \in 1 .. l : i \in 1 .. l + m /\ t[i] = s[i]
  <2> TAKE i \in 1 .. l
  <2>1. i \in 1 .. l + m /\ i <= l
    BY <1>1
  <2> QED BY <1>2, <2>1
<1>4. \A k \in 1 .. m : l + k \in 1 .. l + m /\ t[l + k] = w[k]
  <2> TAKE k \in 1 .. m
  <2>1. l + k \in 1 .. l + m /\ ~(l + k <= l) /\ l + k - l = k
    BY <1>1
  <2> QED BY <1>2, <2>1
<1>5. \A i \in 1 .. l + m : i \in 1 .. l \/ \E k \in 1 .. m : i = l + k
  <2> TAKE i \in 1 .. l + m
  <2>1. i \in 1 .. l \/ (i - l \in 1 .. m /\ i = l + (i - l))
    BY <1>1
  <2> QED BY <2>1
<1>6. \A i \in 1 .. l : t[i].pkt \in Nat /\ t[i].pkt < p
  BY <1>1, <1>3, TxFields DEF TxJoined
<1>7. \A k \in 1 .. m : t[l + k].pkt = p
  BY <1>1, <1>4 DEF TxJoined
<1>8. ASSUME NEW i \in 1 .. l PROVE TxLast(t, i) <=> TxLast(s, i)
  <2>1. TxLast(t, i) <=> i = l + m \/ t[i + 1].pkt # t[i].pkt
    BY <1>2 DEF TxLast
  <2>2. TxLast(s, i) <=> i = l \/ s[i + 1].pkt # s[i].pkt
    BY <1>1 DEF TxLast
  <2>3. CASE i = l
    <3>1. PICK k \in 1 .. m : k = 1
      BY <1>1
    <3>2. t[i + 1].pkt = p
      BY <1>7, <2>3, <3>1
    <3>3. PICK x \in Nat : x = t[i].pkt /\ x < p
      BY <1>6
    <3>4. x # p
      BY <3>3
    <3> QED BY <2>1, <2>2, <2>3, <3>2, <3>3, <3>4
  <2>4. CASE i # l
    <3>1. i + 1 \in 1 .. l /\ i # l + m
      BY <1>1, <2>4
    <3>2. t[i + 1] = s[i + 1] /\ t[i] = s[i]
      BY <1>3, <3>1
    <3> QED BY <2>1, <2>2, <2>4, <3>1, <3>2
  <2> QED BY <2>3, <2>4
<1>9. ASSUME NEW k \in 1 .. m PROVE TxLast(t, l + k) <=> k = m
  <2>1. TxLast(t, l + k) <=> l + k = l + m \/ t[l + k + 1].pkt # t[l + k].pkt
    BY <1>2 DEF TxLast
  <2>2. CASE k = m
    BY <2>1, <2>2
  <2>3. CASE k # m
    <3>1. PICK e \in 1 .. m : e = k + 1
      BY <2>3
    <3>2. l + e = l + k + 1 /\ l + k # l + m
      BY <2>3, <3>1
    <3>3. t[l + e].pkt = p /\ t[l + k].pkt = p
      BY <1>7
    <3> QED BY <2>1, <2>3, <3>2, <3>3
  <2> QED BY <2>2, <2>3
<1>10. TxPkts(t) = TxPkts(s) \cup {p}
  <2>1. ASSUME NEW i \in 1 .. l + m PROVE t[i].pkt \in TxPkts(s) \cup {p}
    <3>1. CASE i \in 1 .. l
      BY <1>1, <1>3, <3>1 DEF TxPkts
    <3>2. CASE \E k \in 1 .. m : i = l + k
      BY <1>7, <3>2
    <3> QED BY <1>5, <3>1, <3>2
  <2>2. ASSUME NEW i \in 1 .. l PROVE s[i].pkt \in TxPkts(t)
    BY <1>2, <1>3 DEF TxPkts
  <2>3. p \in TxPkts(t)
    <3>1. PICK k \in 1 .. m : k = 1
      BY <1>1
    <3> QED BY <1>2, <1>4, <1>7, <3>1 DEF TxPkts
  <2>4. TxPkts(t) = {t[i].pkt : i \in 1 .. l + m} /\ TxPkts(s) = {s[i].pkt : i \in 1 .. l}
    BY <1>1, <1>2 DEF TxPkts
  <2>5. TxPkts(t) \subseteq TxPkts(s) \cup {p}
    BY <2>1, <2>4
  <2>6. TxPkts(s) \subseteq TxPkts(t)
    BY <2>2, <2>4
  <2> QED BY <2>3, <2>5, <2>6
<1>11. TxOrdered(t)
  <2>1. ASSUME NEW i \in 1 .. l + m PROVE TxLast(t, i) <=> t[i].cb \in TxCalls
    <3>1. CASE i \in 1 .. l
      BY <1>1, <1>3, <1>8, <3>1 DEF TxOrdered, TxJoined
    <3>2. ASSUME NEW k \in 1 .. m, i = l + k PROVE TxLast(t, i) <=> t[i].cb \in TxCalls
      BY <1>1, <1>4, <1>9, <3>2 DEF TxJoined
    <3> QED BY <1>5, <3>1, <3>2
  <2>2. ASSUME NEW i \in 1 .. l + m, NEW j \in 1 .. l + m, i <= j PROVE t[i].pkt <= t[j].pkt
    <3>1. CASE i \in 1 .. l /\ j \in 1 .. l
      BY <1>1, <1>3, <2>2, <3>1 DEF TxOrdered, TxJoined
    <3>2. ASSUME NEW k \in 1 .. m, j = l + k PROVE t[i].pkt <= t[j].pkt
      <4>1. t[j].pkt = p
        BY <1>7, <3>2
      <4>2. t[i].pkt \in Nat /\ t[i].pkt <= p
        <5>1. CASE i \in 1 .. l
          BY <1>6, <5>1
        <5>2. CASE \E e \in 1 .. m : i = l + e
          <6>1. t[i].pkt = p
            BY <1>7, <5>2
          <6>2. p <= p
            OBVIOUS
          <6> QED BY <6>1, <6>2
        <5> QED BY <1>5, <5>1, <5>2
      <4> QED BY <4>1, <4>2
    <3>3. j \in 1 .. l => i \in 1 .. l
      BY <1>1, <2>2
    <3> QED BY <1>5, <3>1, <3>2, <3>3
  <2> QED BY <1>2, <2>1, <2>2 DEF TxOrdered
<1>12. ASSUME TxBlocked(s), w[1].cnt = m, NEW i \in 1 .. l + m, TxFirst(t, i)
       PROVE  TxBlock(t, i, t[i].cnt)
  <2>1. CASE i \in 1 .. l
    <3>1. TxFirst(s, i)
      <4>1. i = 1 \/ i - 1 \in 1 .. l
        BY <2>1
      <4> QED BY <1>3, <1>12, <2>1, <4>1 DEF TxFirst
    <3>2. PICK n \in Nat : n = s[i].cnt /\ n = t[i].cnt
      <4>1. s[i].cnt \in Nat
        BY <1>1, <2>1, TxFields
      <4> QED BY <1>3, <2>1, <4>1
    <3>3. TxBlock(s, i, n)
      BY <1>1, <1>12, <2>1, <3>1, <3>2 DEF TxBlocked
    <3>4. n > 0 /\ i + n - 1 <= l /\ TxLast(s, i + n - 1)
      BY <1>1, <3>3 DEF TxBlock
    <3>5. PICK e \in 1 .. l : e = i + n - 1
      <4>1. i + n - 1 \in 1 .. l
        BY <2>1, <3>4
      <4> QED BY <4>1
    <3>6. TxLast(t, e) /\ e <= l + m
      BY <1>1, <1>8, <3>4, <3>5
    <3>7. \A j \in i .. e : j \in 1 .. l /\ s[j].pkt = s[i].pkt
      <4>1. \A j \in i .. e : j \in 1 .. l
        BY <2>1, <3>5
      <4> QED BY <3>3, <3>5, <4>1 DEF TxBlock
    <3>8. \A j \in i .. e : t[j].pkt = t[i].pkt
      BY <1>3, <2>1, <3>7
    <3> QED BY <1>2, <3>2, <3>4, <3>5, <3>6, <3>8 DEF TxBlock
  <2>2. ASSUME NEW k \in 1 .. m, i = l + k PROVE TxBlock(t, i, t[i].cnt)
    <3>1. k = 1
      <4>1. SUFFICES ASSUME k # 1 PROVE FALSE
        OBVIOUS
      <4>2. PICK e \in 1 .. m : e = k - 1
        BY <4>1
      <4>3. i - 1 = l + e /\ i # 1
        BY <1>1, <2>2, <4>1, <4>2
      <4>4. t[i - 1].pkt = p /\ t[i].pkt = p
        BY <1>7, <2>2, <4>3
      <4> QED BY <1>12, <4>3, <4>4 DEF TxFirst
    <3>2. t[i].cnt = m
      BY <1>4, <1>12, <2>2, <3>1
    <3>3. i + m - 1 = l + m /\ m > 0 /\ m \in 1 .. m
      BY <1>1, <2>2, <3>1
    <3>4. TxLast(t, l + m)
      BY <1>9, <3>3
    <3>5. ASSUME NEW j \in i .. l + m PROVE t[j].pkt = t[i].pkt
      <4>1. j - l \in 1 .. m /\ j = l + (j - l)
        BY <1>1, <2>2
      <4>2. PICK e \in 1 .. m : j = l + e
        BY <4>1
      <4> QED BY <1>7, <2>2, <4>2
    <3>6. l + m <= Len(t)
      BY <1>1, <1>2
    <3> QED BY <3>2, <3>3, <3>4, <3>5, <3>6 DEF TxBlock
  <2> QED BY <1>5, <2>1, <2>2
<1>13. TxBlocked(s) /\ w[1].cnt = m => TxBlocked(t)
  BY <1>2, <1>12 DEF TxBlocked
<1> QED BY <1>1, <1>2, <1>3, <1>4, <1>8, <1>9, <1>10, <1>11, <1>13

\* The number of calls to the owner of p among the first n wrappers of one packet.
LEMMA TxTaken ==
  ASSUME NEW s \in Seq(TxWrapper), TxOrdered(s), NEW n \in 1 .. Len(s),
         \A i \in 1 .. n : s[i].pkt = s[1].pkt,
         NEW t, t = SubSeq(s, n + 1, Len(s))
  PROVE  /\ TxPkts(t) = IF TxLast(s, n) THEN TxPkts(s) \ {s[1].pkt} ELSE TxPkts(s)
         /\ \A p : Cardinality({i \in 1 .. n : s[i].pkt = p /\ s[i].cb \in TxCalls})
                     = IF TxLast(s, n) /\ p = s[1].pkt THEN 1 ELSE 0
<1>1. PICK l \in Nat : l = Len(s) /\ n \in 1 .. l
  OBVIOUS
<1>2. PICK m \in Nat : m = l - n
  <2>1. l - n \in Nat
    BY <1>1
  <2> QED BY <2>1
<1>3. Len(t) = m /\ \A j \in 1 .. m : n + j \in 1 .. l /\ t[j] = s[n + j]
  <2>1. n \in 0 .. Len(s)
    BY <1>1
  <2> QED BY <1>1, <1>2, <2>1, TxSuffix
<1>4. ASSUME NEW i \in 1 .. n, i # n PROVE ~TxLast(s, i) /\ s[i].cb \notin TxCalls
  <2>1. i + 1 \in 1 .. n /\ i \in 1 .. l /\ i # l
    BY <1>1, <1>4
  <2>2. s[i + 1].pkt = s[i].pkt
    BY <2>1
  <2>3. ~TxLast(s, i)
    BY <1>1, <2>1, <2>2 DEF TxLast
  <2> QED BY <1>1, <2>1, <2>3 DEF TxOrdered
<1>5. TxLast(s, n) <=> s[n].cb \in TxCalls
  BY DEF TxOrdered
<1>6. n \in 1 .. n /\ s[n].pkt = s[1].pkt
  BY <1>1
<1>7. ASSUME NEW p
      PROVE  Cardinality({i \in 1 .. n : s[i].pkt = p /\ s[i].cb \in TxCalls})
               = IF TxLast(s, n) /\ p = s[1].pkt THEN 1 ELSE 0
  <2>1. CASE TxLast(s, n) /\ p = s[1].pkt
    <3>1. {i \in 1 .. n : s[i].pkt = p /\ s[i].cb \in TxCalls} = {n}
      BY <1>4, <1>5, <1>6, <2>1
    <3> QED BY <2>1, <3>1, FS_Singleton
  <2>2. CASE ~(TxLast(s, n) /\ p = s[1].pkt)
    <3>1. {i \in 1 .. n : s[i].pkt = p /\ s[i].cb \in TxCalls} = {}
      BY <1>4, <1>5, <1>6, <2>2
    <3> QED BY <2>2, <3>1, FS_EmptySet
  <2> QED BY <2>1, <2>2
<1>8. TxPkts(t) = {t[j].pkt : j \in 1 .. m} /\ TxPkts(s) = {s[i].pkt : i \in 1 .. l}
  BY <1>1, <1>3 DEF TxPkts
<1>9. TxPkts(t) \subseteq TxPkts(s)
  BY <1>3, <1>8
<1>10. ASSUME NEW i \in 1 .. l PROVE s[i].pkt = s[1].pkt \/ s[i].pkt \in TxPkts(t)
  <2>1. CASE i <= n
    <3>1. i \in 1 .. n
      BY <2>1
    <3> QED BY <3>1
  <2>2. CASE ~(i <= n)
    <3>1. i - n \in 1 .. m /\ n + (i - n) = i
      BY <1>1, <1>2, <2>2
    <3>2. PICK j \in 1 .. m : n + j = i
      BY <3>1
    <3> QED BY <1>3, <1>8, <3>2
  <2> QED BY <2>1, <2>2
<1>11. CASE TxLast(s, n)
  <2>1. ASSUME NEW j \in 1 .. m PROVE t[j].pkt # s[1].pkt
    <3>1. PICK i \in 1 .. l : i = n + j /\ n < i
      <4>1. n < n + j
        BY <1>1
      <4> QED BY <1>3, <4>1
    <3>2. s[n].pkt < s[i].pkt
      BY <1>1, <1>11, <3>1, TxLater
    <3>3. PICK x \in Nat, y \in Nat : x = s[n].pkt /\ y = s[i].pkt
      BY <1>1, TxFields
    <3>4. x # y
      BY <3>2, <3>3
    <3> QED BY <1>3, <1>6, <3>1, <3>3, <3>4
  <2>2. s[1].pkt \notin TxPkts(t)
    BY <1>8, <2>1
  <2>3. TxPkts(t) = TxPkts(s) \ {s[1].pkt}
    BY <1>8, <1>9, <1>10, <2>2
  <2> QED BY <1>7, <1>11, <2>3
<1>12. CASE ~TxLast(s, n)
  <2>1. n # l /\ s[n + 1].pkt = s[n].pkt
    BY <1>1, <1>12 DEF TxLast
  <2>2. PICK j \in 1 .. m : j = 1
    BY <1>1, <1>2, <2>1
  <2>3. s[1].pkt \in TxPkts(t)
    <3>1. t[j].pkt = s[1].pkt
      BY <1>3, <1>6, <2>1, <2>2
    <3> QED BY <1>8, <3>1
  <2>4. TxPkts(t) = TxPkts(s)
    BY <1>8, <1>9, <1>10, <2>3
  <2> QED BY <1>7, <1>12, <2>4
<1> QED BY <1>11, <1>12

\* The first wrapper holds the number of wrappers of the oldest packet.
LEMMA TxOldest ==
  ASSUME NEW s \in Seq(TxWrapper), TxBlocked(s), Len(s) > 0
  PROVE  /\ s[1].cnt \in 1 .. Len(s) /\ TxLast(s, s[1].cnt)
         /\ \A i \in 1 .. s[1].cnt : s[i].pkt = s[1].pkt
         /\ \A i \in 1 .. Len(s) : TxLast(s, i) => s[1].cnt <= i
<1>1. PICK l \in Nat : l = Len(s) /\ 1 \in 1 .. l
  BY Len(s) \in Nat
<1>2. PICK n \in Nat : n = s[1].cnt
  BY <1>1, TxFields
<1>3. TxBlock(s, 1, n)
  BY <1>1, <1>2 DEF TxBlocked, TxFirst
<1>4. n > 0 /\ 1 + n - 1 <= l /\ TxLast(s, 1 + n - 1)
      /\ \A j \in 1 .. 1 + n - 1 : s[j].pkt = s[1].pkt
  BY <1>1, <1>3 DEF TxBlock
<1>5. 1 + n - 1 = n /\ n \in 1 .. l
  BY <1>4
<1>6. ASSUME NEW i \in 1 .. l, TxLast(s, i) PROVE n <= i
  <2> SUFFICES ASSUME ~(n <= i) PROVE FALSE
    OBVIOUS
  <2>1. i \in 1 .. n /\ i + 1 \in 1 .. n /\ i # l
    BY <1>5
  <2>2. s[i + 1].pkt = s[i].pkt
    BY <1>4, <1>5, <2>1
  <2> QED BY <1>1, <1>6, <2>1, <2>2 DEF TxLast
<1> QED BY <1>1, <1>2, <1>4, <1>5, <1>6

\* The wrappers that hold a descriptor of avail_fifo_desc, when the list grows ...
LEMMA TxCreditsJoined ==
  ASSUME NEW s \in Seq(TxWrapper), NEW w \in Seq(TxWrapper)
  PROVE  /\ Cardinality(TxCredits(s)) \in Nat /\ Cardinality(TxCredits(w)) \in Nat
         /\ Cardinality(TxCredits(s \o w)) = Cardinality(TxCredits(s)) + Cardinality(TxCredits(w))
<1>1. PICK l \in Nat, m \in Nat, k \in Nat : l = Len(s) /\ m = Len(w) /\ k = l + m /\ l <= k /\ k - l = m
  <2>1. Len(s) \in Nat /\ Len(w) \in Nat
    OBVIOUS
  <2>2. PICK l \in Nat, m \in Nat : l = Len(s) /\ m = Len(w)
    BY <2>1
  <2>3. l + m \in Nat /\ l <= l + m /\ l + m - l = m
    OBVIOUS
  <2> QED BY <2>2, <2>3
<1>2. PICK t : t = s \o w
  OBVIOUS
<1>3. Len(t) = k /\ \A i \in 1 .. k : t[i] = IF i <= l THEN s[i] ELSE w[i - l]
  BY <1>1, <1>2, ConcatProperties
<1>4. PICK A \in SUBSET (1 .. k) : A = TxCredits(t)
  BY <1>3 DEF TxCredits
<1>5. {i \in 1 .. l : i \in A} = TxCredits(s)
  <2>1. \A i \in 1 .. l : i \in 1 .. k /\ i <= l
    BY <1>1
  <2>2. \A i \in 1 .. l : i \in A <=> s[i].cb \in {"mul", "part"}
    BY <1>3, <1>4, <2>1 DEF TxCredits
  <2> QED BY <1>1, <2>2 DEF TxCredits
<1>6. {j \in 1 .. k - l : l + j \in A} = TxCredits(w)
  <2>1. \A j \in 1 .. m : l + j \in 1 .. k /\ ~(l + j <= l) /\ l + j - l = j
    BY <1>1
  <2>2. \A j \in 1 .. m : l + j \in 1 .. k /\ t[l + j] = w[j]
    BY <1>3, <2>1
  <2>3. \A j \in 1 .. m : l + j \in A <=> w[j].cb \in {"mul", "part"}
    BY <1>3, <1>4, <2>2 DEF TxCredits
  <2> QED BY <1>1, <2>3 DEF TxCredits
<1>7. /\ Cardinality({i \in 1 .. l : i \in A}) \in Nat
      /\ Cardinality({j \in 1 .. k - l : l + j \in A}) \in Nat
      /\ Cardinality(A) = Cardinality({i \in 1 .. l : i \in A})
                          + Cardinality({j \in 1 .. k - l : l + j \in A})
  <2>1. l <= k
    BY <1>1
  <2> QED BY <2>1, CountSplit
<1> QED BY <1>2, <1>4, <1>5, <1>6, <1>7

\* ... and when it shrinks.
LEMMA TxCreditsTaken ==
  ASSUME NEW s \in Seq(TxWrapper), NEW n \in 0 .. Len(s), NEW t, t = SubSeq(s, n + 1, Len(s))
  PROVE  /\ Cardinality({i \in 1 .. n : s[i].cb \in {"mul", "part"}}) \in Nat
         /\ Cardinality(TxCredits(t)) \in Nat
         /\ Cardinality(TxCredits(s)) = Cardinality({i \in 1 .. n : s[i].cb \in {"mul", "part"}})
                                        + Cardinality(TxCredits(t))
<1>1. PICK l \in Nat : l = Len(s) /\ n \in Nat /\ n <= l
  BY Len(s) \in Nat
<1>2. /\ Len(t) = l - n
      /\ \A j \in 1 .. l - n : n + j \in 1 .. l /\ t[j] = s[n + j]
  BY <1>1, TxSuffix
<1>3. PICK A \in SUBSET (1 .. l) : A = TxCredits(s)
  BY <1>1 DEF TxCredits
<1>4. {i \in 1 .. n : i \in A} = {i \in 1 .. n : s[i].cb \in {"mul", "part"}}
  <2>1. \A i \in 1 .. n : i \in 1 .. l
    BY <1>1
  <2> QED BY <1>1, <1>3, <2>1 DEF TxCredits
<1>5. {j \in 1 .. l - n : n + j \in A} = TxCredits(t)
  <2>1. \A j \in 1 .. l - n : n + j \in A <=> t[j].cb \in {"mul", "part"}
    BY <1>1, <1>2, <1>3 DEF TxCredits
  <2> QED BY <1>2, <2>1 DEF TxCredits
<1>6. /\ Cardinality({i \in 1 .. n : i \in A}) \in Nat
      /\ Cardinality({j \in 1 .. l - n : n + j \in A}) \in Nat
      /\ Cardinality(A) = Cardinality({i \in 1 .. n : i \in A})
                          + Cardinality({j \in 1 .. l - n : n + j \in A})
  BY <1>1, CountSplit
<1> QED BY <1>3, <1>4, <1>5, <1>6

\* A packet was given to the hardware, or nothing changed.
TxGiven(cbs) ==
  /\ tList' = tList \o T!Wrappers(tOffered + 1, cbs)
  /\ tFifo' = tFifo \o T!Descs(tOffered + 1, cbs)
  /\ tSent' = tSent \cup {tOffered + 1}
LEMMA TxGivenStep ==
  ASSUME TxInv, NEW cbs, TxCallbacks(cbs), TxGiven(cbs), tOffered' = tOffered + 1,
         UNCHANGED <<tPolicy, tIrq, tWorks, tPoller, tCalled>>,
         tPolicy = "poll" => tDone' = tDone
  PROVE  /\ TxType' /\ TxLists' /\ TxNoticed' /\ TxCalled'
         /\ tSent' # tSent
         /\ Cardinality(TxCredits(tList)) \in Nat
         /\ Cardinality(TxCredits(tList'))
              = Cardinality(TxCredits(tList)) + Cardinality({k \in 1 .. Len(cbs) : cbs[k] \in {"mul", "part"}})
<1>0. /\ tList \in Seq(TxWrapper) /\ tFifo \in Seq(TxDesc) /\ tOffered \in Nat
      /\ tSent \subseteq 1 .. tOffered /\ tPolicy \in T!Policies /\ tWorks \in Seq(Nat)
      /\ tCalled \in [T!Pkts -> Nat]
  BY DEF TxInv, TxType
<1>1. PICK p \in Nat : p = tOffered + 1
  BY <1>0
<1>2. p \notin tSent /\ tSent' = tSent \cup {p} /\ \A x \in tSent : x < p /\ x \in Nat
  BY <1>0, <1>1 DEF TxGiven
<1>3. PICK w \in Seq(TxWrapper), d \in Seq(TxDesc) :
        /\ w = T!Wrappers(p, cbs) /\ d = T!Descs(p, cbs) /\ Len(w) = Len(cbs) /\ Len(d) = Len(cbs)
        /\ w[1].cnt = Len(cbs)
        /\ \A k \in 1 .. Len(cbs) : w[k].pkt = p /\ w[k].cb = cbs[k] /\ d[k].pkt = p
                                    /\ (d[k].eot <=> k = Len(cbs))
  BY TxWrapped
<1>4. PICK s \in Seq(TxWrapper), f \in Seq(TxDesc) :
        s = tList /\ f = tFifo /\ tList' = s \o w /\ tFifo' = f \o d
  BY <1>0, <1>1, <1>3 DEF TxGiven
<1>5. PICK t : t = tList'
  OBVIOUS
<1>6. PICK l \in Nat, h \in Nat, m \in Nat : l = Len(s) /\ h = Len(f) /\ m = Len(cbs) /\ h <= l /\ m >= 1
  <2>1. Len(s) \in Nat /\ Len(f) \in Nat /\ Len(cbs) \in Nat /\ Len(cbs) >= 1
    BY DEF TxCallbacks
  <2>2. Len(f) <= Len(s)
    BY <1>4 DEF TxInv, TxLists, TxAgrees
  <2> QED BY <2>1, <2>2
<1>7. TxJoined(s, w, p, t)
  <2>1. \A i \in 1 .. Len(s) : s[i].pkt \in tSent
    BY <1>4 DEF TxInv, TxLists, TxPkts
  <2>2. \A i \in 1 .. Len(s) : s[i].pkt < p
    BY <1>2, <2>1
  <2>3. TxOrdered(s)
    BY <1>4 DEF TxInv, TxLists
  <2>4. \A k \in 1 .. Len(w) : w[k].pkt = p /\ (w[k].cb \in TxCalls <=> k = Len(w))
    BY <1>3 DEF TxCallbacks
  <2> QED BY <1>3, <1>4, <1>5, <1>6, <2>2, <2>3, <2>4 DEF TxJoined
<1>8. /\ t \in Seq(TxWrapper) /\ Len(t) = l + m
      /\ \A i \in 1 .. l : i \in 1 .. l + m /\ t[i] = s[i] /\ (TxLast(t, i) <=> TxLast(s, i))
      /\ \A k \in 1 .. m : /\ l + k \in 1 .. l + m /\ t[l + k] = w[k]
                           /\ TxLast(t, l + k) <=> k = m
      /\ TxPkts(t) = TxPkts(s) \cup {p} /\ TxOrdered(t)
      /\ TxBlocked(s) => TxBlocked(t)
  BY <1>3, <1>6, <1>7, TxAppended, SMTT(30)
<1>9. /\ tFifo' \in Seq(TxDesc) /\ Len(tFifo') = h + m
      /\ \A i \in 1 .. h + m : tFifo'[i] = IF i <= h THEN f[i] ELSE d[i - h]
  <2>1. /\ f \o d \in Seq(TxDesc) /\ Len(f \o d) = Len(f) + Len(d)
        /\ \A i \in 1 .. Len(f) + Len(d) : (f \o d)[i] = IF i <= Len(f) THEN f[i] ELSE d[i - Len(f)]
    BY ConcatProperties
  <2> QED BY <1>3, <1>4, <1>6, <2>1
<1>10. TxType'
  <2>1. tOffered' \in Nat /\ tSent' \subseteq 1 .. tOffered'
    BY <1>0, <1>1, <1>2
  <2> QED BY <1>0, <1>5, <1>8, <1>9, <2>1 DEF TxType
<1>11. TxAgrees(tList', tFifo')
  <2>1. h + m <= l + m /\ l + m - (h + m) = l - h
    BY <1>6
  <2>2. ASSUME NEW i \in 1 .. h + m
        PROVE  tFifo'[i].pkt = t[l - h + i].pkt /\ (tFifo'[i].eot <=> TxLast(t, l - h + i))
    <3>1. CASE i <= h
      <4>1. i \in 1 .. h /\ l - h + i \in 1 .. l
        BY <1>6, <3>1
      <4>2. PICK e \in 1 .. l : e = l - h + i
        BY <4>1
      <4>3. f[i].pkt = s[e].pkt /\ (f[i].eot <=> TxLast(s, e))
        BY <1>4, <1>6, <4>1, <4>2 DEF TxInv, TxLists, TxAgrees
      <4>4. tFifo'[i] = f[i]
        BY <1>9, <3>1
      <4> QED BY <1>8, <4>2, <4>3, <4>4
    <3>2. CASE ~(i <= h)
      <4>1. i - h \in 1 .. m /\ l - h + i = l + (i - h)
        BY <1>6, <3>2
      <4>2. PICK k \in 1 .. m : k = i - h
        BY <4>1
      <4>3. tFifo'[i] = d[k] /\ l - h + i = l + k
        BY <1>9, <3>2, <4>1, <4>2
      <4>4. d[k].pkt = p /\ (d[k].eot <=> k = m) /\ w[k].pkt = p
        BY <1>3, <1>6
      <4> QED BY <1>8, <4>3, <4>4, ZenonT(40)
    <3> QED BY <3>1, <3>2
  <2>3. Len(tFifo') <= Len(t) /\ Len(t) - Len(tFifo') = l - h
    BY <1>8, <1>9, <2>1
  <2> QED BY <1>5, <1>9, <2>2, <2>3 DEF TxAgrees
<1>12. TxLists'
  <2>1. TxPkts(tList') \subseteq tSent'
    BY <1>2, <1>4, <1>5, <1>8 DEF TxInv, TxLists
  <2>2. tPolicy' # "poll" => TxBlocked(tList')
    BY <1>4, <1>5, <1>8 DEF TxInv, TxLists
  <2> QED BY <1>5, <1>8, <1>11, <2>1, <2>2 DEF TxLists
<1>13. TxNoticed'
  <2>1. TxDone = l - h /\ TxDone' = l - h
    <3>1. l + m - (h + m) = l - h
      OBVIOUS
    <3> QED BY <1>4, <1>5, <1>6, <1>8, <1>9, <3>1 DEF TxDone
  <2>2. \A i \in 1 .. l - h : i \in 1 .. l
    BY <1>6
  <2>3. TxEnded(t, l - h) = TxEnded(s, l - h)
    BY <1>8, <2>2 DEF TxEnded
  <2> QED BY <1>4, <1>5, <2>1, <2>3 DEF TxInv, TxNoticed
<1>14. TxCalled'
  <2>1. TxPkts(tList') = TxPkts(tList) \cup {p}
    BY <1>4, <1>5, <1>8
  <2>2. tSent' \ TxPkts(tList') = tSent \ TxPkts(tList)
    BY <1>2, <2>1
  <2> QED BY <2>2 DEF TxInv, TxCalled
<1>15. /\ Cardinality(TxCredits(tList)) \in Nat
       /\ Cardinality(TxCredits(tList'))
            = Cardinality(TxCredits(tList)) + Cardinality({k \in 1 .. Len(cbs) : cbs[k] \in {"mul", "part"}})
  <2>1. TxCredits(w) = {k \in 1 .. Len(cbs) : cbs[k] \in {"mul", "part"}}
    BY <1>3 DEF TxCredits
  <2> QED BY <1>4, <2>1, TxCreditsJoined
<1> QED BY <1>2, <1>10, <1>12, <1>13, <1>14, <1>15

\* ipa_send_one(), ipa_send().
LEMMA TxSendStep ==
  ASSUME TxInv, NEW cbs, TxCallbacks(cbs), T!Send(tOffered + 1, cbs), tOffered' = tOffered + 1,
         UNCHANGED <<tPolicy, tIrq, tWorks, tPoller, tCalled>>
  PROVE  /\ TxType' /\ TxLists' /\ TxNoticed' /\ TxCalled'
         /\ Cardinality(TxCredits(tList)) \in Nat
         /\ Cardinality(TxCredits(tList'))
              = Cardinality(TxCredits(tList))
                + IF tSent' = tSent THEN 0
                  ELSE Cardinality({k \in 1 .. Len(cbs) : cbs[k] \in {"mul", "part"}})
<1>1. tPolicy = "poll" => tDone' = tDone
  BY DEF T!Send, T!DrainedDone
<1>2. CASE TxGiven(cbs)
  BY <1>1, <1>2, TxGivenStep
<1>3. CASE UNCHANGED <<tList, tFifo, tSent>>
  <2>0. tList \in Seq(TxWrapper) /\ tOffered \in Nat /\ tSent \subseteq 1 .. tOffered
    BY DEF TxInv, TxType
  <2>1. tOffered' \in Nat /\ tSent' \subseteq 1 .. tOffered'
    BY <1>3, <2>0
  <2>2. TxType' /\ TxLists'
    BY <1>3, <2>1 DEF TxInv, TxType, TxLists
  <2>3. TxDone' = TxDone
    BY <1>3 DEF TxDone
  <2>4. TxNoticed'
    BY <1>1, <1>3, <2>3 DEF TxInv, TxNoticed
  <2>5. TxCalled'
    BY <1>3 DEF TxInv, TxCalled
  <2>6. Cardinality(TxCredits(tList)) \in Nat
    BY <2>0, TxCreditsJoined
  <2>7. PICK c \in Nat : c = Cardinality(TxCredits(tList)) /\ c = Cardinality(TxCredits(tList')) /\ c = c + 0
    BY <1>3, <2>6
  <2> QED BY <1>3, <2>2, <2>4, <2>5, <2>7
<1> QED BY <1>2, <1>3 DEF T!Send, T!FailedList, TxGiven

\* The callbacks of a fragmented packet, with and without its command.
LEMMA TxFragments ==
  ASSUME NEW f \in Nat, NEW sw \in BOOLEAN, NEW cbs,
         cbs = T!LastFrag(f) \/ cbs = T!SkbCallbacks(sw, f)
  PROVE  TxCallbacks(cbs) /\ {k \in 1 .. Len(cbs) : cbs[k] \in {"mul", "part"}} = {}
<1> DEFINE A == TxCalls \cup {"kfree", "none"}
<1>1. PICK m \in Nat : m = f + 1 /\ m >= 1
  <2>1. f + 1 \in Nat /\ f + 1 >= 1
    OBVIOUS
  <2> QED BY <2>1
<1>2. PICK g : g = T!LastFrag(f)
  OBVIOUS
<1>3. g = [i \in 1 .. m |-> IF i = m THEN "done" ELSE "none"]
  BY <1>1, <1>2 DEF T!LastFrag
<1>4. g \in [1 .. m -> A]
  BY <1>3 DEF TxCalls
<1>5. g \in Seq(A) /\ Len(g) = m
  BY <1>4
<1>6. \A i \in 1 .. m : g[i] = IF i = m THEN "done" ELSE "none"
  BY <1>3
<1>7. TxCallbacks(g) /\ {k \in 1 .. Len(g) : g[k] \in {"mul", "part"}} = {}
  <2>1. \A i \in 1 .. m : (g[i] \in TxCalls <=> i = m) /\ g[i] \notin {"mul", "part"}
    BY <1>6 DEF TxCalls
  <2>2. TxCallbacks(g)
    BY <1>1, <1>5, <2>1 DEF TxCallbacks
  <2> QED BY <1>5, <2>1, <2>2
<1>8. ASSUME NEW c, c = <<"kfree">> \o g
      PROVE  TxCallbacks(c) /\ {k \in 1 .. Len(c) : c[k] \in {"mul", "part"}} = {}
  <2>0. "kfree" \in A
    OBVIOUS
  <2>1. PICK k \in Seq(A) : k = <<"kfree">> /\ Len(k) = 1 /\ k[1] = "kfree"
    <3> HIDE DEF A
    <3>1. <<"kfree">> \in Seq(A) /\ Len(<<"kfree">>) = 1 /\ <<"kfree">>[1] = "kfree"
      BY <2>0
    <3> QED BY <3>1
  <2>2. /\ k \o g \in Seq(A) /\ Len(k \o g) = Len(k) + Len(g)
        /\ \A i \in 1 .. Len(k) + Len(g) : (k \o g)[i] = IF i <= Len(k) THEN k[i] ELSE g[i - Len(k)]
    BY <1>5, ConcatProperties
  <2>3. /\ c \in Seq(A) /\ Len(c) = 1 + m
        /\ \A i \in 1 .. 1 + m : c[i] = IF i <= 1 THEN k[i] ELSE g[i - 1]
    BY <1>5, <1>8, <2>1, <2>2
  <2>4. ASSUME NEW i \in 1 .. 1 + m
        PROVE  (c[i] \in TxCalls <=> i = 1 + m) /\ c[i] \notin {"mul", "part"}
    <3>1. CASE i <= 1
      <4>1. i = 1 /\ i # 1 + m
        BY <1>1, <3>1
      <4>2. c[i] = "kfree"
        BY <2>1, <2>3, <3>1, <4>1
      <4> QED BY <4>1, <4>2 DEF TxCalls
    <3>2. CASE ~(i <= 1)
      <4>1. i - 1 \in 1 .. m /\ (i - 1 = m <=> i = 1 + m)
        BY <1>1, <3>2
      <4>2. PICK j \in 1 .. m : j = i - 1 /\ (j = m <=> i = 1 + m)
        BY <4>1
      <4>3. c[i] = g[j]
        BY <2>3, <3>2, <4>2
      <4>4. g[j] = IF j = m THEN "done" ELSE "none"
        BY <1>6
      <4> QED BY <4>2, <4>3, <4>4 DEF TxCalls
    <3> QED BY <3>1, <3>2
  <2>5. 1 + m >= 1
    BY <1>1
  <2>6. TxCallbacks(c)
    BY <2>3, <2>4, <2>5 DEF TxCallbacks
  <2> QED BY <2>3, <2>4, <2>6
<1>9. << >> \o g = g
  BY <1>5, ConcatEmptySeq
<1> QED BY <1>2, <1>7, <1>8, <1>9 DEF T!SkbCallbacks

\* ipa2_tx_dp(), ipa_send_cmd().
LEMMA TxPacketStep ==
  ASSUME TxInv, \/ \E sw \in BOOLEAN, f \in 0 .. MaxFrags : T!TxDp(sw, f)
                \/ \E n \in 1 .. 2 : T!SendCmd(n)
  PROVE  TxInv'
<1>1. PICK cbs : /\ TxCallbacks(cbs) /\ {k \in 1 .. Len(cbs) : cbs[k] \in {"mul", "part"}} = {}
                 /\ T!Send(tOffered + 1, cbs) /\ tOffered' = tOffered + 1
                 /\ UNCHANGED <<tPolicy, tIrq, tWorks, tPoller, tCalled, tMul, tAvail>>
  <2>1. ASSUME NEW sw \in BOOLEAN, NEW f \in 0 .. MaxFrags, T!TxDp(sw, f)
        PROVE  \E cbs : /\ TxCallbacks(cbs) /\ {k \in 1 .. Len(cbs) : cbs[k] \in {"mul", "part"}} = {}
                        /\ T!Send(tOffered + 1, cbs) /\ tOffered' = tOffered + 1
                        /\ UNCHANGED <<tPolicy, tIrq, tWorks, tPoller, tCalled, tMul, tAvail>>
    <3>1. PICK cbs : cbs = T!SkbCallbacks(sw, f)
      OBVIOUS
    <3>2. f \in Nat
      BY TxAssumption
    <3>3. TxCallbacks(cbs) /\ {k \in 1 .. Len(cbs) : cbs[k] \in {"mul", "part"}} = {}
      BY <3>1, <3>2, TxFragments
    <3> QED BY <2>1, <3>1, <3>3 DEF T!TxDp
  <2>2. ASSUME NEW n \in 1 .. 2, T!SendCmd(n)
        PROVE  \E cbs : /\ TxCallbacks(cbs) /\ {k \in 1 .. Len(cbs) : cbs[k] \in {"mul", "part"}} = {}
                        /\ T!Send(tOffered + 1, cbs) /\ tOffered' = tOffered + 1
                        /\ UNCHANGED <<tPolicy, tIrq, tWorks, tPoller, tCalled, tMul, tAvail>>
    <3>1. PICK cbs : cbs = T!LastFrag(n - 1)
      OBVIOUS
    <3>2. PICK f \in Nat : f = n - 1
      OBVIOUS
    <3>3. PICK sw \in BOOLEAN : sw = TRUE
      OBVIOUS
    <3>4. TxCallbacks(cbs) /\ {k \in 1 .. Len(cbs) : cbs[k] \in {"mul", "part"}} = {}
      BY <3>1, <3>2, TxFragments
    <3> QED BY <2>2, <3>1, <3>4 DEF T!SendCmd
  <2> QED BY <2>1, <2>2
<1>2. /\ TxType' /\ TxLists' /\ TxNoticed' /\ TxCalled'
      /\ Cardinality(TxCredits(tList)) \in Nat
      /\ Cardinality(TxCredits(tList'))
           = Cardinality(TxCredits(tList))
             + IF tSent' = tSent THEN 0
               ELSE Cardinality({k \in 1 .. Len(cbs) : cbs[k] \in {"mul", "part"}})
  BY <1>1, TxSendStep
<1>3. Cardinality({k \in 1 .. Len(cbs) : cbs[k] \in {"mul", "part"}}) = 0
  BY <1>1, FS_EmptySet
<1>4. Cardinality(TxCredits(tList')) = Cardinality(TxCredits(tList))
  BY <1>2, <1>3
<1>5. TxAvail'
  BY <1>1, <1>4 DEF TxInv, TxAvail
<1> QED BY <1>2, <1>5 DEF TxInv

\* ipa2_tx_dp_mul(): the call, one of its descriptors, and the count.
LEMMA TxMulStep ==
  ASSUME TxInv, (\E n \in 1 .. 2 : T!TxDpMul(n)) \/ T!MulSend \/ T!MulDec
  PROVE  TxInv'
<1>0. /\ Cardinality(TxCredits(tList)) \in Nat /\ tMul \in [left : Nat, dec : BOOLEAN] /\ FifoSize \in Nat
      /\ tMul.left \in Nat /\ tMul.dec \in BOOLEAN /\ tMul.left <= tAvail /\ (tMul.dec => tMul.left > 0)
      /\ tAvail = FifoSize - Cardinality(TxCredits(tList)) + (IF tMul.dec THEN 1 ELSE 0)
  <2>1. tList \in Seq(TxWrapper)
    BY DEF TxInv, TxType
  <2>2. Cardinality(TxCredits(tList)) \in Nat
    BY <2>1, TxCreditsJoined
  <2> QED BY <2>2, TxAssumption DEF TxInv, TxAvail
<1>1. PICK c \in Nat, a \in Int : c = Cardinality(TxCredits(tList)) /\ a = tAvail
  <2>1. tAvail \in Int
    BY <1>0
  <2> QED BY <1>0, <2>1
<1>2. ASSUME UNCHANGED <<tPolicy, tList, tFifo, tDone, tIrq, tWorks, tPoller, tOffered, tSent, tCalled>>
      PROVE  TxType' /\ TxLists' /\ TxNoticed' /\ TxCalled' /\ TxCredits(tList') = TxCredits(tList)
  <2>1. TxDone' = TxDone
    BY <1>2 DEF TxDone
  <2> QED BY <1>2, <2>1 DEF TxInv, TxType, TxLists, TxNoticed, TxCalled
<1>3. ASSUME NEW n \in 1 .. 2, T!TxDpMul(n) PROVE TxInv'
  <2>1. /\ tMul = T!NoMul /\ n <= tAvail /\ tMul' = [left |-> n, dec |-> FALSE] /\ tAvail' = tAvail
        /\ UNCHANGED <<tPolicy, tList, tFifo, tDone, tIrq, tWorks, tPoller, tOffered, tSent, tCalled>>
    BY <1>3 DEF T!TxDpMul, T!hw
  <2>2. tMul.dec = FALSE
    BY <2>1 DEF T!NoMul
  <2>3. TxAvail'
    BY <1>0, <1>2, <2>1, <2>2 DEF TxAvail
  <2> QED BY <1>2, <2>1, <2>3 DEF TxInv
<1>4. ASSUME T!MulSend PROVE TxInv'
  <2>1. PICK cb \in {"mul", "part"} :
          /\ T!Send(tOffered + 1, <<cb>>) /\ tMul.left > 0 /\ ~tMul.dec /\ tOffered' = tOffered + 1
          /\ tMul' = IF tSent' = tSent THEN T!NoMul ELSE [tMul EXCEPT !.dec = TRUE]
          /\ UNCHANGED <<tPolicy, tIrq, tWorks, tPoller, tCalled, tAvail>>
    BY <1>4 DEF T!MulSend
  <2>2. PICK cbs : cbs = <<cb>>
    OBVIOUS
  <2>3. cbs \in Seq(TxCalls \cup {"kfree", "none"}) /\ Len(cbs) = 1 /\ cbs[1] = cb
    BY <2>2 DEF TxCalls
  <2>4. TxCallbacks(cbs)
    BY <2>3 DEF TxCallbacks, TxCalls
  <2>5. {k \in 1 .. Len(cbs) : cbs[k] \in {"mul", "part"}} = {1}
    BY <2>3
  <2>6. Cardinality({k \in 1 .. Len(cbs) : cbs[k] \in {"mul", "part"}}) = 1
    BY <2>5, FS_Singleton
  <2>7. /\ TxType' /\ TxLists' /\ TxNoticed' /\ TxCalled'
        /\ Cardinality(TxCredits(tList'))
             = Cardinality(TxCredits(tList))
               + IF tSent' = tSent THEN 0
                 ELSE Cardinality({k \in 1 .. Len(cbs) : cbs[k] \in {"mul", "part"}})
    BY <2>1, <2>2, <2>4, TxSendStep
  <2>8. CASE tSent' = tSent
    <3>1. Cardinality(TxCredits(tList')) = c /\ tMul' = T!NoMul
      BY <1>1, <2>1, <2>7, <2>8
    <3>2. TxAvail'
      BY <1>0, <1>1, <2>1, <3>1 DEF TxAvail, T!NoMul
    <3> QED BY <2>7, <3>2 DEF TxInv
  <2>9. CASE tSent' # tSent
    <3>1. Cardinality(TxCredits(tList')) = c + 1 /\ tMul' = [tMul EXCEPT !.dec = TRUE]
      BY <1>1, <2>1, <2>6, <2>7, <2>9
    <3>2. tMul' \in [left : Nat, dec : BOOLEAN] /\ tMul'.dec /\ tMul'.left = tMul.left
      BY <1>0, <3>1
    <3>3. TxAvail'
      BY <1>0, <1>1, <2>1, <3>1, <3>2 DEF TxAvail
    <3> QED BY <2>7, <3>3 DEF TxInv
  <2> QED BY <2>8, <2>9
<1>5. ASSUME T!MulDec PROVE TxInv'
  <2>1. /\ tMul.dec /\ tAvail' = IF tAvail >= 0 THEN tAvail - 1 ELSE tAvail
        /\ tMul' = [left |-> tMul.left - 1, dec |-> FALSE]
        /\ UNCHANGED <<tPolicy, tList, tFifo, tDone, tIrq, tWorks, tPoller, tOffered, tSent, tCalled>>
    BY <1>5 DEF T!MulDec, T!hw
  <2>2. tAvail' = tAvail - 1 /\ tMul.left - 1 \in Nat
    BY <1>0, <1>1, <2>1
  <2>3. TxAvail'
    BY <1>0, <1>1, <1>2, <2>1, <2>2 DEF TxAvail
  <2> QED BY <1>2, <2>1, <2>3 DEF TxInv
<1> QED BY <1>3, <1>4, <1>5

\* The packets that end among the completed descriptors, when those of the oldest
\* packet are taken off the list ...
LEMMA TxEndedTaken ==
  ASSUME NEW s \in Seq(TxWrapper), TxOrdered(s), NEW n \in 1 .. Len(s), TxLast(s, n),
         \A i \in 1 .. n : s[i].pkt = s[1].pkt,
         NEW d \in n .. Len(s), NEW t, t = SubSeq(s, n + 1, Len(s))
  PROVE  TxEnded(t, d - n) = TxEnded(s, d) \ {s[1].pkt}
<1>1. PICK l \in Nat : l = Len(s) /\ n \in 1 .. l /\ d \in n .. l
  OBVIOUS
<1>2. /\ Len(t) = l - n
      /\ \A j \in 1 .. l - n : n + j \in 1 .. l /\ t[j] = s[n + j] /\ (TxLast(t, j) <=> TxLast(s, n + j))
  <2>1. n \in 0 .. Len(s)
    BY <1>1
  <2>2. /\ Len(t) = Len(s) - n
        /\ \A j \in 1 .. Len(t) : /\ n + j \in 1 .. Len(s) /\ t[j] = s[n + j]
                                  /\ TxLast(t, j) <=> TxLast(s, n + j)
    BY <2>1, TxSuffix
  <2> QED BY <1>1, <2>2
<1>3. ASSUME NEW j \in 1 .. d - n, TxLast(t, j)
      PROVE  t[j].pkt \in TxEnded(s, d) /\ t[j].pkt # s[1].pkt
  <2>1. PICK i \in 1 .. l : i = n + j /\ n < i /\ i \in 1 .. d /\ j \in 1 .. l - n
    <3>1. n + j \in 1 .. l /\ n < n + j /\ n + j \in 1 .. d /\ j \in 1 .. l - n
      BY <1>1
    <3> QED BY <3>1
  <2>2. t[j] = s[i] /\ TxLast(s, i)
    BY <1>2, <1>3, <2>1
  <2>3. s[n].pkt < s[i].pkt
    BY <1>1, <2>1, TxLater
  <2>4. n \in 1 .. n
    BY <1>1
  <2>5. PICK x \in Nat, y \in Nat : x = s[n].pkt /\ y = s[i].pkt
    BY <1>1, TxFields
  <2>6. x # y /\ x = s[1].pkt
    BY <2>3, <2>4, <2>5, SMTT(30)
  <2> QED BY <2>1, <2>2, <2>5, <2>6 DEF TxEnded
<1>4. ASSUME NEW i \in 1 .. d, TxLast(s, i), s[i].pkt # s[1].pkt
      PROVE  s[i].pkt \in TxEnded(t, d - n)
  <2>1. i \notin 1 .. n
    BY <1>4
  <2>2. PICK j \in 1 .. d - n : n + j = i /\ j \in 1 .. l - n
    <3>1. i - n \in 1 .. d - n /\ n + (i - n) = i /\ i - n \in 1 .. l - n
      BY <1>1, <2>1
    <3> QED BY <3>1
  <2>3. t[j] = s[i] /\ TxLast(t, j)
    BY <1>2, <1>4, <2>2
  <2> QED BY <2>2, <2>3 DEF TxEnded
<1>5. TxEnded(t, d - n) \subseteq TxEnded(s, d) \ {s[1].pkt}
  BY <1>3 DEF TxEnded
<1>6. TxEnded(s, d) \ {s[1].pkt} \subseteq TxEnded(t, d - n)
  BY <1>4 DEF TxEnded
<1> QED BY <1>5, <1>6

\* ... and when one more descriptor completes.
LEMMA TxEndedMore ==
  ASSUME NEW s \in Seq(TxWrapper), TxOrdered(s), NEW d \in Nat, d + 1 \in 1 .. Len(s)
  PROVE  /\ TxEnded(s, d + 1)
              = TxEnded(s, d) \cup (IF TxLast(s, d + 1) THEN {s[d + 1].pkt} ELSE {})
         /\ \A p \in TxEnded(s, d) : p \in Nat /\ p < s[d + 1].pkt
<1>1. PICK e \in 1 .. Len(s) : e = d + 1
  OBVIOUS
<1>2. \A i \in 1 .. e : i = e \/ i \in 1 .. d
  BY <1>1
<1>3. \A i \in 1 .. d : i \in 1 .. e
  BY <1>1
<1>4. e \in 1 .. e
  BY <1>1
<1>5. ASSUME NEW i \in 1 .. e, TxLast(s, i)
      PROVE  s[i].pkt \in TxEnded(s, d) \cup (IF TxLast(s, e) THEN {s[e].pkt} ELSE {})
  BY <1>2, <1>5 DEF TxEnded
<1>6. ASSUME NEW i \in 1 .. d, TxLast(s, i) PROVE s[i].pkt \in TxEnded(s, e)
  BY <1>3, <1>6 DEF TxEnded
<1>7. TxLast(s, e) => s[e].pkt \in TxEnded(s, e)
  BY <1>4 DEF TxEnded
<1>8. TxEnded(s, e) \subseteq TxEnded(s, d) \cup (IF TxLast(s, e) THEN {s[e].pkt} ELSE {})
  BY <1>5 DEF TxEnded
<1>9. TxEnded(s, d) \subseteq TxEnded(s, e)
  BY <1>6 DEF TxEnded
<1>10. ASSUME NEW i \in 1 .. d, TxLast(s, i) PROVE s[i].pkt \in Nat /\ s[i].pkt < s[e].pkt
  <2>1. i \in 1 .. Len(s) /\ i < e
    <3>1. Len(s) \in Nat
      OBVIOUS
    <3> QED BY <1>1, <3>1
  <2> QED BY <1>10, <2>1, TxLater, TxFields
<1>11. \A p \in TxEnded(s, d) : p \in Nat /\ p < s[e].pkt
  BY <1>10 DEF TxEnded
<1>12. TxEnded(s, e) = TxEnded(s, d) \cup (IF TxLast(s, e) THEN {s[e].pkt} ELSE {})
  BY <1>7, <1>8, <1>9
<1> QED BY <1>1, <1>11, <1>12

\* The work items, when the oldest is run ...
LEMMA TxQueuedTail ==
  ASSUME NEW q \in Seq(Nat), q # << >>, NEW e, TxQueued(q, e)
  PROVE  /\ Tail(q) \in Seq(Nat) /\ TxQueued(Tail(q), e \ {q[1]})
         /\ q[1] \in e /\ q[1] \in Nat /\ \A x \in e : x \in Nat /\ q[1] <= x
<1>1. PICK l \in Nat : l = Len(q) /\ l > 0
  <2>1. Len(q) \in Nat /\ Len(q) > 0
    OBVIOUS
  <2> QED BY <2>1
<1>2. PICK r \in Seq(Nat) : r = Tail(q) /\ Len(r) = l - 1 /\ \A i \in 1 .. l - 1 : r[i] = q[i + 1]
  <2>1. Tail(q) \in Seq(Nat) /\ Len(Tail(q)) = Len(q) - 1
        /\ \A i \in 1 .. Len(q) - 1 : Tail(q)[i] = q[i + 1]
    BY HeadTailProperties
  <2> QED BY <1>1, <2>1
<1>3. \A i \in 1 .. l : q[i] \in Nat
  BY <1>1
<1>4. \A i, j \in 1 .. l : i < j => q[i] < q[j]
  BY <1>1 DEF TxQueued
<1>5. e = {q[i] : i \in 1 .. l}
  BY <1>1 DEF TxQueued
<1>6. \A i \in 1 .. l - 1 : i + 1 \in 1 .. l /\ 1 < i + 1
  BY <1>1
<1>7. 1 \in 1 .. l /\ q[1] \in e /\ q[1] \in Nat
  BY <1>1, <1>3, <1>5
<1>8. ASSUME NEW i \in 1 .. l PROVE q[1] <= q[i]
  <2>1. CASE i = 1
    BY <1>7, <2>1
  <2>2. CASE 1 < i
    BY <1>3, <1>4, <1>7, <2>2
  <2> QED BY <1>1, <2>1, <2>2
<1>9. \A x \in e : x \in Nat /\ q[1] <= x
  BY <1>3, <1>5, <1>8
<1>10. ASSUME NEW i \in 1 .. l - 1, NEW j \in 1 .. l - 1, i < j PROVE r[i] < r[j]
  <2>1. PICK a \in 1 .. l, b \in 1 .. l : a = i + 1 /\ b = j + 1
    BY <1>6
  <2>2. a < b
    BY <1>1, <1>10, <2>1
  <2> QED BY <1>2, <1>4, <2>1, <2>2
<1>11. ASSUME NEW i \in 1 .. l - 1 PROVE r[i] \in e \ {q[1]}
  <2>1. PICK a \in 1 .. l : a = i + 1 /\ 1 < a
    BY <1>6
  <2>2. q[1] < q[a] /\ q[a] \in Nat
    BY <1>3, <1>4, <1>7, <2>1
  <2>3. q[a] # q[1]
    BY <1>7, <2>2
  <2> QED BY <1>2, <1>5, <2>1, <2>3
<1>12. ASSUME NEW i \in 1 .. l, q[i] # q[1] PROVE q[i] \in {r[j] : j \in 1 .. l - 1}
  <2>1. i # 1
    BY <1>12
  <2>2. PICK j \in 1 .. l - 1 : j + 1 = i
    <3>1. i - 1 \in 1 .. l - 1 /\ i - 1 + 1 = i
      BY <1>1, <2>1
    <3> QED BY <3>1
  <2> QED BY <1>2, <2>2
<1>13. {r[j] : j \in 1 .. l - 1} = e \ {q[1]}
  <2>1. {r[j] : j \in 1 .. l - 1} \subseteq e \ {q[1]}
    BY <1>11
  <2>2. e \ {q[1]} \subseteq {r[j] : j \in 1 .. l - 1}
    BY <1>5, <1>12
  <2> QED BY <2>1, <2>2
<1>14. TxQueued(r, e \ {q[1]})
  BY <1>2, <1>10, <1>13 DEF TxQueued
<1> QED BY <1>2, <1>7, <1>9, <1>14

\* ... and when one is queued.
LEMMA TxQueuedAppend ==
  ASSUME NEW q \in Seq(Nat), NEW e, TxQueued(q, e), NEW p \in Nat, \A x \in e : x < p
  PROVE  Append(q, p) \in Seq(Nat) /\ TxQueued(Append(q, p), e \cup {p})
<1>1. PICK l \in Nat : l = Len(q)
  OBVIOUS
<1>2. PICK r \in Seq(Nat) : /\ r = Append(q, p) /\ Len(r) = l + 1 /\ r[l + 1] = p
                            /\ \A i \in 1 .. l : r[i] = q[i]
  <2>1. /\ Append(q, p) \in Seq(Nat) /\ Len(Append(q, p)) = Len(q) + 1
        /\ \A i \in 1 .. Len(q) : Append(q, p)[i] = q[i]
        /\ Append(q, p)[Len(q) + 1] = p
    BY AppendProperties
  <2> QED BY <1>1, <2>1
<1>3. PICK m \in Nat : m = l + 1
  OBVIOUS
<1>4. \A i \in 1 .. m : i \in 1 .. l \/ i = m
  BY <1>3
<1>5. \A i \in 1 .. l : i \in 1 .. m
  BY <1>3
<1>6. \A i, j \in 1 .. l : i < j => q[i] < q[j]
  BY <1>1 DEF TxQueued
<1>7. e = {q[i] : i \in 1 .. l}
  BY <1>1 DEF TxQueued
<1>8. ASSUME NEW i \in 1 .. m, NEW j \in 1 .. m, i < j PROVE r[i] < r[j]
  <2>1. i \in 1 .. l
    BY <1>3, <1>8
  <2>2. CASE j = m
    BY <1>2, <1>3, <1>7, <2>1, <2>2
  <2>3. CASE j \in 1 .. l
    BY <1>2, <1>6, <1>8, <2>1, <2>3
  <2> QED BY <1>4, <2>2, <2>3
<1>9. m \in 1 .. m
  BY <1>3
<1>10. {r[i] : i \in 1 .. m} \subseteq e \cup {p}
  BY <1>2, <1>3, <1>4, <1>7
<1>11. e \cup {p} \subseteq {r[i] : i \in 1 .. m}
  BY <1>2, <1>3, <1>5, <1>7, <1>9
<1> QED BY <1>2, <1>3, <1>8, <1>10, <1>11 DEF TxQueued

\* TxPath's instance of FiniteSets counts as this module's does.
LEMMA TxCardinality == \A X : T!Cardinality(X) = Cardinality(X)
BY DEF T!Cardinality, Cardinality

\* ipa_wq_write_done_common(): the first n wrappers, all of one packet, are taken off.
LEMMA TxPopStep ==
  ASSUME TxInv, NEW n \in 1 .. TxDone, T!WriteDoneCommon(n),
         \A i \in 1 .. n : tList[i].pkt = tList[1].pkt,
         tPolicy # "poll" => TxLast(tList, n), tWorks' \in Seq(Nat),
         UNCHANGED <<tPolicy, tFifo, tOffered, tSent, tMul>>
  PROVE  /\ TxType' /\ TxLists' /\ TxCalled' /\ TxAvail'
         /\ TxDone' = TxDone - n /\ tList' = SubSeq(tList, n + 1, Len(tList))
<1>1. PICK f \in Seq(TxDesc) : tList \in Seq(TxWrapper) /\ f = tFifo
  BY DEF TxInv, TxType
<1>2. PICK l \in Nat, h \in Nat : l = Len(tList) /\ h = Len(f) /\ h <= l
  <2>1. Len(tList) \in Nat /\ Len(f) \in Nat
    BY <1>1
  <2>2. Len(f) <= Len(tList)
    BY <1>1 DEF TxInv, TxLists, TxAgrees
  <2> QED BY <2>1, <2>2
<1>3. TxDone = l - h
  BY <1>1, <1>2 DEF TxDone
<1>4. n \in 1 .. l - h /\ n \in 1 .. l /\ n \in 0 .. l /\ (IF n < l THEN n ELSE l) = n
  BY <1>2, <1>3
<1>5. T!Credit \cup {"done"} = TxCalls
  BY DEF T!Credit, TxCalls
<1>6. PICK t : t = tList' /\ t = SubSeq(tList, n + 1, Len(tList))
  BY <1>2, <1>4 DEF T!WriteDoneCommon
<1>7. ASSUME NEW p \in T!Pkts
      PROVE  tCalled'[p] = tCalled[p]
               + Cardinality({i \in 1 .. n : tList[i].pkt = p /\ tList[i].cb \in TxCalls})
  <2>1. tCalled'[p] = tCalled[p]
          + T!Cardinality({i \in 1 .. (IF n < Len(tList) THEN n ELSE Len(tList)) :
                           tList[i].pkt = p /\ tList[i].cb \in T!Credit \cup {"done"}})
    BY DEF T!WriteDoneCommon
  <2>2. {i \in 1 .. (IF n < Len(tList) THEN n ELSE Len(tList)) :
           tList[i].pkt = p /\ tList[i].cb \in T!Credit \cup {"done"}}
          = {i \in 1 .. n : tList[i].pkt = p /\ tList[i].cb \in TxCalls}
    BY <1>2, <1>4, <1>5
  <2> QED BY <2>1, <2>2, TxCardinality
<1>8. tAvail' = tAvail + Cardinality({i \in 1 .. n : tList[i].cb \in {"mul", "part"}})
  <2>1. tAvail' = tAvail + T!Cardinality({i \in 1 .. (IF n < Len(tList) THEN n ELSE Len(tList)) :
                                          tList[i].cb \in T!Credit})
    BY DEF T!WriteDoneCommon
  <2>2. {i \in 1 .. (IF n < Len(tList) THEN n ELSE Len(tList)) : tList[i].cb \in T!Credit}
          = {i \in 1 .. n : tList[i].cb \in {"mul", "part"}}
    BY <1>2, <1>4 DEF T!Credit
  <2> QED BY <2>1, <2>2, TxCardinality
<1>9. /\ t \in Seq(TxWrapper) /\ Len(t) = l - n
      /\ \A j \in 1 .. l - n : /\ n + j \in 1 .. l /\ t[j] = tList[n + j]
                               /\ TxLast(t, j) <=> TxLast(tList, n + j)
      /\ TxOrdered(tList) => TxOrdered(t)
      /\ TxBlocked(tList) /\ TxLast(tList, n) => TxBlocked(t)
  <2>1. n \in 0 .. Len(tList)
    BY <1>2, <1>4
  <2>2. /\ t \in Seq(TxWrapper) /\ Len(t) = Len(tList) - n
        /\ \A j \in 1 .. Len(t) : /\ n + j \in 1 .. Len(tList) /\ t[j] = tList[n + j]
                                  /\ TxLast(t, j) <=> TxLast(tList, n + j)
        /\ TxOrdered(tList) => TxOrdered(t)
        /\ TxBlocked(tList) /\ (n = 0 \/ TxLast(tList, n)) => TxBlocked(t)
    BY <1>1, <1>6, <2>1, TxSuffix
  <2> QED BY <1>2, <2>2
<1>10. TxOrdered(tList) /\ TxPkts(tList) \subseteq tSent /\ (tPolicy # "poll" => TxBlocked(tList))
  BY <1>1 DEF TxInv, TxLists
<1>11. /\ TxPkts(t) = IF TxLast(tList, n) THEN TxPkts(tList) \ {tList[1].pkt} ELSE TxPkts(tList)
       /\ \A p : Cardinality({i \in 1 .. n : tList[i].pkt = p /\ tList[i].cb \in TxCalls})
                   = IF TxLast(tList, n) /\ p = tList[1].pkt THEN 1 ELSE 0
  <2>1. n \in 1 .. Len(tList)
    BY <1>2, <1>4
  <2> QED BY <1>1, <1>6, <1>10, <2>1, TxTaken
<1>12. tList[1].pkt \in TxPkts(tList)
  BY <1>2, <1>4 DEF TxPkts
<1>13. ASSUME NEW p \in T!Pkts
       PROVE  /\ tCalled'[p] \in Nat
              /\ tCalled'[p] = IF p \in tSent' \ TxPkts(tList') THEN 1 ELSE 0
  <2>1. tCalled[p] = IF p \in tSent \ TxPkts(tList) THEN 1 ELSE 0
    BY <1>1 DEF TxInv, TxCalled
  <2>2. tCalled'[p] = tCalled[p] + IF TxLast(tList, n) /\ p = tList[1].pkt THEN 1 ELSE 0
    <3>1. tCalled'[p] = tCalled[p]
            + Cardinality({i \in 1 .. n : tList[i].pkt = p /\ tList[i].cb \in TxCalls})
      BY <1>7
    <3>2. Cardinality({i \in 1 .. n : tList[i].pkt = p /\ tList[i].cb \in TxCalls})
            = IF TxLast(tList, n) /\ p = tList[1].pkt THEN 1 ELSE 0
      BY <1>11
    <3> QED BY <3>1, <3>2
  <2>3. CASE TxLast(tList, n) /\ p = tList[1].pkt
    <3>1. tCalled[p] = 0 /\ p \in tSent /\ p \notin TxPkts(t)
      BY <1>10, <1>11, <1>12, <2>1, <2>3
    <3>2. tCalled'[p] = 1
      BY <2>2, <2>3, <3>1
    <3> QED BY <1>6, <3>1, <3>2
  <2>4. CASE ~(TxLast(tList, n) /\ p = tList[1].pkt)
    <3>1. p \in tSent \ TxPkts(tList) <=> p \in tSent' \ TxPkts(tList')
      BY <1>6, <1>11, <2>4
    <3>2. tCalled'[p] = tCalled[p]
      BY <2>1, <2>2, <2>4
    <3> QED BY <2>1, <3>1, <3>2
  <2> QED BY <2>3, <2>4
<1>14. TxCalled'
  BY <1>13 DEF TxCalled, T!Pkts
<1>15. TxType'
  <2>1. tCalled' \in [T!Pkts -> Nat]
    BY <1>13 DEF T!WriteDoneCommon
  <2> QED BY <1>6, <1>9, <2>1 DEF TxInv, TxType, T!Pkts
<1>16. TxDone' = l - h - n
  <2>1. TxDone' = l - n - h
    BY <1>1, <1>2, <1>6, <1>9 DEF TxDone
  <2> QED BY <1>4, <2>1
<1>17. TxAgrees(t, f)
  <2>1. h <= l - n /\ \A i \in 1 .. h : l - n - h + i \in 1 .. l - n /\ n + (l - n - h + i) = l - h + i
    BY <1>2, <1>4
  <2>2. ASSUME NEW i \in 1 .. h
        PROVE  f[i].pkt = t[l - n - h + i].pkt /\ (f[i].eot <=> TxLast(t, l - n - h + i))
    <3>1. PICK j \in 1 .. l - n : j = l - n - h + i /\ n + j = l - h + i
      BY <2>1
    <3>2. f[i].pkt = tList[l - h + i].pkt /\ (f[i].eot <=> TxLast(tList, l - h + i))
      BY <1>1, <1>2 DEF TxInv, TxLists, TxAgrees
    <3> QED BY <1>9, <3>1, <3>2
  <2> QED BY <1>2, <1>9, <2>1, <2>2 DEF TxAgrees
<1>18. TxLists'
  <2>1. TxPkts(tList') \subseteq tSent'
    BY <1>6, <1>10, <1>11
  <2>2. TxAgrees(tList', tFifo') /\ TxOrdered(tList')
    BY <1>1, <1>6, <1>9, <1>10, <1>17
  <2>3. tPolicy' # "poll" => TxBlocked(tList')
    BY <1>1, <1>6, <1>9, <1>10
  <2> QED BY <2>1, <2>2, <2>3 DEF TxLists
<1>19. TxAvail'
  <2>1. PICK a \in Nat, b \in Nat, c \in Nat :
          /\ a = Cardinality({i \in 1 .. n : tList[i].cb \in {"mul", "part"}})
          /\ b = Cardinality(TxCredits(t)) /\ c = Cardinality(TxCredits(tList)) /\ c = a + b
    <3>1. /\ Cardinality({i \in 1 .. n : tList[i].cb \in {"mul", "part"}}) \in Nat
          /\ Cardinality(TxCredits(t)) \in Nat
          /\ Cardinality(TxCredits(tList)) = Cardinality({i \in 1 .. n : tList[i].cb \in {"mul", "part"}})
                                         + Cardinality(TxCredits(t))
      <4>1. n \in 0 .. Len(tList)
        BY <1>2, <1>4
      <4> QED BY <1>1, <1>6, <4>1, TxCreditsTaken, ZenonT(40)
    <3>2. PICK a \in Nat : a = Cardinality({i \in 1 .. n : tList[i].cb \in {"mul", "part"}})
      BY <3>1
    <3>3. PICK b \in Nat : b = Cardinality(TxCredits(t)) /\ Cardinality(TxCredits(tList)) = a + b
      BY <3>1, <3>2
    <3>4. a + b \in Nat
      OBVIOUS
    <3> QED BY <3>2, <3>3, <3>4
  <2>2. PICK x \in {0, 1} : x = IF tMul.dec THEN 1 ELSE 0
    OBVIOUS
  <2>3. FifoSize \in Nat /\ tAvail = FifoSize - c + x
    BY <1>1, <2>1, <2>2, TxAssumption DEF TxInv, TxAvail
  <2>4. tMul.left \in Nat /\ tMul.left <= tAvail
    BY DEF TxInv, TxAvail
  <2>5. tAvail' = tAvail + a
    BY <1>8, <2>1
  <2>6. tAvail' = FifoSize - b + x /\ tMul.left <= tAvail'
    <3>1. PICK u \in Int, m \in Nat : u = tAvail /\ m = tMul.left /\ m <= u /\ u = FifoSize - c + x
      <4>1. tAvail \in Int
        BY <2>3
      <4> QED BY <2>3, <2>4, <4>1
    <3>2. c = a + b /\ FifoSize \in Nat
      BY <2>1, <2>3
    <3>3. u + a = FifoSize - b + x /\ m <= u + a
      BY <3>1, <3>2
    <3> QED BY <2>5, <3>1, <3>3
  <2> QED BY <1>6, <2>1, <2>2, <2>6 DEF TxInv, TxAvail
<1> QED BY <1>1, <1>2, <1>3, <1>6, <1>14, <1>15, <1>16, <1>18, <1>19

\* ipa_wq_write_done(), ipa_wq_write_done_status(): the oldest work item is that of the
\* packet at the head of the list, whose wrappers are all done.
LEMMA TxWriteDoneStep ==
  ASSUME TxInv, T!WriteDone
  PROVE  TxInv'
<1>1. PICK s \in Seq(TxWrapper), q \in Seq(Nat) : s = tList /\ q = tWorks
  BY DEF TxInv, TxType
<1>2. /\ tPolicy # "poll" /\ q # << >> /\ tWorks' = Tail(q)
      /\ UNCHANGED <<tPolicy, tFifo, tDone, tIrq, tPoller, tOffered, tSent, tMul>>
  BY <1>1 DEF T!WriteDone, TxInv, TxNoticed
<1>3. PICK l \in Nat, h \in Nat, d \in Nat : l = Len(s) /\ h = Len(tFifo) /\ d = TxDone /\ d = l - h /\ d <= l
  <2>1. Len(s) \in Nat /\ Len(tFifo) \in Nat
    BY DEF TxInv, TxType
  <2>2. Len(tFifo) <= Len(s)
    BY <1>1 DEF TxInv, TxLists, TxAgrees
  <2>3. PICK l \in Nat, h \in Nat : l = Len(s) /\ h = Len(tFifo) /\ h <= l
    BY <2>1, <2>2
  <2>4. TxDone = l - h
    BY <1>1, <2>3 DEF TxDone
  <2>5. l - h \in Nat /\ l - h <= l
    BY <2>3
  <2> QED BY <2>3, <2>4, <2>5
<1>4. TxOrdered(s) /\ TxBlocked(s) /\ TxQueued(q, TxEnded(s, d)) /\ ~tIrq /\ tPoller = "off"
  BY <1>1, <1>2, <1>3 DEF TxInv, TxLists, TxNoticed
<1>5. /\ Tail(q) \in Seq(Nat) /\ TxQueued(Tail(q), TxEnded(s, d) \ {q[1]})
      /\ q[1] \in TxEnded(s, d) /\ q[1] \in Nat /\ \A x \in TxEnded(s, d) : x \in Nat /\ q[1] <= x
  BY <1>2, <1>4, TxQueuedTail
<1>6. PICK i \in 1 .. d : TxLast(s, i) /\ s[i].pkt = q[1]
  BY <1>5 DEF TxEnded
<1>7. i \in 1 .. l /\ l > 0 /\ 1 \in 1 .. l /\ 1 <= i
  BY <1>3
<1>8. PICK n \in 1 .. l : /\ n = s[1].cnt /\ TxLast(s, n) /\ \A j \in 1 .. n : s[j].pkt = s[1].pkt
                          /\ \A j \in 1 .. l : TxLast(s, j) => n <= j
  BY <1>3, <1>4, <1>7, TxOldest
<1>9. n \in 1 .. d /\ d \in n .. l /\ n \in 1 .. n
  <2>1. n <= i
    BY <1>6, <1>7, <1>8
  <2> QED BY <1>3, <2>1
<1>10. q[1] = s[1].pkt
  <2>1. s[n].pkt \in TxEnded(s, d) /\ s[n].pkt = s[1].pkt
    BY <1>8, <1>9 DEF TxEnded
  <2>2. q[1] <= s[1].pkt /\ s[1].pkt \in Nat
    BY <1>5, <2>1
  <2>3. s[1].pkt <= s[i].pkt
    BY <1>3, <1>4, <1>7 DEF TxOrdered
  <2> QED BY <1>5, <1>6, <2>2, <2>3, SMTT(30)
<1>11. T!CntOf(q[1]) = n
  <2>1. PICK A : A = {j \in 1 .. Len(tList) : tList[j].pkt = q[1] /\ tList[j].cnt > 0}
    OBVIOUS
  <2>2. 1 \in A /\ \A j \in A : j \in 1 .. l
    BY <1>1, <1>3, <1>7, <1>8, <1>10, <2>1
  <2>3. T!Min(A) = 1
    <3>1. \A j \in A : 1 <= j
      BY <2>2
    <3>2. \A x \in A : (\A y \in A : x <= y) => x = 1
      <4> SUFFICES ASSUME NEW x \in A, \A y \in A : x <= y PROVE x = 1
        OBVIOUS
      <4>1. x <= 1 /\ x \in 1 .. l
        BY <2>2
      <4> QED BY <4>1
    <3> QED BY <2>2, <3>1, <3>2 DEF T!Min
  <2>4. T!CntOf(q[1]) = LET k == IF A # {} THEN T!Min(A) ELSE 0
                        IN IF k = 0 THEN 0 ELSE tList[k].cnt
    BY <2>1 DEF T!CntOf, T!SelectInSeq
  <2> QED BY <1>1, <1>8, <2>2, <2>3, <2>4, SMTT(30)
<1>12. T!WriteDoneCommon(n)
  <2>1. s # << >>
    BY <1>3, <1>7
  <2> QED BY <1>1, <1>8, <1>11, <2>1 DEF T!WriteDone
<1>13. /\ TxType' /\ TxLists' /\ TxCalled' /\ TxAvail'
       /\ TxDone' = d - n /\ tList' = SubSeq(s, n + 1, Len(s))
  BY <1>1, <1>2, <1>3, <1>5, <1>8, <1>9, <1>12, TxPopStep
<1>14. TxEnded(tList', d - n) = TxEnded(s, d) \ {s[1].pkt}
  <2>1. n \in 1 .. Len(s) /\ d \in n .. Len(s)
    BY <1>3, <1>9
  <2> QED BY <1>4, <1>8, <1>13, <2>1, TxEndedTaken
<1>15. TxNoticed'
  BY <1>2, <1>4, <1>5, <1>10, <1>13, <1>14 DEF TxNoticed
<1> QED BY <1>13, <1>15 DEF TxInv

\* ipa_handle_tx_core(): the oldest completed descriptor of a polled pipe.
LEMMA TxPolledStep ==
  ASSUME TxInv, T!HandleTxCore
  PROVE  TxInv'
<1>1. /\ tPoller # "off" /\ tDone > 0 /\ tDone' = tDone - 1 /\ T!WriteDoneCommon(1)
      /\ UNCHANGED <<tPolicy, tFifo, tIrq, tWorks, tPoller, tOffered, tSent, tMul>>
  BY DEF T!HandleTxCore
<1>2. tPolicy = "poll" /\ tWorks = << >> /\ tDone = TxDone
  BY <1>1 DEF TxInv, TxNoticed
<1>3. TxDone \in Int
  <2>1. Len(tList) \in Nat /\ Len(tFifo) \in Nat
    BY DEF TxInv, TxType
  <2> QED BY <2>1 DEF TxDone
<1>4. PICK n \in 1 .. TxDone : n = 1
  BY <1>1, <1>2, <1>3
<1>5. tWorks' \in Seq(Nat) /\ \A i \in 1 .. n : tList[i].pkt = tList[1].pkt
  BY <1>1, <1>4 DEF TxInv, TxType
<1>6. TxType' /\ TxLists' /\ TxCalled' /\ TxAvail' /\ TxDone' = TxDone - 1
  BY <1>1, <1>2, <1>4, <1>5, TxPopStep
<1>7. TxNoticed'
  BY <1>1, <1>2, <1>6 DEF TxNoticed
<1> QED BY <1>6, <1>7 DEF TxInv

\* The hardware completes a descriptor.
LEMMA TxHwStep ==
  ASSUME TxInv, T!HwComplete
  PROVE  TxInv'
<1>1. PICK s \in Seq(TxWrapper), f \in Seq(TxDesc), q \in Seq(Nat) : s = tList /\ f = tFifo /\ q = tWorks
  BY DEF TxInv, TxType
<1>2. /\ f # << >> /\ tFifo' = Tail(f)
      /\ tDone' = IF tPolicy = "intr" THEN tDone ELSE tDone + 1
      /\ tWorks' = IF tPolicy # "poll" /\ f[1].eot THEN Append(q, f[1].pkt) ELSE q
      /\ tPolicy # "poll" /\ ~tIrq => ~tIrq'
      /\ UNCHANGED <<tPolicy, tList, tPoller, tOffered, tSent, tCalled, tMul, tAvail>>
  BY <1>1 DEF T!HwComplete
<1>3. PICK l \in Nat, h \in Nat, d \in Nat :
        l = Len(s) /\ h = Len(f) /\ d = TxDone /\ d = l - h /\ h > 0 /\ h <= l /\ d + 1 \in 1 .. l
  <2>1. Len(s) \in Nat /\ Len(f) \in Nat /\ Len(f) > 0
    BY <1>2
  <2>2. Len(f) <= Len(s)
    BY <1>1 DEF TxInv, TxLists, TxAgrees
  <2>3. PICK l \in Nat, h \in Nat : l = Len(s) /\ h = Len(f) /\ h > 0 /\ h <= l
    BY <2>1, <2>2
  <2>4. TxDone = l - h
    BY <1>1, <2>3 DEF TxDone
  <2>5. l - h \in Nat /\ l - h + 1 \in 1 .. l
    BY <2>3
  <2> QED BY <2>3, <2>4, <2>5
<1>4. PICK g \in Seq(TxDesc) : g = Tail(f) /\ Len(g) = h - 1 /\ \A i \in 1 .. h - 1 : g[i] = f[i + 1]
  <2>1. Tail(f) \in Seq(TxDesc) /\ Len(Tail(f)) = Len(f) - 1
        /\ \A i \in 1 .. Len(f) - 1 : Tail(f)[i] = f[i + 1]
    BY <1>2, HeadTailProperties
  <2> QED BY <1>3, <2>1
<1>5. \A i \in 1 .. h : f[i].pkt = s[d + i].pkt /\ (f[i].eot <=> TxLast(s, d + i))
  BY <1>1, <1>3 DEF TxInv, TxLists, TxAgrees
<1>6. f[1].pkt = s[d + 1].pkt /\ (f[1].eot <=> TxLast(s, d + 1)) /\ f[1].pkt \in Nat
  <2>1. 1 \in 1 .. h
    BY <1>3
  <2>2. s[d + 1].pkt \in Nat
    BY <1>3, TxFields
  <2> QED BY <1>5, <2>1, <2>2
<1>7. TxAgrees(s, g)
  <2>1. h - 1 <= l /\ \A i \in 1 .. h - 1 : i + 1 \in 1 .. h /\ d + (i + 1) = l - (h - 1) + i
    BY <1>3
  <2>2. ASSUME NEW i \in 1 .. h - 1
        PROVE  g[i].pkt = s[l - (h - 1) + i].pkt /\ (g[i].eot <=> TxLast(s, l - (h - 1) + i))
    <3>1. PICK j \in 1 .. h : j = i + 1 /\ d + j = l - (h - 1) + i
      BY <2>1
    <3>2. f[j].pkt = s[d + j].pkt /\ (f[j].eot <=> TxLast(s, d + j))
      BY <1>5
    <3> QED BY <1>4, <3>1, <3>2
  <2> QED BY <1>3, <1>4, <2>1, <2>2 DEF TxAgrees
<1>8. TxOrdered(s)
  BY <1>1 DEF TxInv, TxLists
<1>9. /\ TxEnded(s, d + 1) = TxEnded(s, d) \cup (IF TxLast(s, d + 1) THEN {s[d + 1].pkt} ELSE {})
      /\ \A p \in TxEnded(s, d) : p \in Nat /\ p < s[d + 1].pkt
  BY <1>3, <1>8, TxEndedMore
<1>10. TxDone' = d + 1
  <2>1. TxDone' = l - (h - 1)
    BY <1>1, <1>2, <1>3, <1>4 DEF TxDone
  <2> QED BY <1>3, <2>1
<1>11. ASSUME tPolicy # "poll" PROVE TxQueued(tWorks', TxEnded(s, d + 1)) /\ tWorks' \in Seq(Nat)
  <2>1. TxQueued(q, TxEnded(s, d))
    BY <1>1, <1>3, <1>11 DEF TxInv, TxNoticed
  <2>2. CASE f[1].eot
    <3>1. Append(q, f[1].pkt) \in Seq(Nat) /\ TxQueued(Append(q, f[1].pkt), TxEnded(s, d) \cup {f[1].pkt})
      BY <1>6, <1>9, <2>1, TxQueuedAppend
    <3> QED BY <1>2, <1>6, <1>9, <1>11, <2>2, <3>1
  <2>3. CASE ~f[1].eot
    <3>1. TxEnded(s, d + 1) = TxEnded(s, d)
      BY <1>6, <1>9, <2>3
    <3> QED BY <1>2, <2>1, <2>3, <3>1
  <2> QED BY <2>2, <2>3
<1>12. TxNoticed'
  <2>1. CASE tPolicy # "poll"
    BY <1>1, <1>2, <1>10, <1>11, <2>1 DEF TxInv, TxNoticed
  <2>2. CASE tPolicy = "poll"
    <3>1. tWorks' = << >> /\ tDone' = TxDone + 1
      BY <1>1, <1>2, <2>2 DEF TxInv, TxNoticed
    <3> QED BY <1>2, <1>3, <1>10, <2>2, <3>1 DEF TxNoticed
  <2> QED BY <2>1, <2>2
<1>13. TxType'
  <2>1. tWorks' \in Seq(Nat)
    BY <1>2, <1>11
  <2> QED BY <1>2, <1>4, <2>1 DEF TxInv, TxType
<1>14. TxLists'
  BY <1>1, <1>2, <1>4, <1>7 DEF TxInv, TxLists
<1>15. TxCalled' /\ TxAvail'
  BY <1>2 DEF TxInv, TxCalled, TxAvail
<1> QED BY <1>12, <1>13, <1>14, <1>15 DEF TxInv

\* Before anything is sent.
LEMMA TxStart == MCInit => TxInv
<1> SUFFICES ASSUME MCInit PROVE TxInv
  OBVIOUS
<1>1. /\ tPolicy \in T!Policies /\ tList = << >> /\ tFifo = << >> /\ tDone = 0 /\ tIrq = FALSE
      /\ tWorks = << >> /\ tPoller = "off" /\ tOffered = 0 /\ tSent = {}
      /\ tCalled = [p \in T!Pkts |-> 0] /\ tMul = T!NoMul /\ tAvail = FifoSize
  BY DEF MCInit, T!Init
<1>2. TxType
  BY <1>1 DEF TxType
<1>3. Len(<< >>) = 0 /\ \A i \in 1 .. 0 : FALSE
  OBVIOUS
<1>4. TxPkts(<< >>) = {} /\ TxCredits(<< >>) = {} /\ TxEnded(<< >>, 0) = {}
  BY <1>3 DEF TxPkts, TxCredits, TxEnded
<1>5. TxLists
  BY <1>1, <1>3, <1>4 DEF TxLists, TxOrdered, TxAgrees, TxBlocked
<1>6. TxDone = 0
  BY <1>1, <1>3 DEF TxDone
<1>7. TxQueued(<< >>, {})
  BY <1>3 DEF TxQueued
<1>8. TxNoticed
  BY <1>1, <1>4, <1>6, <1>7 DEF TxNoticed
<1>9. TxCalled
  BY <1>1 DEF TxCalled
<1>10. TxAvail
  <2>1. Cardinality(TxCredits(tList)) = 0
    BY <1>1, <1>4, FS_EmptySet
  <2>2. FifoSize \in Nat
    BY TxAssumption
  <2> QED BY <1>1, <2>1, <2>2 DEF TxAvail, T!NoMul
<1> QED BY <1>2, <1>5, <1>8, <1>9, <1>10 DEF TxInv

\* Steps that leave the wrappers and the descriptors alone: those of the other parts,
\* and those that only change how completions are noticed.
LEMMA TxQuietStep ==
  ASSUME TxInv,
         UNCHANGED <<tPolicy, tList, tFifo, tDone, tWorks, tOffered, tSent, tCalled, tMul, tAvail>>,
         tPolicy # "poll" => UNCHANGED <<tIrq, tPoller>>
  PROVE  TxInv'
<1>1. TxDone' = TxDone
  BY DEF TxDone
<1>2. TxType' /\ TxLists' /\ TxCalled' /\ TxAvail'
  BY DEF TxInv, TxType, TxLists, TxCalled, TxAvail
<1>3. TxNoticed'
  BY <1>1 DEF TxInv, TxNoticed
<1> QED BY <1>2, <1>3 DEF TxInv

\* Every step of a sending pipe keeps the invariant.
LEMMA TxStep == TxInv /\ T!Next => TxInv'
<1> SUFFICES ASSUME TxInv, T!Next PROVE TxInv'
  OBVIOUS
<1>1. CASE \/ \E sw \in BOOLEAN, f \in 0 .. MaxFrags : T!TxDp(sw, f)
           \/ \E n \in 1 .. 2 : T!SendCmd(n)
  BY <1>1, TxPacketStep
<1>2. CASE (\E n \in 1 .. 2 : T!TxDpMul(n)) \/ T!MulSend \/ T!MulDec
  BY <1>2, TxMulStep
<1>3. CASE T!HwComplete \/ T!WriteDone \/ T!HandleTxCore
  BY <1>3, TxHwStep, TxWriteDoneStep, TxPolledStep
<1>4. CASE T!TxNotify \/ T!SwitchToIntr \/ T!DrainEnds
  <2>1. tPolicy = "poll"
    BY <1>4 DEF TxInv, TxNoticed, T!TxNotify, T!SwitchToIntr, T!DrainEnds
  <2>2. UNCHANGED <<tPolicy, tList, tFifo, tDone, tWorks, tOffered, tSent, tCalled, tMul, tAvail>>
    BY <1>4 DEF T!TxNotify, T!SwitchToIntr, T!DrainEnds
  <2> QED BY <2>1, <2>2, TxQuietStep
<1> QED BY <1>1, <1>2, <1>3, <1>4 DEF T!Next, T!Completion

\* The wrapper list of a sending pipe is in step with the hardware, a packet's owner is
\* called back once and only when the hardware has finished with every fragment, and the
\* count of free descriptors adds up, for any number of packets and fragments, whichever
\* way the pipe notices a completion (ipa_send, ipa_wq_write_done_common, ipa_handle_tx).
THEOREM TxPathIsSound == MCSpec => []TxSound
<1>1. TxInv /\ [MCNext]_allVars => TxInv'
  <2> SUFFICES ASSUME TxInv, [MCNext]_allVars PROVE TxInv'
    OBVIOUS
  <2>1. T!Next \/ UNCHANGED tVars
    BY DEF MCNext, allVars, Fifo, Tx, Rx, Parse, Microcontroller
  <2>2. CASE UNCHANGED tVars
    BY <2>2, TxQuietStep DEF tVars
  <2> QED BY <2>1, <2>2, TxStep
<1>2. TxInv => TxSound
  <2> SUFFICES ASSUME TxInv PROVE TxSound
    OBVIOUS
  <2>1. PICK s \in Seq(TxWrapper), f \in Seq(TxDesc) : s = tList /\ f = tFifo
    BY DEF TxInv, TxType
  <2>2. PICK l \in Nat, h \in Nat : l = Len(s) /\ h = Len(f) /\ h <= l
    <3>1. Len(s) \in Nat /\ Len(f) \in Nat
      OBVIOUS
    <3>2. Len(f) <= Len(s)
      BY <2>1 DEF TxInv, TxLists, TxAgrees
    <3> QED BY <3>1, <3>2
  <2>3. \A i \in 1 .. h : f[i].pkt = s[l - h + i].pkt
    BY <2>1, <2>2 DEF TxInv, TxLists, TxAgrees
  <2>4. T!ListInStep
    BY <2>1, <2>2, <2>3 DEF T!ListInStep
  <2>5. ASSUME NEW i \in 1 .. h PROVE f[i].pkt \in TxPkts(s)
    <3>1. l - h + i \in 1 .. l
      BY <2>2
    <3> QED BY <2>2, <2>3, <3>1 DEF TxPkts
  <2>6. ASSUME NEW p \in T!Pkts
        PROVE  /\ tCalled[p] <= 1
               /\ tCalled[p] = 1 => p \in tSent /\ \A i \in 1 .. Len(f) : f[i].pkt # p
    <3>1. tCalled[p] = IF p \in tSent \ TxPkts(s) THEN 1 ELSE 0
      BY <2>1 DEF TxInv, TxCalled
    <3>2. tCalled[p] <= 1 /\ (tCalled[p] = 1 => p \in tSent /\ p \notin TxPkts(s))
      BY <3>1
    <3> QED BY <2>2, <2>5, <3>2
  <2>7. T!CalledBackOnce
    BY <2>1, <2>6 DEF T!CalledBackOnce
  <2>8. T!AvailAddsUp
    <3>1. TxCredits(tList) = {i \in 1 .. Len(tList) : tList[i].cb \in {"mul", "part"}}
      BY DEF TxCredits
    <3>2. tAvail = FifoSize - Cardinality(TxCredits(tList)) + (IF tMul.dec THEN 1 ELSE 0)
      BY DEF TxInv, TxAvail
    <3> QED BY <3>1, <3>2, TxCardinality DEF T!AvailAddsUp
  <2> QED BY <2>4, <2>7, <2>8 DEF TxSound
<1> QED BY <1>1, <1>2, TxStart, PTL DEF MCSpec
=============================================================================
