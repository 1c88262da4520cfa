----------------------------- MODULE MCDatapath -----------------------------
(* What the driver exchanges with the hardware, on small instances: the      *)
(* descriptor FIFO of a BAM pipe, the IPA driver's sending, receive buffers  *)
(* and packet parsing, and its commands to the microcontroller.  A behaviour *)
(* runs one of them.                                                         *)
EXTENDS Integers, Sequences, FiniteSets

CONSTANTS NumDescs, MaxXfers,               \* SpsFifo
          MaxPkts, MaxFrags, FifoSize,      \* TxPath
          PoolSize, Threshold, TrigThresh,  \* RxBuffers
          MaxFrames, MaxCut,                \* RxParse
          Callers, MaxRetry, MaxSends, NONE \* IpaUc

\* What stands for "nobody" and "no answer" is neither a caller nor an answer.
ASSUME NoneAssumption == NONE \notin Callers /\ NONE \notin {"0", "error", "retry"}
\* A pipe has a descriptor FIFO (sps_bam_pipe_connect() refuses an empty one).
ASSUME FifoAssumption == NumDescs \in Nat \ {0} /\ MaxXfers \in Nat
\* A receive pipe asks for some buffers (sys->rx_pool_sz), and is to be replenished at
\* the latest when it has none (ep->rx_replenish_threshold).
ASSUME PoolAssumption == PoolSize \in Nat \ {0} /\ Threshold \in Nat
\* Packets are counted, a packet has some number of fragments, and a pipe some number
\* of free descriptors (ep->avail_fifo_desc).
ASSUME TxAssumption == MaxPkts \in Nat /\ MaxFrags \in Nat /\ FifoSize \in Nat

VARIABLES
  focus,
  fPolled, fIrq, fDesc, fAcked, fCache, fRd, fBuf, fBusy, fH, fCount, fGot,
  tPolicy, tList, tFifo, tDone, tIrq, tWorks, tPolling, tPoller, tOffered, tSent,
  tCalled, tMul, tAvail,
  rMode, rPhase, rList, rPosted, rFilled, rAdding, rCached, rHandling, rDelayed, rHead,
  rTail, rCache, rTrig, rProd, rHeld, rCurr, rOwned, rRace,
  wan, frames, pos, skb, stage, prev, lenRem, lenPartial, drop, out, comps, lost,
  uInited, uLoaded, uOwner, uPc, uOp, uRetries, uPending, uCompletion, uStatus,
  uDoorbell, uRsp, uIrq, uHdlr, uTaken, uFresh, uOvertaken, uHolb, uAnswer, uHeard,
  uLast, uSends, uPanic

fVars == <<fPolled, fIrq, fDesc, fAcked, fCache, fRd, fBuf, fBusy, fH, fCount, fGot>>
tVars == <<tPolicy, tList, tFifo, tDone, tIrq, tWorks, tPolling, tPoller, tOffered,
           tSent, tCalled, tMul, tAvail>>
rVars == <<rMode, rPhase, rList, rPosted, rFilled, rAdding, rCached, rHandling, rDelayed,
           rHead, rTail, rCache, rTrig, rProd, rHeld, rCurr, rOwned, rRace>>
pVars == <<wan, frames, pos, skb, stage, prev, lenRem, lenPartial, drop, out, comps, lost>>
uVars == <<uInited, uLoaded, uOwner, uPc, uOp, uRetries, uPending, uCompletion,
           uStatus, uDoorbell, uRsp, uIrq, uHdlr, uTaken, uFresh, uOvertaken, uHolb,
           uAnswer, uHeard, uLast, uSends, uPanic>>
allVars == <<focus, fVars, tVars, rVars, pVars, uVars>>

Frame(k, s) == [kind |-> k, size |-> s]
FrameSet == {Frame("data", 5), Frame("noroute", 4), Frame("comp", 2),
             Frame("close", 2), Frame("unknown", 2), Frame("tag", 4)}
Streams == UNION {[1 .. n -> FrameSet] : n \in 2 .. MaxFrames}

F == INSTANCE SpsFifo WITH
       polled <- fPolled, irq <- fIrq, desc <- fDesc, acked <- fAcked, cache <- fCache,
       rd <- fRd, buf <- fBuf, busy <- fBusy, h <- fH, count <- fCount, got <- fGot
T == INSTANCE TxPath WITH
       policy <- tPolicy, list <- tList, fifo <- tFifo, done <- tDone, irq <- tIrq,
       works <- tWorks, polling <- tPolling, poller <- tPoller, offered <- tOffered,
       sent <- tSent, called <- tCalled, mul <- tMul, avail <- tAvail
R == INSTANCE RxBuffers WITH
       mode <- rMode, phase <- rPhase, list <- rList, posted <- rPosted, filled <- rFilled,
       adding <- rAdding, cached <- rCached, race <- rRace,
       handling <- rHandling, delayed <- rDelayed, head <- rHead, tail <- rTail,
       cache <- rCache, trig <- rTrig, prod <- rProd, held <- rHeld, curr <- rCurr,
       owned <- rOwned
P == INSTANCE RxParse WITH CopyMayFail <- {TRUE}
U == INSTANCE IpaUc WITH
       inited <- uInited, loaded <- uLoaded, owner <- uOwner, pc <- uPc, op <- uOp,
       retries <- uRetries, pending <- uPending, completion <- uCompletion,
       status <- uStatus, doorbell <- uDoorbell, rsp <- uRsp, irq <- uIrq,
       hdlr <- uHdlr, taken <- uTaken, fresh <- uFresh, overtaken <- uOvertaken,
       holb <- uHolb, answer <- uAnswer, heard <- uHeard, last <- uLast,
       sends <- uSends, panic <- uPanic

MCInit ==
  /\ focus \in {"fifo", "tx", "rx", "parse", "uc"}
  /\ F!Init /\ T!Init /\ R!Init /\ P!Init /\ U!Init
  /\ focus # "fifo" => ~fPolled
  /\ focus # "tx" => tPolicy = "intr"
  /\ focus # "parse" => ~wan /\ frames = <<Frame("data", 5), Frame("data", 5)>>

Fifo  == focus = "fifo" /\ F!Next /\ UNCHANGED <<focus, tVars, rVars, pVars, uVars>>
Tx    == focus = "tx" /\ T!Next /\ UNCHANGED <<focus, fVars, rVars, pVars, uVars>>
Rx    == focus = "rx" /\ R!Next /\ UNCHANGED <<focus, fVars, tVars, pVars, uVars>>
Parse == focus = "parse" /\ P!Next /\ UNCHANGED <<focus, fVars, tVars, rVars, uVars>>
Microcontroller ==
  focus = "uc" /\ U!Next /\ UNCHANGED <<focus, fVars, tVars, rVars, pVars>>
MCNext == Fifo \/ Tx \/ Rx \/ Parse \/ Microcontroller

\* The fairness of a part that does not run constrains nothing: none of its
\* fair actions is enabled in its initial state.
MCSpec == MCInit /\ [][MCNext]_allVars /\ F!Fairness /\ T!Fairness

\* The descriptor FIFO implements a bounded queue of transfers.
FifoImplementsDescQueue == F!ImplementsDescQueue
\* The list of packets sent is in step with the descriptors in the FIFO, a packet is
\* called back once and not while the hardware reads it, and the free descriptors and
\* those of multi-part packets in flight add up (ipa_send, ipa_wq_write_done).
TxSound == T!ListInStep /\ T!CalledBackOnce /\ T!AvailAddsUp
\* The list of receive buffers is in step with those posted to the pipe, no buffer is
\* in two places, a pipe that is torn down has given every buffer back, and one without
\* buffers has a replenisher on its way
\* (ipa_replenish_rx_cache, ipa_fast_replenish_rx_cache, ipa_cleanup_rx), unless a handler
\* replenished while the setup was between its list and the pipe, or queued the
\* replenishing again after the tear-down had cancelled it.
RxSound == R!BuffersSound
\* However buffers cut the stream, the parser is at a packet boundary, delivers each
\* data packet once and in order, and reports a completion once (ipa_lan_rx_pyld_hdlr).
ParseSound == P!InSync /\ P!DeliveredOnce /\ P!CompletedOnce
\* A command to the microcontroller returns 0 when it was answered 0, but for a polled
\* one whose answer nobody took, and the interrupt of one command never ends the wait
\* for another, unless that one was sent while the interrupt's work was between its
\* comparison and its writes (ipa_uc.c).
UcAnswersMatch == U!ReturnMatchesAnswer /\ U!LateWorkHarmless
\* Every descriptor given to the BAM is handed back, and every packet accepted for
\* sending is called back.
TransfersEnd == F!AllHandedBack /\ T!AllCalledBack
=============================================================================
