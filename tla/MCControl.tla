----------------------------- MODULE MCControl -----------------------------
(* The control side of the IPA driver on small instances: pipe connections,  *)
(* the modem's restarts and requests, QMI, initialisation, peripheral        *)
(* clients, the rule and header tables, their memory (TableMem) and their    *)
(* encoding (RuleEq), user-space messages, the copy service, the NAT table   *)
(* and the translation of bus votes.                                         *)
(* The parts share no state that their properties speak of: a behaviour runs *)
(* one of them, named by focus, and leaves the others in their initial state.*)
EXTENDS Integers, Sequences, FiniteSets, TableMem, RuleEq

CONSTANTS MEM,
  QmiMessages,                                        \* QmiLink
  SpsClients, Bams, NumPipes, PipeMem, ConnectMayFail,   \* SpsPipe
  MaxBoots,                                           \* ModemSsr
  MuxIds, MaxMux, MaxRules, MaxLives,                 \* WwanRules
  MaxProbes,                                          \* IpaBoot
  Peripherals, MaxVotes,                              \* IpaClients
  MaxId, HdrMem, CtxMem, MaxIdx, RuleMax, Names, MaxAdds,   \* IpaTables
  Senders, Resenders, Readers, WlanMacs, MaxMsgs,     \* IpaMsg
  Workers, MaxPending, MaxInits,                      \* IpaDma
  Users, MemSizes, NatLayouts, Offsets, MaxAllocs,    \* NatTable
  BusClients, MaxHandles, MaxPaths                    \* BusCompat

\* Sizes, offsets and tables are those an ioctl's unsigned arguments can name.
ASSUME NatAssumption ==
  /\ MaxAllocs \in Nat /\ MemSizes \subseteq Nat /\ Offsets \subseteq Nat
  /\ NatLayouts \subseteq [ro : Nat, base : Nat, xo : Nat, expn : Nat, ip : BOOLEAN]

\* Clients are finitely many, a BAM is not the memory, NULL and "unassigned" are neither
\* a client nor a pipe, and there are two BAMs to connect.
ASSUME SpsAssumption ==
  /\ IsFiniteSet(SpsClients) /\ NONE \notin SpsClients /\ "UNASSIGNED" \notin SpsClients
  /\ NONE # "UNASSIGNED" /\ NONE \notin Bams \X Nat /\ MEM \notin Bams
  /\ (\E a, b \in Bams : a # b) /\ NumPipes \in Nat /\ PipeMem \in Nat

\* MAX_NUM_Q6_RULE is a number.
ASSUME WwanAssumption == MaxRules \in Nat

\* "async" in IpaDma's late stands for copies that no worker waits for any more.
ASSUME DmaAssumption ==
  IsFiniteSet(Workers) /\ "async" \notin Workers /\ MaxPending \in Nat \ {0}

\* Threads are of one kind, and NONE is neither a thread nor a WLAN client.
ASSUME MsgAssumption ==
  /\ IsFiniteSet(Readers)
  /\ Senders \cap Resenders = {} /\ Senders \cap Readers = {} /\ Resenders \cap Readers = {}
  /\ NONE \notin Senders \cup Resenders \cup WlanMacs

VARIABLES focus,
  sBams, sBamOn, sEp, sPhase, sReq, sMapOf, sConn, sPipes, sMem,
  mModem, mBoots, mDriver, mInitd, mSsr, mHeld, mIoctls, mHandler, mSvc, mCtx, mClnt,
  mWqs, mWqStopped, mServer, mQueued, mArrive, mInd, mInitFin, mIndFin, mFirstHs,
  mIndSent, mUnsent, mTold, mVote, mVotes, mFailed, mUcLoaded, mEarly,
  wLives, wUp, wMux, wSpare, wNum, wRules, wOldNum, wHdls, wEgress, wBusy, wFlt, wHw,
  wHdrs, wRegs, wStray,
  qCall, qLeg, qAt, qFilled, qWire, qBytes, qGot, qOverran, qAnswer, qRc,
  bSmmu, bDev, bCur, bTable, bRegHdl, bHdls, bCtrl, bAt, bUndo, bHeld, bResult, bTorn,
  bFault, bProbes,
  cHw, cBypass, cEp, cSps, cFifos, cMapped, cVotes, cLost, cTwice, cRet,
  tHwType, tObj, tHeap, tList, tDflt, tSticky, tReset, tLostIdx, tFault, tAdds,
  gLog, gList, gCache, gLock, gWlock, gPc, gJob, gWoken, gGot, gDropped, gMissed,
  dInits, dUp, dEnabled, dVotes, dForgotten, dPend, dPc, dKind, dOwn, dQueue, dFifo,
  dWoken, dAsync, dCb, dDestroy, dFlag, dDone, dLostRace, dLate,
  nNat, nLock, nMem, nTmp, nHw, nPc, nJob, nStale, nTainted, nStrayed, nAllocs,
  yDev, yHandles, yHdl, yAsked, yRefused, yOrphans, yStuck

sVars == <<sBams, sBamOn, sEp, sPhase, sReq, sMapOf, sConn, sPipes, sMem>>
mVars == <<mModem, mBoots, mDriver, mInitd, mSsr, mHeld, mIoctls, mHandler, mSvc,
           mCtx, mClnt, mWqs, mWqStopped, mServer, mQueued, mArrive, mInd, mInitFin,
           mIndFin, mFirstHs, mIndSent, mUnsent, mTold, mVote, mVotes, mFailed, mUcLoaded,
           mEarly>>
wVars == <<wLives, wUp, wMux, wSpare, wNum, wRules, wOldNum, wHdls, wEgress, wBusy,
           wFlt, wHw, wHdrs, wRegs, wStray>>
qVars == <<qCall, qLeg, qAt, qFilled, qWire, qBytes, qGot, qOverran, qAnswer, qRc>>
bVars == <<bSmmu, bDev, bCur, bTable, bRegHdl, bHdls, bCtrl, bAt, bUndo, bHeld,
           bResult, bTorn, bFault, bProbes>>
cVars == <<cHw, cBypass, cEp, cSps, cFifos, cMapped, cVotes, cLost, cTwice, cRet>>
tVars == <<tHwType, tObj, tHeap, tList, tDflt, tSticky, tReset, tLostIdx, tFault,
           tAdds>>
gVars == <<gLog, gList, gCache, gLock, gWlock, gPc, gJob, gWoken, gGot, gDropped,
           gMissed>>
dVars == <<dInits, dUp, dEnabled, dVotes, dForgotten, dPend, dPc, dKind, dOwn, dQueue,
           dFifo, dWoken, dAsync, dCb, dDestroy, dFlag, dDone, dLostRace, dLate>>
nVars == <<nNat, nLock, nMem, nTmp, nHw, nPc, nJob, nStale, nTainted, nStrayed, nAllocs>>
yVars == <<yDev, yHandles, yHdl, yAsked, yRefused, yOrphans, yStuck>>
allVars == <<focus, sVars, mVars, wVars, qVars, bVars, cVars, tVars, vars, ruleVars,
             gVars, dVars, nVars, yVars>>

\* From memory to a pipe, and from pipe to pipe with a client at either end.
Connect(m, s, d) == [mode |-> m, src |-> s, dst |-> d, srcIdx |-> 0, dstIdx |-> 0]
SomeRequests ==
  LET b1 == CHOOSE b \in Bams : TRUE
      b2 == CHOOSE b \in Bams : b # b1
  IN {Connect("DEST", MEM, b2), Connect("SRC", b1, b2), Connect("DEST", b1, b2)}
\* NAT tables with and without an expansion part and a public address; with
\* base 3 the two parts overlap what was allocated.
SomeLayouts == {[ro |-> 0, base |-> b, xo |-> 2, expn |-> e, ip |-> i] :
                  b \in {1, 3}, e \in {0, 2}, i \in BOOLEAN}

\* The messages of the QMI exchanges, for QmiMessages.
QmiTable == INSTANCE QmiCalls
QmiExchanges == QmiTable!Exchanges

S == INSTANCE SpsPipe WITH
       Clients <- SpsClients, Requests <- SomeRequests, bams <- sBams,
       bamOn <- sBamOn, ep <- sEp, phase <- sPhase, req <- sReq, mapOf <- sMapOf,
       conn <- sConn, pipes <- sPipes, mem <- sMem
M == INSTANCE ModemSsr WITH
       modem <- mModem, boots <- mBoots, driver <- mDriver, initd <- mInitd,
       ssr <- mSsr, held <- mHeld, ioctls <- mIoctls, handler <- mHandler,
       svc <- mSvc, ctx <- mCtx, clnt <- mClnt, wqs <- mWqs, wqStopped <- mWqStopped,
       server <- mServer, queued <- mQueued, arrive <- mArrive, ind <- mInd,
       initFin <- mInitFin, indFin <- mIndFin, firstHs <- mFirstHs,
       indSent <- mIndSent, unsent <- mUnsent, told <- mTold, vote <- mVote, votes <- mVotes,
       failed <- mFailed, ucLoaded <- mUcLoaded, early <- mEarly
W == INSTANCE WwanRules WITH
       lives <- wLives, up <- wUp, mux <- wMux, spare <- wSpare, num <- wNum,
       rules <- wRules, oldNum <- wOldNum, hdls <- wHdls, egress <- wEgress,
       busy <- wBusy, flt <- wFlt, hw <- wHw, hdrs <- wHdrs, regs <- wRegs,
       stray <- wStray
Q == INSTANCE QmiLink WITH
       Exchanges <- QmiMessages, call <- qCall, leg <- qLeg, at <- qAt, filled <- qFilled,
       wire <- qWire, bytes <- qBytes, got <- qGot, overran <- qOverran, answer <- qAnswer, rc <- qRc
B == INSTANCE IpaBoot WITH
       smmu <- bSmmu, dev <- bDev, cur <- bCur, table <- bTable, regHdl <- bRegHdl,
       hdls <- bHdls, ctrl <- bCtrl, at <- bAt, undo <- bUndo, held <- bHeld,
       result <- bResult, torn <- bTorn, fault <- bFault, probes <- bProbes
C == INSTANCE IpaClients WITH
       hw <- cHw, bypass <- cBypass, ep <- cEp, sps <- cSps, fifos <- cFifos,
       mapped <- cMapped, votes <- cVotes, lost <- cLost, twice <- cTwice, ret <- cRet
T == INSTANCE IpaTables WITH
       hwType <- tHwType, obj <- tObj, heap <- tHeap, list <- tList, dflt <- tDflt,
       sticky <- tSticky, reset <- tReset, lostIdx <- tLostIdx, fault <- tFault, adds <- tAdds
G == INSTANCE IpaMsg WITH
       Macs <- WlanMacs, log <- gLog, list <- gList, cache <- gCache, lock <- gLock,
       wlock <- gWlock, pc <- gPc, job <- gJob, woken <- gWoken, got <- gGot,
       dropped <- gDropped, missed <- gMissed
D == INSTANCE IpaDma WITH
       inits <- dInits, up <- dUp, enabled <- dEnabled, votes <- dVotes,
       forgotten <- dForgotten, pend <- dPend, pc <- dPc, kind <- dKind, own <- dOwn,
       queue <- dQueue, fifo <- dFifo, woken <- dWoken, async <- dAsync, cb <- dCb,
       destroy <- dDestroy, flag <- dFlag, done <- dDone, lostRace <- dLostRace,
       late <- dLate
N == INSTANCE NatTable WITH
       Layouts <- NatLayouts, nat <- nNat, lock <- nLock, mem <- nMem, tmp <- nTmp, hw <- nHw,
       pc <- nPc, job <- nJob, stale <- nStale, tainted <- nTainted,
       strayed <- nStrayed, allocs <- nAllocs
Y == INSTANCE BusCompat WITH
       dev <- yDev, handles <- yHandles, hdl <- yHdl, asked <- yAsked,
       refused <- yRefused, orphans <- yOrphans, stuck <- yStuck

\* Every client that has a pipe is printed under its own name: a fact about the tables.
ASSUME ClientAssumption ==
  /\ IsFiniteSet(Peripherals)
  /\ \A c \in DOMAIN C!PipesV2_0 \cup DOMAIN C!PipesV2_6L : C!ClientStrings[C!Number(c)] = c

MCInit ==
  /\ focus \in {"sps", "modem", "wwan", "qmi", "boot", "clients", "tables", "memory",
                  "equations", "messages", "dma", "nat", "bus"}
  /\ S!Init /\ M!Init /\ W!Init /\ Q!Init /\ B!Init /\ C!Init /\ T!Init /\ Init /\
     RuleInit /\ G!Init /\ D!Init /\ N!Init /\ Y!Init
  /\ focus # "boot" => ~bSmmu
  /\ focus # "clients" => cHw = "v2_6L" /\ ~cBypass
  /\ focus # "nat" => nTmp
  /\ focus # "memory" => kind = "rt"
  /\ focus # "equations" => ruleKind = "flt" /\ ip = "v4"
  /\ tHwType = "v2_5"   \* v2_5 does all that v2_6L does, and more

Sps ==
  /\ focus = "sps" /\ S!Next
  /\ UNCHANGED <<focus, mVars, wVars, qVars, bVars, cVars, tVars, vars, ruleVars,
                  gVars, dVars, nVars, yVars>>
Modem ==
  /\ focus = "modem" /\ M!Next
  /\ UNCHANGED <<focus, sVars, wVars, qVars, bVars, cVars, tVars, vars, ruleVars,
                  gVars, dVars, nVars, yVars>>
Wwan ==
  /\ focus = "wwan" /\ W!Next
  /\ UNCHANGED <<focus, sVars, mVars, qVars, bVars, cVars, tVars, vars, ruleVars,
                  gVars, dVars, nVars, yVars>>
Qmi ==
  /\ focus = "qmi" /\ Q!Next
  /\ UNCHANGED <<focus, sVars, mVars, wVars, bVars, cVars, tVars, vars, ruleVars,
                  gVars, dVars, nVars, yVars>>
Boot ==
  /\ focus = "boot" /\ B!Next
  /\ UNCHANGED <<focus, sVars, mVars, wVars, qVars, cVars, tVars, vars, ruleVars,
                  gVars, dVars, nVars, yVars>>
Connections ==
  /\ focus = "clients" /\ C!Next
  /\ UNCHANGED <<focus, sVars, mVars, wVars, qVars, bVars, tVars, vars, ruleVars,
                  gVars, dVars, nVars, yVars>>
TableEntries ==
  /\ focus = "tables" /\ T!Next
  /\ UNCHANGED <<focus, sVars, mVars, wVars, qVars, bVars, cVars, vars, ruleVars,
                  gVars, dVars, nVars, yVars>>
TableMemory ==
  /\ focus = "memory" /\ Next
  /\ UNCHANGED <<focus, sVars, mVars, wVars, qVars, bVars, cVars, tVars, ruleVars,
                  gVars, dVars, nVars, yVars>>
RuleEncoding ==
  /\ focus = "equations" /\ RuleNext
  /\ UNCHANGED <<focus, sVars, mVars, wVars, qVars, bVars, cVars, tVars, vars,
                  gVars, dVars, nVars, yVars>>
Messages ==
  /\ focus = "messages" /\ G!Next
  /\ UNCHANGED <<focus, sVars, mVars, wVars, qVars, bVars, cVars, tVars, vars, ruleVars,
                  dVars, nVars, yVars>>
Dma ==
  /\ focus = "dma" /\ D!Next
  /\ UNCHANGED <<focus, sVars, mVars, wVars, qVars, bVars, cVars, tVars, vars, ruleVars,
                  gVars, nVars, yVars>>
NatIoctls ==
  /\ focus = "nat" /\ N!Next
  /\ UNCHANGED <<focus, sVars, mVars, wVars, qVars, bVars, cVars, tVars, vars, ruleVars,
                  gVars, dVars, yVars>>
BusVotes ==
  /\ focus = "bus" /\ Y!Next
  /\ UNCHANGED <<focus, sVars, mVars, wVars, qVars, bVars, cVars, tVars, vars, ruleVars,
                  gVars, dVars, nVars>>

MCNext == Sps \/ Modem \/ Wwan \/ Qmi \/ Boot \/ Connections \/ TableEntries \/
          TableMemory \/ RuleEncoding \/ Messages \/ Dma \/
          NatIoctls \/ BusVotes
MCSpec == MCInit /\ [][MCNext]_allVars

-----------------------------------------------------------------------------
(* The properties of the parts: conjunctions of what their modules state. *)

\* A client with an enabled SPS pipe owns it in the BAM's table and in its connection,
\* the references of a connection count the clients mapped to it, and every pipe and
\* all pipe memory belongs to exactly one open connection (sps_rm.c, sps.c).
ConnectionsOwned ==
  focus = "sps" => S!TypeOK /\ S!PipesOwned /\ S!RefsCountClients /\ S!ResourcesAccounted
\* Through the modem's restarts the proxy clock vote and its flag agree and end with
\* the handshake, the modem hears that the driver is up, the network device comes back
\* and no QMI work queue is left behind, but for the restarts, the failed probes and the
\* failed sends the parts name (ipa_qmi_service.c, rmnet_ipa.c).
RestartsSettle ==
  focus = "modem" => M!VoteSettled /\ M!IndicationDelivered /\ M!ComesBack
                       /\ M!NoWorkqueueLeak
\* A removed WWAN device leaves no rule, header or interface in the IPA's tables,
\* unless a call failed or rules changed under it; no two mux channels share an id,
\* and a registered one has its header (rmnet_ipa.c).
WwanTablesSound == focus = "wwan" => W!RemovedClean /\ W!ChannelsDistinct
\* A QMI message fits the limit its caller gives, the receiver decodes what the sender
\* filled in, and decoding writes past no field but that of the one list whose table
\* entry is wrong (ipa_qmi_service_v01.c).
QmiMessagesSound ==
  focus = "qmi" => Q!MessageFits /\ Q!DecodedAsSent /\ Q!DecodeStaysInField
\* A failed ipa_init() releases what it took, nothing else and all but what its goto
\* chain has no statement for; however often probes are deferred one bus client is
\* registered; a driver that is up serves the calls of its own code (ipa.c, ipa_api.c).
InitUnwinds ==
  focus = "boot" => B!UnwindsWhatItTook /\ B!FailureReleasesAll /\ B!OneBusClient
                      /\ B!OwnCallsServed
\* However often a disconnect stops half way and is retried a FIFO is freed once; an
\* endpoint that keeps the IPA awake has its vote, a connected pipe its peer mapped in
\* the SMMU, and a valid endpoint belongs to one client (ipa_client.c).
EndpointsSound ==
  focus = "clients" => C!FifoFreedOnce /\ C!AwakeHasVote /\ C!PeerStaysMapped
                         /\ C!EndpointNamesClient
\* Until one of the faults the module names, entries refer to entries that exist and
\* count their holders, headers and contexts do not overlap, and default routes and
\* filters survive deletions and keep their place (ipa_flt.c, ipa_rt.c, ipa_hdr.c).
TableEntriesSound ==
  focus = "tables" => T!ReferencesLive /\ T!RefsCountHolders /\ T!SlotsDisjoint
                        /\ T!DefaultPathKept /\ T!DefaultFilterLast
\* Both ways to encode a rule write the same equations but for the rules the module
\* names, a commit fails only for a cause, and no rule but the last of a table looks
\* like the end of the table (ipa_generate_hw_rule, ipa_generate_flt_eq).
EncodingSound ==
  focus = "equations" => EncodingsAgree /\ CommitFailureHasCause /\ TerminatorOnlyAtEnd
\* No reader sleeps unwoken while a message waits, each message is in one place, and a
\* WLAN client is cached when the last message says it is connected (ipa_intf.c).
MessagesSound == focus = "messages" => G!NoLostWakeup /\ G!ReadOnce /\ G!CacheIsCurrent
\* Copies run with a clock vote, fit the FIFO and hand over to the next in line; a
\* destroy tears down idle pipes only and is woken by the last copy, but for the two
\* races the module names (ipa_dma.c).
CopiesSound ==
  focus = "dma" => D!CopiesAreClocked /\ D!HandOver /\ D!FifoHasRoom
                     /\ D!DestroyIsWoken /\ D!TearsDownIdlePipes
\* Unless calls overlapped, or came before the first table, the hardware's NAT tables are
\* allocated, commands write only into the table in use, and nat_mem knows what is
\* allocated (ipa_nat.c).
NatSound == focus = "nat" => N!HwTableAllocated /\ N!EntriesInTable /\ N!MemoryOwned
\* Each interconnect path of a bus client carries what its last request asked for, a
\* client that unregisters leaves no vote, and a slot of the handle table in use
\* belongs to exactly one client (msm_bus_compat.c).
BusVotesSound == focus = "bus" => Y!BandwidthAsAsked /\ Y!NoVoteLeft /\ Y!SlotsOwned
\* A QMI call returns success only after an answer that reports success was decoded as
\* it was sent, and a reset of the tables leaves no pointer to what it freed and no wrong
\* count, unless user space and the kernel shared it, an entry was added meanwhile or a
\* context uses the default header.
StepsKeepPromises == Q!OkMeansAnswered /\ T!ResetSafeUnlessShared
=============================================================================
