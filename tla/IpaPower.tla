------------------------------ MODULE IpaPower ------------------------------
(***************************************************************************)
(* Clock gating of the IPA (ipa.c, ipa_utils.c), the interrupt that wakes  *)
(* a suspended pipe (ipa_interrupts.c, sps_pm in ipa.c) and the switching  *)
(* of a receive pipe between interrupt and polling mode (ipa_dp.c).        *)
(*                                                                         *)
(* The clocks are on while ipa_active_clients.cnt > 0.  The votes come     *)
(* from a resource-manager client, the modem proxy vote, the work that     *)
(* sends the TAG packet before gating, the deferred interrupt work, the    *)
(* suspend handler (until its delayed work releases it), a change of clock *)
(* rate and the receive work itself.  Switching the clocks takes two steps *)
(* under ipa_active_clients.mutex, during which hardware, the BAM          *)
(* interrupt and the IPA interrupt go on.                                  *)
(*                                                                         *)
(* One receive pipe stands for the LAN and WAN consumers.  The hardware    *)
(* keeps a packet for a suspended pipe and raises TX_SUSPEND; for a running*)
(* pipe it writes the packet to the descriptor FIFO and latches EOT.  The  *)
(* BAM reports EOT only while the pipe is configured with SPS_O_EOT, and a *)
(* packet can be pulled in interrupt mode only once the BAM interrupt has  *)
(* seen it.                                                                *)
(***************************************************************************)
EXTENDS Integers, Sequences, FiniteSets

CONSTANTS
  NapiModes,   \* which values ep->napi_enabled takes
  Rates,       \* clock rates, ascending from 1 (SVS, nominal, turbo)
  Unvoters,    \* the threads that may be in ipa2_proxy_clk_unvote() at once
  MaxPackets   \* bound: packets the hardware receives in a behaviour

VARIABLES
  cnt,         \* ipa_active_clients.cnt
  lock,        \* what the holder of the mutex still has to do to the clocks
  clk,         \* ipa_clk is enabled
  curRate, hwRate, bus,  \* curr_ipa_clk_rate, the clock's rate, the bus vote
  tagFlag,     \* tag_process_before_gating
  client,      \* a resource-manager client holds a vote
  proxy,       \* the modem proxy's vote is in the count
  valid,       \* q6_proxy_clk_vote_valid
  voter, unvoter,  \* where ipa2_proxy_clk_vote() and ..._unvote() are
  overlapped,  \* ghost: two of those calls have been under way at once
  raced,       \* ghost: the proxy's vote was dropped, or taken, twice
  perf,        \* where ipa2_set_required_perf_profile() is
  pmWq, pm,    \* power_mgmt_wq and what its thread is doing
  stts,        \* IPA_IRQ_STTS: TX_SUSPEND raised and not cleared
  irqLine,     \* an edge of the interrupt line not yet taken by ipa_isr()
  irqWq,       \* ipa_suspend_handler() queued on ipa_interrupt_wq
  decClients, eotActivity,  \* sps_pm
  relWork,     \* ipa_sps_release_resource_work is pending
  susp,        \* ipa_ep_suspend of the pipe
  backlog,     \* packets the hardware holds for the suspended pipe
  fifo, seen,  \* packets in the FIFO; how many of them the BAM driver cached
  latched,     \* EOT status of the BAM pipe
  eotOn,       \* the pipe is configured with SPS_O_EOT, not SPS_O_POLL
  polling,     \* sys->curr_polling_state
  wake,        \* the pipe's bit of wakelock_ref_cnt (the SPS bit is decClients)
  rxWork, rx,  \* sys->work is pending; where the receive work is
  napi,        \* ep->napi_enabled
  arrived      \* ghost: packets received so far

clkVars  == <<cnt, lock, clk, hwRate, bus, tagFlag, pmWq>>
irqVars  == <<stts, irqLine, irqWq>>
spsVars  == <<decClients, relWork>>
fifoVars == <<susp, backlog, fifo, seen, latched>>
modeVars == <<eotActivity, eotOn, polling, rxWork, wake>>
proxyCalls == <<valid, voter, unvoter, overlapped, raced>>
vars == <<clkVars, curRate, client, proxy, proxyCalls, perf, pm, irqVars, spsVars,
          fifoVars, modeVars, rx, napi, arrived>>

LockSteps == {"free", "enable", "disable"}
PerfSteps == {"idle", "rate", "bus", "dec"}
PmSteps   == {"idle", "tag", "irq", "irqDec"}
RxSteps   == {"idle", "poll", "toIntr", "clear", "drain", "relax", "dec"}

Free == lock = "free"
Queued(w, s) == \E i \in 1 .. Len(s) : s[i] = w
\* queue_work() of a work that is already pending does nothing.
QueueOnce(s, w) == IF Queued(w, s) THEN s ELSE Append(s, w)

(***************************************************************************)
(* The receive callback and what the clock code does to the pipe.          *)
(***************************************************************************)
\* ipa_sps_irq_rx_notify(): poll from now on, unless polling already.  The
\* callers set eotActivity.
RxNotify ==
  /\ polling' = TRUE
  /\ eotOn' = (eotOn /\ polling)
  /\ rxWork' = (rxWork \/ ~polling)
  /\ wake' = (wake \/ ~polling)

\* ipa_suspend_apps_pipes(): set or clear the suspend bit.  A pipe that runs
\* again gets the packets the hardware held.
SuspendAppsPipes(s) ==
  /\ susp' = s
  /\ IF s THEN UNCHANGED <<backlog, fifo, latched>>
          ELSE /\ backlog' = 0 /\ fifo' = fifo + backlog
               /\ latched' = (latched \/ backlog > 0)
  /\ UNCHANGED seen

\* Its check of the FIFO: packets found there are announced as an EOT.
NotEmptyUnchecked == FALSE   \* mutant: the FIFO is not looked at
NotEmpty == fifo > 0

\* ipa_sps_irq_control_all(): leave a polling pipe alone.
IrqControl(enable) == IF polling THEN eotOn ELSE enable

\* ipa_get_bus_vote(): one bus level for each rate.
BusVote(r) == r

\* clk_set_rate() when the clock is turned on.
EnabledRate == curRate

\* ipa2_inc_client_enable_clks(): the first vote turns the clock on and
\* leaves the rest of ipa_enable_clks() to EnableClks.
Inc ==
  /\ Free
  /\ cnt' = cnt + 1
  /\ IF cnt = 0
     THEN lock' = "enable" /\ clk' = TRUE /\ hwRate' = EnabledRate
     ELSE UNCHANGED <<lock, clk, hwRate>>
  /\ UNCHANGED <<bus, tagFlag>>

\* _ipa_enable_clks_v2_0() after the clock is on, the bus vote of
\* ipa_enable_clks(), and the unlock.
EnableClks ==
  /\ lock = "enable"
  /\ lock' = "free" /\ bus' = BusVote(curRate)
  /\ SuspendAppsPipes(FALSE)
  /\ \/ (fifo + backlog > 0) /\ RxNotify /\ eotActivity' = TRUE
     \/ fifo = 0 \* what was held is written after the check
        /\ eotOn' = IrqControl(TRUE) /\ UNCHANGED <<eotActivity, polling, rxWork, wake>>
  /\ UNCHANGED <<cnt, clk, hwRate, tagFlag, pmWq, curRate, client, proxy, proxyCalls, perf,
                 pm, irqVars, spsVars, rx, napi, arrived>>

LastVote == cnt = 1
TagFirst(tag) == LastVote /\ tag
Gates(tag)    == LastVote /\ ~TagFirst(tag)
VoteLeft(tag) == IF TagFirst(tag) THEN 1 ELSE cnt - 1

\* ipa2_dec_client_disable_clks(): the last vote starts the TAG process if the
\* flag (tag) asks for it, and otherwise suspends the pipes and leaves the rest
\* of ipa_disable_clks() to DisableClks.  clearsEot: the caller clears
\* eot_activity afterwards.
Dec(tag, clearsEot) ==
  /\ Free
  /\ cnt' = VoteLeft(tag)
  /\ tagFlag' = (tag /\ ~TagFirst(tag))
  /\ pmWq' = IF TagFirst(tag) THEN QueueOnce(pmWq, "tag") ELSE pmWq
  /\ lock' = IF Gates(tag) THEN "disable" ELSE lock
  /\ IF Gates(tag) THEN SuspendAppsPipes(TRUE) ELSE UNCHANGED fifoVars
  /\ IF Gates(tag) /\ NotEmpty
     THEN RxNotify /\ eotActivity' = ~clearsEot
     ELSE /\ UNCHANGED <<polling, eotOn, rxWork, wake>>
          /\ eotActivity' = (eotActivity /\ ~clearsEot)
  /\ UNCHANGED <<clk, hwRate, bus>>

\* _ipa_disable_clks_v2_0() after the pipes are suspended, the bus vote of
\* ipa_disable_clks(), and the unlock.
DisableClks ==
  /\ lock = "disable"
  /\ lock' = "free" /\ clk' = FALSE /\ bus' = 0
  /\ eotOn' = IrqControl(FALSE)
  /\ UNCHANGED <<cnt, hwRate, tagFlag, pmWq, curRate, client, proxy, proxyCalls, perf, pm,
                 irqVars, spsVars, fifoVars, eotActivity, polling, rxWork,
                 wake, rx, napi, arrived>>

(***************************************************************************)
(* The voters.                                                             *)
(***************************************************************************)
\* A client's consumer is resumed, as the resource manager does.
ResumeClient ==
  /\ ~client /\ client' = TRUE
  /\ Inc
  /\ UNCHANGED <<pmWq, curRate, proxy, proxyCalls, perf, pm, irqVars, spsVars, fifoVars, modeVars,
                 rx, napi, arrived>>

\* ipa2_suspend_resource_sync(): ask for the TAG process, drop the vote.  The
\* flag is written before the mutex is taken.
SuspendClientSync ==
  /\ client /\ client' = FALSE
  /\ Dec(TRUE, FALSE)
  /\ UNCHANGED <<curRate, proxy, proxyCalls, perf, pm, irqVars, spsVars, rx, napi, arrived>>

\* ipa2_suspend_resource_no_block(): refused with -EPERM when the mutex is
\* taken or when it would drop the last vote.
NoBlockRefusedIfLocked == ~Free   \* mutant
NoBlockRefused == ~Free \/ LastVote
SuspendClientNoBlock ==
  /\ client /\ ~NoBlockRefused
  /\ client' = FALSE /\ cnt' = cnt - 1
  /\ UNCHANGED <<lock, clk, hwRate, bus, tagFlag, pmWq, curRate, proxy, proxyCalls, perf, pm,
                 irqVars, spsVars, fifoVars, modeVars, rx, napi, arrived>>

\* ipa2_proxy_clk_vote(): the flag is tested, the vote taken and the flag set
\* with no lock over the three, by the modem's restart notifier.  Bound: once a
\* vote has been dropped twice no further call begins.
ProxyBusy == voter # "idle" \/ \E u \in Unvoters : unvoter[u] # "idle"
ProxyVoteTest ==
  /\ voter = "idle" /\ ~valid /\ ~raced
  /\ voter' = "inc" /\ overlapped' = (overlapped \/ ProxyBusy)
  /\ UNCHANGED <<proxy, valid, unvoter, raced>>
  /\ UNCHANGED <<clkVars, curRate, client, perf, pm, irqVars, spsVars, fifoVars, modeVars,
                 rx, napi, arrived>>
ProxyVoteInc ==
  /\ voter = "inc" /\ voter' = "set"
  /\ Inc
  /\ proxy' = TRUE /\ raced' = (raced \/ proxy)
  /\ UNCHANGED <<valid, unvoter, overlapped, pmWq, curRate, client, perf, pm, irqVars, spsVars,
                 fifoVars, modeVars, rx, napi, arrived>>
ProxyVoteSet ==
  /\ voter = "set" /\ voter' = "idle" /\ valid' = TRUE
  /\ UNCHANGED <<proxy, unvoter, overlapped, raced>>
  /\ UNCHANGED <<clkVars, curRate, client, perf, pm, irqVars, spsVars, fifoVars, modeVars,
                 rx, napi, arrived>>

\* ipa2_proxy_clk_unvote(), likewise, by the probe of rmnet_ipa, the handshake
\* with the modem and the response handler of the uC.
ProxyUnvoteTest(u) ==
  /\ unvoter[u] = "idle" /\ valid /\ ~raced
  /\ unvoter' = [unvoter EXCEPT ![u] = "dec"] /\ overlapped' = (overlapped \/ ProxyBusy)
  /\ UNCHANGED <<proxy, valid, voter, raced>>
  /\ UNCHANGED <<clkVars, curRate, client, perf, pm, irqVars, spsVars, fifoVars, modeVars,
                 rx, napi, arrived>>
ProxyUnvoteDec(u) ==
  /\ unvoter[u] = "dec" /\ unvoter' = [unvoter EXCEPT ![u] = "clear"]
  /\ Dec(tagFlag, FALSE)
  /\ proxy' = FALSE /\ raced' = (raced \/ ~proxy)
  /\ UNCHANGED <<valid, voter, overlapped, curRate, client, perf, pm, irqVars, spsVars, rx, napi,
                 arrived>>
ProxyUnvoteClear(u) ==
  /\ unvoter[u] = "clear" /\ unvoter' = [unvoter EXCEPT ![u] = "idle"]
  /\ valid' = FALSE
  /\ UNCHANGED <<proxy, voter, overlapped, raced>>
  /\ UNCHANGED <<clkVars, curRate, client, perf, pm, irqVars, spsVars, fifoVars, modeVars,
                 rx, napi, arrived>>

\* ipa2_set_required_perf_profile() up to the unlock: with the clocks gated
\* the rate is only recorded.
SetPerfProfile(r) ==
  /\ perf = "idle" /\ r # curRate
  /\ Free
  /\ curRate' = r
  /\ IF cnt > 0 THEN cnt' = cnt + 1 /\ perf' = "rate"
                ELSE UNCHANGED <<cnt, perf>>
  /\ UNCHANGED <<lock, clk, hwRate, bus, tagFlag, pmWq, client, proxy, proxyCalls, pm,
                 irqVars, spsVars, fifoVars, modeVars, rx, napi, arrived>>

\* ... clk_set_rate() and the bus vote, without the mutex ...
PerfApply ==
  /\ \/ /\ perf = "rate" /\ perf' = "bus"
        /\ hwRate' = curRate /\ UNCHANGED bus
     \/ /\ perf = "bus" /\ perf' = "dec"
        /\ bus' = BusVote(curRate) /\ UNCHANGED hwRate
  /\ UNCHANGED <<cnt, lock, clk, tagFlag, pmWq, curRate, client, proxy, proxyCalls, pm,
                 irqVars, spsVars, fifoVars, modeVars, rx, napi, arrived>>

\* ... and the vote taken above is dropped.
PerfDec ==
  /\ perf = "dec" /\ perf' = "idle"
  /\ Dec(tagFlag, FALSE)
  /\ UNCHANGED <<curRate, client, proxy, proxyCalls, pm, irqVars, spsVars, rx, napi, arrived>>

(***************************************************************************)
(* power_mgmt_wq: the TAG process and deferred interrupts, one at a time.  *)
(***************************************************************************)
TagStart ==
  /\ pm = "idle" /\ pmWq # <<>> /\ Head(pmWq) = "tag"
  /\ pm' = "tag" /\ pmWq' = Tail(pmWq)
  /\ UNCHANGED <<cnt, lock, clk, hwRate, bus, tagFlag, curRate, client, proxy, proxyCalls,
                 perf, irqVars, spsVars, fifoVars, modeVars, rx, napi, arrived>>

\* ipa_start_tag_process(): ipa_tag_aggr_force_close() has returned, with the
\* response, an error or a timeout alike; the vote of the TAG process goes.
TagDone ==
  /\ pm = "tag" /\ pm' = "idle"
  /\ Dec(tagFlag, FALSE)
  /\ UNCHANGED <<curRate, client, proxy, proxyCalls, perf, irqVars, spsVars, rx, napi, arrived>>

\* ipa_process_interrupts(): handle_interrupt() queues the suspend handler,
\* the status bit is cleared, and the loop ends when the status stays clear.
ProcessInterrupts ==
  /\ irqWq' = (irqWq \/ stts)
  /\ stts' = FALSE

\* ipa_interrupt_defer(): vote, process the interrupts, drop the vote.
DeferStart ==
  /\ pm = "idle" /\ pmWq # <<>> /\ Head(pmWq) = "irq"
  /\ pm' = "irq" /\ pmWq' = Tail(pmWq)
  /\ Inc
  /\ UNCHANGED <<curRate, client, proxy, proxyCalls, perf, irqVars, spsVars, fifoVars,
                 modeVars, rx, napi, arrived>>

DeferProcess ==
  /\ pm = "irq" /\ Free /\ pm' = "irqDec"
  /\ ProcessInterrupts
  /\ UNCHANGED <<irqLine, clkVars, curRate, client, proxy, proxyCalls, perf, spsVars,
                 fifoVars, modeVars, rx, napi, arrived>>

DeferDec ==
  /\ pm = "irqDec" /\ pm' = "idle"
  /\ Dec(tagFlag, FALSE)
  /\ UNCHANGED <<curRate, client, proxy, proxyCalls, perf, irqVars, spsVars, rx, napi, arrived>>

(***************************************************************************)
(* The IPA interrupt and the vote it leads to.                             *)
(***************************************************************************)
\* ipa_isr(): with the mutex taken or the clocks gated the registers cannot
\* be read and the work is deferred.
IsrDefers == ~Free \/ cnt = 0
Isr ==
  /\ irqLine /\ irqLine' = FALSE
  /\ IF IsrDefers
     THEN pmWq' = QueueOnce(pmWq, "irq") /\ UNCHANGED <<stts, irqWq>>
     ELSE ProcessInterrupts /\ UNCHANGED pmWq
  /\ UNCHANGED <<cnt, lock, clk, hwRate, bus, tagFlag, curRate, client, proxy, proxyCalls,
                 perf, pm, spsVars, fifoVars, modeVars, rx, napi, arrived>>

\* ipa_suspend_handler() for the pipe: one vote until the delayed release.
SuspendHandler ==
  /\ irqWq /\ irqWq' = FALSE
  /\ IF decClients
     THEN UNCHANGED <<clkVars, spsVars>>
     ELSE Inc /\ UNCHANGED pmWq /\ decClients' = TRUE /\ relWork' = TRUE
  /\ UNCHANGED <<stts, irqLine, curRate, client, proxy, proxyCalls, perf, pm, fifoVars,
                 modeVars, rx, napi, arrived>>

\* ipa_sps_release_resource(): keep the vote as long as EOTs keep coming.
KeepsVote == decClients /\ eotActivity
SpsReleaseResource ==
  /\ IF KeepsVote
     THEN /\ eotActivity' = FALSE
          /\ UNCHANGED <<decClients, clkVars, fifoVars, eotOn, polling, rxWork, wake>>
     ELSE IF decClients
     THEN /\ decClients' = FALSE /\ Dec(tagFlag, TRUE)
     ELSE /\ eotActivity' = FALSE
          /\ UNCHANGED <<decClients, clkVars, fifoVars, eotOn, polling, rxWork, wake>>

\* The work queues itself again while EOTs come.
RelWorkLeft == KeepsVote

ReleaseTimer ==
  /\ relWork
  /\ SpsReleaseResource
  /\ relWork' = RelWorkLeft
  /\ UNCHANGED <<curRate, client, proxy, proxyCalls, perf, pm, irqVars, rx, napi, arrived>>

\* ipa2_ap_suspend(): -EAGAIN while polling; otherwise the vote goes at once,
\* and the delayed work stays queued.
ApSuspend ==
  /\ ~polling
  /\ decClients
  /\ decClients' = FALSE /\ Dec(tagFlag, TRUE)
  /\ UNCHANGED <<relWork, curRate, client, proxy, proxyCalls, perf, pm, irqVars, rx, napi,
                 arrived>>

(***************************************************************************)
(* Hardware and the BAM driver's interrupt.                                *)
(***************************************************************************)
\* A packet comes in.  For a suspended pipe TX_SUSPEND is raised; the line is
\* edge triggered, so a status that is already set raises no new edge.
PacketArrives ==
  /\ arrived < MaxPackets /\ arrived' = arrived + 1
  /\ IF susp
     THEN /\ backlog' = backlog + 1 /\ stts' = TRUE
          /\ irqLine' = (irqLine \/ ~stts)
          /\ UNCHANGED <<fifo, latched>>
     ELSE /\ fifo' = fifo + 1 /\ latched' = TRUE
          /\ UNCHANGED <<backlog, stts, irqLine>>
  /\ UNCHANGED <<susp, seen, irqWq, clkVars, curRate, client, proxy, proxyCalls, perf, pm,
                 spsVars, modeVars, rx, napi>>

\* pipe_handler(), pipe_handler_eot(): clear the status, cache what the
\* hardware has finished, and call back.
BamIsr ==
  /\ latched /\ eotOn
  /\ latched' = FALSE /\ seen' = fifo
  /\ RxNotify /\ eotActivity' = TRUE
  /\ UNCHANGED <<susp, backlog, fifo, clkVars, curRate, client, proxy, proxyCalls, perf, pm,
                 irqVars, spsVars, rx, napi, arrived>>

(***************************************************************************)
(* The receive work: ipa_handle_rx(), or with NAPI ipa2_rx_poll() and      *)
(* switch_to_intr_rx_work_func().  Both vote, poll until the FIFO is found *)
(* empty, go back to interrupt mode and drop the vote.                     *)
(***************************************************************************)
RxStart ==
  /\ rx = "idle" /\ rxWork
  /\ rxWork' = FALSE /\ rx' = "poll"
  /\ Inc
  /\ UNCHANGED <<pmWq, curRate, client, proxy, proxyCalls, perf, pm, irqVars, spsVars, fifoVars,
                 eotActivity, eotOn, polling, wake, napi, arrived>>

\* ipa_handle_rx_core(), ipa2_rx_poll(): in polling mode sps_get_iovec() asks
\* the hardware what it has finished.
SeenPolled == 0
RxPoll ==
  /\ rx = "poll" /\ Free
  /\ IF fifo > 0 /\ polling
     THEN fifo' = 0 /\ seen' = SeenPolled /\ UNCHANGED rx
     ELSE rx' = "toIntr" /\ UNCHANGED <<fifo, seen>>
  /\ UNCHANGED <<susp, backlog, latched, clkVars, curRate, client, proxy, proxyCalls, perf,
                 pm, irqVars, spsVars, modeVars, napi, arrived>>

\* ipa_rx_switch_to_intr_mode() up to sps_set_config(SPS_O_EOT); nothing to
\* do when the pipe is in interrupt mode already.
RxEnableEot ==
  /\ rx = "toIntr"
  /\ IF polling THEN eotOn' = TRUE /\ rx' = "clear"
                ELSE rx' = "dec" /\ UNCHANGED eotOn
  /\ UNCHANGED <<eotActivity, polling, rxWork, wake, fifoVars, clkVars, curRate, client,
                 proxy, proxyCalls, perf, pm, irqVars, spsVars, napi, arrived>>

\* ... curr_polling_state = 0 ...
AfterClearNoDrain == "relax"   \* mutant: nothing drained
AfterClear == IF napi THEN "relax" ELSE "drain"
RxClearPolling ==
  /\ rx = "clear" /\ polling' = FALSE /\ rx' = AfterClear
  /\ UNCHANGED <<eotActivity, eotOn, rxWork, wake, fifoVars, clkVars, curRate, client,
                 proxy, proxyCalls, perf, pm, irqVars, spsVars, napi, arrived>>

\* ... and, without NAPI, pull the packets the BAM interrupt cached meanwhile.
RxDrain ==
  /\ rx = "drain"
  /\ IF seen > 0 /\ ~polling
     THEN fifo' = fifo - seen /\ seen' = 0 /\ UNCHANGED rx
     ELSE rx' = "relax" /\ UNCHANGED <<fifo, seen>>
  /\ UNCHANGED <<susp, backlog, latched, clkVars, curRate, client, proxy, proxyCalls, perf,
                 pm, irqVars, spsVars, modeVars, napi, arrived>>

\* ... and the wakelock is released, even if the interrupt has just taken it.
RxRelax ==
  /\ rx = "relax" /\ rx' = "dec" /\ wake' = FALSE
  /\ UNCHANGED <<eotActivity, eotOn, polling, rxWork, fifoVars, clkVars, curRate,
                 client, proxy, proxyCalls, perf, pm, irqVars, spsVars, napi, arrived>>

RxDec ==
  /\ rx = "dec" /\ rx' = "idle"
  /\ Dec(tagFlag, FALSE)
  /\ UNCHANGED <<curRate, client, proxy, proxyCalls, perf, pm, irqVars, spsVars, napi, arrived>>

-----------------------------------------------------------------------------
\* After ipa_init(): clocks gated, the pipe suspended with its BAM interrupt off.
Init ==
  /\ cnt = 0 /\ lock = "free" /\ clk = FALSE
  /\ curRate = 1 /\ hwRate = 1 /\ bus = 0
  /\ tagFlag = FALSE /\ client = FALSE /\ proxy = FALSE /\ perf = "idle"
  /\ valid = FALSE /\ voter = "idle" /\ unvoter = [u \in Unvoters |-> "idle"]
  /\ overlapped = FALSE /\ raced = FALSE
  /\ pmWq = <<>> /\ pm = "idle"
  /\ stts = FALSE /\ irqLine = FALSE /\ irqWq = FALSE
  /\ decClients = FALSE /\ eotActivity = FALSE /\ relWork = FALSE
  /\ susp = TRUE /\ backlog = 0 /\ fifo = 0 /\ seen = 0 /\ latched = FALSE
  /\ eotOn = FALSE /\ polling = FALSE /\ rxWork = FALSE /\ wake = FALSE
  /\ rx = "idle"
  /\ napi \in NapiModes /\ arrived = 0

Clients == \/ ResumeClient \/ SuspendClientSync \/ SuspendClientNoBlock
           \/ ApSuspend
           \/ ProxyVoteTest \/ ProxyVoteInc \/ ProxyVoteSet
           \/ \E u \in Unvoters :
                ProxyUnvoteTest(u) \/ ProxyUnvoteDec(u) \/ ProxyUnvoteClear(u)
           \/ \E r \in Rates : SetPerfProfile(r)
ClockStep == EnableClks \/ DisableClks
PerfStep  == PerfApply \/ PerfDec
PmStep    == TagStart \/ TagDone \/ DeferStart \/ DeferProcess \/ DeferDec
RxStep    == \/ RxStart \/ RxPoll \/ RxEnableEot \/ RxClearPolling \/ RxDrain
             \/ RxRelax \/ RxDec

Next == \/ Clients \/ ClockStep \/ PerfStep \/ PmStep \/ RxStep
        \/ Isr \/ SuspendHandler \/ ReleaseTimer
        \/ PacketArrives \/ BamIsr

\* Work queues, interrupts and threads that hold a vote go on; clients, timers
\* and incoming packets owe nothing.
Fairness ==
  /\ WF_vars(ClockStep) /\ SF_vars(PerfStep) /\ SF_vars(PmStep) /\ SF_vars(RxStep)
  /\ WF_vars(Isr) /\ SF_vars(SuspendHandler) /\ WF_vars(BamIsr)

Spec == Init /\ [][Next]_vars /\ Fairness
-----------------------------------------------------------------------------
ProxyTypeOK ==
  /\ valid \in BOOLEAN /\ voter \in {"idle", "inc", "set"}
  /\ unvoter \in [Unvoters -> {"idle", "dec", "clear"}]
  /\ overlapped \in BOOLEAN /\ raced \in BOOLEAN
TypeOK ==
  /\ cnt \in Nat /\ lock \in LockSteps /\ clk \in BOOLEAN
  /\ curRate \in Rates /\ hwRate \in Rates /\ bus \in Rates \cup {0}
  /\ tagFlag \in BOOLEAN /\ client \in BOOLEAN /\ proxy \in BOOLEAN
  /\ perf \in PerfSteps
  /\ pmWq \in Seq({"tag", "irq"}) /\ pm \in PmSteps
  /\ stts \in BOOLEAN /\ irqLine \in BOOLEAN /\ irqWq \in BOOLEAN
  /\ decClients \in BOOLEAN /\ eotActivity \in BOOLEAN /\ relWork \in BOOLEAN
  /\ susp \in BOOLEAN /\ backlog \in Nat /\ fifo \in Nat /\ seen \in 0 .. fifo
  /\ latched \in BOOLEAN /\ eotOn \in BOOLEAN /\ polling \in BOOLEAN
  /\ rxWork \in BOOLEAN /\ wake \in BOOLEAN /\ rx \in RxSteps /\ napi \in NapiModes /\ arrived \in Nat

B(p) == IF p THEN 1 ELSE 0

\* ipa2_proxy_clk_vote() and ipa2_proxy_clk_unvote() drop or take a vote twice
\* only when two calls overlap: one after the other, the flag says whether the
\* vote is in the count.
ProxyFlagTrue ==
  ~overlapped => /\ ~raced
                 /\ ~ProxyBusy => (valid <=> proxy)

\* ipa_active_clients.cnt is exactly the number of parties that will still give
\* their vote back: a lost or doubled DEC would gate the clocks under somebody
\* or keep them on for ever (ipa2_dec_client_disable_clks, ipa.c).  It is so
\* until two overlapping proxy calls drop one vote twice; so are the properties
\* below.
VotesBalance ==
  cnt = B(client) + B(proxy) + B(decClients) + B(perf # "idle")
        + B(Queued("tag", pmWq) \/ pm = "tag") + B(pm \in {"irq", "irqDec"})
        + B(rx # "idle")

\* Outside the mutex the clocks are on exactly when there is a vote, and the
\* pipe is configured to match: running and able to report EOT (or polled)
\* with clocks, suspended and silent without.
ClocksFollowVotes ==
  Free => /\ clk <=> cnt > 0
          /\ susp <=> ~clk
          /\ clk => (eotOn \/ polling)
          /\ (eotOn /\ ~clk) => polling

\* Whoever touches IPA or BAM registers does so with the clocks on: a register
\* access without clocks hangs the bus.
RegistersClocked ==
  /\ (rx \in RxSteps \ {"idle"}) => clk
  /\ (pm # "idle") => clk
  /\ (perf # "idle") => clk
  /\ (latched /\ eotOn) => clk

\* A vote taken by the suspend handler always has its delayed release pending
\* (ipa_sps_process_irq_schedule_rel, whose queue_delayed_work() is a no-op
\* while the work of an earlier vote is still queued).
WakeVoteReleased == decClients => relWork

\* No packet is left in the FIFO of a pipe whose clocks are gated, unless the
\* receive work that will turn them on again is pending: the emptiness check of
\* ipa_suspend_apps_pipes() covers packets written just before the suspend.
GatedPipeDrained == (Free /\ ~clk /\ fifo > 0) => (rxWork /\ polling)

\* A resource suspended with ipa2_suspend_resource_sync() gets its TAG process
\* before the clocks are gated, whoever drops the last vote.
TagBeforeGating == ~clk => ~tagFlag

\* With nobody inside ipa2_set_required_perf_profile(), running clocks have the
\* rate and the bus vote last asked for, also when the request came while the
\* clocks were gated or being switched.
RateSettled ==
  (Free /\ clk /\ perf = "idle") => (hwRate = curRate /\ bus = BusVote(curRate))

\* The receive wakelock does not outlive the receive work.
NoWakelockLeak == wake => (rxWork \/ rx # "idle")

Undelivered == backlog + fifo > 0
\* A pipe in work-queue mode: every packet the hardware accepts is handed up in
\* the end (unless a proxy vote was dropped twice), whether it came with the
\* clocks on, gated, or being switched.
PacketsDelivered == (~napi /\ Undelivered) ~> (~Undelivered \/ raced)

\* The comment of ipa_sps_irq_rx_notify(): the driver "keeps pulling packets
\* until the rx buffer is empty, then it goes back to interrupt mode", so no
\* packet stays behind in either mode.
AllPacketsDelivered == Undelivered ~> ~Undelivered
=============================================================================
