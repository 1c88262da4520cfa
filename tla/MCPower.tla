------------------------------ MODULE MCPower ------------------------------
(* InactivityTimer, IpaPower and WwanTx on small instances.  A behaviour of *)
(* IpaPower either receives packets at one clock rate or changes the rate   *)
(* without packets; the inactivity timer of a client, and the network       *)
(* device that is such a client, run on their own.                          *)
EXTENDS InactivityTimer, Naturals, Sequences, FiniteSets

CONSTANTS Focuses,
          NapiModes, Rates, Unvoters, MaxPackets,  \* IpaPower
          High, Low, HighCtl, MaxFlight, MaxGen  \* WwanTx

\* The queue stops at the higher of the two water marks (DEFAULT_OUTSTANDING_HIGH,
\* DEFAULT_OUTSTANDING_LOW).
ASSUME WaterMarks == High \in Nat /\ Low \in Nat /\ Low <= High /\ MaxGen \in Nat
\* The clock starts at the lowest rate (SVS).
ASSUME RateAssumption == 1 \in Rates

VARIABLES focus,
  cnt, lock, clk, curRate, hwRate, bus, tagFlag, client, proxy, valid, voter, unvoter,
  overlapped, raced, perf, pmWq, pm, stts,
  irqLine, irqWq, decClients, eotActivity, relWork, susp, backlog, fifo, seen, latched,
  eotOn, polling, pWake, rxWork, rx, napi, arrived,
  wGen, wLast, wActive, wStopped, wCount, wFlight, wTx, wComp, wCdev,
  wWant, wRm, wWakeWork, wSusp, wSsr, wNtf, wLost

P == INSTANCE IpaPower WITH wake <- pWake
W == INSTANCE WwanTx WITH
       gen <- wGen, last <- wLast, active <- wActive, stopped <- wStopped,
       count <- wCount, flight <- wFlight, tx <- wTx, comp <- wComp, cdev <- wCdev,
       want <- wWant, rm <- wRm, wakeWork <- wWakeWork, susp <- wSusp, ssr <- wSsr,
       ntf <- wNtf, lost <- wLost

powerVars == <<cnt, lock, clk, curRate, hwRate, bus, tagFlag, client, proxy, valid, voter,
               unvoter, overlapped, raced, perf, pmWq, pm, stts, irqLine, irqWq, decClients, eotActivity, relWork, susp, backlog,
               fifo, seen, latched, eotOn, polling, pWake, rxWork, rx, napi, arrived>>
wwanVars == <<wGen, wLast, wActive, wStopped, wCount, wFlight, wTx, wComp, wCdev,
              wWant, wRm, wWakeWork, wSusp, wSsr, wNtf, wLost>>
allVars == <<vars, powerVars, wwanVars, focus>>

MCInit == /\ focus \in Focuses /\ Init /\ P!Init /\ W!Init
          /\ focus \in {"timer", "wwan"} => ~napi

Power == /\ focus \in {"packets", "rates"}
         /\ P!Next
         /\ focus = "packets" => UNCHANGED <<curRate, valid, voter, unvoter>>
         /\ focus = "rates" => arrived' = arrived
         /\ UNCHANGED <<vars, wwanVars, focus>>
Timer == focus = "timer" /\ Next /\ UNCHANGED <<powerVars, wwanVars, focus>>
Wwan  == focus = "wwan" /\ W!Next /\ UNCHANGED <<vars, powerVars, focus>>

MCNext == Power \/ Timer \/ Wwan
MCSpec == MCInit /\ [][MCNext]_allVars /\ Fairness /\ P!Fairness /\ W!Fairness

\* The clock votes are those of the parties that will give them back, the clocks and
\* the pipe follow them, registers are touched only with the clocks on, and running
\* clocks have the rate last asked for (ipa_active_clients, ipa.c).
\* All of it holds until two overlapping calls of ipa2_proxy_clk_unvote(), which takes
\* no lock, drop one vote twice; calls that do not overlap never do.
ClocksRight ==
  /\ P!ProxyTypeOK /\ P!ProxyFlagTrue
  /\ ~raced => /\ P!TypeOK /\ P!VotesBalance /\ P!ClocksFollowVotes
               /\ P!RegistersClocked /\ P!RateSettled
\* Gating loses nothing: no packet stays in the FIFO of a gated pipe, the TAG process
\* comes first, and the wake-up's vote and the wakelock have someone who gives them
\* back (ipa_suspend_apps_pipes, ipa_suspend_handler, ipa_rx_switch_to_intr_mode).
GatingLosesNothing == ~raced => /\ P!GatedPipeDrained /\ P!TagBeforeGating
                                /\ P!WakeVoteReleased /\ P!NoWakelockLeak
\* outstanding_pkts of the network device is the number of its packets in flight, and
\* a stopped transmit queue has a completion or a grant to come that wakes it
\* (ipa_wwan_xmit, apps_ipa_tx_complete_notify, ipa_rm_notify).
WwanQueueSound == W!CountsInFlight /\ W!StoppedHasWaker
\* Every packet received in work-queue mode is handed up, and the transmit queue of an
\* open network device does not stay stopped for ever.
TrafficGoesOn == P!PacketsDelivered /\ W!QueueRunsAgain
\* The comment of ipa_sps_irq_rx_notify(): every packet is pulled before the pipe goes
\* back to interrupt mode, so none stays behind, with NAPI or without.
AllPacketsDelivered == P!AllPacketsDelivered
=============================================================================
