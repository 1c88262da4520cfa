------------------------------- MODULE WwanTx -------------------------------
(***************************************************************************)
(* The transmit side of the WWAN network device (rmnet_ipa.c): the water   *)
(* marks that stop and wake its queue, the resource manager's grant it     *)
(* waits for, system suspend, and the modem restart that replaces the      *)
(* device under packets still in flight.                                   *)
(* A packet's completion is counted before the queue lock is taken and     *)
(* releases the resource after it is dropped; the inactivity timer is its  *)
(* abstract specification, LazyRelease.                                    *)
(***************************************************************************)
EXTENDS Integers

CONSTANTS High, Low, HighCtl,  \* outstanding_high, outstanding_low, outstanding_high_ctl
          MaxFlight,           \* bound: packets in flight at once
          MaxGen               \* bound: network devices created

VARIABLES
  gen,      \* the network device ipa_netdevs[0] points to, by number; 0: NULL
  last,     \* the last number used
  active,   \* device_status = WWAN_DEVICE_ACTIVE
  stopped,  \* netif_queue_stopped
  count,    \* outstanding_pkts
  flight,   \* [1..MaxGen -> packets the IPA has, by the device that sent them]
  tx,       \* where ipa_wwan_xmit() is, holding the queue lock
  comp,     \* a completion has counted and waits for the lock, or has to release
  cdev,     \* ... and the device it is for
  want,     \* the inactivity timer's resource_requested
  rm,       \* WWAN_0_PROD in the resource manager: "off", "pending", "on"
  wakeWork, \* ipa_tx_wakequeue_work is scheduled
  susp,     \* suspend: "no", "checked" (no packet seen), "yes"
  ssr,      \* is_ssr
  ntf,      \* what ssr_notifier_cb(), or the probe it leads to, has to do next
  lost      \* ghost: a wake-up of the stopped queue was lost

vars == <<gen, last, active, stopped, count, flight, tx, comp, cdev, want, rm, wakeWork,
          susp, ssr, ntf, lost>>
devVars == <<gen, last, active, count, flight, cdev>>
rmVars  == <<want, rm, wakeWork>>
ntfVars == <<susp, ssr, ntf>>

Gens == 1 .. MaxGen
TypeOK ==
  /\ gen \in 0 .. MaxGen /\ last \in 0 .. MaxGen
  /\ active \in BOOLEAN /\ stopped \in BOOLEAN
  /\ count \in -1 .. MaxFlight /\ flight \in [Gens -> 0 .. MaxFlight]
  /\ tx \in {"idle", "high", "ask", "busy", "sent"}
  /\ comp \in {"no", "lock", "release"} /\ cdev \in 0 .. MaxGen
  /\ want \in BOOLEAN /\ rm \in {"off", "pending", "on"} /\ wakeWork \in BOOLEAN
  /\ susp \in {"no", "checked", "yes"} /\ ssr \in BOOLEAN
  /\ ntf \in {"idle", "stop", "remove", "probe"} /\ lost \in BOOLEAN

Locked == tx # "idle"
-----------------------------------------------------------------------------
\* ipa_wwan_open() and ipa_wwan_stop().
Open == /\ gen # 0 /\ ~active /\ ~Locked
        /\ active' = TRUE /\ stopped' = FALSE /\ lost' = FALSE
        /\ UNCHANGED <<gen, last, count, flight, cdev, tx, comp, rmVars, ntfVars>>
Close == /\ gen # 0 /\ active /\ ~Locked
         /\ active' = FALSE /\ stopped' = TRUE
         /\ UNCHANGED <<gen, last, count, flight, cdev, tx, comp, rmVars, ntfVars, lost>>

\* ipa_wwan_xmit(), holding the queue lock.  The network stack offers data
\* while the queue runs; a control packet (ctl) may pass a stopped queue.
Sendable(ctl) == IF stopped THEN ctl /\ count < HighCtl ELSE count < High \/ ctl

XmitHigh ==              \* the high water mark is reached ...
  /\ gen # 0 /\ active /\ ~Locked /\ ~stopped /\ count >= High
  /\ tx' = "high"
  /\ UNCHANGED <<devVars, stopped, comp, rmVars, ntfVars, lost>>
XmitStop ==              \* ... or the resource is not granted yet: stop
  /\ tx \in {"high", "busy"}
  /\ tx' = "idle" /\ stopped' = TRUE
  /\ UNCHANGED <<devVars, comp, rmVars, ntfVars, lost>>

\* ipa_rm_inactivity_timer_request_resource() sets its flag and unlocks ...
XmitAsk(ctl) ==
  /\ gen # 0 /\ active /\ ~Locked /\ Sendable(ctl) /\ flight[gen] < MaxFlight
  /\ want' = TRUE /\ tx' = "ask"
  /\ UNCHANGED <<devVars, stopped, comp, rm, wakeWork, ntfVars, lost>>
\* ... and asks the resource manager, which says -EINPROGRESS, ...
XmitBusy ==
  /\ tx = "ask" /\ rm # "on"
  /\ rm' = "pending" /\ tx' = "busy" /\ lost' = FALSE
  /\ UNCHANGED <<devVars, stopped, comp, want, wakeWork, ntfVars>>
\* ... or refuses, and the packet is dropped with nothing released.
XmitRefused ==
  /\ tx = "ask" /\ rm = "off"
  /\ tx' = "idle"
  /\ UNCHANGED <<devVars, stopped, comp, rmVars, ntfVars, lost>>

\* The request succeeds, and ipa2_tx_dp() takes the packet or does not.
XmitSend ==
  /\ tx = "ask" /\ rm = "on"
  /\ flight' = [flight EXCEPT ![gen] = @ + 1] /\ tx' = "sent"
  /\ UNCHANGED <<gen, last, active, count, cdev, stopped, comp, rmVars, ntfVars, lost>>
XmitFail ==              \* tx_dp fails: the stack keeps the packet, out: releases
  /\ tx = "ask" /\ rm = "on"
  /\ want' = FALSE /\ tx' = "idle"
  /\ UNCHANGED <<devVars, stopped, comp, rm, wakeWork, ntfVars, lost>>
XmitCount ==             \* counted once it is on its way, and the resource released
  /\ tx = "sent"
  /\ count' = count + 1 /\ want' = FALSE /\ tx' = "idle"
  /\ UNCHANGED <<gen, last, active, flight, cdev, stopped, comp, rm, wakeWork, ntfVars,
                 lost>>

\* apps_ipa_tx_complete_notify(): a packet of an earlier device is only freed.
IsMine(g) == g = gen
CompleteDec ==
  /\ comp = "no"
  /\ \E g \in Gens :
       /\ flight[g] > 0
       /\ flight' = [flight EXCEPT ![g] = @ - 1]
       /\ IF IsMine(g) THEN count' = count - 1 /\ comp' = "lock" /\ cdev' = g
                       ELSE UNCHANGED <<count, comp, cdev>>
  /\ UNCHANGED <<gen, last, active, stopped, tx, rmVars, ntfVars, lost>>
\* ... the section under the lock of its device's queue.  The device may be gone
\* by then: nothing waits for a completion that has passed the test.
BelowLow == count < Low
CompleteWake ==
  /\ comp = "lock" /\ comp' = "release"
  /\ \/ /\ cdev # gen /\ UNCHANGED <<stopped, lost>>
     \/ /\ cdev = gen /\ ~Locked
        /\ stopped' = (stopped /\ ~(~ssr /\ BelowLow))
        /\ lost' = (stopped' /\ (lost \/ BelowLow))
  /\ UNCHANGED <<devVars, tx, rmVars, ntfVars>>
\* ... and the release after the unlock, for whichever device there is by now.
CompleteRelease ==
  /\ comp = "release" /\ comp' = "no"
  /\ want' = FALSE
  /\ UNCHANGED <<devVars, stopped, tx, rm, wakeWork, ntfVars, lost>>

\* The resource manager grants the request; ipa_rm_notify().
GrantWakesOnce == active /\ ~wakeWork /\ count > 0 \* mutant: only with packets out
GrantWakes == active
Grant ==
  /\ rm = "pending" /\ rm' = "on"
  /\ wakeWork' = (wakeWork \/ GrantWakes)
  /\ UNCHANGED <<devVars, stopped, tx, comp, want, ntfVars, lost>>
\* wake_tx_queue()
WakeWork ==
  /\ wakeWork /\ ~Locked
  /\ wakeWork' = FALSE
  /\ stopped' = (stopped /\ gen = 0) /\ lost' = (lost /\ gen = 0)
  /\ UNCHANGED <<devVars, tx, comp, want, rm, ntfVars>>
\* The inactivity timer gives the unwanted resource back (LazyRelease), also one
\* that is not granted yet: the grant that would wake the queue does not come.
TimerRelease ==
  /\ ~want /\ rm # "off" /\ rm' = "off"
  /\ lost' = (lost \/ rm = "pending")
  /\ UNCHANGED <<devVars, stopped, tx, comp, want, wakeWork, ntfVars>>

\* rmnet_ipa_ap_suspend(): the check, then the queue lock, the stop, the release.
SuspendCheck ==
  /\ gen # 0 /\ susp = "no" /\ count = 0
  /\ susp' = "checked"
  /\ UNCHANGED <<devVars, stopped, tx, comp, rmVars, ssr, ntf, lost>>
Suspend ==
  /\ susp = "checked" /\ ~Locked
  /\ susp' = "yes" /\ stopped' = TRUE /\ rm' = "off"
  /\ UNCHANGED <<devVars, tx, comp, want, wakeWork, ssr, ntf, lost>>
\* rmnet_ipa_ap_resume()
ResumeWake == gen = 0 /\ stopped
Resume ==
  /\ susp = "yes" /\ susp' = "no"
  /\ stopped' = ResumeWake /\ lost' = (lost /\ (gen = 0 \/ tx = "busy"))
  /\ UNCHANGED <<devVars, tx, comp, rmVars, ssr, ntf>>

\* ssr_notifier_cb(SUBSYS_BEFORE_SHUTDOWN): is_ssr is set, then the queue is
\* stopped without its lock.
BeforeShutdown ==
  /\ gen # 0 /\ ntf = "idle" /\ susp # "checked" /\ last < MaxGen
  /\ ssr' = TRUE /\ ntf' = "stop"
  /\ UNCHANGED <<devVars, stopped, tx, comp, rmVars, susp, lost>>
StopQueue ==
  /\ ntf = "stop" /\ ntf' = "remove"
  /\ stopped' = TRUE
  /\ UNCHANGED <<devVars, tx, comp, rmVars, susp, ssr, lost>>
\* ... then ipa_wwan_remove(): unregister_netdev() closes the device and waits
\* for a transmission, but not for a completion.
Remove ==
  /\ ntf = "remove" /\ gen # 0 /\ ~Locked
  /\ ntf' = "idle" /\ gen' = 0 /\ active' = FALSE /\ stopped' = TRUE
  /\ want' = FALSE /\ rm' = "off" /\ wakeWork' = FALSE /\ lost' = FALSE
  /\ UNCHANGED <<last, count, flight, cdev, tx, comp, susp, ssr>>
\* ipa_wwan_probe(): a new device, with nothing outstanding and not open ...
FreshCount == 0
Probe ==
  /\ ntf = "idle" /\ gen = 0 /\ last < MaxGen
  /\ ntf' = "probe"
  /\ last' = last + 1 /\ gen' = last + 1 /\ count' = FreshCount
  /\ active' = FALSE /\ stopped' = FALSE
  /\ UNCHANGED <<flight, cdev, tx, comp, rmVars, susp, ssr, lost>>
\* ... and, once it is registered and may be open and sending, is_ssr is cleared.
ProbeDone ==
  /\ ntf = "probe" /\ ntf' = "idle"
  /\ ssr' = FALSE
  /\ UNCHANGED <<devVars, stopped, tx, comp, rmVars, susp, lost>>
-----------------------------------------------------------------------------
Init ==
  /\ gen = 0 /\ last = 0 /\ active = FALSE /\ stopped = TRUE /\ count = 0
  /\ flight = [g \in Gens |-> 0] /\ tx = "idle" /\ comp = "no" /\ cdev = 0
  /\ want = FALSE /\ rm = "off" /\ wakeWork = FALSE /\ susp = "no" /\ ssr = FALSE
  /\ ntf = "idle" /\ lost = FALSE
XmitAsked == XmitBusy \/ XmitRefused \/ XmitSend \/ XmitFail
Next ==
  \/ Open \/ Close \/ XmitHigh \/ XmitStop \/ XmitAsked \/ XmitCount
  \/ \E ctl \in BOOLEAN : XmitAsk(ctl)
  \/ CompleteDec \/ CompleteWake \/ CompleteRelease
  \/ Grant \/ WakeWork \/ TimerRelease
  \/ SuspendCheck \/ Suspend \/ Resume
  \/ BeforeShutdown \/ StopQueue \/ Remove \/ Probe \/ ProbeDone

\* A transmission that began ends; the IPA completes packets and its callback
\* runs; requests are granted; scheduled work runs; a suspend goes through and
\* the phone resumes; the shutdown notifier goes on to remove the device, and a
\* probe to its end.
Fairness ==
  /\ WF_vars(XmitStop) /\ WF_vars(XmitAsked) /\ WF_vars(XmitCount) /\ WF_vars(CompleteDec)
  /\ SF_vars(CompleteWake) /\ WF_vars(CompleteRelease) /\ WF_vars(Grant)
  /\ SF_vars(WakeWork) /\ WF_vars(Suspend) /\ WF_vars(Resume)
  /\ WF_vars(StopQueue \/ ProbeDone) /\ WF_vars(Remove)
Spec == Init /\ [][Next]_vars /\ Fairness
-----------------------------------------------------------------------------
\* The counter that stops the queue and vetoes suspend is the number of
\* packets this device has in flight, whatever the order in which transmit and
\* completion touch it and whatever an earlier device left behind; it is below
\* zero only while a packet completes before its own transmission counted it.
CountsInFlight ==
  gen # 0 => count = flight[gen] - (IF tx = "sent" THEN 1 ELSE 0)

\* A queue that was stopped at the high water mark still has the completion to
\* come that wakes it, or a grant, or a resume.  Two ways are left in which the
\* wake-up is lost: the release of a completion, made after its unlock, lands on
\* a request that is not granted yet, and the timer gives the request back; or
\* the last completion comes while the probe has not cleared is_ssr.
StoppedHasWaker ==
  (gen # 0 /\ active /\ stopped /\ ~ssr /\ ~lost) =>
    \/ count >= Low \/ comp = "lock" \/ rm = "pending" \/ wakeWork
    \/ susp = "yes" \/ Locked

\* An open device's queue does not stay stopped, unless control packets keep
\* being sent past it (each may hold the count at the low water mark) or its
\* wake-up was lost in one of those two ways.
QueueRunsAgain ==
  (gen # 0 /\ active /\ stopped)
    ~> (~stopped \/ ~active \/ gen = 0 \/ Locked \/ lost)
=============================================================================
