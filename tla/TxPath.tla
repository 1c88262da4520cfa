------------------------------- MODULE TxPath -------------------------------
(***************************************************************************)
(* Sending on a system pipe (ipa_dp.c): ipa2_tx_dp(), ipa2_tx_dp_mul() and *)
(* ipa_send_cmd() put a wrapper per descriptor on sys->head_desc_list and  *)
(* the descriptors in the pipe; completions take wrappers from the head of *)
(* the list.  How a completion is noticed is the pipe's policy:            *)
(*   "intr"   one work item per transfer (ipa_sps_irq_tx_no_aggr_notify),  *)
(*   "poll"   the interrupt starts polling (ipa_sps_irq_tx_notify),        *)
(*   "noint"  the hardware reports a packet in a status element on another *)
(*            pipe (ipa_wq_write_done_status).                             *)
(* Packets are numbered in the order they are offered.  The pipe is not    *)
(* torn down while a caller sends.                                         *)
(***************************************************************************)
EXTENDS Integers, Sequences, SequencesExt, FiniteSets

CONSTANTS MaxPkts, MaxFrags, FifoSize

Policies == {"intr", "poll", "noint"}
LAST == 65535            \* IPA_LAST_DESC_CNT
Pkts == 1 .. MaxPkts

VARIABLES
  policy,    \* sys->policy
  list,      \* sys->head_desc_list: [pkt, cnt, cb]
  fifo,      \* descriptors the hardware still has: [pkt, eot]
  done,      \* completed descriptors sps_get_iovec() has not returned
  irq,       \* EOT latched in the pipe
  works,     \* queued work items and reported statuses, oldest first
  polling,   \* curr_polling_state
  poller,    \* sys->work: "off", "poll", "drain"
  offered,   \* packets offered so far
  sent,      \* packets the hardware was given
  called,    \* completion callbacks per packet
  mul,       \* ipa2_tx_dp_mul() under way: descriptors left and the step
  avail      \* ep->avail_fifo_desc

vars == <<policy, list, fifo, done, irq, works, polling, poller, offered, sent,
          called, mul, avail>>
hw == <<done, irq, works, polling, poller>>
NoMul == [left |-> 0, dec |-> FALSE]

-----------------------------------------------------------------------------
(* Sending *)
\* ipa_send(): wrapper i of n; the first holds the number of descriptors, the
\* last is marked.
WrapperCnt(n, i) == IF i = n /\ n > 1 THEN LAST ELSE IF i = 1 THEN n ELSE 0
Wrappers(p, cbs) ==
  [i \in 1 .. Len(cbs) |-> [pkt |-> p, cnt |-> WrapperCnt(Len(cbs), i), cb |-> cbs[i]]]
Descs(p, cbs) == [i \in 1 .. Len(cbs) |-> [pkt |-> p, eot |-> i = Len(cbs)]]

\* A pipe without interrupts first takes the descriptors completed so far.
DrainedDone == IF policy = "noint" THEN 0 ELSE done

\* ipa_send_one(), ipa_send(): all descriptors are given to the pipe, or the
\* wrappers put on the list before the failure are taken off again.
FailedList(p, cbs) == list
Send(p, cbs) ==
  LET room == FifoSize - Len(fifo) - DrainedDone IN
  \/ /\ Len(cbs) <= room
     /\ list' = list \o Wrappers(p, cbs) /\ fifo' = fifo \o Descs(p, cbs)
     /\ sent' = sent \cup {p} /\ done' = DrainedDone
  \/ /\ list' = FailedList(p, cbs)    \* no memory, or the pipe is full
     /\ done' \in {done, DrainedDone}
     /\ UNCHANGED <<fifo, sent>>

\* ipa2_tx_dp(): the skb is released with its last fragment; the software path
\* starts with a PACKET_INIT command, which frees itself.
FirstFrag(f) == [i \in 1 .. f + 1 |-> IF i = 1 THEN "done" ELSE "none"]   \* mutant
LastFrag(f) == [i \in 1 .. f + 1 |-> IF i = f + 1 THEN "done" ELSE "none"]
SkbCallbacks(sw, f) == (IF sw THEN <<"kfree">> ELSE <<>>) \o LastFrag(f)
TxDp(sw, f) ==
  /\ offered < MaxPkts /\ mul = NoMul
  /\ offered' = offered + 1
  /\ Send(offered + 1, SkbCallbacks(sw, f))
  /\ UNCHANGED <<policy, irq, works, polling, poller, called, mul, avail>>

\* ipa_send_cmd(): the callback of the last command wakes the waiting caller.
SendCmd(n) ==
  /\ offered < MaxPkts /\ mul = NoMul
  /\ offered' = offered + 1
  /\ Send(offered + 1, LastFrag(n - 1))
  /\ UNCHANGED <<policy, irq, works, polling, poller, called, mul, avail>>

\* ipa2_tx_dp_mul(): refused if the count of free descriptors is too small ...
TxDpMul(n) ==
  /\ policy = "intr" /\ mul = NoMul
  /\ offered + n <= MaxPkts /\ n <= avail
  /\ mul' = [left |-> n, dec |-> FALSE]
  /\ UNCHANGED <<policy, list, fifo, hw, offered, sent, called, avail>>

\* ... then one ipa_send_one() per descriptor; the first failure ends the call ...
MulSend ==
  /\ mul.left > 0 /\ ~mul.dec
  /\ offered' = offered + 1
  /\ Send(offered + 1, <<IF mul.left = 1 THEN "mul" ELSE "part">>)
  /\ mul' = IF sent' = sent THEN NoMul ELSE [mul EXCEPT !.dec = TRUE]
  /\ UNCHANGED <<policy, irq, works, polling, poller, called, avail>>

\* ... and the count goes down after the descriptor was sent.
MulDec ==
  /\ mul.dec
  /\ avail' = IF avail >= 0 THEN avail - 1 ELSE avail
  /\ mul' = [left |-> mul.left - 1, dec |-> FALSE]
  /\ UNCHANGED <<policy, list, fifo, hw, offered, sent, called>>

-----------------------------------------------------------------------------
(* Completion *)
\* The hardware completes the oldest descriptor; the end of a transfer raises
\* an event of the pipe, or a status.
HwComplete ==
  /\ fifo # <<>>
  /\ fifo' = Tail(fifo)
  /\ done' = IF policy = "intr" THEN done ELSE done + 1
  /\ works' = IF policy # "poll" /\ fifo[1].eot THEN Append(works, fifo[1].pkt) ELSE works
  /\ irq' = (irq \/ (policy = "poll" /\ fifo[1].eot))
  /\ UNCHANGED <<policy, list, polling, poller, offered, sent, called, mul, avail>>

\* ipa_tx_client_rx_notify_release(), ipa_tx_client_rx_pkt_status(): callbacks
\* that give a descriptor back to avail_fifo_desc.
Credit == {"mul", "part"}

\* ipa_wq_write_done_common(): take n wrappers off the list and call back.
WriteDoneCommon(n) ==
  LET k == IF n < Len(list) THEN n ELSE Len(list)
      popped(p, cbs) == Cardinality({i \in 1 .. k : list[i].pkt = p /\ list[i].cb \in cbs}) IN
  /\ list' = SubSeq(list, k + 1, Len(list))
  /\ called' = [p \in Pkts |-> called[p] + popped(p, Credit \cup {"done"})]
  /\ avail' = avail + Cardinality({i \in 1 .. k : list[i].cb \in Credit})

\* ipa_wq_write_done(): the work item of packet p; its first wrapper has cnt.
\* ipa_wq_write_done_status(): whatever packet is at the head of the list.
CntOf(p) == LET i == SelectInSeq(list, LAMBDA w : w.pkt = p /\ w.cnt > 0)
            IN IF i = 0 THEN 0 ELSE list[i].cnt
WriteDone ==
  /\ works # <<>>
  /\ works' = Tail(works)
  /\ WriteDoneCommon(IF policy = "intr" THEN CntOf(works[1])
                     ELSE IF list = <<>> THEN 0 ELSE list[1].cnt)
  /\ UNCHANGED <<policy, fifo, done, irq, polling, poller, offered, sent, mul>>

\* ipa_sps_irq_tx_notify()
TxNotify ==
  /\ irq /\ ~polling
  /\ irq' = FALSE /\ polling' = TRUE /\ poller' = "poll"
  /\ UNCHANGED <<policy, list, fifo, done, works, offered, sent, called, mul, avail>>

\* ipa_handle_tx_core(): one iovec, one wrapper, while the mode is the one the
\* caller expects.
HandleTxCore ==
  /\ poller # "off" /\ polling = (poller = "poll") /\ done > 0
  /\ done' = done - 1
  /\ WriteDoneCommon(1)
  /\ UNCHANGED <<policy, fifo, irq, works, polling, poller, offered, sent, mul>>

\* ipa_handle_tx(), ipa_tx_switch_to_intr_mode(): enough idle cycles; then drain
\* once more with interrupts enabled.
SwitchToIntr ==
  /\ poller = "poll" /\ done = 0
  /\ polling' = FALSE /\ poller' = "drain"
  /\ UNCHANGED <<policy, list, fifo, done, irq, works, offered, sent, called, mul, avail>>
DrainEnds ==
  /\ poller = "drain" /\ (done = 0 \/ polling)
  /\ poller' = IF polling THEN "poll" ELSE "off"
  /\ UNCHANGED <<policy, list, fifo, done, irq, works, polling, offered, sent, called, mul, avail>>
-----------------------------------------------------------------------------
\* assign_policy(), ipa2_setup_sys_pipe()
Init ==
  /\ policy \in Policies /\ list = <<>> /\ fifo = <<>> /\ done = 0 /\ irq = FALSE
  /\ works = <<>> /\ polling = FALSE /\ poller = "off"
  /\ offered = 0 /\ sent = {} /\ called = [p \in Pkts |-> 0]
  /\ mul = NoMul /\ avail = FifoSize

Completion == HwComplete \/ WriteDone \/ TxNotify \/ HandleTxCore \/ SwitchToIntr \/ DrainEnds
Next == \/ \E sw \in BOOLEAN, f \in 0 .. MaxFrags : TxDp(sw, f)
        \/ \E n \in 1 .. 2 : SendCmd(n)
        \/ \E n \in 1 .. 2 : TxDpMul(n)
        \/ MulSend \/ MulDec
        \/ Completion

\* The hardware and the pipe's single-threaded workqueue make progress.
Fairness == WF_vars(Completion)
Spec == Init /\ [][Next]_vars
-----------------------------------------------------------------------------
\* The wrapper list and the hardware stay in step: the descriptors still in the
\* hardware are the last ones of the list.
ListInStep ==
  /\ Len(fifo) <= Len(list)
  /\ \A i \in 1 .. Len(fifo) : list[Len(list) - Len(fifo) + i].pkt = fifo[i].pkt

\* A packet's owner is called back at most once, only if the packet was sent,
\* and never while the hardware still reads one of its buffers.
CalledBackOnce == \A p \in Pkts :
  /\ called[p] <= 1
  /\ called[p] = 1 => p \in sent /\ \A i \in 1 .. Len(fifo) : fifo[i].pkt # p

\* The count of free descriptors adds up with the descriptors of
\* ipa2_tx_dp_mul() in flight and the one not counted yet.
AvailAddsUp ==
  avail = FifoSize - Cardinality({i \in 1 .. Len(list) : list[i].cb \in {"mul", "part"}})
          + (IF mul.dec THEN 1 ELSE 0)

\* Every packet sent is called back in the end, whichever policy notices it; a
\* command's caller waits for this without a timeout.
AllCalledBack == \A p \in Pkts : (p \in sent) ~> (called[p] = 1)
=============================================================================
