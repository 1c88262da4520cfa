------------------------------ MODULE SpsFifo ------------------------------
(***************************************************************************)
(* The descriptor FIFO of a system-mode BAM pipe (sps_bam.c).  The client  *)
(* writes descriptors at desc_offset, the hardware completes them up to    *)
(* its read offset, pipe_handler_eot() moves cache_offset up to what the   *)
(* hardware has completed, and sps_get_iovec() hands them back from        *)
(* acked_offset.                                                           *)
(* Offsets are counted in descriptors.  The pipe has SPS_O_ACK_TRANSFERS,  *)
(* as all pipes of the IPA driver, and none of NO_Q, HYBRID and LATE_EOT,  *)
(* which no client here sets.                                              *)
(*                                                                         *)
(* pipe_handler_eot() has two callers that hold different locks: the BAM   *)
(* interrupt (isr_lock) and, on a polled pipe, the client's own calls      *)
(* (connection_lock).  They are the contexts "isr" and "call".  The        *)
(* interrupt calls the client back, and a client such as the IPA answers   *)
(* by configuring the pipe for polling; it goes back to interrupts when it *)
(* finds the FIFO empty.  ipa_suspend_apps_pipes() also turns to polling   *)
(* outside the interrupt: SuspendSpec adds that step (ToPoll).             *)
(***************************************************************************)
EXTENDS Naturals, Sequences

CONSTANTS NumDescs, MaxXfers

Slots == 0 .. NumDescs - 1
Ctx   == {"isr", "call"}

VARIABLES
  polled,   \* pipe->polled; irq_mask holds SPS_O_EOT when it is FALSE
  irq,      \* EOT latched in the pipe's interrupt status
  desc, acked, cache,   \* sys.desc_offset, acked_offset, cache_offset
  rd,       \* the hardware's read offset
  buf,      \* sys.desc_buf: the number of the descriptor in each slot
  busy,     \* sys.handler_eot
  h,        \* each context's run of pipe_handler_eot()
  count,    \* descriptors submitted so far
  got       \* the descriptor handed back last

fifoVars == <<desc, buf, count>>
vars == <<polled, irq, desc, acked, cache, rd, buf, busy, h, count, got>>

Nxt(o) == (o + 1) % NumDescs
Dist(a, b) == (b + NumDescs - a) % NumDescs
Off == [pc |-> "off", off |-> 0, end |-> 0, enabled |-> FALSE]
After(c) == IF c = "isr" THEN Off ELSE [Off EXCEPT !.pc = "take"]

-----------------------------------------------------------------------------
\* sps_bam_get_free_count()
FreeCountOver == Dist(desc, acked) + (IF desc = acked THEN NumDescs ELSE 0)  \* mutant
FreeCount == Dist(Nxt(desc), acked)

\* sps_bam_pipe_transfer_one(), k times: write and number the descriptors.
Written(k) == [s \in Slots |-> IF Dist(desc, s) < k THEN count + Dist(desc, s) + 1
                                                    ELSE buf[s]]

\* sps_transfer(), sps_bam_pipe_transfer(): all descriptors or none; the hardware
\* sees them when the last one is written.
Transfer(k) ==
  /\ h["call"].pc = "off"
  /\ k <= FreeCount /\ count + k <= MaxXfers
  /\ buf' = Written(k)
  /\ desc' = (desc + k) % NumDescs
  /\ count' = count + k
  /\ UNCHANGED <<polled, irq, acked, cache, rd, busy, h, got>>

\* The hardware completes descriptors and latches EOT.
Complete ==
  /\ rd # desc
  /\ rd' = Nxt(rd) /\ irq' = TRUE
  /\ UNCHANGED <<polled, acked, cache, fifoVars, busy, h, got>>

-----------------------------------------------------------------------------
\* sps_bam_check_irq(), pipe_handler(): clear the status, and go on if an
\* interrupt source of the pipe is enabled.
IrqEnabled == ~polled
Isr ==
  /\ irq /\ IrqEnabled /\ h["isr"].pc = "off"
  /\ irq' = FALSE
  /\ h' = [h EXCEPT !["isr"].pc = "enter"]
  /\ UNCHANGED <<polled, acked, cache, rd, fifoVars, busy, got>>

\* sps_bam_pipe_get_iovec(): poll first if the pipe is polled.
GetIovec ==
  /\ h["call"].pc = "off"
  /\ h' = [h EXCEPT !["call"].pc = IF polled THEN "enter" ELSE "take"]
  /\ UNCHANGED <<polled, irq, acked, cache, rd, fifoVars, busy, got>>

\* ... then hand back the next descriptor of the cached ones.
Returns == acked # cache
TakeIovec ==
  /\ h["call"].pc = "take"
  /\ IF Returns THEN got' = buf[acked] /\ acked' = Nxt(acked)
                ELSE UNCHANGED <<got, acked>>
  /\ h' = [h EXCEPT !["call"] = Off]
  /\ UNCHANGED <<polled, irq, cache, rd, fifoVars, busy>>

\* pipe_handler_eot(): give up if another run is under way ...
Runs == ~busy
EotEnter(c) ==
  /\ h[c].pc = "enter"
  /\ h' = [h EXCEPT ![c] = IF Runs THEN [@ EXCEPT !.pc = "scan"] ELSE After(c)]
  /\ UNCHANGED <<polled, irq, acked, cache, rd, fifoVars, busy, got>>

\* ... mark it as running and read how far the hardware has come ...
EotScan(c) ==
  /\ h[c].pc = "scan"
  /\ IF cache = rd
     THEN busy' = FALSE /\ h' = [h EXCEPT ![c] = After(c)]
     ELSE /\ busy' = TRUE
          /\ h' = [h EXCEPT ![c] = [pc |-> "loop", off |-> cache, end |-> rd,
                                    enabled |-> ~polled]]
  /\ UNCHANGED <<polled, irq, acked, cache, rd, fifoVars, got>>

\* ... then per descriptor advance the offset, before the client hears of it.
EotStep(c) ==
  /\ h[c].pc = "loop"
  /\ LET off == Nxt(h[c].off) IN
       /\ cache' = off
       /\ h' = [h EXCEPT ![c].off = off,
                         ![c].pc = IF h[c].enabled THEN "event" ELSE "next"]
  /\ UNCHANGED <<polled, irq, acked, rd, fifoVars, busy, got>>

\* trigger_event(): the client's callback turns to polling.  sps_set_config()
\* needs connection_lock.
EotEvent(c) ==
  /\ h[c].pc = "event"
  /\ c = "isr" => h["call"].pc = "off"
  /\ polled' = TRUE
  /\ h' = [h EXCEPT ![c].pc = "next"]
  /\ UNCHANGED <<irq, acked, cache, rd, fifoVars, busy, got>>

EotNext(c) ==
  /\ h[c].pc = "next"
  /\ IF h[c].off = h[c].end
     THEN busy' = FALSE /\ h' = [h EXCEPT ![c] = After(c)]
     ELSE h' = [h EXCEPT ![c].pc = "loop"] /\ UNCHANGED busy
  /\ UNCHANGED <<polled, irq, acked, cache, rd, fifoVars, got>>

\* sps_set_config() by the client's own thread: back to interrupts once the
\* FIFO was found empty ...
ToIntrClears ==          \* mutant: drops the latched event
  /\ polled /\ h["call"].pc = "off" /\ acked = cache
  /\ polled' = FALSE /\ irq' = FALSE
  /\ UNCHANGED <<acked, cache, rd, fifoVars, busy, h, got>>
ToIntr ==
  /\ polled /\ h["call"].pc = "off" /\ acked = cache
  /\ polled' = FALSE
  /\ UNCHANGED <<irq, acked, cache, rd, fifoVars, busy, h, got>>

\* ... or to polling, after sps_is_pipe_empty() found completed descriptors.
ToPoll ==
  /\ ~polled /\ h["call"].pc = "off"
  /\ rd # acked
  /\ polled' = TRUE
  /\ UNCHANGED <<irq, acked, cache, rd, fifoVars, busy, h, got>>

-----------------------------------------------------------------------------
\* sps_bam_pipe_connect(), sps_bam_pipe_set_params()
Init ==
  /\ polled \in BOOLEAN /\ irq = FALSE
  /\ desc = 0 /\ acked = 0 /\ cache = 0 /\ rd = 0
  /\ buf = [s \in Slots |-> 0]
  /\ busy = FALSE /\ h = [c \in Ctx |-> Off]
  /\ count = 0 /\ got = 0

Handler(c) == EotEnter(c) \/ EotScan(c) \/ EotStep(c) \/ EotEvent(c) \/ EotNext(c)
Next == \/ \E k \in 1 .. NumDescs : Transfer(k)
        \/ Complete \/ Isr \/ GetIovec \/ TakeIovec \/ ToIntr
        \/ \E c \in Ctx : Handler(c)

\* The hardware works, interrupts are served, and the client that acknowledges
\* polls after every event and returns to interrupts afterwards.
Fairness == /\ WF_vars(Complete) /\ WF_vars(Isr) /\ WF_vars(polled /\ GetIovec)
            /\ WF_vars(TakeIovec) /\ SF_vars(ToIntr)
            /\ \A c \in Ctx : SF_vars(Handler(c))
Spec == Init /\ [][Next]_vars
SuspendSpec == Init /\ [][Next \/ ToPoll]_vars
-----------------------------------------------------------------------------
TypeOK ==
  /\ polled \in BOOLEAN /\ irq \in BOOLEAN /\ busy \in BOOLEAN
  /\ desc \in Slots /\ acked \in Slots /\ cache \in Slots /\ rd \in Slots
  /\ buf \in [Slots -> 0 .. MaxXfers]
  /\ h \in [Ctx -> [pc : {"off", "enter", "scan", "loop", "event", "next", "take"},
                    off : Slots, end : Slots, enabled : BOOLEAN]]
  /\ count \in 0 .. MaxXfers /\ got \in 0 .. MaxXfers

\* The four offsets keep their order around the ring: handed back, cached,
\* completed, written.
OffsetsInOrder ==
  /\ Dist(acked, rd) <= Dist(acked, desc)
  /\ Dist(acked, cache) <= Dist(acked, rd)

\* The pipe implements the bounded queue of DescQueue.
Slice(a, b) == [i \in 1 .. Dist(a, b) |-> buf[(a + i - 1) % NumDescs]]
Queue == INSTANCE DescQueue WITH
  Capacity <- NumDescs - 1, pending <- Slice(rd, desc), ready <- Slice(acked, rd)
ImplementsDescQueue == Queue!Spec

\* Every descriptor submitted is handed back in the end: no order of interrupt,
\* polling and mode switches loses the last event.
AllHandedBack == \A n \in 1 .. MaxXfers : (count >= n) ~> (got >= n)
=============================================================================
