------------------------------- MODULE IpaDma -------------------------------
(* Copying memory with the IPA (ipa_dma.c): synchronous copies, whose callers*)
(* queue up and poll one after the other, asynchronous ones, which end in a  *)
(* callback, and copies by the microcontroller.  Counters of copies under way*)
(* keep the clock vote while there is work and let ipa2_dma_destroy() wait   *)
(* for the last one.                                                         *)
EXTENDS Naturals, Sequences, FiniteSets, SequencesExt

CONSTANTS
  Workers,      \* threads that copy
  MaxPending,   \* IPA_DMA_MAX_PENDING_SYNC and _ASYNC
  MaxInits      \* bound on the calls to ipa2_dma_init()

VARIABLES
  inits, up,    \* calls so far; ipa_dma_ctx # NULL
  enabled,      \* is_enabled
  votes,        \* clock votes of "DMA"
  forgotten,    \* history: votes left by a destroy while enabled
  pend,         \* the three counters of pending copies
  pc, kind,     \* per worker: where it is, in which of the three calls
  own,          \* per worker: the copy it polled for was its own
  queue,        \* head_desc_list of the synchronous consumer: workers
  fifo,         \* descriptors in its pipe: workers
  woken,        \* workers whose xfer_done is complete
  async,        \* asynchronous copies in the pipe, and in its head_desc_list
  cb,           \* ipa_dma_async_memcpy_notify_cb(): "none" or "signal"
  destroy,      \* ipa2_dma_destroy(): "none", "flag", "wait" or "tear"
  flag, done,   \* destroy_pending; the completion done
  lostRace,     \* history: why destroy waits for a completion nobody gives
  late          \* workers, and "async", that started after destroy looked

vars == <<inits, up, enabled, votes, forgotten, pend, pc, kind, own, queue, fifo, woken,
          async, cb, destroy, flag, done, lostRace, late>>
clock == <<inits, up, enabled, votes, forgotten>>
pipes == <<own, queue, fifo, woken, async>>

Kinds == {"sync", "async", "uc"}
WorkPending == \E k \in Kinds : pend[k] > 0
Step(w, at) == pc' = [pc EXCEPT ![w] = at]
Return(w) == Step(w, "idle") /\ kind' = [kind EXCEPT ![w] = "sync"]
Drop(k) == pend' = [pend EXCEPT ![k] = @ - 1]

Init ==
  /\ inits = 0 /\ up = FALSE /\ enabled = FALSE /\ votes = 0 /\ forgotten = 0
  /\ pend = [k \in Kinds |-> 0]
  /\ pc = [w \in Workers |-> "idle"] /\ kind = [w \in Workers |-> "sync"]
  /\ own = [w \in Workers |-> TRUE]
  /\ queue = <<>> /\ fifo = <<>> /\ woken = {} /\ async = 0
  /\ cb = "none" /\ destroy = "none" /\ flag = FALSE /\ done = FALSE
  /\ lostRace = {} /\ late = {}

-----------------------------------------------------------------------------
(* Set-up and clocks *)

DmaInit ==
  /\ ~up /\ inits < MaxInits
  /\ inits' = inits + 1 /\ up' = TRUE /\ enabled' = FALSE
  /\ flag' = FALSE /\ done' = FALSE /\ lostRace' = {} /\ late' = {}
  /\ UNCHANGED <<votes, forgotten, pend, pc, kind, pipes, cb, destroy>>

DmaEnable ==
  /\ up /\ ~enabled
  /\ enabled' = TRUE /\ votes' = votes + 1
  /\ UNCHANGED <<inits, up, forgotten, pend, pc, kind, pipes, cb, destroy, flag, done,
                 lostRace, late>>

\* A plausible slip: only the synchronous copies are looked at.
DmaDisableSyncOnly ==
  /\ up /\ enabled /\ pend["sync"] = 0
  /\ enabled' = FALSE /\ votes' = votes - 1
  /\ UNCHANGED <<inits, up, forgotten, pend, pc, kind, pipes, cb, destroy, flag, done,
                 lostRace, late>>

DmaDisable ==
  /\ up /\ enabled /\ ~WorkPending
  /\ enabled' = FALSE /\ votes' = votes - 1
  /\ UNCHANGED <<inits, up, forgotten, pend, pc, kind, pipes, cb, destroy, flag, done,
                 lostRace, late>>

-----------------------------------------------------------------------------
(* The three copies *)

\* is_enabled is tested and the copy counted under pending_lock.
MemcpyStart(w, k) ==
  /\ pc[w] = "idle" /\ up /\ enabled
  /\ kind' = [kind EXCEPT ![w] = k]
  /\ pend' = [pend EXCEPT ![k] = @ + 1]
  /\ late' = IF destroy = "tear" \/ done THEN late \cup {w} ELSE late
  /\ Step(w, IF k = "uc" THEN "copy" ELSE "counted")
  /\ UNCHANGED <<clock, pipes, cb, destroy, flag, done, lostRace>>

\* Too many.  The limit is tested without a lock, so the copies that made it too many
\* may be over when the caller goes; it does so without a look at destroy_pending.
AtLimit(w) ==
  /\ pc[w] = "counted" /\ pend[kind[w]] >= MaxPending
  /\ Step(w, "over")
  /\ UNCHANGED <<clock, pend, kind, pipes, cb, destroy, flag, done, lostRace, late>>

TurnedAway(w) ==
  /\ pc[w] = "over"
  /\ Drop(kind[w])
  /\ lostRace' = IF destroy \in {"flag", "wait"} /\ ~WorkPending'
                 THEN lostRace \cup {"limit"} ELSE lostRace
  /\ late' = late \ {w}
  /\ Return(w)
  /\ UNCHANGED <<clock, pipes, cb, destroy, flag, done>>

BelowLimit(w) ==
  /\ pc[w] = "counted" /\ pend[kind[w]] < MaxPending
  /\ Step(w, "post")
  /\ UNCHANGED <<clock, pend, kind, pipes, cb, destroy, flag, done, lostRace, late>>

\* No memory for the wrapper, or sps_transfer_one() refused.
PostFails(w) ==
  /\ pc[w] = "post"
  /\ Step(w, "dec")
  /\ UNCHANGED <<clock, pend, kind, pipes, cb, destroy, flag, done, lostRace, late>>

SyncPost(w) ==
  /\ pc[w] = "post" /\ kind[w] = "sync"
  /\ queue' = Append(queue, w) /\ fifo' = Append(fifo, w)
  /\ Step(w, IF queue = <<>> THEN "poll" ELSE "wait")
  /\ UNCHANGED <<clock, pend, kind, own, woken, async, cb, destroy, flag, done, lostRace, late>>

SyncWoken(w) ==
  /\ pc[w] = "wait" /\ w \in woken
  /\ woken' = woken \ {w}
  /\ Step(w, "poll")
  /\ UNCHANGED <<clock, pend, kind, own, queue, fifo, async, cb, destroy, flag, done,
                 lostRace, late>>

\* sps_get_iovec() hands back the oldest finished descriptor of the pipe.
SyncPoll(w) ==
  /\ pc[w] = "poll" /\ fifo # <<>>
  /\ own' = [own EXCEPT ![w] = Head(fifo) = w]
  /\ fifo' = Tail(fifo)
  /\ Step(w, "unlink")
  /\ UNCHANGED <<clock, pend, kind, queue, woken, async, cb, destroy, flag, done, lostRace, late>>

\* The caller leaves the list and wakes the next one.
SyncUnlink(w) ==
  /\ pc[w] = "unlink"
  /\ \E i \in DOMAIN queue :
       /\ queue[i] = w
       /\ queue' = RemoveAt(queue, i)
       /\ woken' = IF queue' = <<>> THEN woken ELSE woken \cup {Head(queue')}
  /\ Step(w, "dec")
  /\ UNCHANGED <<clock, pend, kind, own, fifo, async, cb, destroy, flag, done, lostRace, late>>

AsyncPost(w) ==
  /\ pc[w] = "post" /\ kind[w] = "async"
  /\ async' = async + 1
  /\ late' = IF w \in late THEN (late \ {w}) \cup {"async"} ELSE late
  /\ Return(w)
  /\ UNCHANGED <<clock, pend, own, queue, fifo, woken, cb, destroy, flag, done, lostRace>>

UcMemcpy(w) ==
  /\ pc[w] = "copy"
  /\ Step(w, "dec")
  /\ UNCHANGED <<clock, pend, kind, pipes, cb, destroy, flag, done, lostRace, late>>

\* What a finished copy tells destroy: nothing while the flag is down.
Signal == done' = (done \/ (flag /\ ~WorkPending))
Unheard == lostRace' = IF destroy = "flag" /\ ~WorkPending THEN lostRace \cup {"early"}
                                                           ELSE lostRace

\* The last copy may end after destroy saw it and before the flag is up.
MemcpyDec(w) ==
  /\ pc[w] = "dec"
  /\ Drop(kind[w])
  /\ Step(w, "signal")
  /\ UNCHANGED <<clock, kind, pipes, cb, destroy, flag, done, lostRace, late>>

MemcpySignal(w) ==
  /\ pc[w] = "signal"
  /\ Signal
  /\ Unheard
  /\ late' = late \ {w}
  /\ Return(w)
  /\ UNCHANGED <<clock, pend, pipes, cb, destroy, flag>>

\* ipa_dma_async_memcpy_notify_cb(): the counter drops before the callback.
NotifyCb ==
  /\ cb = "none" /\ async > 0
  /\ async' = async - 1
  /\ Drop("async")
  /\ cb' = "signal"
  /\ UNCHANGED <<clock, pc, kind, own, queue, fifo, woken, destroy, flag, done, lostRace, late>>

NotifySignal ==
  /\ cb = "signal"
  /\ cb' = "none"
  /\ Signal
  /\ Unheard
  /\ UNCHANGED <<clock, pend, pc, kind, pipes, destroy, flag, late>>

-----------------------------------------------------------------------------
(* ipa2_dma_destroy() *)

DmaDestroy ==
  /\ up /\ destroy = "none"
  /\ destroy' = IF WorkPending THEN "flag" ELSE "tear"
  /\ UNCHANGED <<clock, pend, pc, kind, pipes, cb, flag, done, lostRace, late>>

DestroyFlag ==
  /\ destroy = "flag"
  /\ flag' = TRUE /\ destroy' = "wait"
  /\ UNCHANGED <<clock, pend, pc, kind, pipes, cb, done, lostRace, late>>

DestroyWoken ==
  /\ destroy = "wait" /\ done
  /\ done' = FALSE /\ destroy' = "tear"
  /\ UNCHANGED <<clock, pend, pc, kind, pipes, cb, flag, lostRace, late>>

\* The pipes go, and with them what is still in them.
DestroyTear ==
  /\ destroy = "tear"
  /\ up' = FALSE /\ enabled' = FALSE
  /\ forgotten' = IF enabled THEN forgotten + 1 ELSE forgotten
  /\ destroy' = "none"
  /\ pend' = [k \in Kinds |-> 0]
  /\ pc' = [w \in Workers |-> "idle"] /\ kind' = [w \in Workers |-> "sync"]
  /\ queue' = <<>> /\ fifo' = <<>> /\ woken' = {} /\ async' = 0 /\ cb' = "none"
  /\ UNCHANGED <<inits, votes, own, flag, done, lostRace, late>>

-----------------------------------------------------------------------------
Copy(w) ==
  \/ \E k \in Kinds : MemcpyStart(w, k)
  \/ AtLimit(w) \/ TurnedAway(w) \/ BelowLimit(w) \/ PostFails(w) \/ AsyncPost(w) \/ UcMemcpy(w)
  \/ SyncPost(w) \/ SyncWoken(w) \/ SyncPoll(w) \/ SyncUnlink(w)
  \/ MemcpyDec(w) \/ MemcpySignal(w)
Next ==
  \/ DmaInit \/ DmaEnable \/ DmaDisable
  \/ \E w \in Workers : Copy(w)
  \/ NotifyCb \/ NotifySignal
  \/ DmaDestroy \/ DestroyFlag \/ DestroyWoken \/ DestroyTear
Spec == Init /\ [][Next]_vars

-----------------------------------------------------------------------------
Busy(w) == pc[w] \notin {"idle", "signal"}

\* The IPA has its clock while anything is being copied, and the only votes that
\* outlive the driver are those of a destroy while it was enabled
\* (ipa2_dma_disable() against the counters under pending_lock).
CopiesAreClocked ==
  /\ votes = forgotten + IF enabled THEN 1 ELSE 0
  /\ (\E w \in Workers : Busy(w)) \/ async > 0 => enabled

\* Every synchronous caller polls out its own copy, one caller polls at a time,
\* and the list of waiting callers never empties while one of them sleeps
\* (ipa_assert_on(dest != iov.addr) and the hand-over of xfer_done).
HandOver ==
  /\ \A w \in Workers : own[w]
  /\ Cardinality({w \in Workers : pc[w] \in {"poll", "unlink"}}) <= 1
  /\ \A w \in Workers :
       pc[w] = "wait" => w \in woken \/ \E x \in Workers : pc[x] \in {"poll", "unlink"}
                                     \/ \E y \in woken : pc[y] = "wait"

\* The descriptor FIFOs of the two pipes never overflow, although the limit is
\* tested after the copy was counted and without a lock.
FifoHasRoom == Len(fifo) < MaxPending /\ async < MaxPending

\* ipa2_dma_destroy() is woken when the last copy is over, but for the two lost
\* wake-ups of the code: the copy ended between destroy's look at the counters
\* and its flag, or the last to leave was a caller turned away at the limit.
DestroyIsWoken ==
  destroy = "wait" /\ ~WorkPending /\ cb = "none" /\ (\A w \in Workers : pc[w] = "idle")
    => done \/ lostRace # {}

\* No copy that was under way when ipa2_dma_destroy() looked at the counters is
\* still in the pipes when it tears them down.
TearsDownIdlePipes ==
  destroy = "tear" => /\ \A w \in Workers : Busy(w) => w \in late
                      /\ async > 0 => "async" \in late
=============================================================================
