------------------------------ MODULE RxBuffers ------------------------------
(***************************************************************************)
(* The buffers of a receive pipe (ipa_dp.c).  sys->head_desc_list is kept  *)
(* in the order of the descriptors in the pipe.  Its buffers come from     *)
(* ipa_replenish_rx_cache() (mode "plain", which allocates them) or        *)
(* ipa_fast_replenish_rx_cache() (mode "fast"), which takes them from a    *)
(* ring that ipa_wq_repl_rx() fills in a workqueue of its own, with no     *)
(* lock between the two.                                                   *)
(* The receive handler and replenish_rx_work run on sys->wq, one at a      *)
(* time; under NAPI the handler polls in a softirq, and only the fast      *)
(* replenishing, which is all under sys->spinlock, is followed there.      *)
(* Buffers are numbered; an allocation takes an unused one, for a slot of  *)
(* the ring one of the slot's own if there is one.                         *)
(*                                                                         *)
(* Two races are followed and named.  ipa2_setup_sys_pipe() fills the pipe *)
(* with ipa_replenish_rx_cache(), which puts a buffer on the list under    *)
(* the lock and into the pipe after it: a handler that replenishes between *)
(* the two leaves them in another order (crossed).  And                    *)
(* ipa2_teardown_sys_pipe() cancels replenish_rx_work before it flushes    *)
(* sys->wq, where a handler may queue it again (late).                     *)
(***************************************************************************)
EXTENDS Integers, Sequences, SequencesExt, FiniteSets, FiniteSetsExt

CONSTANTS PoolSize,     \* sys->rx_pool_sz
          Threshold,    \* ep->rx_replenish_threshold
          TrigThresh    \* sys->repl_trig_thresh

Capacity == PoolSize + 1                 \* repl.capacity
Bufs == 1 .. 2 * PoolSize + 3
Slots == 0 .. Capacity - 1

VARIABLES
  mode,              \* the replenish handler
  phase,             \* "down", "filling" (set up), "up" or "flushing" (torn down)
  list,              \* sys->head_desc_list (sys->len is its length)
  posted, filled,    \* the pipe's descriptors, without and with data
  adding, cached,    \* while filling: the buffer listed and not yet posted; rx_len_cached
  handling,          \* a packet was taken, repl_hdlr is still to be called
  delayed,           \* replenish_rx_work is queued
  head, tail, cache, \* sys->repl
  trig,              \* repl_trig_cnt % repl_trig_thresh
  prod, held, curr,  \* ipa_wq_repl_rx(): its step, its buffer, its index
  owned,             \* the buffers allocated and not freed or passed on
  race               \* ghost: "none", or the race that was met

ring == <<head, tail, cache>>
producer == <<prod, held, curr>>
fill == <<adding, cached>>
vars == <<mode, phase, list, posted, filled, fill, handling, delayed, ring, trig,
          producer, owned, race>>

InRing == (tail + Capacity - head) % Capacity
RingBufs == [i \in 1 .. InRing |-> cache[(head + i - 1) % Capacity]]
Unused == Bufs \ owned
ForSlot(s) == LET own == {b \in Unused : (b - 1) % Capacity = s} IN
              Min(IF own = {} THEN Unused ELSE own)
Fresh(n) == CHOOSE s \in [1 .. n -> Unused] : IsInjective(s)

-----------------------------------------------------------------------------
(* The ring's producer, ipa_wq_repl_rx() *)
RingFull == (curr + 1) % Capacity = head

ReplStart ==
  /\ prod = "queued"
  /\ prod' = "alloc" /\ curr' = tail
  /\ UNCHANGED <<mode, phase, list, posted, filled, fill, handling, delayed, race, ring,
                 trig, held, owned>>

\* The ring is full, or an allocation fails: try again only if it is empty.
AfterFailure == IF tail = head THEN "alloc" ELSE "off"
ReplAlloc(ok) ==
  /\ prod = "alloc"
  /\ IF ok /\ ~RingFull
     THEN prod' = "write" /\ held' = ForSlot(curr) /\ owned' = owned \cup {held'}
     ELSE prod' = AfterFailure /\ UNCHANGED <<held, owned>>
  /\ UNCHANGED <<mode, phase, list, posted, filled, fill, handling, delayed, race, ring,
                 trig, curr>>

\* The slot is written before the index is published (mb()).
ReplWrite ==
  /\ prod = "write"
  /\ cache' = [cache EXCEPT ![curr] = held]
  /\ prod' = "publish"
  /\ UNCHANGED <<mode, phase, list, posted, filled, fill, handling, delayed, race, head,
                 tail, trig, held, curr, owned>>
ReplPublish ==
  /\ prod = "publish"
  /\ tail' = (curr + 1) % Capacity /\ curr' = (curr + 1) % Capacity
  /\ held' = 0 /\ prod' = "alloc"
  /\ UNCHANGED <<mode, phase, list, posted, filled, fill, handling, delayed, race, head,
                 cache, trig, owned>>

-----------------------------------------------------------------------------
(* Replenishing *)
Lack == IF Len(list) < PoolSize THEN PoolSize - Len(list) ELSE 0
Post(new) == list' = list \o new /\ posted' = posted \o new
Queue == IF prod = "off" THEN "queued" ELSE prod

Reschedule(n) == n <= Threshold

HeadAfterOneLess(k) == (head + k + Capacity - 1) % Capacity   \* mutant
HeadAfter(k) == (head + k) % Capacity
\* The slots the buffers came from; what they still hold nobody reads.
Taken(k) == {(head + i - 1) % Capacity : i \in 1 .. k}

\* ipa_fast_replenish_rx_cache(): k buffers from the ring; fewer than asked for
\* when the pipe refuses one or the ring is empty.  waits: the work is queued already.
FastReplenish(k, waits) ==
  LET new == SubSeq(RingBufs, 1, k)
      empty == k = InRing /\ k < Lack
      low == Reschedule(Len(list) + k)
      trigger == (trig + k) % TrigThresh = 0 IN
  /\ mode = "fast" /\ k <= Lack /\ k <= InRing
  /\ Post(new)
  /\ head' = HeadAfter(k)
  /\ prod' = IF empty \/ trigger THEN Queue ELSE prod
  /\ trig' = IF low THEN 0 ELSE (trig + k) % TrigThresh
  /\ delayed' = (waits \/ low)
  /\ cache' = [s \in Slots |-> IF s \in Taken(k) THEN 0 ELSE cache[s]]
  /\ UNCHANGED <<tail, held, curr, owned>>

\* ipa_replenish_rx_cache(): until the pool is full or something fails.
PlainReplenish(k, waits) ==
  /\ mode = "plain" /\ k <= Lack
  /\ Post(Fresh(k))
  /\ delayed' = (waits \/ (k < Lack /\ Len(list) + k = 0))
  /\ owned' = owned \cup Range(Fresh(k))
  /\ UNCHANGED <<ring, trig, producer>>

Replenish(k, waits) ==
  /\ FastReplenish(k, waits) \/ PlainReplenish(k, waits)
  /\ race' = IF adding # <<>> /\ k > 0 THEN "crossed" ELSE race
  /\ UNCHANGED fill

\* The hardware fills the oldest buffer.
Receive ==
  /\ posted # <<>>
  /\ filled' = Append(filled, posted[1]) /\ posted' = Tail(posted)
  /\ UNCHANGED <<mode, phase, list, fill, handling, delayed, ring, trig, producer,
                 owned, race>>

\* ipa_wq_rx_common(): the first wrapper belongs to the oldest filled buffer ...
RxCommon ==
  /\ filled # <<>> /\ ~handling
  /\ list' = Tail(list) /\ filled' = Tail(filled)
  /\ owned' = owned \ {list[1]}
  /\ handling' = TRUE
  /\ UNCHANGED <<mode, phase, posted, fill, delayed, ring, trig, producer, race>>

\* ... and after its payload the pipe is replenished.
RxReplenish(k) ==
  /\ handling /\ Replenish(k, delayed)
  /\ handling' = FALSE
  /\ UNCHANGED <<mode, phase, filled>>

\* replenish_rx_work_func()
ReplenishWork(k) ==
  /\ phase # "down" /\ delayed /\ (handling => mode = "fast") /\ Replenish(k, FALSE)
  /\ UNCHANGED <<mode, phase, filled, handling>>

-----------------------------------------------------------------------------
(* ipa2_setup_sys_pipe() *)

\* The pipe is connected; ipa_wq_repl_rx() is called for the first j buffers of the
\* ring.  Without memory for the ring (j = 0) replenish plainly from then on.
Setup(j) ==
  /\ phase = "down"
  /\ phase' = "filling" /\ mode' = IF j > 0 THEN "fast" ELSE "plain"
  /\ delayed' = FALSE /\ trig' = 0 /\ cached' = 0
  /\ head' = 0 /\ tail' = j
  /\ cache' = [s \in Slots |-> IF s < j THEN s + 1 ELSE 0]
  /\ owned' = 1 .. j
  /\ UNCHANGED <<list, posted, filled, adding, handling, producer, race>>

\* Then ipa_replenish_rx_cache() in either mode, beside a handler for what has arrived.
\* rx_len_cached is the length when it last added one.
FillAdd ==
  /\ phase = "filling" /\ adding = <<>> /\ cached < PoolSize
  /\ adding' = <<Min(Unused)>> /\ list' = list \o adding'
  /\ cached' = Len(list')
  /\ owned' = owned \cup {Min(Unused)}
  /\ UNCHANGED <<mode, phase, posted, filled, handling, delayed, ring, trig, producer,
                 race>>

FillPost ==
  /\ adding # <<>>
  /\ posted' = posted \o adding /\ adding' = <<>>
  /\ UNCHANGED <<mode, phase, list, filled, cached, handling, delayed, ring, trig,
                 producer, owned, race>>

\* The pipe refuses the buffer: it is taken off the list again.
FillRefused ==
  /\ adding # <<>>
  /\ \E i \in DOMAIN list : list[i] = adding[1] /\ list' = RemoveAt(list, i)
  /\ owned' = owned \ {adding[1]} /\ adding' = <<>>
  /\ phase' = "up" /\ cached' = 0 /\ delayed' = (delayed \/ Len(list') = 0)
  /\ UNCHANGED <<mode, posted, filled, handling, ring, trig, producer, race>>

\* The pool is full, or an allocation fails.
FillEnd ==
  /\ phase = "filling" /\ adding = <<>>
  /\ phase' = "up" /\ cached' = 0 /\ delayed' = (delayed \/ (cached = 0 /\ PoolSize > 0))
  /\ UNCHANGED <<mode, list, posted, filled, adding, handling, ring, trig, producer,
                 owned, race>>

(* ipa2_teardown_sys_pipe() *)

\* cancel_delayed_work_sync(&replenish_rx_work)
TeardownCancel ==
  /\ phase = "up"
  /\ phase' = "flushing" /\ delayed' = FALSE
  /\ UNCHANGED <<mode, list, posted, filled, fill, handling, ring, trig, producer,
                 owned, race>>

\* flush_workqueue(sys->wq) waits for the handler, not for a delayed work; disconnect,
\* flush repl_wq; ipa_cleanup_rx() frees the list and what is in the ring.
TeardownEnd ==
  /\ phase = "flushing" /\ ~handling /\ prod = "off"
  /\ phase' = "down" /\ race' = IF delayed THEN "late" ELSE race
  /\ list' = <<>> /\ posted' = <<>> /\ filled' = <<>> /\ head' = tail
  /\ owned' = owned \ (Range(list) \cup Range(RingBufs))
  /\ UNCHANGED <<mode, fill, handling, delayed, tail, cache, trig, producer>>
-----------------------------------------------------------------------------
Init ==
  /\ mode = "plain" /\ phase = "down" /\ list = <<>> /\ posted = <<>> /\ filled = <<>>
  /\ adding = <<>> /\ cached = 0 /\ handling = FALSE /\ delayed = FALSE
  /\ head = 0 /\ tail = 0 /\ cache = [s \in Slots |-> 0] /\ trig = 0
  /\ prod = "off" /\ held = 0 /\ curr = 0 /\ owned = {}
  /\ race = "none"

Step == \/ ReplStart \/ (\E ok \in BOOLEAN : ReplAlloc(ok)) \/ ReplWrite \/ ReplPublish
        \/ Receive \/ RxCommon
        \/ FillAdd \/ FillPost \/ FillRefused \/ FillEnd
        \/ TeardownCancel \/ TeardownEnd
        \/ \E j \in 0 .. PoolSize : Setup(j)
        \/ \E k \in 0 .. PoolSize : RxReplenish(k) \/ ReplenishWork(k)
\* After a race the model follows the pipe no further.
Next == race = "none" /\ Step

Spec == Init /\ [][Next]_vars
-----------------------------------------------------------------------------
\* The wrapper list has the buffers of the pipe, in the pipe's order, and after them the
\* one being posted: a received packet is never taken for another buffer's.
ListMatchesPipe == list = filled \o posted \o adding

\* No buffer is in two places: the hardware never writes into one that is posted
\* twice, or that is still in the ring.
BuffersDistinct ==
  LET all == list \o RingBufs \o (IF held > 0 THEN <<held>> ELSE <<>>) IN
  IsInjective(all) /\ Range(all) \subseteq owned

\* A torn down pipe has given every buffer back.
NoBufferLeak == phase = "down" => owned = {}

\* A pipe that is out of buffers is not forgotten: the handler or replenish_rx_work, which
\* comes back until there is one, is on its way.
NotForgotten == phase = "up" /\ list = <<>> => handling \/ delayed

\* All of this as long as no handler replenishes in the middle of the setup's posting and
\* no replenish_rx_work outlives its pipe: the code excludes neither.
BuffersSound ==
  race = "none" => ListMatchesPipe /\ BuffersDistinct /\ NoBufferLeak /\ NotForgotten
=============================================================================
