------------------------------ MODULE RxParse ------------------------------
(***************************************************************************)
(* Taking the packets out of receive buffers: ipa_lan_rx_pyld_hdlr() and   *)
(* ipa_wan_rx_pyld_hdlr() (ipa_dp.c).  The hardware writes a stream of     *)
(* frames, each a status element and perhaps data, and cuts it into        *)
(* buffers; a frame that does not end in its buffer is carried over in     *)
(* prev_skb, len_rem and len_partial.                                      *)
(*                                                                         *)
(* Lengths are in abstract units, and a buffer is the interval of the      *)
(* stream it holds, so a packet delivered is an interval too.  Padding is  *)
(* smaller than a unit.  The hardware cuts the LAN stream anywhere except  *)
(* inside a TAG frame; it never cuts a WAN status or the QMAP header that  *)
(* follows, which the code reports with WARN_ON().                         *)
(***************************************************************************)
EXTENDS Integers, Sequences, FiniteSets

CONSTANTS
  Streams,      \* the sequences of frames considered, [kind, size]
  MaxCut,       \* the largest buffer
  CopyMayFail   \* the handlers (values of wan) whose copy of a packet may fail

STATUS == 2     \* IPA_PKT_STATUS_SIZE
TRAILER == 1    \* IPA_SIZE_DL_CSUM_META_TRAILER, LAN only
NULL == [from |-> 0, to |-> 0]

VARIABLES
  wan,          \* which of the two handlers
  frames,       \* the stream
  pos,          \* how much of it the hardware has written
  skb,          \* what is left of the buffer being handled
  stage,        \* "none", "start" or "loop"
  prev,         \* sys->prev_skb
  lenRem, lenPartial, drop,   \* sys->len_rem, len_partial, drop_packet
  out,          \* intervals handed to client_notify()
  comps,        \* Tx completions reported for each frame
  lost          \* frames given up for lack of memory

vars == <<wan, frames, pos, skb, stage, prev, lenRem, lenPartial, drop, out, comps, lost>>
carry == <<prev, lenRem, lenPartial>>

SizeUpTo[n \in Nat] == IF n = 0 THEN 0 ELSE SizeUpTo[n - 1] + frames[n].size
Total == SizeUpTo[Len(frames)]
FrameAt(p) == {n \in 1 .. Len(frames) : SizeUpTo[n - 1] = p}
Kind(p) == frames[CHOOSE n \in FrameAt(p) : TRUE].kind
Size(p) == frames[CHOOSE n \in FrameAt(p) : TRUE].size
FrameOf(i) == CHOOSE n \in 1 .. Len(frames) : SizeUpTo[n - 1] <= i.from /\ i.from < SizeUpTo[n]
Left == skb.to - skb.from

-----------------------------------------------------------------------------
(* The hardware *)
CutOK(p) == \A n \in 1 .. Len(frames) :
  LET a == SizeUpTo[n - 1]
      b == SizeUpTo[n] IN
    (a < p /\ p < b) => IF wan THEN p > a + STATUS ELSE frames[n].kind # "tag"

Receive(k) ==
  /\ stage = "none" /\ pos + k <= Total /\ CutOK(pos + k)
  /\ skb' = [from |-> pos, to |-> pos + k] /\ pos' = pos + k
  /\ stage' = "start"
  /\ UNCHANGED <<wan, frames, carry, drop, out, comps, lost>>

-----------------------------------------------------------------------------
\* The head of the handlers: a status that began in the last buffer is put in
\* front of this one ...
StartPartial ==
  /\ stage = "start" /\ lenPartial > 0
  /\ skb' = [skb EXCEPT !.from = @ - lenPartial]
  /\ lenPartial' = 0 /\ prev' = NULL
  /\ stage' = "loop"
  /\ UNCHANGED <<wan, frames, pos, lenRem, drop, out, comps, lost>>

\* ... and a packet that began there is completed, wan_rx_handle_splt_pyld() and
\* join_prev_skb().  ok: the copy succeeds.
RemEnds == lenRem <= Left
RestComps == comps   \* the completion was reported with the first part
Join(n) == [prev EXCEPT !.to = skb.from + n]
StartRest(ok) ==
  /\ stage = "start" /\ lenPartial = 0 /\ lenRem > 0
  /\ IF RemEnds
     THEN /\ out' = IF prev # NULL /\ ok /\ ~(drop /\ ~wan)
                    THEN Append(out, Join(lenRem)) ELSE out
          /\ lost' = IF prev # NULL /\ ~ok THEN lost \cup {FrameOf(prev)} ELSE lost
          /\ skb' = [skb EXCEPT !.from = @ + lenRem]
          /\ prev' = NULL /\ lenRem' = 0 /\ stage' = "loop"
     ELSE /\ prev' = IF prev # NULL /\ ok THEN Join(Left) ELSE NULL
          /\ lost' = IF prev # NULL /\ ~ok THEN lost \cup {FrameOf(prev)} ELSE lost
          /\ lenRem' = lenRem - Left
          /\ stage' = "none"
          /\ UNCHANGED <<out, skb>>
  /\ comps' = RestComps
  /\ UNCHANGED <<wan, frames, pos, lenPartial, drop>>

StartFresh ==
  /\ stage = "start" /\ lenPartial = 0 /\ lenRem = 0
  /\ stage' = "loop"
  /\ UNCHANGED <<wan, frames, pos, skb, carry, drop, out, comps, lost>>

-----------------------------------------------------------------------------
(* One turn of the loop over the frames of a buffer. *)
InLoop == stage = "loop" /\ Left > 0 /\ FrameAt(skb.from) # {}

LoopDone ==
  /\ stage = "loop" /\ Left = 0 /\ stage' = "none"
  /\ UNCHANGED <<wan, frames, pos, skb, carry, drop, out, comps, lost>>

\* The LAN handler keeps a status that is cut, or that ends the buffer with its
\* data to come, for the next buffer.
KeepsPartial ==
  /\ ~wan
  /\ \/ Left < STATUS
     \/ Left = STATUS /\ Kind(skb.from) \in {"data", "noroute"}
LoopPartial ==
  /\ InLoop /\ KeepsPartial
  /\ prev' = skb /\ lenPartial' = Left
  /\ drop' = (Left = STATUS /\ Kind(skb.from) = "noroute")
  /\ stage' = "none"
  /\ UNCHANGED <<wan, frames, pos, skb, lenRem, out, comps, lost>>

\* A frame without data: an unknown opcode, the close of an aggregate (pkt_len
\* 0), the completion of a Tx packet; and the TAG with its cookie.
Completes(n) == [comps EXCEPT ![n] = @ + 1]
StatusOnly(k) == k \in {"unknown", "close", "comp", "tag"}
LoopStatus ==
  /\ InLoop /\ ~KeepsPartial /\ StatusOnly(Kind(skb.from))
  /\ skb' = [skb EXCEPT !.from = @ + Size(skb.from)]
  /\ comps' = IF Kind(skb.from) \in {"comp", "tag"}
              THEN Completes(FrameOf(skb)) ELSE comps
  /\ drop' = FALSE
  /\ UNCHANGED <<wan, frames, pos, stage, carry, out, lost>>

\* A packet, "noroute" when the LAN handler is to drop it.  The client gets the
\* status and the data; the LAN trailer only when it comes in a later buffer.
Whole == Left >= Size(skb.from)
Data == [skb EXCEPT !.to = skb.from + Size(skb.from) - (IF wan THEN 0 ELSE TRAILER)]
Begun == IF Left < Data.to - Data.from THEN skb ELSE Data
DropKept == drop \/ (~wan /\ Kind(skb.from) = "noroute")   \* mutant: the flag is not cleared for a new frame
DropFlag == ~wan /\ Kind(skb.from) = "noroute"

LoopData ==
  /\ InLoop /\ ~KeepsPartial /\ Kind(skb.from) \in {"data", "noroute"}
  /\ drop' = DropFlag
  /\ IF Whole
     THEN /\ out' = IF drop' THEN out ELSE Append(out, Data)
          /\ skb' = [skb EXCEPT !.from = @ + Size(skb.from)]
          /\ UNCHANGED <<prev, lenRem>>
     ELSE /\ prev' = Begun /\ lenRem' = Size(skb.from) - Left
          /\ skb' = [skb EXCEPT !.from = skb.to]
          /\ UNCHANGED out
  /\ comps' = IF wan THEN comps ELSE Completes(FrameOf(skb))
  /\ UNCHANGED <<wan, frames, pos, stage, lenPartial, lost>>

\* No memory for the packet: skip it.  The LAN handler compares with the length
\* without the status, and then skb_pull() refuses and the loop turns again.
SkipsWhole == IF wan THEN Whole ELSE Left >= Size(skb.from) - STATUS
LoopNoMem ==
  /\ wan \in CopyMayFail /\ InLoop /\ ~KeepsPartial /\ Kind(skb.from) \in {"data", "noroute"}
  /\ drop' = DropFlag
  /\ IF SkipsWhole
     THEN /\ skb' = IF Whole THEN [skb EXCEPT !.from = @ + Size(skb.from)] ELSE skb
          /\ UNCHANGED <<prev, lenRem>>
     ELSE /\ prev' = NULL /\ lenRem' = Size(skb.from) - Left
          /\ skb' = [skb EXCEPT !.from = skb.to]
  /\ lost' = IF SkipsWhole /\ ~Whole THEN lost ELSE lost \cup {FrameOf(skb)}
  /\ comps' = IF wan THEN comps ELSE Completes(FrameOf(skb))
  /\ UNCHANGED <<wan, frames, pos, stage, lenPartial, out>>

-----------------------------------------------------------------------------
Init ==
  /\ wan \in BOOLEAN /\ frames \in Streams
  /\ wan => \A n \in 1 .. Len(frames) : frames[n].kind \in {"data", "close", "unknown"}
  /\ pos = 0 /\ skb = NULL /\ stage = "none"
  /\ prev = NULL /\ lenRem = 0 /\ lenPartial = 0 /\ drop = FALSE
  /\ out = <<>> /\ comps = [n \in 1 .. Len(frames) |-> 0] /\ lost = {}

Next == \/ \E k \in 1 .. MaxCut : Receive(k)
        \/ StartPartial \/ \E ok \in BOOLEAN : StartRest(ok)
        \/ StartFresh \/ LoopDone \/ LoopPartial \/ LoopStatus \/ LoopData \/ LoopNoMem

Spec == Init /\ [][Next]_vars
-----------------------------------------------------------------------------
\* The handlers never lose the frame boundaries: whatever the cuts, a status is
\* only read where a frame begins, and what is carried over is the part of the
\* frame just before the stream position.
InSync ==
  /\ skb.from <= skb.to
  /\ (stage = "loop" /\ Left > 0) => FrameAt(skb.from) # {}
  /\ (stage = "none" /\ prev # NULL /\ lenPartial = 0) =>
        (FrameAt(prev.from) # {} /\ pos + lenRem = prev.from + Size(prev.from))
  /\ (stage = "none" /\ lenPartial > 0) => pos = prev.from + lenPartial

\* Every packet read completely has been delivered once, in order, with all its
\* data, unless it was to be dropped or memory ran out: the result does not
\* depend on where the hardware cuts the stream.
Due == SelectSeq([n \in 1 .. Len(frames) |-> n],
                 LAMBDA n : /\ SizeUpTo[n] <= pos /\ n \notin lost
                            /\ frames[n].kind = "data" \/ (wan /\ frames[n].kind = "noroute"))
DeliveredOnce ==
  stage = "none" =>
    /\ [i \in 1 .. Len(out) |-> FrameOf(out[i])] = Due
    /\ \A i \in 1 .. Len(out) :
         LET n == FrameOf(out[i]) IN
           /\ out[i].from = SizeUpTo[n - 1]
           /\ out[i].to \in (SizeUpTo[n] - IF wan THEN 0 ELSE TRAILER) .. SizeUpTo[n]

\* Each Tx completion is reported once; ipa_wq_write_done_status() would
\* otherwise free a packet that the hardware still owns.
CompletedOnce == \A n \in 1 .. Len(frames) : comps[n] <= 1
=============================================================================
