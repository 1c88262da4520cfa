------------------------------ MODULE BusCompat ------------------------------
(***************************************************************************)
(* The port's translation of the vendor's bus votes to interconnect paths   *)
(* (port/files/.../ipa_v2/msm_bus_compat.c).  Every function runs under one *)
(* mutex.  A path is named by the (src, dst) pair it was acquired for; the  *)
(* interconnect framework is external and may refuse a path or a vote.      *)
(***************************************************************************)
EXTENDS Naturals, Sequences, FiniteSets, SequencesExt

CONSTANTS BusClients,   \* who calls the bus interface
          MaxHandles,   \* MSM_BUS_COMPAT_MAX_HANDLES
          MaxPaths      \* MSM_BUS_COMPAT_MAX_PATHS

VARIABLES
  dev,       \* msm_bus_compat_dev # NULL
  handles,   \* per slot: in_use, the acquired paths in order, their bandwidth
  hdl,       \* per client: the handle it was given, 0 for none
  asked,     \* per client: the vectors of its last request, <<>> before the first
  refused,   \* per client: the framework refused a vote of its handle
  orphans,   \* bandwidths left on paths that no handle refers to any more
  stuck      \* the framework refused to withdraw a vote

vars == <<dev, handles, hdl, asked, refused, orphans, stuck>>

Slots == 1 .. MaxHandles

(* The two use cases, idle and busy, of the two generations of IPA; a vector *)
(* is a pair with average and peak bandwidth in bytes per second.            *)
Vector(src, dst, ab, ib) == [pair |-> <<src, dst>>, ab |-> ab, ib |-> ib]
V20(ab, ib) == << Vector("IPA", "EBI_CH0", ab, ib), Vector("IPA", "OCIMEM", ab, ib) >>
V11(ab, ib) == << Vector("IPA", "EBI_CH0", ab, ib), Vector("BAM_DMA", "EBI_CH0", ab, ib),
                  Vector("BAM_DMA", "OCIMEM", ab, ib) >>
Pdatas == { <<V20(0, 0), V20(100000000, 1300000000)>>,
            <<V11(0, 0), V11(50000000, 960000000)>> }

(* map_src_dst_to_icc_name(): the DMA engine's traffic shares the IPA's.      *)
IccName(pair) == IF pair[2] = "EBI_CH0" THEN "ipa-mem" ELSE "ipa-imem"
IccNames == {"ipa-mem", "ipa-imem"}

Bandwidth(ab, ib) == [ab |-> ab, ib |-> ib]
NoBandwidth == Bandwidth(0, 0)

BpsToKbps(bps) == (bps + 1023) \div 1024

Free == [in_use |-> FALSE, pdata |-> <<>>, paths |-> <<>>, bw |-> <<>>]

Init ==
  /\ dev = FALSE
  /\ handles = [s \in Slots |-> Free]
  /\ hdl = [c \in BusClients |-> 0]
  /\ asked = [c \in BusClients |-> <<>>]
  /\ refused = [c \in BusClients |-> FALSE]
  /\ orphans = {}
  /\ stuck = FALSE

SetDevice ==
  /\ dev' = TRUE
  /\ UNCHANGED <<handles, hdl, asked, refused, orphans, stuck>>

(* The paths acquired for the first use case: each pair once, in order, as    *)
(* far as the table reaches, without those the framework refuses.             *)
Acquired(pdata, lost) ==
  LET v == pdata[1]
      wanted == SelectSeq([i \in DOMAIN v |-> v[i].pair],
                          LAMBDA p : IccName(p) \notin lost)
  IN SubSeq(wanted, 1, IF Len(wanted) < MaxPaths THEN Len(wanted) ELSE MaxPaths)

FreeSlots == {s \in Slots : ~handles[s].in_use}
FirstFree == {s \in FreeSlots : \A f \in FreeSlots : s <= f}

(* msm_bus_scale_register_client(): returns 0 without a device, a slot or any *)
(* path.  A pair occurs once in the tables above, so nothing is skipped as a  *)
(* duplicate.                                                                 *)
RegisterClient(c, pdata, lost) ==
  LET got == Acquired(pdata, lost)
  IN /\ hdl[c] = 0
     /\ dev
     /\ Len(got) > 0
     /\ \E s \in FirstFree :
          /\ handles' = [handles EXCEPT ![s] =
               [in_use |-> TRUE, pdata |-> pdata, paths |-> got,
                bw |-> [i \in DOMAIN got |-> NoBandwidth]]]
          /\ hdl' = [hdl EXCEPT ![c] = s]
     /\ asked' = [asked EXCEPT ![c] = <<>>]
     /\ refused' = [refused EXCEPT ![c] = FALSE]
     /\ UNCHANGED <<dev, orphans, stuck>>

(* find_path()                                                               *)
FindByTarget(h, pair) == {i \in DOMAIN h.paths : h.paths[i][2] = pair[2]}
FindPath(h, pair) == {i \in DOMAIN h.paths : h.paths[i] = pair}

(* msm_bus_scale_client_update_request(): every vector of the use case is     *)
(* voted for, those whose vote the framework refuses (fail) keep the old one. *)
UpdateRequest(c, index, fail) ==
  LET h == handles[hdl[c]]
      v == h.pdata[index]
  IN /\ hdl[c] # 0
     /\ h.in_use
     /\ index \in DOMAIN h.pdata
     /\ fail \subseteq DOMAIN h.paths
     /\ handles' = [handles EXCEPT ![hdl[c]].bw =
          [i \in DOMAIN h.paths |->
             LET k == {j \in DOMAIN v : i \in FindPath(h, v[j].pair)}
             IN IF i \in fail \/ k = {} THEN h.bw[i]
                ELSE LET j == CHOOSE j \in k : \A l \in k : l <= j
                     IN Bandwidth(BpsToKbps(v[j].ab), BpsToKbps(v[j].ib))]]
     /\ asked' = [asked EXCEPT ![c] = v]
     /\ refused' = [refused EXCEPT ![c] = @ \/ fail # {}]
     /\ UNCHANGED <<dev, hdl, orphans, stuck>>

(* msm_bus_scale_unregister_client(): the votes are dropped and the slot is   *)
(* freed; the paths stay with the device.  A refused withdrawal is ignored.   *)
WithdrawnNever(h, fail) == {h.bw[i] : i \in DOMAIN h.paths}
Withdrawn(h, fail) ==
  {h.bw[i] : i \in fail} \cup {NoBandwidth : i \in DOMAIN h.paths \ fail}
Released(s) == [handles EXCEPT ![s] = Free]

UnregisterClient(c, fail) ==
  /\ hdl[c] # 0
  /\ fail \subseteq DOMAIN handles[hdl[c]].paths
  /\ orphans' = orphans \cup (Withdrawn(handles[hdl[c]], fail) \ {NoBandwidth})
  /\ handles' = Released(hdl[c])
  /\ hdl' = [hdl EXCEPT ![c] = 0]
  /\ stuck' = (stuck \/ fail # {})
  /\ UNCHANGED <<dev, asked, refused>>

Next ==
  \/ SetDevice
  \/ \E c \in BusClients :
       \/ \E pdata \in Pdatas, lost \in SUBSET IccNames : RegisterClient(c, pdata, lost)
       \/ \E index \in 1 .. 2, fail \in SUBSET (1 .. MaxPaths) : UpdateRequest(c, index, fail)
       \/ \E fail \in SUBSET (1 .. MaxPaths) : UnregisterClient(c, fail)

Spec == Init /\ [][Next]_vars

-----------------------------------------------------------------------------
(* Properties                                                                *)

(* A client whose votes were not refused has, on every path it got, what its  *)
(* last request asked for, rounded up: a small vote is not lost and another   *)
(* client's request does not move it.                                         *)
BandwidthAsAsked ==
  \A c \in BusClients :
    (hdl[c] # 0 /\ ~refused[c]) =>
      LET h == handles[hdl[c]]
      IN \A j \in DOMAIN asked[c], i \in DOMAIN h.paths :
           h.paths[i] = asked[c][j].pair =>
             /\ h.bw[i].ab * 1024 >= asked[c][j].ab
             /\ h.bw[i].ib * 1024 >= asked[c][j].ib
             /\ asked[c][j].ib = 0 => h.bw[i] = NoBandwidth

(* A client that unregisters leaves no vote behind on the paths the device    *)
(* keeps, unless the framework refused to withdraw it.                        *)
NoVoteLeft == ~stuck => orphans = {}

(* Every slot in use belongs to exactly one client, so that probes which are  *)
(* deferred and retried do not fill the table.                                *)
SlotsOwned ==
  \A s \in Slots : handles[s].in_use <=> Cardinality({c \in BusClients : hdl[c] = s}) = 1
=============================================================================
