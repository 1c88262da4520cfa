----------------------------- MODULE IpaClients ------------------------------
(***************************************************************************)
(* Connecting the peripherals' BAM pipes to IPA (ipa_v2/ipa_client.c): a    *)
(* client's pipe is found in the endpoint mapping, the endpoint context is  *)
(* filled in, the SPS connection is made, and all of it is taken back by    *)
(* ipa2_disconnect() or by the goto chain of a failed ipa2_connect().       *)
(*                                                                         *)
(* A peripheral's driver makes its calls one after the other, so a call is  *)
(* one action; what it calls may fail, and the failing call is chosen.  The *)
(* clock votes are the ones these functions take; the SPS driver is its     *)
(* handle's state.                                                          *)
(***************************************************************************)
EXTENDS Integers, FiniteSets, ClientTable

CONSTANTS
  Peripherals,   \* the clients that connect
  MaxVotes       \* bound on the clock votes

VARIABLES
  hw,        \* the hardware version
  bypass,    \* smmu_s1_bypass
  ep,        \* per pipe: the endpoint context, Zeroed when not valid
  sps,       \* per pipe: the SPS endpoint: none, allocated or connected
  fifos,     \* pipes whose FIFOs are allocated
  mapped,    \* peer_bam_map_cnt
  votes,     \* active-clients votes of these functions
  lost,      \* SPS endpoints allocated and forgotten
  twice,     \* a FIFO was freed a second time
  ret        \* the handle the last call returned with 0, -1 for an error or none

vars == <<hw, bypass, ep, sps, fifos, mapped, votes, lost, twice, ret>>

-----------------------------------------------------------------------------
(* Clients and pipes                                                        *)

PipesOf == [v1_1 |-> PipesV1_1, v2_0 |-> PipesV2_0, v2_6L |-> PipesV2_6L]

Mapping(c) == IF c \in DOMAIN PipesOf[hw] THEN PipesOf[hw][c] ELSE -1

Number(c) == CHOOSE i \in DOMAIN Clients : Clients[i] = c

Pipes == {Mapping(c) : c \in Peripherals} \ {-1}
AllPipes == {PipesV2_0[c] : c \in Peripherals \cap DOMAIN PipesV2_0}
              \cup {PipesV2_6L[c] : c \in Peripherals \cap DOMAIN PipesV2_6L}

Zeroed == [valid |-> FALSE, client |-> "-", awake |-> FALSE, disabled |-> FALSE,
           leaving |-> FALSE, ownFifo |-> FALSE]

-----------------------------------------------------------------------------
(* ipa2_connect()                                                           *)

(* The calls that can fail, in order, with what a failure there returns: the *)
(* result variable still holds the 0 of ipa_enable_data_path() or of         *)
(* ipa_connect_configure_sps() when the failing call's code is not stored.   *)
ConnectFailures ==
  [data_path |-> "error", cfg_ep |-> "ok", cfg_status |-> "ok",
   peer_map |-> "error", sps_alloc |-> "error", no_fifos |-> "ok",
   desc_fifo |-> "error", data_fifo |-> "error", map_data |-> "ok",
   map_desc |-> "ok", sps_connect |-> "error"]

(* Behind the SMMU the client must bring its FIFOs.                          *)
FifosGiven(ownFifo) == ownFifo => bypass

Possible(f, skip, ownFifo) ==
  /\ f \in {"cfg_ep", "cfg_status"} => ~skip
  /\ f \in {"peer_map", "no_fifos", "map_data", "map_desc"} => ~bypass
  /\ f = "peer_map" => mapped = 0
  /\ f \in {"no_fifos", "desc_fifo", "data_fifo"} => ownFifo
  /\ f \in {"desc_fifo", "data_fifo"} => bypass
  /\ f \in {"map_data", "map_desc", "sps_connect"} => FifosGiven(ownFifo)

(* Connecting got past the mapping of the peer BAM, which no label undoes.   *)
PastPeerMap(f) == f \notin {"data_path", "cfg_ep", "cfg_status", "peer_map"}


PeerMapped(f) ==
  mapped' = IF ~bypass /\ PastPeerMap(f) THEN mapped + 1 ELSE mapped

Refused(c) ==
  /\ Mapping(c) # -1 => ep[Mapping(c)].valid
  /\ ret' = -1
  /\ UNCHANGED <<hw, bypass, ep, sps, fifos, mapped, votes, lost, twice>>

ConnectFails(c, skip, ownFifo) ==
  LET p == Mapping(c)
  IN /\ p # -1 /\ ~ep[p].valid
     /\ \E f \in DOMAIN ConnectFailures :
          /\ Possible(f, skip, ownFifo)
          /\ PeerMapped(f)
          /\ lost' = IF f = "peer_map" THEN lost \cup {p} ELSE lost
          /\ ret' = IF ConnectFailures[f] = "ok" THEN p ELSE -1
     /\ ep' = [ep EXCEPT ![p] = Zeroed]
     /\ UNCHANGED <<hw, bypass, sps, fifos, votes, twice>>

ConnectedVote(p, awake) == votes' = IF awake THEN votes + 1 ELSE votes

Connect(c, awake, ownFifo) ==
  LET p == Mapping(c)
  IN /\ p # -1 /\ ~ep[p].valid
     /\ votes < MaxVotes
     /\ FifosGiven(ownFifo)
     /\ ep' = [ep EXCEPT ![p] = [Zeroed EXCEPT !.valid = TRUE, !.client = c,
                                               !.awake = awake, !.ownFifo = ownFifo]]
     /\ sps' = [sps EXCEPT ![p] = "connected"]
     /\ fifos' = IF ownFifo THEN fifos \cup {p} ELSE fifos
     /\ PeerMapped("none")
     /\ ConnectedVote(p, awake)
     /\ ret' = p
     /\ UNCHANGED <<hw, bypass, lost, twice>>

-----------------------------------------------------------------------------
(* ipa2_disconnect()                                                        *)

BadHandle(p) ==
  /\ ~ep[p].valid
  /\ ret' = -1
  /\ UNCHANGED <<hw, bypass, ep, sps, fifos, mapped, votes, lost, twice>>

(* How far a disconnect gets: its data path may not close, sps_disconnect()  *)
(* refuses a pipe that is not connected, unmapping the peer BAM may fail     *)
(* after its count is down, sps_free_endpoint() may fail after the FIFOs are *)
(* gone.                                                                     *)
FreesFirst(p, stop) == stop # "data_path"
FreesFifos(p, stop) == stop \in {"none", "sps_free"}

Stops(p) ==
  {"none", "sps_disconnect", "sps_free"}
    \cup (IF ep[p].disabled THEN {} ELSE {"data_path"})
    \cup (IF ~bypass /\ mapped = 1 THEN {"unmap"} ELSE {})

Reaches(p, stop) == stop \in {"none", "unmap", "sps_free"} => sps[p] = "connected"

Disconnect(p) ==
  /\ ep[p].valid
  /\ votes < MaxVotes
  /\ \E stop \in Stops(p) :
       LET voted == IF ep[p].awake THEN votes ELSE votes + 1
           past == stop \in {"none", "unmap", "sps_free"}
       IN /\ Reaches(p, stop)
          /\ mapped' = IF past /\ ~bypass THEN mapped - 1 ELSE mapped
          /\ twice' = (twice \/ (FreesFifos(p, stop) /\ ep[p].ownFifo /\ p \notin fifos))
          /\ fifos' = IF FreesFifos(p, stop) THEN fifos \ {p} ELSE fifos
          /\ sps' = [sps EXCEPT ![p] = CASE stop = "none" -> "none"
                                         [] stop # "none" /\ past -> "allocated"
                                         [] OTHER -> @]
          /\ ep' = [ep EXCEPT ![p] = IF stop = "none" THEN Zeroed
                                     ELSE [ep[p] EXCEPT !.leaving = @ \/ ~ep[p].disabled]]
          /\ votes' = IF stop = "none" THEN voted - 1 ELSE voted
          /\ ret' = -1
  /\ UNCHANGED <<hw, bypass, lost>>

-----------------------------------------------------------------------------
(* The other calls on a connected pipe                                      *)

(* ipa2_reset_endpoint(): SPS disconnect and connect again, with the clock   *)
(* vote taken and given back around it.                                      *)
ResetEndpoint(p) ==
  /\ \E result \in {"ok", "error"} :
       /\ \/ /\ sps[p] = "connected"
             /\ sps' = [sps EXCEPT ![p] = IF result = "ok" THEN "connected" ELSE "allocated"]
          \/ result = "error" /\ UNCHANGED sps
       /\ ret' = -1
  /\ UNCHANGED <<hw, bypass, ep, fifos, mapped, votes, lost, twice>>

(* ipa2_clear_endpoint_delay(): flow control is no longer honoured; the      *)
(* modem is told by QMI, whose failure is only logged.                       *)
ClearEndpointDelay(p) ==
  /\ ep[p].valid
  /\ ep' = [ep EXCEPT ![p].leaving = TRUE]
  /\ ret' = -1
  /\ UNCHANGED <<hw, bypass, sps, fifos, mapped, votes, lost, twice>>

DisableEndpoint(p) ==
  /\ ep[p].valid
  /\ \E result \in {"ok", "error"} :
       /\ ep' = [ep EXCEPT ![p].leaving = TRUE, ![p].disabled = @ \/ result = "ok"]
       /\ ret' = -1
  /\ UNCHANGED <<hw, bypass, sps, fifos, mapped, votes, lost, twice>>

Init ==
  /\ hw \in {"v2_0", "v2_6L"}
  /\ bypass \in BOOLEAN
  /\ ep = [p \in AllPipes |-> Zeroed]
  /\ sps = [p \in AllPipes |-> "none"]
  /\ fifos = {}
  /\ mapped = 0
  /\ votes = 0
  /\ lost = {}
  /\ twice = FALSE
  /\ ret = -1

Next ==
  \/ \E c \in Peripherals :
       \/ Refused(c)
       \/ mapped < MaxVotes /\ \E skip, ownFifo \in BOOLEAN : ConnectFails(c, skip, ownFifo)
       \/ mapped < MaxVotes /\ \E awake, ownFifo \in BOOLEAN : Connect(c, awake, ownFifo)
  \/ \E p \in Pipes :
       \/ BadHandle(p)
       \/ Disconnect(p)
       \/ ResetEndpoint(p)
       \/ ClearEndpointDelay(p)
       \/ DisableEndpoint(p)

Spec == Init /\ [][Next]_vars

-----------------------------------------------------------------------------
(* Properties                                                               *)

Valid == {p \in AllPipes : ep[p].valid}

(* However often a disconnect stops half way and is called again, a FIFO is  *)
(* freed once: after the first release sps_disconnect() refuses the retry.   *)
FifoFreedOnce == ~twice

(* A client that asked to keep IPA awake has its clock vote as long as its   *)
(* endpoint is valid, whatever calls on other pipes failed in between.       *)
AwakeHasVote == votes >= Cardinality({p \in Valid : ep[p].awake})

(* While an SPS connection exists behind the SMMU, the peer's BAM is mapped: *)
(* failures may leave the count too high, never too low.                     *)
PeerStaysMapped ==
  ~bypass => mapped >= Cardinality({p \in AllPipes : sps[p] = "connected"})

(* An endpoint answers for one client and is that client's pipe, however     *)
(* clients the mapping puts on one pipe take turns; and the name the driver  *)
(* prints for a connected client's number is the client's.                   *)
EndpointNamesClient ==
  \A p \in Valid :
    LET c == ep[p].client
    IN /\ Mapping(c) = p
       /\ ClientStrings[Number(c)] = c
=============================================================================
