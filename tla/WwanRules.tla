----------------------------- MODULE WwanRules -----------------------------
(***************************************************************************)
(* What the WWAN driver keeps in the IPA's tables for its mux channels and *)
(* for the modem (rmnet_ipa.c, ipa_qmi_service.c): QMAP headers, interface *)
(* registrations and the uplink filter rules the modem asks for, from      *)
(* probe to remove.  The network device's ioctls run under the rtnl lock,  *)
(* so one at a time; the modem's request comes on the QMI thread.          *)
(***************************************************************************)
EXTENDS Naturals, Sequences, FiniteSets

CONSTANTS MuxIds,     \* mux ids user space may add
          MaxMux,     \* MAX_NUM_OF_MUX_CHANNEL
          MaxRules,   \* MAX_NUM_Q6_RULE
          MaxLives    \* bound: how often the driver is probed

Families == {"v4", "v6"}
IpTypes == Families \cup {"max"}    \* the modem's V4V6 becomes IPA_IP_MAX

VARIABLES
  lives, up,    \* probes so far; probed and not removed
  mux,          \* mux_channel[0 .. rmnet_index - 1]: [id, hdr, reg]
  spare,        \* mux_channel[rmnet_index], where a failed ADD_MUX leaves its traces
  num, rules,   \* num_q6_rule and q6_ul_filter_rule[].ip
  oldNum, hdls, \* old_num_q6_rule and q6_ul_filter_rule_hdl
  egress,       \* egress_set
  busy,         \* the modem's request has been copied and not answered yet
  flt,          \* the filter rules of the pipe in the IPA driver: handle -> family
  hw,           \* ... and in the hardware, as of the last commit of each family
  hdrs, regs,   \* mux ids with a QMAP header; with a registered interface
  stray         \* history: an IPA call failed, egress was set twice, or rules
                \* were replaced after they were installed

vars == <<lives, up, mux, spare, num, rules, oldNum, hdls, egress, busy, flt, hw, hdrs,
          regs, stray>>

NoChannel == [id |-> 0, hdr |-> FALSE, reg |-> FALSE]
Channels == [id : MuxIds \cup {0}, hdr : BOOLEAN, reg : BOOLEAN]
Handles == 1 .. 2 * MaxRules
Empty == [h \in {} |-> "v4"]
TypeOK ==
  /\ lives \in 0 .. MaxLives /\ up \in BOOLEAN
  /\ mux \in Seq(Channels) /\ Len(mux) <= MaxMux /\ spare \in Channels
  /\ num \in 0 .. MaxRules /\ oldNum \in 0 .. MaxRules
  /\ rules \in [1 .. MaxRules -> IpTypes] /\ hdls \in [1 .. MaxRules -> Handles \cup {0}]
  /\ egress \in BOOLEAN /\ busy \in BOOLEAN
  /\ DOMAIN flt \subseteq Handles /\ hw \in [Families -> SUBSET Handles]
  /\ hdrs \subseteq MuxIds /\ regs \subseteq MuxIds /\ stray \in BOOLEAN
-----------------------------------------------------------------------------
\* ipa_wwan_probe() resets the driver's own state.
Probe ==
  /\ ~up /\ lives < MaxLives /\ ~stray   \* bound: what is lost is not followed further
  /\ up' = TRUE /\ lives' = lives + 1
  /\ mux' = <<>> /\ spare' = NoChannel /\ num' = 0 /\ oldNum' = 0 /\ egress' = FALSE
  /\ rules' = [i \in 1 .. MaxRules |-> "v4"] /\ hdls' = [i \in 1 .. MaxRules |-> 0]
  /\ UNCHANGED <<busy, flt, hw, hdrs, regs, stray>>

\* handle_install_filter_rule_req(): copy_ul_filter_rule_to_ipa() replaces the
\* cached rules.  More than the cache holds are refused and clear it, and no
\* answer is sent.
InstallReq ==
  /\ up /\ ~busy /\ ~stray
  /\ \E n \in 1 .. MaxRules + 1, ips \in [1 .. MaxRules -> IpTypes] :
       IF n > MaxRules
       THEN num' = 0 /\ rules' = [i \in 1 .. MaxRules |-> "v4"] /\ busy' = FALSE
       ELSE /\ num' = n /\ busy' = TRUE
            /\ rules' = [i \in 1 .. MaxRules |-> IF i <= n THEN ips[i] ELSE rules[i]]
  /\ stray' = (stray \/ \E i \in 1 .. oldNum : rules'[i] # rules[i])
  /\ UNCHANGED <<lives, up, mux, spare, oldNum, hdls, egress, flt, hw, hdrs, regs>>
InstallResp ==
  /\ busy /\ busy' = FALSE
  /\ UNCHANGED <<lives, up, mux, spare, num, rules, oldNum, hdls, egress, flt, hw, hdrs,
                 regs, stray>>

\* wwan_add_ul_flt_rule_to_ipa(): one rule and one commit at a time; a failure
\* leaves the handle as it was.  IPA_IP_MAX is refused.
Fresh(i) == CHOOSE h \in Handles \ DOMAIN flt :
              Cardinality({g \in Handles \ DOMAIN flt : g < h}) = i - 1
AddUlRules(fails) ==
  LET ok == {i \in 1 .. num : rules[i] # "max" /\ i \notin fails}
      new == {Fresh(i) : i \in ok}
      of(h) == CHOOSE i \in ok : Fresh(i) = h
  IN /\ flt' = [h \in DOMAIN flt \cup new |-> IF h \in new THEN rules[of(h)] ELSE flt[h]]
     /\ hdls' = [i \in 1 .. MaxRules |-> IF i \in ok THEN Fresh(i) ELSE hdls[i]]
     /\ hw' = [f \in Families |-> {h \in DOMAIN flt' : flt'[h] = f}]
     /\ oldNum' = num
     /\ stray' = (stray \/ ok # 1 .. num \/ oldNum # 0)

\* RMNET_IOCTL_SET_EGRESS_DATA_FORMAT: the rules that have come are installed;
\* "wait Q6 UL filter rules" otherwise.  A second call installs them again.
SetEgress ==
  /\ up /\ (stray => ~egress)
  /\ Cardinality(DOMAIN flt) + num <= 2 * MaxRules  \* bound: Handles
  /\ egress' = TRUE
  /\ IF num # 0 THEN \E fails \in {{}, {1}} : AddUlRules(fails)
     ELSE UNCHANGED <<flt, hdls, hw, oldNum, stray>>
  /\ UNCHANGED <<lives, up, mux, spare, num, rules, busy, hdrs, regs>>

\* wwan_register_to_ipa() of a channel: header (kept from an earlier try), then
\* interface; res says how far it gets.
Register(c, res) ==
  /\ hdrs' = IF ~c.hdr /\ res # "nohdr" THEN hdrs \cup {c.id} ELSE hdrs
  /\ regs' = IF res = "ok" THEN regs \cup {c.id} ELSE regs
\* find_mux_channel_index() looks at every slot.
Known(id) == id \in {mux[i].id : i \in 1 .. Len(mux)} \cup {spare.id}
\* RMNET_IOCTL_ADD_MUX_CHANNEL: registered only if the modem's rules are there.
AddMux ==
  \E id \in MuxIds, res \in {"ok", "nohdr", "nointf"} :
    /\ up /\ ~Known(id) /\ Len(mux) < MaxMux
    /\ IF num # 0
       THEN LET c == [id |-> id, hdr |-> spare.hdr, reg |-> spare.reg]
                d == [id |-> id, hdr |-> spare.hdr \/ res # "nohdr", reg |-> res = "ok"]
            IN /\ Register(c, res)
               /\ IF res = "ok" THEN mux' = Append(mux, d) /\ spare' = NoChannel
                                ELSE spare' = d /\ UNCHANGED mux
               /\ stray' = (stray \/ res # "ok")
       ELSE /\ res = "ok"
            /\ mux' = Append(mux, [id |-> id, hdr |-> spare.hdr, reg |-> FALSE])
            /\ spare' = NoChannel
            /\ UNCHANGED <<hdrs, regs, stray>>
    /\ UNCHANGED <<lives, up, num, rules, oldNum, hdls, egress, busy, flt, hw>>

\* ipa_wwan_remove(): ipa_del_mux_qmap_hdrs(), wwan_del_ul_flt_rule_to_ipa(),
\* ipa_cleanup_deregister_intf().  A rule is deleted by its handle and
\* committed for the family the cache has now; the first failure ends it.
Deletable(i) == rules[i] # "max" /\ hdls[i] \in DOMAIN flt
DeletedByNum == {i \in 1 .. num : \A j \in 1 .. i : Deletable(j)}  \* mutant: the new number
Deleted == {i \in 1 .. oldNum : \A j \in 1 .. i : Deletable(j)}
HdrsOf == {mux[i].id : i \in {k \in 1 .. Len(mux) : mux[k].hdr}}
RegsOf == {mux[i].id : i \in {k \in 1 .. Len(mux) : mux[k].reg}}
Remove ==
  LET gone == {hdls[i] : i \in Deleted}
  IN /\ up /\ up' = FALSE /\ busy' = FALSE
     /\ flt' = [h \in DOMAIN flt \ gone |-> flt[h]]
     /\ hw' = [f \in Families |->
                 IF \E i \in Deleted : rules[i] = f
                 THEN {h \in DOMAIN flt' : flt'[h] = f} ELSE hw[f]]
     /\ hdrs' = hdrs \ HdrsOf
     /\ regs' = regs \ RegsOf
     /\ mux' = <<>> /\ spare' = NoChannel
     /\ UNCHANGED <<lives, num, rules, oldNum, hdls, egress, stray>>
-----------------------------------------------------------------------------
Init ==
  /\ lives = 0 /\ up = FALSE /\ mux = <<>> /\ spare = NoChannel
  /\ num = 0 /\ oldNum = 0
  /\ rules = [i \in 1 .. MaxRules |-> "v4"] /\ hdls = [i \in 1 .. MaxRules |-> 0]
  /\ egress = FALSE /\ busy = FALSE /\ flt = Empty /\ hw = [f \in Families |-> {}]
  /\ hdrs = {} /\ regs = {} /\ stray = FALSE
Next == Probe \/ InstallReq \/ InstallResp \/ SetEgress \/ AddMux \/ Remove
Spec == Init /\ [][Next]_vars
-----------------------------------------------------------------------------
\* Removing the driver, as a modem restart does, takes everything it put into
\* the IPA's tables out of them again, in the hardware too; what it loses track
\* of, it loses to a failed call or to rules changed under it (stray).
RemovedClean ==
  (~up /\ ~stray) => flt = Empty /\ hdrs = {} /\ regs = {} /\ \A f \in Families : hw[f] = {}

\* No two channels share a mux id, and an interface is registered with a
\* header of its own mux id, unless an earlier attempt failed half-way.
ChannelsDistinct ==
  /\ \A i, j \in 1 .. Len(mux) : mux[i].id = mux[j].id => i = j
  /\ ~stray => \A i \in 1 .. Len(mux) :
                 mux[i].reg => mux[i].id \in hdrs /\ mux[i].id \in regs
=============================================================================
