------------------------------- MODULE IpaBoot -------------------------------
(***************************************************************************)
(* Bringing the IPA driver up (ipa_api.c, ipa_v2/ipa.c): the platform       *)
(* probes of the IPA node and of its SMMU context banks, the binding of the *)
(* API controller, and ipa_init() with the goto chain that undoes it.       *)
(*                                                                         *)
(* ipa_init() is a list of steps.  A step takes some resources without a    *)
(* chance to fail (pre), tries for others (get), and on failure jumps to a  *)
(* label of the unwinding chain (goto), perhaps leaving part of what it     *)
(* tried for behind (left).  The chain runs from that label to its end.     *)
(***************************************************************************)
EXTENDS Naturals, Sequences, FiniteSets, ApiTable

CONSTANT MaxProbes      \* bound on the number of probes

VARIABLES
  smmu,      \* the device tree says qcom,arm-smmu (init runs in the AP bank's probe)
  dev,       \* per device: what the driver core knows of it
  cur,       \* the device whose probe is running, or "none"
  table,     \* bus_scale_table # NULL
  regHdl,    \* register_ipa_bus_hdl # 0
  hdls,      \* bus clients registered and not unregistered
  ctrl,      \* the API controller: none, allocated or bound
  at,        \* the step of ipa_init() about to run, 0 outside ipa_init()
  undo,      \* the label of the unwinding chain about to run, 0 outside it
  held,      \* the resources ipa_init() holds
  result,    \* what ipa_init() or the last probe came to
  torn,      \* the unwinding released something that was not held
  fault,     \* the kernel dereferenced a NULL ipa_ctx
  probes     \* probes so far

vars == <<smmu, dev, cur, table, regHdl, hdls, ctrl, at, undo, held, result,
          torn, fault, probes>>

Devices == {"ipa", "ap_cb", "wlan_cb", "uc_cb"}
Children == Devices \ {"ipa"}

-----------------------------------------------------------------------------
(* ipa_init(): its steps                                                    *)

Step(pre, get, left, label) == [pre |-> pre, get |-> get, left |-> left, goto |-> label]
Take(r, label) == Step({}, {r}, {}, label)
Check(label) == Step({}, {}, {}, label)

(* The context, the version's controller, the bus client, the clocks and    *)
(* the registers.                                                           *)
InitClocks ==
  << Take("ctx", "fail_mem_ctx"),
     Step({"logbuf"}, {"ctrl"}, {}, "fail_mem_ctrl"),
     Check("fail_bind"),
     Take("bus", "fail_bus_reg"),
     Take("client_log", "fail_init_active_client"),
     Check("fail_clk"),
     Step({"clks_on"}, {"mmio"}, {}, "fail_remap") >>

(* The hardware, the power workqueues, the BAM and the slab caches.         *)
InitHardware ==
  << Check("fail_init_hw"),
     Check("fail_init_hw"),
     Take("power_wq", "fail_init_hw"),
     Take("sps_wq", "fail_create_sps_wq"),
     Take("bam", "fail_register_bam_device"),
     Check("fail_flt_rule_cache"),
     Take("flt_rule_cache", "fail_flt_rule_cache"),
     Take("rt_rule_cache", "fail_rt_rule_cache"),
     Take("hdr_cache", "fail_hdr_cache"),
     Take("hdr_offset_cache", "fail_hdr_offset_cache"),
     Take("hdr_proc_ctx_cache", "fail_hdr_proc_ctx_cache"),
     Take("hdr_proc_ctx_offset_cache", "fail_hdr_proc_ctx_offset_cache"),
     Take("rt_tbl_cache", "fail_rt_tbl_cache"),
     Take("tx_pkt_wrapper_cache", "fail_tx_pkt_wrapper_cache"),
     Take("rx_pkt_wrapper_cache", "fail_rx_pkt_wrapper_cache") >>

(* The pool for descriptors, the empty routing table, the applications      *)
(* processor's pipes and the character devices.                             *)
InitPipes ==
  << Take("dma_pool", "fail_dma_pool"),
     Step({"idr"}, {"empty_rt_tbl"}, {}, "fail_apps_pipes"),
     Take("apps_pipes", "fail_empty_rt_tbl"),
     Check("fail_empty_rt_tbl"),
     Step({"pipe_mem", "class"}, {"chrdev"}, {}, "fail_alloc_chrdev_region"),
     Take("device", "fail_device_create"),
     Take("cdev", "fail_cdev_add"),
     Take("nat_dev", "fail_nat_dev_add") >>

(* The wakeup source, the resource manager, the interrupt and the tethering *)
(* bridge; what follows (debugfs, uC, WDI, NTN) only logs its failures.     *)
(* A failing request_irq() leaves ipa_interrupts_init()'s workqueue.        *)
InitServices ==
  << Take("w_lock", "fail_w_source_register"),
     Take("rm", "fail_ipa_rm_init"),
     Take("apps_cons", "fail_create_apps_resource"),
     Step({}, {"irq_wq", "irq"}, {"irq_wq"}, "fail_ipa_interrupts_init"),
     Take("suspend_handler", "fail_add_interrupt_handler"),
     Take("teth_bridge", "fail_add_interrupt_handler") >>

InitSteps == InitClocks \o InitHardware \o InitPipes \o InitServices

(* The chain of labels, each with what the statements under it release.     *)
Unwind ==
  << <<"fail_add_interrupt_handler", {"irq"}>>,
     <<"fail_ipa_interrupts_init", {"apps_cons"}>>,
     <<"fail_create_apps_resource", {"rm"}>>,
     <<"fail_ipa_rm_init", {"w_lock"}>>,
     <<"fail_w_source_register", {}>>,
     <<"fail_nat_dev_add", {"cdev"}>>,
     <<"fail_cdev_add", {"device"}>>,
     <<"fail_device_create", {"chrdev"}>>,
     <<"fail_alloc_chrdev_region", {"pipe_mem"}>>,
     <<"fail_empty_rt_tbl", {"apps_pipes", "empty_rt_tbl"}>>,
     <<"fail_apps_pipes", {"idr"}>>,
     <<"fail_dma_pool", {"rx_pkt_wrapper_cache"}>>,
     <<"fail_rx_pkt_wrapper_cache", {"tx_pkt_wrapper_cache"}>>,
     <<"fail_tx_pkt_wrapper_cache", {"rt_tbl_cache"}>>,
     <<"fail_rt_tbl_cache", {"hdr_proc_ctx_offset_cache"}>>,
     <<"fail_hdr_proc_ctx_offset_cache", {"hdr_proc_ctx_cache"}>>,
     <<"fail_hdr_proc_ctx_cache", {"hdr_offset_cache"}>>,
     <<"fail_hdr_offset_cache", {"hdr_cache"}>>,
     <<"fail_hdr_cache", {"rt_rule_cache"}>>,
     <<"fail_rt_rule_cache", {"flt_rule_cache"}>>,
     <<"fail_flt_rule_cache", {"bam"}>>,
     <<"fail_register_bam_device", {"sps_wq"}>>,
     <<"fail_create_sps_wq", {"power_wq"}>>,
     <<"fail_init_hw", {"mmio"}>>,
     <<"fail_remap", {"clks_on"}>>,
     <<"fail_clk", {"client_log"}>>,
     <<"fail_init_active_client", {"bus"}>>,
     <<"fail_bus_reg", {}>>,
     <<"fail_bind", {"ctrl"}>>,
     <<"fail_mem_ctrl", {"logbuf", "ctx"}>>,
     <<"fail_mem_ctx", {}>> >>

(* Where in the chain a goto lands.                                         *)
LandsOn(label) == CHOOSE i \in DOMAIN Unwind : Unwind[i][1] = label

-----------------------------------------------------------------------------
(* ipa_init() at work                                                       *)

Up == /\ held # {}
      /\ at = 0
      /\ undo = 0
      /\ result = "ok"

EnterInit == at' = 1

InitGets ==
  /\ at \in DOMAIN InitSteps
  /\ LET s == InitSteps[at]
     IN /\ held' = held \cup s.pre \cup s.get
        /\ hdls' = IF "bus" \in s.get /\ ~regHdl THEN hdls + 1 ELSE hdls
  /\ IF at = Len(InitSteps)
       THEN at' = 0 /\ result' = "ok" /\ dev' = [dev EXCEPT ![cur] = "bound"]
            /\ cur' = "none"
       ELSE at' = at + 1 /\ UNCHANGED <<result, dev, cur>>
  /\ UNCHANGED <<smmu, table, regHdl, ctrl, undo, torn, fault, probes>>

(* A step fails.  The bus client and the BAM, and perhaps a clock, are       *)
(* awaited: the probe is to be retried.  The bus client is there already     *)
(* when ipa_plat_drv_probe() has registered it.                              *)
Deferrable == {"fail_bus_reg", "fail_register_bam_device", "fail_clk"}
MustDefer == Deferrable \ {"fail_clk"}

Outcomes(label) ==
  {"defer" : l \in {label} \cap Deferrable} \cup {"error" : l \in {label} \ MustDefer}

(* Mutant: a goto to the label after.                                       *)
GotoLate(label) == LandsOn(label) + 1

Goto(label) == LandsOn(label)

InitFails ==
  /\ at \in DOMAIN InitSteps
  /\ LET s == InitSteps[at]
     IN /\ ~(s.goto = "fail_bus_reg" /\ regHdl)
        /\ \E left \in {{}, s.left} : held' = held \cup s.pre \cup left
        /\ undo' = Goto(s.goto)
        /\ result' \in Outcomes(s.goto)
  /\ at' = 0
  /\ UNCHANGED <<smmu, dev, cur, table, regHdl, hdls, ctrl, torn, fault, probes>>

(* One label of the chain.  Tearing the pipes down is harmless when their    *)
(* setup has failed and undone itself.  With the bus client go the table and *)
(* the handle of the early registration.                                     *)
Tolerant == {"apps_pipes"}


BusReleased(gone) ==
  /\ hdls' = IF "bus" \in gone THEN hdls - 1 ELSE hdls
  /\ table' = (table /\ "bus" \notin gone)
  /\ regHdl' = (regHdl /\ ~("bus" \in gone /\ table))

UndoOne ==
  /\ undo \in DOMAIN Unwind
  /\ LET gone == Unwind[undo][2]
     IN /\ held' = held \ gone
        /\ torn' = (torn \/ ~(gone \ Tolerant \subseteq held))
        /\ BusReleased(gone)
  /\ IF undo = Len(Unwind)
       THEN /\ undo' = 0
            /\ cur' = "none"
            /\ dev' = [dev EXCEPT ![cur] = IF result = "defer" THEN "deferred" ELSE "failed"]
       ELSE undo' = undo + 1 /\ UNCHANGED <<cur, dev>>
  /\ UNCHANGED <<smmu, ctrl, at, result, fault, probes>>

-----------------------------------------------------------------------------
(* The probes                                                               *)

(* The driver core probes the children in the order of the device tree, and  *)
(* a deferred device again at any time.                                      *)
Before == [d \in Devices |-> CASE d = "wlan_cb" -> {"ap_cb"}
                               [] d = "uc_cb" -> {"ap_cb", "wlan_cb"}
                               [] OTHER -> {}]

Starts(d) ==
  /\ cur = "none"
  /\ probes < MaxProbes
  /\ dev[d] \in {"waiting", "deferred"}
  /\ \A b \in Before[d] : dev[b] # "waiting"
  /\ probes' = probes + 1

Ends(d, outcome) ==
  /\ dev' = [dev EXCEPT ![d] = outcome]
  /\ UNCHANGED <<cur, at, undo, held, torn, result>>

(* ipa_generic_plat_drv_probe(): the controller cannot be allocated, or the  *)
(* node has no hardware version.                                             *)
ProbeWithoutController ==
  /\ Starts("ipa")
  /\ ctrl = "none"
  /\ Ends("ipa", "failed")
  /\ UNCHANGED <<smmu, table, regHdl, hdls, ctrl, fault>>

(* The bus is not there yet: no table, or no client for it.                  *)
ProbeBeforeBus ==
  /\ Starts("ipa")
  /\ ctrl' = IF ctrl = "none" THEN "allocated" ELSE ctrl
  /\ table' = FALSE
  /\ regHdl' = FALSE
  /\ Ends("ipa", "deferred")
  /\ UNCHANGED <<smmu, hdls, fault>>

(* The device tree lacks a resource, or the version is not one of v2, or the *)
(* DMA mask cannot be set.                                                   *)
ProbeRejected ==
  /\ Starts("ipa")
  /\ table' = TRUE
  /\ regHdl' = TRUE
  /\ hdls' = hdls + 1
  /\ ctrl' \in {"allocated", "bound"}
  /\ Ends("ipa", "failed")
  /\ UNCHANGED <<smmu, fault>>

(* The IPA node with a bus client: bind the API, then start the context      *)
(* banks' devices or, without an SMMU, go on to ipa_init().                  *)
ProbeIpa ==
  /\ Starts("ipa")
  /\ table' = TRUE
  /\ regHdl' = TRUE
  /\ hdls' = hdls + 1
  /\ ctrl' = "bound"
  /\ IF smmu
       THEN dev' = [d \in Devices |-> IF d = "ipa" THEN "bound" ELSE "waiting"]
            /\ UNCHANGED <<cur, at>>
       ELSE dev' = [dev EXCEPT !["ipa"] = "probing"] /\ cur' = "ipa" /\ EnterInit
  /\ UNCHANGED <<smmu, undo, held, result, torn, fault>>

(* A context bank is deferred as long as there is no bus table; the AP and   *)
(* the uC banks also as long as they have no IOMMU domain.                   *)
BankDefers(d) ==
  /\ Starts(d)
  /\ d \in Children
  /\ table => d # "wlan_cb"
  /\ Ends(d, "deferred")
  /\ UNCHANGED <<smmu, table, regHdl, hdls, ctrl, fault>>

(* The DMA mask, the WLAN bank's domain or the AP bank's mapping fails.      *)
BankFails(d) ==
  /\ Starts(d)
  /\ d \in Children
  /\ table
  /\ Ends(d, "failed")
  /\ UNCHANGED <<smmu, table, regHdl, hdls, ctrl, fault>>

ProbeWlanBank ==
  /\ Starts("wlan_cb")
  /\ table
  /\ Ends("wlan_cb", "bound")
  /\ UNCHANGED <<smmu, table, regHdl, hdls, ctrl, fault>>

(* The uC bank's probe writes ipa_ctx->uc_pdev without a look at ipa_ctx.    *)
ProbeUcBank ==
  /\ Starts("uc_cb")
  /\ table
  /\ fault' = (fault \/ "ctx" \notin held)
  /\ Ends("uc_cb", "bound")
  /\ UNCHANGED <<smmu, table, regHdl, hdls, ctrl>>

ProbeApBank ==
  /\ Starts("ap_cb")
  /\ table
  /\ dev' = [dev EXCEPT !["ap_cb"] = "probing"]
  /\ cur' = "ap_cb"
  /\ EnterInit
  /\ UNCHANGED <<smmu, table, regHdl, hdls, ctrl, undo, held, result, torn, fault>>

Init ==
  /\ smmu \in BOOLEAN
  /\ dev = [d \in Devices |-> IF d = "ipa" THEN "waiting" ELSE "absent"]
  /\ cur = "none"
  /\ table = FALSE /\ regHdl = FALSE /\ hdls = 0
  /\ ctrl = "none"
  /\ at = 0 /\ undo = 0 /\ held = {} /\ result = "none"
  /\ torn = FALSE /\ fault = FALSE
  /\ probes = 0

Next ==
  \/ ProbeWithoutController
  \/ ProbeBeforeBus
  \/ ProbeRejected
  \/ ProbeIpa
  \/ \E d \in Children : BankDefers(d) \/ BankFails(d)
  \/ ProbeWlanBank
  \/ ProbeUcBank
  \/ ProbeApBank
  \/ InitGets
  \/ InitFails
  \/ UndoOne

Spec == Init /\ [][Next]_vars

-----------------------------------------------------------------------------
(* Properties                                                               *)

(* Whatever step of ipa_init() fails, the goto chain releases only what was  *)
(* taken: a label too early would free a workqueue, a cache or a device that *)
(* was never made.                                                           *)
UnwindsWhatItTook == ~torn

(* What a failed ipa_init() forgets: the descriptor pool, the device class,  *)
(* the NAT device and the interrupt's workqueue and handler.                 *)
Forgotten == {"dma_pool", "class", "nat_dev", "irq_wq", "suspend_handler"}

(* A probe that is to be retried leaves nothing behind, and a failed one no  *)
(* more than what the chain has no statement for: retries cannot add up.     *)
FailureReleasesAll ==
  (at = 0 /\ undo = 0) =>
    /\ result = "error" => held \subseteq Forgotten
    /\ result = "defer" => held = {}

(* The early bus registration of ipa_plat_drv_probe() and the one ipa_init() *)
(* uses are one client: however the probes are deferred and retried, it is   *)
(* registered once and its handle is forgotten exactly when it is given back.*)
OneBusClient == undo = 0 => hdls = (IF regHdl THEN 1 ELSE 0)

(* Once the driver is up, every exported function that the driver's own code *)
(* calls reaches it, and every pointer that was bound has a function that    *)
(* uses it.                                                                  *)
OwnCallsServed ==
  Up => /\ \A api \in OwnCalls : Dispatch(ctrl, api) = "served"
        /\ BoundApis \subseteq Exported \cup CheckedApis
=============================================================================
