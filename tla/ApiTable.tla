------------------------------ MODULE ApiTable ------------------------------
(***************************************************************************)
(* The dispatch layer of ipa_api.c.  Every exported IPA function calls a   *)
(* function pointer of the one controller (ipa_api_ctrl) through an        *)
(* IPA_API_DISPATCH macro; the driver of the hardware version fills the    *)
(* pointers in.  A function is abstracted to its name: a set below is the  *)
(* functions one stretch of ipa_api.c exports, and BoundApis the pointers  *)
(* that ipa2_bind_api_controller() sets for IPA v2.                        *)
(***************************************************************************)

PipeApis ==
  { "ipa_connect", "ipa_disconnect", "ipa_clear_endpoint_delay",
    "ipa_reset_endpoint", "ipa_disable_endpoint", "ipa_cfg_ep",
    "ipa_cfg_ep_nat" }

EpConfigApis ==
  { "ipa_cfg_ep_conn_track", "ipa_cfg_ep_hdr", "ipa_cfg_ep_hdr_ext",
    "ipa_cfg_ep_mode", "ipa_cfg_ep_aggr", "ipa_cfg_ep_deaggr",
    "ipa_cfg_ep_route" }

EpModeApis ==
  { "ipa_cfg_ep_holb", "ipa_cfg_ep_cfg", "ipa_cfg_ep_metadata_mask",
    "ipa_cfg_ep_holb_by_client", "ipa_cfg_ep_ctrl", "ipa_add_hdr",
    "ipa_add_hdr_usr" }

HeaderApis ==
  { "ipa_del_hdr", "ipa_commit_hdr", "ipa_reset_hdr", "ipa_get_hdr",
    "ipa_put_hdr", "ipa_copy_hdr", "ipa_add_hdr_proc_ctx" }

RouteApis ==
  { "ipa_del_hdr_proc_ctx", "ipa_add_rt_rule", "ipa_add_rt_rule_v2",
    "ipa_add_rt_rule_usr", "ipa_add_rt_rule_usr_v2", "ipa_del_rt_rule",
    "ipa_commit_rt" }

FilterAddApis ==
  { "ipa_reset_rt", "ipa_get_rt_tbl", "ipa_put_rt_tbl", "ipa_query_rt_index",
    "ipa_mdfy_rt_rule", "ipa_mdfy_rt_rule_v2", "ipa_add_flt_rule",
    "ipa_add_flt_rule_v2" }

FilterApis ==
  { "ipa_add_flt_rule_usr", "ipa_add_flt_rule_usr_v2", "ipa_del_flt_rule",
    "ipa_mdfy_flt_rule", "ipa_mdfy_flt_rule_v2", "ipa_commit_flt",
    "ipa_reset_flt" }

NatApis ==
  { "ipa_allocate_nat_device", "ipa_allocate_nat_table",
    "ipa_allocate_ipv6ct_table", "ipa_nat_init_cmd", "ipa_ipv6ct_init_cmd",
    "ipa_nat_dma_cmd", "ipa_table_dma_cmd", "ipa_nat_del_cmd" }

InterfaceApis ==
  { "ipa_del_nat_table", "ipa_del_ipv6ct_table", "ipa_nat_mdfy_pdn",
    "ipa_send_msg", "ipa_register_pull_msg", "ipa_deregister_pull_msg",
    "ipa_register_intf" }

MessageApis ==
  { "ipa_register_intf_ext", "ipa_deregister_intf", "ipa_set_aggr_mode",
    "ipa_set_qcncm_ndp_sig", "ipa_set_single_ndp_per_mbim", "ipa_tx_dp" }

DataApis ==
  { "ipa_tx_dp_mul", "ipa_free_skb", "ipa_setup_sys_pipe",
    "ipa_teardown_sys_pipe", "ipa_sys_setup", "ipa_sys_teardown",
    "ipa_sys_update_gsi_hdls", "ipa_connect_wdi_pipe" }

WdiApis ==
  { "ipa_disconnect_wdi_pipe", "ipa_enable_wdi_pipe", "ipa_disable_wdi_pipe",
    "ipa_resume_wdi_pipe", "ipa_suspend_wdi_pipe", "ipa_get_wdi_stats",
    "ipa_uc_bw_monitor", "ipa_set_wlan_tx_info" }

SysPipeApis ==
  { "ipa_get_smem_restr_bytes", "ipa_broadcast_wdi_quota_reach_ind",
    "ipa_uc_wdi_get_dbpa", "ipa_uc_reg_rdyCB", "ipa_wigig_internal_init",
    "ipa_uc_dereg_rdyCB", "teth_bridge_init" }

DmaApis ==
  { "teth_bridge_disconnect", "teth_bridge_connect", "ipa_set_client",
    "ipa_get_client", "ipa_get_client_uplink", "ipa_dma_init",
    "ipa_dma_enable", "ipa_dma_disable" }

MhiApis ==
  { "ipa_dma_sync_memcpy", "ipa_dma_async_memcpy", "ipa_dma_uc_memcpy",
    "ipa_dma_destroy", "ipa_mhi_init_engine", "ipa_connect_mhi_pipe",
    "ipa_disconnect_mhi_pipe" }

MhiChannelApis ==
  { "ipa_mhi_stop_gsi_channel", "ipa_uc_mhi_reset_channel",
    "ipa_mhi_sps_channel_empty", "ipa_qmi_enable_force_clear_datapath_send",
    "ipa_qmi_disable_force_clear_datapath_send", "ipa_generate_tag_process",
    "ipa_disable_sps_pipe", "ipa_mhi_reset_channel_internal",
    "ipa_mhi_start_channel_internal", "ipa_get_holb",
    "ipa_set_tag_process_before_gating", "ipa_mhi_query_ch_info",
    "ipa_uc_mhi_suspend_channel", "ipa_uc_mhi_stop_event_update_channel",
    "ipa_has_open_aggr_frame", "ipa_mhi_resume_channels_internal" }

TransportApis ==
  { "ipa_uc_mhi_send_dl_ul_sync_info", "ipa_mhi_destroy_channel",
    "ipa_uc_mhi_init", "ipa_uc_mhi_cleanup", "ipa_uc_mhi_print_stats",
    "ipa_uc_state_check", "ipa_write_qmap_id", "ipa_add_interrupt_handler",
    "ipa_remove_interrupt_handler", "ipa_restore_suspend_handler",
    "ipa_bam_reg_dump" }

MappingApis ==
  { "ipa_get_ep_mapping" }

ProxyVoteApis ==
  { "ipa_proxy_clk_vote", "ipa_proxy_clk_unvote" }

ClientMapApis ==
  { "ipa_get_client_mapping", "ipa_get_rm_resource_from_ep" }

ContextApis ==
  { "ipa_get_transport_type", "ipa_get_smmu_domain",
    "ipa_disable_apps_wan_cons_deaggr", "ipa_get_dma_dev",
    "ipa_release_wdi_mapping", "ipa_create_wdi_mapping" }

GsiApis ==
  { "ipa_stop_gsi_channel", "ipa_start_gsi_channel", "ipa_is_vlan_mode" }

PowerApis ==
  { "ipa_ap_suspend", "ipa_ap_resume", "ipa_register_ipa_ready_cb",
    "ipa_inc_client_enable_clks", "ipa_dec_client_disable_clks",
    "ipa_inc_client_enable_clks_no_block", "ipa_suspend_resource_no_block",
    "ipa_resume_resource", "ipa_suspend_resource_sync" }

PerfApis ==
  { "ipa_set_required_perf_profile", "ipa_get_ipc_logbuf",
    "ipa_get_ipc_logbuf_low", "ipa_rx_poll", "ipa_recycle_wan_skb",
    "ipa_setup_uc_ntn_pipes", "ipa_tear_down_uc_offload_pipes",
    "ipa_get_pdev", "ipa_ntn_uc_reg_rdyCB", "ipa_ntn_uc_dereg_rdyCB" }

OffloadApis ==
  { "ipa_get_smmu_params", "ipa_conn_wdi_pipes", "ipa_disconn_wdi_pipes",
    "ipa_enable_wdi_pipes", "ipa_disable_wdi_pipes", "ipa_wigig_uc_msi_init",
    "ipa_conn_wigig_rx_pipe_i", "ipa_conn_wigig_client_i",
    "ipa_disconn_wigig_pipe_i", "ipa_enable_wigig_pipe_i" }

WigigApis ==
  { "ipa_disable_wigig_pipe_i", "ipa_get_lan_rx_napi", "ipa_tz_unlock_reg",
    "ipa_register_client_callback", "ipa_deregister_client_callback",
    "ipa_uc_debug_stats_alloc", "ipa_uc_debug_stats_dealloc",
    "ipa_get_gsi_stats", "ipa_get_prot_id", "ipa_pm_is_used" }

(* Everything ipa_api.c dispatches.                                        *)
Exported ==
  UNION {PipeApis, EpConfigApis, EpModeApis, HeaderApis, RouteApis,
         FilterAddApis, FilterApis, NatApis, InterfaceApis, MessageApis,
         DataApis, WdiApis, SysPipeApis, DmaApis, MhiApis, MhiChannelApis,
         TransportApis, MappingApis, ProxyVoteApis, ClientMapApis,
         ContextApis, GsiApis, PowerApis, PerfApis, OffloadApis, WigigApis}

(* The pointers ipa2_bind_api_controller() sets, in its two halves.        *)
BoundFirst ==
  { "ipa_connect", "ipa_disconnect", "ipa_reset_endpoint",
    "ipa_clear_endpoint_delay", "ipa_disable_endpoint", "ipa_cfg_ep",
    "ipa_cfg_ep_nat", "ipa_cfg_ep_hdr", "ipa_cfg_ep_hdr_ext",
    "ipa_cfg_ep_mode", "ipa_cfg_ep_aggr", "ipa_cfg_ep_deaggr",
    "ipa_cfg_ep_route", "ipa_cfg_ep_holb", "ipa_get_holb",
    "ipa_set_tag_process_before_gating", "ipa_cfg_ep_cfg",
    "ipa_cfg_ep_metadata_mask", "ipa_cfg_ep_holb_by_client",
    "ipa_cfg_ep_ctrl", "ipa_add_hdr", "ipa_add_hdr_usr", "ipa_del_hdr",
    "ipa_commit_hdr", "ipa_reset_hdr", "ipa_get_hdr", "ipa_put_hdr",
    "ipa_copy_hdr", "ipa_add_hdr_proc_ctx", "ipa_del_hdr_proc_ctx",
    "ipa_add_rt_rule", "ipa_add_rt_rule_usr", "ipa_del_rt_rule",
    "ipa_commit_rt", "ipa_reset_rt", "ipa_get_rt_tbl", "ipa_put_rt_tbl",
    "ipa_query_rt_index", "ipa_mdfy_rt_rule", "ipa_add_flt_rule",
    "ipa_add_flt_rule_usr", "ipa_del_flt_rule", "ipa_mdfy_flt_rule",
    "ipa_commit_flt", "ipa_reset_flt", "ipa_allocate_nat_device",
    "ipa_nat_init_cmd", "ipa_nat_dma_cmd", "ipa_nat_del_cmd", "ipa_send_msg",
    "ipa_register_pull_msg", "ipa_deregister_pull_msg", "ipa_register_intf",
    "ipa_register_intf_ext", "ipa_deregister_intf", "ipa_set_aggr_mode",
    "ipa_set_qcncm_ndp_sig", "ipa_set_single_ndp_per_mbim", "ipa_tx_dp",
    "ipa_tx_dp_mul", "ipa_free_skb", "ipa_setup_sys_pipe",
    "ipa_teardown_sys_pipe", "ipa_sys_update_gsi_hdls", "ipa_sys_setup",
    "ipa_sys_teardown", "ipa_connect_wdi_pipe", "ipa_disconnect_wdi_pipe",
    "ipa_enable_wdi_pipe", "ipa_disable_wdi_pipe", "ipa_resume_wdi_pipe",
    "ipa_suspend_wdi_pipe", "ipa_get_wdi_stats", "ipa_get_smem_restr_bytes",
    "ipa_broadcast_wdi_quota_reach_ind", "ipa_uc_wdi_get_dbpa",
    "ipa_uc_reg_rdyCB", "ipa_uc_dereg_rdyCB", "ipa_create_wdi_mapping",
    "ipa_release_wdi_mapping", "ipa_get_smmu_params" }

BoundSecond ==
  { "teth_bridge_init", "teth_bridge_disconnect", "teth_bridge_connect",
    "ipa_set_client", "ipa_get_client", "ipa_get_client_uplink",
    "ipa_dma_init", "ipa_dma_enable", "ipa_dma_disable",
    "ipa_dma_sync_memcpy", "ipa_dma_async_memcpy", "ipa_dma_uc_memcpy",
    "ipa_dma_destroy", "ipa_mhi_init_engine", "ipa_connect_mhi_pipe",
    "ipa_disconnect_mhi_pipe", "ipa_uc_mhi_reset_channel",
    "ipa_mhi_sps_channel_empty", "ipa_generate_tag_process",
    "ipa_disable_sps_pipe", "ipa_qmi_enable_force_clear_datapath_send",
    "ipa_qmi_disable_force_clear_datapath_send",
    "ipa_mhi_reset_channel_internal", "ipa_mhi_start_channel_internal",
    "ipa_uc_mhi_send_dl_ul_sync_info", "ipa_uc_mhi_init",
    "ipa_uc_mhi_suspend_channel", "ipa_uc_mhi_stop_event_update_channel",
    "ipa_uc_mhi_cleanup", "ipa_uc_mhi_print_stats", "ipa_uc_state_check",
    "ipa_write_qmap_id", "ipa_add_interrupt_handler",
    "ipa_remove_interrupt_handler", "ipa_restore_suspend_handler",
    "ipa_bam_reg_dump", "ipa_get_ep_mapping", "ipa_is_ready",
    "ipa_proxy_clk_vote", "ipa_proxy_clk_unvote",
    "ipa_is_client_handle_valid", "ipa_get_client_mapping",
    "ipa_get_rm_resource_from_ep", "ipa_get_modem_cfg_emb_pipe_flt",
    "ipa_get_transport_type", "ipa_ap_suspend", "ipa_ap_resume",
    "ipa_get_smmu_domain", "ipa_disable_apps_wan_cons_deaggr",
    "ipa_get_dma_dev", "ipa_get_gsi_ep_info", "ipa_stop_gsi_channel",
    "ipa_register_ipa_ready_cb", "ipa_inc_client_enable_clks",
    "ipa_dec_client_disable_clks", "ipa_inc_client_enable_clks_no_block",
    "ipa_suspend_resource_no_block", "ipa_resume_resource",
    "ipa_suspend_resource_sync", "ipa_set_required_perf_profile",
    "ipa_get_ipc_logbuf", "ipa_get_ipc_logbuf_low", "ipa_rx_poll",
    "ipa_recycle_wan_skb", "ipa_setup_uc_ntn_pipes",
    "ipa_tear_down_uc_offload_pipes", "ipa_get_pdev", "ipa_ntn_uc_reg_rdyCB",
    "ipa_ntn_uc_dereg_rdyCB", "ipa_conn_wdi_pipes", "ipa_disconn_wdi_pipes",
    "ipa_enable_wdi_pipes", "ipa_disable_wdi_pipes", "ipa_pm_is_used" }

(* The exported functions that the driver's own files call: the resource   *)
(* manager, the v2 core, the WWAN device and the tethering bridge.         *)
OwnCalls ==
  { "ipa_add_interrupt_handler", "ipa_broadcast_wdi_quota_reach_ind",
    "ipa_cfg_ep", "ipa_cfg_ep_aggr", "ipa_cfg_ep_cfg", "ipa_cfg_ep_deaggr",
    "ipa_cfg_ep_hdr", "ipa_cfg_ep_hdr_ext", "ipa_cfg_ep_holb",
    "ipa_cfg_ep_metadata_mask", "ipa_cfg_ep_mode", "ipa_cfg_ep_nat",
    "ipa_cfg_ep_route", "ipa_commit_flt", "ipa_commit_hdr", "ipa_commit_rt",
    "ipa_connect", "ipa_dec_client_disable_clks",
    "ipa_disable_apps_wan_cons_deaggr", "ipa_get_client",
    "ipa_get_client_uplink", "ipa_get_ep_mapping", "ipa_get_ipc_logbuf",
    "ipa_get_ipc_logbuf_low", "ipa_inc_client_enable_clks",
    "ipa_inc_client_enable_clks_no_block", "ipa_resume_resource",
    "ipa_rx_poll", "ipa_send_msg", "ipa_set_client",
    "ipa_set_required_perf_profile", "ipa_suspend_resource_no_block",
    "ipa_suspend_resource_sync", "ipa_uc_mhi_reset_channel" }

(* Exported functions that test the pointer themselves and answer false     *)
(* or NULL without a warning.                                               *)
CheckedApis ==
  { "ipa_is_ready", "ipa_is_client_handle_valid", "ipa_get_gsi_ep_info",
    "ipa_get_modem_cfg_emb_pipe_flt" }

BoundApis == BoundFirst \cup BoundSecond

(* IPA_API_DISPATCH: no controller and no pointer both refuse the call      *)
(* (-EPERM, NULL, false or nothing, by the macro); otherwise it is passed   *)
(* on to the driver.                                                        *)
Dispatch(ctrl, api) ==
  CASE ctrl = "none"      -> "unsupported"
    [] ctrl = "allocated" -> "unimplemented"
    [] ctrl = "bound"     -> IF api \in BoundApis THEN "served" ELSE "unimplemented"
=============================================================================
