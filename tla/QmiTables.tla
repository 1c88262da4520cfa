----------------------------- MODULE QmiTables ------------------------------
(* The messages the IPA driver and the modem exchange over QMI: the C        *)
(* structures of ipa_qmi_service_v01.h and the element tables of             *)
(* ipa_qmi_service_v01.c that tell the kernel's QMI library how a structure  *)
(* is written to the wire and back.                                          *)
(*                                                                           *)
(* A structure is laid out as the compiler does it (64-bit build): Opt is a  *)
(* field with its u8 "_valid" companion, List one with its u32 "_len"        *)
(* companion, OptList one with both.  An element table is a sequence of TLVs *)
(* (Mand, or Opnl: the QMI_OPT_FLAG element and its value under one tag) or, *)
(* inside a QMI_STRUCT, of bare elements.  An element keeps the field it is  *)
(* for, its size on the wire, its elem_size in memory and its elem_len; a    *)
(* "List" element stands for QMI_DATA_LEN and the VAR_LEN_ARRAY after it.    *)
EXTENDS Integers, Sequences

Scalar(n) == [size |-> n, align |-> n]
U8  == Scalar(1)
U16 == Scalar(2)
U32 == Scalar(4)
U64 == Scalar(8)

Fld(f, t)        == <<<<f, t, 1>>>>
Arr(f, t, n)     == <<<<f, t, n>>>>
Opt(f, t)        == <<<<"valid", U8, 1>>, <<f, t, 1>>>>
List(f, t, n)    == <<<<"len", U32, 1>>, <<f, t, n>>>>
OptList(f, t, n) == <<<<"valid", U8, 1>>, <<"len", U32, 1>>, <<f, t, n>>>>

AlignUp(off, a) == ((off + a - 1) \div a) * a

\* sizeof() and the room of each field, by the C rules for structures.
Layout(items) ==
  LET parts[i \in 0 .. Len(items)] == IF i = 0 THEN <<>> ELSE parts[i - 1] \o items[i]
      ps == parts[Len(items)]
      end[i \in 0 .. Len(ps)] ==
        IF i = 0 THEN 0 ELSE AlignUp(end[i - 1], ps[i][2].align) + ps[i][2].size * ps[i][3]
      al == CHOOSE a \in {ps[i][2].align : i \in DOMAIN ps} :
              \A i \in DOMAIN ps : ps[i][2].align <= a
  IN  [size  |-> AlignUp(end[Len(ps)], al),
       align |-> al,
       room  |-> {<<ps[i][1], ps[i][2].size * ps[i][3]>> : i \in DOMAIN ps}]

Element(f, wire, size, n, list) ==
  [field |-> f, wire |-> wire, size |-> size, max |-> n, list |-> list]
\* Bytes an element table without lists takes on the wire.
Wire(ei) ==
  LET sum[i \in 0 .. Len(ei)] == IF i = 0 THEN 0 ELSE sum[i - 1] + ei[i].wire * ei[i].max
  IN  sum[Len(ei)]

Bas(f, t)            == Element(f, t.size, t.size, 1, FALSE)
BasArr(f, t, n)      == Element(f, t.size, t.size, n, FALSE)
BasList(f, t, n)     == Element(f, t.size, t.size, n, TRUE)
Sub(f, ei, t)        == Element(f, Wire(ei), t.size, 1, FALSE)
SubArr(f, ei, t, n)  == Element(f, Wire(ei), t.size, n, FALSE)
SubList(f, ei, t, n) == Element(f, Wire(ei), t.size, n, TRUE)
Mand(tag, e) == [tag |-> tag, opt |-> FALSE, elem |-> e]
Opnl(tag, e) == [tag |-> tag, opt |-> TRUE, elem |-> e]

\* The QMI library's own table for the result every response starts with.
qmi_response_type_v01_ei == <<Bas("result", U16), Bas("error", U16)>>

-----------------------------------------------------------------------------
\* ipa_qmi_service_v01.h: the structures.
ipa_hdr_tbl_info_type_v01 ==
  Layout(<<Fld("modem_offset_start", U32), Fld("modem_offset_end", U32)>>)
ipa_route_tbl_info_type_v01 ==
  Layout(<<Fld("route_tbl_start_addr", U32), Fld("num_indices", U32)>>)
ipa_modem_mem_info_type_v01 ==
  Layout(<<Fld("block_start_addr", U32), Fld("size", U32)>>)
ipa_hdr_proc_ctx_tbl_info_type_v01 ==
  Layout(<<Fld("modem_offset_start", U32), Fld("modem_offset_end", U32)>>)
ipa_zip_tbl_info_type_v01 ==
  Layout(<<Fld("modem_offset_start", U32), Fld("modem_offset_end", U32)>>)
ipa_ipfltr_range_eq_16_type_v01 ==
  Layout(<<Fld("offset", U8), Fld("range_low", U16), Fld("range_high", U16)>>)
ipa_ipfltr_mask_eq_32_type_v01 ==
  Layout(<<Fld("offset", U8), Fld("mask", U32), Fld("value", U32)>>)
ipa_ipfltr_eq_16_type_v01 ==
  Layout(<<Fld("offset", U8), Fld("value", U16)>>)
ipa_ipfltr_eq_32_type_v01 ==
  Layout(<<Fld("offset", U8), Fld("value", U32)>>)
ipa_ipfltr_mask_eq_128_type_v01 ==
  Layout(<<Fld("offset", U8), Arr("mask", U8, 16), Arr("value", U8, 16)>>)
ipa_filter_rule_type_v01 ==
  Layout(<<Fld("rule_eq_bitmap", U16), Fld("tos_eq_present", U8), Fld("tos_eq", U8),
           Fld("protocol_eq_present", U8), Fld("protocol_eq", U8),
           Fld("num_ihl_offset_range_16", U8),
           Arr("ihl_offset_range_16", ipa_ipfltr_range_eq_16_type_v01, 2),
           Fld("num_offset_meq_32", U8),
           Arr("offset_meq_32", ipa_ipfltr_mask_eq_32_type_v01, 2),
           Fld("tc_eq_present", U8), Fld("tc_eq", U8), Fld("flow_eq_present", U8),
           Fld("flow_eq", U32), Fld("ihl_offset_eq_16_present", U8),
           Fld("ihl_offset_eq_16", ipa_ipfltr_eq_16_type_v01),
           Fld("ihl_offset_eq_32_present", U8),
           Fld("ihl_offset_eq_32", ipa_ipfltr_eq_32_type_v01),
           Fld("num_ihl_offset_meq_32", U8),
           Arr("ihl_offset_meq_32", ipa_ipfltr_mask_eq_32_type_v01, 2),
           Fld("num_offset_meq_128", U8),
           Arr("offset_meq_128", ipa_ipfltr_mask_eq_128_type_v01, 2),
           Fld("metadata_meq32_present", U8),
           Fld("metadata_meq32", ipa_ipfltr_mask_eq_32_type_v01),
           Fld("ipv4_frag_eq_present", U8)>>)
ipa_filter_spec_type_v01 ==
  Layout(<<Fld("filter_spec_identifier", U32), Fld("ip_type", U32),
           Fld("filter_rule", ipa_filter_rule_type_v01), Fld("filter_action", U32),
           Fld("is_routing_table_index_valid", U8), Fld("route_table_index", U32),
           Fld("is_mux_id_valid", U8), Fld("mux_id", U32)>>)
ipa_filter_rule_identifier_to_handle_map_v01 ==
  Layout(<<Fld("filter_spec_identifier", U32), Fld("filter_handle", U32)>>)
ipa_filter_handle_to_index_map_v01 ==
  Layout(<<Fld("filter_handle", U32), Fld("filter_index", U32)>>)
ipa_init_modem_driver_req_msg_v01 ==
  Layout(<<Opt("platform_type", U32), Opt("hdr_tbl_info", ipa_hdr_tbl_info_type_v01),
           Opt("v4_route_tbl_info", ipa_route_tbl_info_type_v01),
           Opt("v6_route_tbl_info", ipa_route_tbl_info_type_v01),
           Opt("v4_filter_tbl_start_addr", U32), Opt("v6_filter_tbl_start_addr", U32),
           Opt("modem_mem_info", ipa_modem_mem_info_type_v01),
           Opt("ctrl_comm_dest_end_pt", U32), Opt("is_ssr_bootup", U8),
           Opt("hdr_proc_ctx_tbl_info", ipa_hdr_proc_ctx_tbl_info_type_v01),
           Opt("zip_tbl_info", ipa_zip_tbl_info_type_v01),
           Opt("v4_hash_route_tbl_info", ipa_route_tbl_info_type_v01),
           Opt("v6_hash_route_tbl_info", ipa_route_tbl_info_type_v01),
           Opt("v4_hash_filter_tbl_start_addr", U32),
           Opt("v6_hash_filter_tbl_start_addr", U32),
           Opt("hw_stats_quota_base_addr", U32), Opt("hw_stats_quota_size", U32),
           Opt("hw_drop_stats_base_addr", U32), Opt("hw_drop_stats_table_size", U32)>>)
ipa_qmi_response_type_v01 ==
  Layout(<<Fld("result", U16), Fld("error", U16)>>)
ipa_init_modem_driver_resp_msg_v01 ==
  Layout(<<Fld("resp", ipa_qmi_response_type_v01), Opt("ctrl_comm_dest_end_pt", U32),
           Opt("default_end_pt", U32), Opt("modem_driver_init_pending", U8)>>)
ipa_indication_reg_req_msg_v01 ==
  Layout(<<Opt("master_driver_init_complete", U8), Opt("data_usage_quota_reached", U8),
           Opt("ipa_mhi_ready_ind", U8), Opt("endpoint_desc_ind", U8),
           Opt("bw_change_ind", U8)>>)
ipa_indication_reg_resp_msg_v01 ==
  Layout(<<Fld("resp", ipa_qmi_response_type_v01)>>)
ipa_master_driver_init_complt_ind_msg_v01 ==
  Layout(<<Fld("master_driver_init_status", ipa_qmi_response_type_v01)>>)
ipa_filter_spec_ex_type_v01 ==
  Layout(<<Fld("ip_type", U32), Fld("filter_rule", ipa_filter_rule_type_v01),
           Fld("filter_action", U32), Fld("is_routing_table_index_valid", U8),
           Fld("route_table_index", U32), Fld("is_mux_id_valid", U8),
           Fld("mux_id", U32), Fld("rule_id", U32), Fld("is_rule_hashable", U8)>>)
ipa_filter_rule_req2_type_v01 ==
  Layout(<<Fld("rule_eq_bitmap", U16), Fld("pure_ack_eq_present", U8),
           Fld("pure_ack_eq", U8), Fld("protocol_eq_present", U8),
           Fld("protocol_eq", U8), Fld("num_ihl_offset_range_16", U8),
           Arr("ihl_offset_range_16", ipa_ipfltr_range_eq_16_type_v01, 2),
           Fld("num_offset_meq_32", U8),
           Arr("offset_meq_32", ipa_ipfltr_mask_eq_32_type_v01, 2),
           Fld("tc_eq_present", U8), Fld("tc_eq", U8), Fld("flow_eq_present", U8),
           Fld("flow_eq", U32), Fld("ihl_offset_eq_16_present", U8),
           Fld("ihl_offset_eq_16", ipa_ipfltr_eq_16_type_v01),
           Fld("ihl_offset_eq_32_present", U8),
           Fld("ihl_offset_eq_32", ipa_ipfltr_eq_32_type_v01),
           Fld("num_ihl_offset_meq_32", U8),
           Arr("ihl_offset_meq_32", ipa_ipfltr_mask_eq_32_type_v01, 2),
           Fld("num_offset_meq_128", U8),
           Arr("offset_meq_128", ipa_ipfltr_mask_eq_128_type_v01, 2),
           Fld("metadata_meq32_present", U8),
           Fld("metadata_meq32", ipa_ipfltr_mask_eq_32_type_v01),
           Fld("ipv4_frag_eq_present", U8)>>)
ipa_filter_spec_ex2_type_v01 ==
  Layout(<<Fld("ip_type", U32), Fld("filter_rule", ipa_filter_rule_req2_type_v01),
           Fld("filter_action", U32), Fld("is_routing_table_index_valid", U8),
           Fld("route_table_index", U32), Fld("is_mux_id_valid", U8),
           Fld("mux_id", U32), Fld("rule_id", U32), Fld("is_rule_hashable", U8)>>)
ipa_install_fltr_rule_req_msg_v01 ==
  Layout(<<OptList("filter_spec_list", ipa_filter_spec_type_v01, 64),
           Opt("source_pipe_index", U32), Opt("num_ipv4_filters", U32),
           Opt("num_ipv6_filters", U32), OptList("xlat_filter_indices_list", U32, 64),
           OptList("filter_spec_ex_list", ipa_filter_spec_ex_type_v01, 64),
           OptList("filter_spec_ex2_list", ipa_filter_spec_ex2_type_v01, 64),
           OptList("ul_firewall_indices_list", U32, 64)>>)
ipa_install_fltr_rule_resp_msg_v01 ==
  Layout(<<Fld("resp", ipa_qmi_response_type_v01),
           OptList("filter_handle_list", ipa_filter_rule_identifier_to_handle_map_v01, 64),
           OptList("rule_id", U32, 64)>>)
ipa_fltr_installed_notif_req_msg_v01 ==
  Layout(<<Fld("source_pipe_index", U32), Fld("install_status", U32),
           List("filter_index_list", ipa_filter_handle_to_index_map_v01, 64),
           Opt("embedded_pipe_index", U32), Opt("retain_header", U8),
           Opt("embedded_call_mux_id", U32), Opt("num_ipv4_filters", U32),
           Opt("num_ipv6_filters", U32), Opt("start_ipv4_filter_idx", U32),
           Opt("start_ipv6_filter_idx", U32), OptList("rule_id", U32, 64),
           OptList("dst_pipe_id", U32, 8), OptList("rule_id_ex", U32, 256)>>)
ipa_fltr_installed_notif_resp_msg_v01 ==
  Layout(<<Fld("resp", ipa_qmi_response_type_v01)>>)
ipa_enable_force_clear_datapath_req_msg_v01 ==
  Layout(<<Fld("source_pipe_bitmask", U32), Fld("request_id", U32),
           Opt("throttle_source", U8)>>)
ipa_enable_force_clear_datapath_resp_msg_v01 ==
  Layout(<<Fld("resp", ipa_qmi_response_type_v01)>>)
ipa_disable_force_clear_datapath_req_msg_v01 ==
  Layout(<<Fld("request_id", U32)>>)
ipa_disable_force_clear_datapath_resp_msg_v01 ==
  Layout(<<Fld("resp", ipa_qmi_response_type_v01)>>)
ipa_config_req_msg_v01 ==
  Layout(<<Opt("peripheral_type", U32), Opt("hw_deaggr_supported", U8),
           Opt("max_aggr_frame_size", U32), Opt("ipa_ingress_pipe_mode", U32),
           Opt("peripheral_speed_info", U32), Opt("dl_accumulation_time_limit", U32),
           Opt("dl_accumulation_pkt_limit", U32),
           Opt("dl_accumulation_byte_limit", U32),
           Opt("ul_accumulation_time_limit", U32), Opt("hw_control_flags", U32),
           Opt("ul_msi_event_threshold", U32), Opt("dl_msi_event_threshold", U32),
           Opt("ul_fifo_size", U32), Opt("dl_fifo_size", U32), Opt("dl_buf_size", U32)>>)
ipa_config_resp_msg_v01 ==
  Layout(<<Fld("resp", ipa_qmi_response_type_v01)>>)
ipa_get_data_stats_req_msg_v01 ==
  Layout(<<Fld("ipa_stats_type", U32), Opt("reset_stats", U8)>>)
ipa_pipe_stats_info_type_v01 ==
  Layout(<<Fld("pipe_index", U32), Fld("num_ipv4_packets", U64),
           Fld("num_ipv4_bytes", U64), Fld("num_ipv6_packets", U64),
           Fld("num_ipv6_bytes", U64)>>)
ipa_stats_type_filter_rule_v01 ==
  Layout(<<Fld("filter_rule_index", U32), Fld("num_packets", U64)>>)
ipa_get_data_stats_resp_msg_v01 ==
  Layout(<<Fld("resp", ipa_qmi_response_type_v01), Opt("ipa_stats_type", U32),
           OptList("ul_src_pipe_stats_list", ipa_pipe_stats_info_type_v01, 20),
           OptList("dl_dst_pipe_stats_list", ipa_pipe_stats_info_type_v01, 20),
           OptList("dl_filter_rule_stats_list", ipa_stats_type_filter_rule_v01, 64)>>)
ipa_apn_data_stats_info_type_v01 ==
  Layout(<<Fld("mux_id", U32), Fld("num_ul_packets", U64), Fld("num_ul_bytes", U64),
           Fld("num_dl_packets", U64), Fld("num_dl_bytes", U64)>>)
ipa_get_apn_data_stats_req_msg_v01 ==
  Layout(<<OptList("mux_id_list", U32, 8)>>)
ipa_get_apn_data_stats_resp_msg_v01 ==
  Layout(<<Fld("resp", ipa_qmi_response_type_v01),
           OptList("apn_data_stats_list", ipa_apn_data_stats_info_type_v01, 8)>>)
ipa_data_usage_quota_info_type_v01 ==
  Layout(<<Fld("mux_id", U32), Fld("num_Mbytes", U64)>>)
ipa_set_data_usage_quota_req_msg_v01 ==
  Layout(<<OptList("apn_quota_list", ipa_data_usage_quota_info_type_v01, 8)>>)
ipa_set_data_usage_quota_resp_msg_v01 ==
  Layout(<<Fld("resp", ipa_qmi_response_type_v01)>>)
ipa_data_usage_quota_reached_ind_msg_v01 ==
  Layout(<<Fld("apn", ipa_data_usage_quota_info_type_v01)>>)
ipa_stop_data_usage_quota_req_msg_v01 ==
  Layout(<<Fld("__placeholder", U8)>>)
ipa_stop_data_usage_quota_resp_msg_v01 ==
  Layout(<<Fld("resp", ipa_qmi_response_type_v01)>>)

-----------------------------------------------------------------------------
\* ipa_qmi_service_v01.c: the element tables.

ipa_hdr_tbl_info_type_data_v01_ei ==
  <<Bas("modem_offset_start", U32), Bas("modem_offset_end", U32)>>
ipa_route_tbl_info_type_data_v01_ei ==
  <<Bas("route_tbl_start_addr", U32), Bas("num_indices", U32)>>
ipa_modem_mem_info_type_data_v01_ei ==
  <<Bas("block_start_addr", U32), Bas("size", U32)>>
ipa_hdr_proc_ctx_tbl_info_type_data_v01_ei ==
  <<Bas("modem_offset_start", U32), Bas("modem_offset_end", U32)>>
ipa_zip_tbl_info_type_data_v01_ei ==
  <<Bas("modem_offset_start", U32), Bas("modem_offset_end", U32)>>
ipa_ipfltr_range_eq_16_type_data_v01_ei ==
  <<Bas("offset", U8), Bas("range_low", U16), Bas("range_high", U16)>>
ipa_ipfltr_mask_eq_32_type_data_v01_ei ==
  <<Bas("offset", U8), Bas("mask", U32), Bas("value", U32)>>
ipa_ipfltr_eq_16_type_data_v01_ei ==
  <<Bas("offset", U8), Bas("value", U16)>>
ipa_ipfltr_eq_32_type_data_v01_ei ==
  <<Bas("offset", U8), Bas("value", U32)>>
ipa_ipfltr_mask_eq_128_type_data_v01_ei ==
  <<Bas("offset", U8), BasArr("mask", U8, 16), BasArr("value", U8, 16)>>
ipa_filter_rule_type_data_v01_ei ==
  <<Bas("rule_eq_bitmap", U16), Bas("tos_eq_present", U8), Bas("tos_eq", U8),
    Bas("protocol_eq_present", U8), Bas("protocol_eq", U8),
    Bas("num_ihl_offset_range_16", U8),
    SubArr("ihl_offset_range_16",
          ipa_ipfltr_range_eq_16_type_data_v01_ei, ipa_ipfltr_range_eq_16_type_v01, 2),
    Bas("num_offset_meq_32", U8),
    SubArr("offset_meq_32",
          ipa_ipfltr_mask_eq_32_type_data_v01_ei, ipa_ipfltr_mask_eq_32_type_v01, 2),
    Bas("tc_eq_present", U8), Bas("tc_eq", U8), Bas("flow_eq_present", U8),
    Bas("flow_eq", U32), Bas("ihl_offset_eq_16_present", U8),
    Sub("ihl_offset_eq_16", ipa_ipfltr_eq_16_type_data_v01_ei, ipa_ipfltr_eq_16_type_v01),
    Bas("ihl_offset_eq_32_present", U8),
    Sub("ihl_offset_eq_32", ipa_ipfltr_eq_32_type_data_v01_ei, ipa_ipfltr_eq_32_type_v01),
    Bas("num_ihl_offset_meq_32", U8),
    SubArr("ihl_offset_meq_32",
          ipa_ipfltr_mask_eq_32_type_data_v01_ei, ipa_ipfltr_mask_eq_32_type_v01, 2),
    Bas("num_offset_meq_128", U8),
    SubArr("offset_meq_128",
          ipa_ipfltr_mask_eq_128_type_data_v01_ei, ipa_ipfltr_mask_eq_128_type_v01, 2),
    Bas("metadata_meq32_present", U8),
    Sub("metadata_meq32",
          ipa_ipfltr_mask_eq_32_type_data_v01_ei, ipa_ipfltr_mask_eq_32_type_v01),
    Bas("ipv4_frag_eq_present", U8)>>
ipa_filter_spec_type_data_v01_ei ==
  <<Bas("filter_spec_identifier", U32), Bas("ip_type", U32),
    Sub("filter_rule", ipa_filter_rule_type_data_v01_ei, ipa_filter_rule_type_v01),
    Bas("filter_action", U32), Bas("is_routing_table_index_valid", U8),
    Bas("route_table_index", U32), Bas("is_mux_id_valid", U8), Bas("mux_id", U32)>>
ipa_filter_rule_identifier_to_handle_map_data_v01_ei ==
  <<Bas("filter_spec_identifier", U32), Bas("filter_handle", U32)>>
ipa_filter_handle_to_index_map_data_v01_ei ==
  <<Bas("filter_handle", U32), Bas("filter_index", U32)>>
ipa_init_modem_driver_req_msg_data_v01_ei ==
  <<Opnl(16, Bas("platform_type", U32)),
    Opnl(17, Sub("hdr_tbl_info",
          ipa_hdr_tbl_info_type_data_v01_ei, ipa_hdr_tbl_info_type_v01)),
    Opnl(18, Sub("v4_route_tbl_info",
          ipa_route_tbl_info_type_data_v01_ei, ipa_route_tbl_info_type_v01)),
    Opnl(19, Sub("v6_route_tbl_info",
          ipa_route_tbl_info_type_data_v01_ei, ipa_route_tbl_info_type_v01)),
    Opnl(20, Bas("v4_filter_tbl_start_addr", U32)),
    Opnl(21, Bas("v6_filter_tbl_start_addr", U32)),
    Opnl(22, Sub("modem_mem_info",
          ipa_modem_mem_info_type_data_v01_ei, ipa_modem_mem_info_type_v01)),
    Opnl(23, Bas("ctrl_comm_dest_end_pt", U32)), Opnl(24, Bas("is_ssr_bootup", U8)),
    Opnl(25, Sub("hdr_proc_ctx_tbl_info",
          ipa_hdr_proc_ctx_tbl_info_type_data_v01_ei, ipa_hdr_proc_ctx_tbl_info_type_v01)),
    Opnl(26, Sub("zip_tbl_info",
          ipa_zip_tbl_info_type_data_v01_ei, ipa_zip_tbl_info_type_v01))>>
ipa_init_modem_driver_resp_msg_data_v01_ei ==
  <<Mand(2, Sub("resp", qmi_response_type_v01_ei, ipa_qmi_response_type_v01)),
    Opnl(16, Bas("ctrl_comm_dest_end_pt", U32)), Opnl(17, Bas("default_end_pt", U32))>>
ipa_indication_reg_req_msg_data_v01_ei ==
  <<Opnl(16, Bas("master_driver_init_complete", U8)),
    Opnl(17, Bas("data_usage_quota_reached", U8))>>
ipa_indication_reg_resp_msg_data_v01_ei ==
  <<Mand(2, Sub("resp", qmi_response_type_v01_ei, ipa_qmi_response_type_v01))>>
ipa_master_driver_init_complt_ind_msg_data_v01_ei ==
  <<Mand(2, Sub("master_driver_init_status", qmi_response_type_v01_ei,
        ipa_qmi_response_type_v01))>>
ipa_install_fltr_rule_req_msg_data_v01_ei ==
  <<Opnl(16, SubList("filter_spec_list",
        ipa_filter_spec_type_data_v01_ei, ipa_filter_spec_type_v01, 64)),
    Opnl(17, Bas("source_pipe_index", U32)), Opnl(18, Bas("num_ipv4_filters", U32)),
    Opnl(19, Bas("num_ipv6_filters", U32)),
    Opnl(20, BasList("xlat_filter_indices_list", U32, 64))>>
ipa_install_fltr_rule_resp_msg_data_v01_ei ==
  <<Mand(2, Sub("resp", qmi_response_type_v01_ei, ipa_qmi_response_type_v01)),
    Opnl(16, SubList("filter_handle_list",
          ipa_filter_rule_identifier_to_handle_map_data_v01_ei, ipa_filter_rule_identifier_to_handle_map_v01, 64))>>
ipa_fltr_installed_notif_req_msg_data_v01_ei ==
  <<Mand(1, Bas("source_pipe_index", U32)), Mand(2, Bas("install_status", U16)),
    Mand(3, SubList("filter_index_list",
          ipa_filter_handle_to_index_map_data_v01_ei, ipa_filter_handle_to_index_map_v01, 64)),
    Opnl(16, Bas("embedded_pipe_index", U32)), Opnl(17, Bas("retain_header", U8)),
    Opnl(18, Bas("embedded_call_mux_id", U32)), Opnl(19, Bas("num_ipv4_filters", U32)),
    Opnl(20, Bas("num_ipv6_filters", U32)),
    Opnl(21, Bas("start_ipv4_filter_idx", U32)),
    Opnl(22, Bas("start_ipv6_filter_idx", U32)), Opnl(23, BasList("rule_id", U32, 64)),
    Opnl(24, BasList("dst_pipe_id", U32, 8))>>
ipa_fltr_installed_notif_resp_msg_data_v01_ei ==
  <<Mand(2, Sub("resp", qmi_response_type_v01_ei, ipa_qmi_response_type_v01))>>
\* A tag used twice.
TagReused ==
  <<Mand(1, Bas("source_pipe_bitmask", U32)), Mand(1, Bas("request_id", U32)),
    Opnl(16, Bas("throttle_source", U8))>>
ipa_enable_force_clear_datapath_req_msg_data_v01_ei ==
  <<Mand(1, Bas("source_pipe_bitmask", U32)), Mand(2, Bas("request_id", U32)),
    Opnl(16, Bas("throttle_source", U8))>>
ipa_enable_force_clear_datapath_resp_msg_data_v01_ei ==
  <<Mand(2, Sub("resp", qmi_response_type_v01_ei, ipa_qmi_response_type_v01))>>
ipa_disable_force_clear_datapath_req_msg_data_v01_ei ==
  <<Mand(1, Bas("request_id", U32))>>
ipa_disable_force_clear_datapath_resp_msg_data_v01_ei ==
  <<Mand(2, Sub("resp", qmi_response_type_v01_ei, ipa_qmi_response_type_v01))>>
ipa_config_req_msg_data_v01_ei ==
  <<Opnl(16, Bas("peripheral_type", U32)), Opnl(17, Bas("hw_deaggr_supported", U8)),
    Opnl(18, Bas("max_aggr_frame_size", U32)),
    Opnl(19, Bas("ipa_ingress_pipe_mode", U32)),
    Opnl(20, Bas("peripheral_speed_info", U32)),
    Opnl(21, Bas("dl_accumulation_time_limit", U32)),
    Opnl(22, Bas("dl_accumulation_pkt_limit", U32)),
    Opnl(23, Bas("dl_accumulation_byte_limit", U32)),
    Opnl(24, Bas("ul_accumulation_time_limit", U32)),
    Opnl(25, Bas("hw_control_flags", U32)),
    Opnl(26, Bas("ul_msi_event_threshold", U32)),
    Opnl(27, Bas("dl_msi_event_threshold", U32))>>
ipa_config_resp_msg_data_v01_ei ==
  <<Mand(2, Sub("resp", qmi_response_type_v01_ei, ipa_qmi_response_type_v01))>>
ipa_get_data_stats_req_msg_data_v01_ei ==
  <<Mand(1, Bas("ipa_stats_type", U32)), Opnl(16, Bas("reset_stats", U8))>>
ipa_pipe_stats_info_type_data_v01_ei ==
  <<Bas("pipe_index", U32), Bas("num_ipv4_packets", U64), Bas("num_ipv4_bytes", U64),
    Bas("num_ipv6_packets", U64), Bas("num_ipv6_bytes", U64)>>
ipa_stats_type_filter_rule_data_v01_ei ==
  <<Bas("filter_rule_index", U32), Bas("num_packets", U64)>>
ipa_get_data_stats_resp_msg_data_v01_ei ==
  <<Mand(2, Sub("resp", qmi_response_type_v01_ei, ipa_qmi_response_type_v01)),
    Opnl(16, Bas("ipa_stats_type", U32)),
    Opnl(17, SubList("ul_src_pipe_stats_list",
          ipa_pipe_stats_info_type_data_v01_ei, ipa_pipe_stats_info_type_v01, 20)),
    Opnl(18, SubList("dl_dst_pipe_stats_list",
          ipa_pipe_stats_info_type_data_v01_ei, ipa_pipe_stats_info_type_v01, 20)),
    Opnl(19, SubList("dl_filter_rule_stats_list",
          ipa_stats_type_filter_rule_data_v01_ei, ipa_pipe_stats_info_type_v01, 64))>>
ipa_apn_data_stats_info_type_data_v01_ei ==
  <<Bas("mux_id", U32), Bas("num_ul_packets", U64), Bas("num_ul_bytes", U64),
    Bas("num_dl_packets", U64), Bas("num_dl_bytes", U64)>>
ipa_get_apn_data_stats_req_msg_data_v01_ei ==
  <<Opnl(16, BasList("mux_id_list", U32, 8))>>
ipa_get_apn_data_stats_resp_msg_data_v01_ei ==
  <<Mand(2, Sub("resp", qmi_response_type_v01_ei, ipa_qmi_response_type_v01)),
    Opnl(16, SubList("apn_data_stats_list",
          ipa_apn_data_stats_info_type_data_v01_ei, ipa_apn_data_stats_info_type_v01, 8))>>
ipa_data_usage_quota_info_type_data_v01_ei ==
  <<Bas("mux_id", U32), Bas("num_Mbytes", U64)>>
ipa_set_data_usage_quota_req_msg_data_v01_ei ==
  <<Opnl(16, SubList("apn_quota_list",
        ipa_data_usage_quota_info_type_data_v01_ei, ipa_data_usage_quota_info_type_v01, 8))>>
ipa_set_data_usage_quota_resp_msg_data_v01_ei ==
  <<Mand(2, Sub("resp", qmi_response_type_v01_ei, ipa_qmi_response_type_v01))>>
ipa_data_usage_quota_reached_ind_msg_data_v01_ei ==
  <<Mand(1, Sub("apn",
        ipa_data_usage_quota_info_type_data_v01_ei, ipa_data_usage_quota_info_type_v01))>>
ipa_stop_data_usage_quota_req_msg_data_v01_ei ==
  <<>>
ipa_stop_data_usage_quota_resp_msg_data_v01_ei ==
  <<Mand(2, Sub("resp", qmi_response_type_v01_ei, ipa_qmi_response_type_v01))>>
=============================================================================
