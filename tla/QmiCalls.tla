------------------------------ MODULE QmiCalls ------------------------------
(* The QMI exchanges of the IPA driver (ipa_qmi_service.c): the element      *)
(* table, the structure and the length limit of each message and its answer. *)
EXTENDS QmiTables

QMI_IPA_MAX_MSG_LEN == 22685

Msg(ei, struct, max) == [ei |-> ei, struct |-> struct, max |-> max]
NoReply == Msg(<<>>, ipa_stop_data_usage_quota_req_msg_v01, 0)
OnlyResult(ei, struct) == Msg(ei, struct, 7)
Exchange(first, reply) == [first |-> first, reply |-> reply]

\* The calls: the table, the structure and the length limit of each message.

qmi_init_modem_send_sync_msg ==
  Exchange(Msg(ipa_init_modem_driver_req_msg_data_v01_ei,
               ipa_init_modem_driver_req_msg_v01, 162),
           Msg(ipa_init_modem_driver_resp_msg_data_v01_ei,
               ipa_init_modem_driver_resp_msg_v01, 25))
\* The limit of this request is computed, see Limit.
qmi_filter_request_send ==
  Exchange(Msg(ipa_install_fltr_rule_req_msg_data_v01_ei,
               ipa_install_fltr_rule_req_msg_v01, 0),
           Msg(ipa_install_fltr_rule_resp_msg_data_v01_ei,
               ipa_install_fltr_rule_resp_msg_v01, 783))
qmi_enable_force_clear_datapath_send ==
  Exchange(Msg(ipa_enable_force_clear_datapath_req_msg_data_v01_ei,
               ipa_enable_force_clear_datapath_req_msg_v01, 18),
           OnlyResult(ipa_enable_force_clear_datapath_resp_msg_data_v01_ei,
                      ipa_enable_force_clear_datapath_resp_msg_v01))
qmi_disable_force_clear_datapath_send ==
  Exchange(Msg(ipa_disable_force_clear_datapath_req_msg_data_v01_ei,
               ipa_disable_force_clear_datapath_req_msg_v01, 7),
           OnlyResult(ipa_disable_force_clear_datapath_resp_msg_data_v01_ei,
                      ipa_disable_force_clear_datapath_resp_msg_v01))
qmi_filter_notify_send ==
  Exchange(Msg(ipa_fltr_installed_notif_req_msg_data_v01_ei,
               ipa_fltr_installed_notif_req_msg_v01, 1899),
           OnlyResult(ipa_fltr_installed_notif_resp_msg_data_v01_ei,
                      ipa_fltr_installed_notif_resp_msg_v01))
ipa_qmi_get_data_stats ==
  Exchange(Msg(ipa_get_data_stats_req_msg_data_v01_ei,
               ipa_get_data_stats_req_msg_v01, 11),
           Msg(ipa_get_data_stats_resp_msg_data_v01_ei,
               ipa_get_data_stats_resp_msg_v01, 2234))
ipa_qmi_get_network_stats ==
  Exchange(Msg(ipa_get_apn_data_stats_req_msg_data_v01_ei,
               ipa_get_apn_data_stats_req_msg_v01, 36),
           Msg(ipa_get_apn_data_stats_resp_msg_data_v01_ei,
               ipa_get_apn_data_stats_resp_msg_v01, 299))
ipa_qmi_set_data_quota ==
  Exchange(Msg(ipa_set_data_usage_quota_req_msg_data_v01_ei,
               ipa_set_data_usage_quota_req_msg_v01, 100),
           OnlyResult(ipa_set_data_usage_quota_resp_msg_data_v01_ei,
                      ipa_set_data_usage_quota_resp_msg_v01))
ipa_qmi_stop_data_qouta ==
  Exchange(Msg(ipa_stop_data_usage_quota_req_msg_data_v01_ei,
               ipa_stop_data_usage_quota_req_msg_v01, 0),
           OnlyResult(ipa_stop_data_usage_quota_resp_msg_data_v01_ei,
                      ipa_stop_data_usage_quota_resp_msg_v01))

\* What the modem sends first, and the handlers' answers.
handle_indication_req ==
  Exchange(Msg(ipa_indication_reg_req_msg_data_v01_ei,
               ipa_indication_reg_req_msg_v01, QMI_IPA_MAX_MSG_LEN),
           OnlyResult(ipa_indication_reg_resp_msg_data_v01_ei,
                      ipa_indication_reg_resp_msg_v01))
handle_install_filter_rule_req ==
  Exchange(Msg(ipa_install_fltr_rule_req_msg_data_v01_ei,
               ipa_install_fltr_rule_req_msg_v01, QMI_IPA_MAX_MSG_LEN),
           Msg(ipa_install_fltr_rule_resp_msg_data_v01_ei,
               ipa_install_fltr_rule_resp_msg_v01, 783))
handle_filter_installed_notify_req ==
  Exchange(Msg(ipa_fltr_installed_notif_req_msg_data_v01_ei,
               ipa_fltr_installed_notif_req_msg_v01, QMI_IPA_MAX_MSG_LEN),
           OnlyResult(ipa_fltr_installed_notif_resp_msg_data_v01_ei,
                      ipa_fltr_installed_notif_resp_msg_v01))
handle_ipa_config_req ==
  Exchange(Msg(ipa_config_req_msg_data_v01_ei,
               ipa_config_req_msg_v01, QMI_IPA_MAX_MSG_LEN),
           OnlyResult(ipa_config_resp_msg_data_v01_ei, ipa_config_resp_msg_v01))
\* Indications: nothing answers them.
master_driver_init_complete_ind ==
  Exchange(OnlyResult(ipa_master_driver_init_complt_ind_msg_data_v01_ei,
                      ipa_master_driver_init_complt_ind_msg_v01),
           NoReply)
ipa_q6_clnt_quota_reached_ind_cb ==
  Exchange(Msg(ipa_data_usage_quota_reached_ind_msg_data_v01_ei,
               ipa_data_usage_quota_reached_ind_msg_v01, QMI_IPA_MAX_MSG_LEN),
           NoReply)

Exchanges ==
  [init |-> qmi_init_modem_send_sync_msg, request |-> qmi_filter_request_send,
   enable |-> qmi_enable_force_clear_datapath_send,
   disable |-> qmi_disable_force_clear_datapath_send,
   notify |-> qmi_filter_notify_send, stats |-> ipa_qmi_get_data_stats,
   apnstats |-> ipa_qmi_get_network_stats, quota |-> ipa_qmi_set_data_quota,
   stop |-> ipa_qmi_stop_data_qouta, register |-> handle_indication_req,
   install |-> handle_install_filter_rule_req,
   installed |-> handle_filter_installed_notify_req, config |-> handle_ipa_config_req,
   ready |-> master_driver_init_complete_ind, reached |-> ipa_q6_clnt_quota_reached_ind_cb]
=============================================================================
