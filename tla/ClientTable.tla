------------------------------- MODULE ClientTable ----------------------------
(***************************************************************************)
(* The IPA clients: their numbers (enum ipa_client_type, msm_ipa.h), the    *)
(* names the driver prints for the numbers (ipa_clients_strings, ipa_api.c) *)
(* and the pipe each has on a hardware version (ep_mapping, ipa_utils.c).   *)
(* Entry i of a sequence is the client number i - 1; "-" is a reserved one. *)
(***************************************************************************)
EXTENDS Naturals, Sequences, TLC

ClientsLow ==
  << "HSIC1_PROD", "HSIC1_CONS", "HSIC2_PROD", "HSIC2_CONS", "HSIC3_PROD",
     "HSIC3_CONS", "HSIC4_PROD", "HSIC4_CONS", "HSIC5_PROD", "HSIC5_CONS",
     "WLAN1_PROD", "WLAN1_CONS", "A5_WLAN_AMPDU_PROD", "WLAN2_CONS", "-",
     "WLAN3_CONS", "-", "WLAN4_CONS", "USB_PROD", "USB_CONS", "USB2_PROD",
     "USB2_CONS", "USB3_PROD", "USB3_CONS", "USB4_PROD", "USB4_CONS",
     "UC_USB_PROD", "USB_DPL_CONS", "A2_EMBEDDED_PROD", "A2_EMBEDDED_CONS",
     "A2_TETHERED_PROD", "A2_TETHERED_CONS", "APPS_LAN_PROD", "APPS_LAN_CONS",
     "APPS_WAN_PROD", "APPS_WAN_CONS", "APPS_CMD_PROD", "A5_LAN_WAN_CONS",
     "ODU_PROD", "ODU_EMB_CONS", "-", "ODU_TETH_CONS", "MHI_PROD", "MHI_CONS",
     "MEMCPY_DMA_SYNC_PROD", "MEMCPY_DMA_SYNC_CONS", "MEMCPY_DMA_ASYNC_PROD",
     "MEMCPY_DMA_ASYNC_CONS", "ETHERNET_PROD", "ETHERNET_CONS", "Q6_LAN_PROD",
     "Q6_LAN_CONS" >>

ClientsHigh ==
  << "Q6_WAN_PROD", "Q6_WAN_CONS", "Q6_CMD_PROD", "Q6_DUN_CONS",
     "Q6_DECOMP_PROD", "Q6_DECOMP_CONS", "Q6_DECOMP2_PROD", "Q6_DECOMP2_CONS",
     "-", "Q6_LTE_WIFI_AGGR_CONS", "TEST_PROD", "TEST_CONS", "TEST1_PROD",
     "TEST1_CONS", "TEST2_PROD", "TEST2_CONS", "TEST3_PROD", "TEST3_CONS",
     "TEST4_PROD", "TEST4_CONS", "-", "DUMMY_CONS", "Q6_DL_NLO_DATA_PROD",
     "Q6_UL_NLO_DATA_CONS", "-", "Q6_UL_NLO_ACK_CONS", "-",
     "Q6_QBAP_STATUS_CONS", "-", "MHI_DPL_CONS", "-", "ODL_DPL_CONS",
     "Q6_AUDIO_DMA_MHI_PROD", "Q6_AUDIO_DMA_MHI_CONS", "WIGIG_PROD",
     "WIGIG1_CONS", "-", "WIGIG2_CONS", "-", "WIGIG3_CONS", "-",
     "WIGIG4_CONS", "-", "APPS_WAN_COAL_CONS", "MHI_PRIME_TETH_PROD",
     "MHI_PRIME_TETH_CONS", "MHI_PRIME_RMNET_PROD", "MHI_PRIME_RMNET_CONS",
     "MHI_PRIME_DPL_PROD", "-", "AQC_ETHERNET_PROD", "AQC_ETHERNET_CONS" >>

Clients == ClientsLow \o ClientsHigh

ClientStrings ==
  << "HSIC1_PROD", "HSIC1_CONS", "HSIC2_PROD", "HSIC2_CONS", "HSIC3_PROD",
     "HSIC3_CONS", "HSIC4_PROD", "HSIC4_CONS", "HSIC5_PROD", "HSIC5_CONS",
     "WLAN1_PROD", "WLAN1_CONS", "WLAN2_PROD", "WLAN2_CONS", "-",
     "WLAN3_CONS", "-", "WLAN4_CONS", "USB_PROD", "USB_CONS", "USB2_PROD",
     "USB2_CONS", "USB3_PROD", "USB3_CONS", "USB4_PROD", "USB4_CONS",
     "UC_USB_PROD", "USB_DPL_CONS", "A2_EMBEDDED_PROD", "A2_EMBEDDED_CONS",
     "A2_TETHERED_PROD", "A2_TETHERED_CONS", "APPS_LAN_PROD", "APPS_LAN_CONS",
     "APPS_WAN_PROD", "APPS_WAN_CONS", "APPS_CMD_PROD", "A5_LAN_WAN_CONS",
     "ODU_PROD", "ODU_EMB_CONS", "-", "ODU_TETH_CONS", "MHI_PROD", "MHI_CONS",
     "MEMCPY_DMA_SYNC_PROD", "MEMCPY_DMA_SYNC_CONS", "MEMCPY_DMA_ASYNC_PROD",
     "MEMCPY_DMA_ASYNC_CONS", "ETHERNET_PROD", "ETHERNET_CONS", "Q6_LAN_PROD",
     "Q6_LAN_CONS", "Q6_WAN_PROD", "Q6_WAN_CONS", "Q6_CMD_PROD",
     "Q6_DUN_CONS", "Q6_DECOMP_PROD", "Q6_DECOMP_CONS", "Q6_DECOMP2_PROD",
     "Q6_DECOMP2_CONS", "-", "Q6_LTE_WIFI_AGGR_CONS", "TEST_PROD",
     "TEST_CONS", "TEST1_PROD", "TEST1_CONS", "TEST2_PROD", "TEST2_CONS",
     "TEST3_PROD", "TEST3_CONS", "TEST4_PROD", "TEST4_CONS", "-",
     "DUMMY_CONS", "Q6_DL_NLO_DATA_PROD", "Q6_UL_NLO_DATA_CONS", "-",
     "Q6_UL_NLO_ACK_CONS", "-", "Q6_QBAP_STATUS_CONS", "-", "MHI_DPL_CONS",
     "-", "ODL_DPL_CONS", "Q6_AUDIO_DMA_MHI_PROD", "Q6_AUDIO_DMA_MHI_CONS",
     "WIGIG_PROD", "WIGIG1_CONS", "-", "WIGIG2_CONS", "-", "WIGIG3_CONS", "-",
     "WIGIG4_CONS", "-", "APPS_WAN_COAL_CONS", "MHI_PRIME_RMNET_PROD",
     "MHI_PRIME_RMNET_CONS", "MHI_PRIME_TETH_PROD", "MHI_PRIME_TETH_CONS",
     "MHI_PRIME_DPL_PROD", "AQC_ETHERNET_PROD", "AQC_ETHERNET_CONS" >>

PipesV1_1 ==
  "HSIC1_PROD" :> 19 @@ "HSIC2_PROD" :> 12 @@ "USB2_PROD" :> 12 @@
  "HSIC3_PROD" :> 13 @@ "USB3_PROD" :> 13 @@ "HSIC4_PROD" :> 0 @@
  "USB4_PROD" :> 0 @@ "USB_PROD" :> 11 @@ "A5_WLAN_AMPDU_PROD" :> 15 @@
  "A2_EMBEDDED_PROD" :> 8 @@ "A2_TETHERED_PROD" :> 6 @@ "APPS_WAN_PROD" :> 2
  @@ "APPS_CMD_PROD" :> 1 @@ "Q6_LAN_PROD" :> 5 @@ "HSIC1_CONS" :> 14 @@
  "HSIC2_CONS" :> 16 @@ "USB2_CONS" :> 16 @@ "HSIC3_CONS" :> 17 @@
  "USB3_CONS" :> 17 @@ "HSIC4_CONS" :> 18 @@ "USB4_CONS" :> 18 @@
  "USB_CONS" :> 10 @@ "A2_EMBEDDED_CONS" :> 9 @@ "A2_TETHERED_CONS" :> 7 @@
  "A5_LAN_WAN_CONS" :> 3 @@ "Q6_LAN_CONS" :> 4

PipesV2_0 ==
  "HSIC1_PROD" :> 12 @@ "WLAN1_PROD" :> 18 @@ "USB2_PROD" :> 12 @@
  "USB3_PROD" :> 13 @@ "USB4_PROD" :> 0 @@ "USB_PROD" :> 11 @@
  "APPS_WAN_PROD" :> 4 @@ "APPS_CMD_PROD" :> 3 @@ "ODU_PROD" :> 12 @@
  "MHI_PROD" :> 18 @@ "Q6_LAN_PROD" :> 6 @@ "Q6_CMD_PROD" :> 7 @@
  "MEMCPY_DMA_SYNC_PROD" :> 12 @@ "MEMCPY_DMA_ASYNC_PROD" :> 19 @@
  "ETHERNET_PROD" :> 12 @@ "TEST_PROD" :> 19 @@ "TEST1_PROD" :> 19 @@
  "TEST2_PROD" :> 12 @@ "TEST3_PROD" :> 11 @@ "TEST4_PROD" :> 0 @@
  "HSIC1_CONS" :> 13 @@ "WLAN1_CONS" :> 17 @@ "WLAN2_CONS" :> 16 @@
  "WLAN3_CONS" :> 14 @@ "WLAN4_CONS" :> 19 @@ "USB_CONS" :> 15 @@
  "USB_DPL_CONS" :> 0 @@ "APPS_LAN_CONS" :> 2 @@ "APPS_WAN_CONS" :> 5 @@
  "ODU_EMB_CONS" :> 13 @@ "ODU_TETH_CONS" :> 1 @@ "MHI_CONS" :> 17 @@
  "Q6_LAN_CONS" :> 8 @@ "Q6_WAN_CONS" :> 9 @@ "MEMCPY_DMA_SYNC_CONS" :> 13 @@
  "MEMCPY_DMA_ASYNC_CONS" :> 16 @@ "Q6_LTE_WIFI_AGGR_CONS" :> 10 @@
  "ETHERNET_CONS" :> 1 @@ "TEST_CONS" :> 1 @@ "TEST1_CONS" :> 1 @@
  "TEST2_CONS" :> 16 @@ "TEST3_CONS" :> 13 @@ "TEST4_CONS" :> 15

PipesV2_6L ==
  "USB_PROD" :> 1 @@ "WLAN1_PROD" :> 18 @@ "WLAN1_CONS" :> 17 @@
  "WLAN2_CONS" :> 16 @@ "WLAN3_CONS" :> 15 @@ "WLAN4_CONS" :> 19 @@
  "APPS_WAN_PROD" :> 4 @@ "APPS_CMD_PROD" :> 3 @@ "Q6_LAN_PROD" :> 6 @@
  "Q6_CMD_PROD" :> 7 @@ "Q6_DECOMP_PROD" :> 11 @@ "Q6_DECOMP2_PROD" :> 13 @@
  "TEST_PROD" :> 11 @@ "TEST1_PROD" :> 11 @@ "TEST2_PROD" :> 12 @@
  "TEST3_PROD" :> 13 @@ "TEST4_PROD" :> 14 @@ "USB_CONS" :> 0 @@
  "USB_DPL_CONS" :> 10 @@ "APPS_LAN_CONS" :> 2 @@ "APPS_WAN_CONS" :> 5 @@
  "Q6_LAN_CONS" :> 8 @@ "Q6_WAN_CONS" :> 9 @@ "Q6_DECOMP_CONS" :> 12 @@
  "Q6_DECOMP2_CONS" :> 14 @@ "TEST_CONS" :> 15 @@ "TEST1_CONS" :> 15 @@
  "TEST2_CONS" :> 0 @@ "TEST3_CONS" :> 1 @@ "TEST4_CONS" :> 10

(* Clients that only the self-tests connect.                                *)
TestClients == {"TEST_PROD", "TEST1_PROD", "TEST2_PROD", "TEST3_PROD", "TEST4_PROD",
                "TEST_CONS", "TEST1_CONS", "TEST2_CONS", "TEST3_CONS", "TEST4_CONS"}
=============================================================================
