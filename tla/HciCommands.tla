----------------------------- MODULE HciCommands -----------------------------
(***************************************************************************)
(* The switch of ble_transport_to_ll_cmd_impl (lib/modules/bluetooth/      *)
(* hci.c): for every HCI command of the host, whether the SoftDevice       *)
(* Controller is called and what the answer to the host consists of.       *)
(*                                                                         *)
(* A group is a stretch of the switch compiled under one condition:        *)
(*   plain    the controller is called, the answer has a status only       *)
(*   returns  the controller is called, the answer has return parameters   *)
(*   status   the controller is called, the answer is a command status     *)
(*   bare     a case of its own that calls nothing                         *)
(* Commands are named as in nimble/hci_common.h, without BLE_HCI_OCF_.     *)
(***************************************************************************)
CONSTANT Options  \* the MYNEWT_VAL options that are set

Group(plain, returns, status, bare) ==
    [plain |-> plain, returns |-> returns, status |-> status, bare |-> bare]

LinkControl == Group({"DISCONNECT_CMD", "RD_REM_VER_INFO"}, {}, {}, {})

Baseband == Group(
    {"CB_SET_EVENT_MASK", "CB_RESET", "CB_SET_CTLR_TO_HOST_FC", "CB_HOST_BUF_SIZE",
     "CB_HOST_NUM_COMP_PKTS", "CB_SET_EVENT_MASK2"},
    {"CB_READ_TX_PWR", "CB_RD_AUTH_PYLD_TMO", "CB_WR_AUTH_PYLD_TMO"}, {}, {})

\* RD_LOC_SUPP_CMD is answered here, with 64 zero bytes; the others by the controller.
Information == Group({},
    {"IP_RD_LOCAL_VER", "IP_RD_LOC_SUPP_CMD", "IP_RD_LOC_SUPP_FEAT", "IP_RD_BD_ADDR"}, {},
    {"IP_RD_BUF_SIZE"})

StatusParameters == Group({}, {"RD_RSSI"}, {}, {})

LeSetUp == Group({"LE_SET_EVENT_MASK", "LE_SET_RAND_ADDR"},
    {"LE_RD_BUF_SIZE", "LE_RD_LOC_SUPP_FEAT"}
    \cup (IF "ISO" \in Options THEN {"LE_RD_BUF_SIZE_V2"} ELSE {}), {}, {})

Broadcaster == Group(
    {"LE_SET_ADV_PARAMS", "LE_SET_ADV_DATA", "LE_SET_SCAN_RSP_DATA", "LE_SET_ADV_ENABLE"},
    {"LE_RD_ADV_CHAN_TXPWR"}, {}, {})

Observer == Group({"LE_SET_SCAN_PARAMS", "LE_SET_SCAN_ENABLE", "LE_CREATE_CONN_CANCEL"}, {},
    {"LE_CREATE_CONN"}, {})

AcceptList == Group({"LE_CLEAR_WHITE_LIST", "LE_ADD_WHITE_LIST", "LE_RMV_WHITE_LIST"},
    {"LE_RD_WHITE_LIST_SIZE"}, {}, {})

Connections == Group(
    IF {"CENTRAL", "EXT_ADV"} \cap Options # {} THEN {"LE_SET_HOST_CHAN_CLASS"} ELSE {},
    IF "CONNECTIONS" \in Options THEN {"LE_RD_CHAN_MAP"} ELSE {},
    (IF "CENTRAL" \in Options THEN {"LE_CONN_UPDATE"} ELSE {})
    \cup (IF "CONNECTIONS" \in Options THEN {"LE_RD_REM_FEAT"} ELSE {}), {})

Encryption == Group({},
    {"LE_ENCRYPT", "LE_RAND"}
    \cup (IF "PERIPHERAL" \in Options THEN {"LE_LT_KEY_REQ_REPLY", "LE_LT_KEY_REQ_NEG_REPLY"} ELSE {}),
    IF "CENTRAL" \in Options THEN {"LE_START_ENCRYPT"} ELSE {}, {})

\* The case of RD_SUPP_STATES has no body and falls into the one of RX_TEST.
Tests == Group({}, {}, {}, {"LE_RD_SUPP_STATES", "LE_RX_TEST", "LE_TX_TEST", "LE_TEST_END",
                            "LE_REM_CONN_PARAM_RR", "LE_REM_CONN_PARAM_NRR"})

DataLength == Group({"LE_WR_SUGG_DEF_DATA_LEN"}, {"LE_SET_DATA_LEN", "LE_RD_SUGG_DEF_DATA_LEN"}, {},
    {"LE_RD_P256_PUBKEY", "LE_GEN_DHKEY"})

ResolvingList == Group(
    {"LE_ADD_RESOLV_LIST", "LE_RMV_RESOLV_LIST", "LE_CLR_RESOLV_LIST", "LE_SET_ADDR_RES_EN",
     "LE_SET_RPA_TMO"},
    {"LE_RD_RESOLV_LIST_SIZE"}, {}, {"LE_RD_PEER_RESOLV_ADDR", "LE_RD_LOCAL_RESOLV_ADDR"})

Phy == Group({"LE_SET_DEFAULT_PHY"}, {"LE_RD_MAX_DATA_LEN", "LE_RD_PHY"}, {"LE_SET_PHY"},
    {"LE_RX_TEST_V2", "LE_TX_TEST_V2"})

ExtAdv == Group(
    {"LE_SET_ADV_SET_RND_ADDR", "LE_SET_EXT_ADV_DATA", "LE_SET_EXT_SCAN_RSP_DATA",
     "LE_SET_EXT_ADV_ENABLE", "LE_REMOVE_ADV_SET", "LE_CLEAR_ADV_SETS"},
    {"LE_SET_EXT_ADV_PARAM", "LE_RD_MAX_ADV_DATA_LEN", "LE_RD_NUM_OF_ADV_SETS"}, {}, {})

ExtAdvV2 == Group({}, {"LE_SET_EXT_ADV_PARAM_V2"}, {}, {})

PeriodicAdv == Group(
    {"LE_SET_PERIODIC_ADV_PARAMS", "LE_SET_PERIODIC_ADV_DATA", "LE_SET_PERIODIC_ADV_ENABLE"},
    {}, {}, {})

ExtScan == Group(
    IF "OBSERVER" \in Options THEN {"LE_SET_EXT_SCAN_PARAM", "LE_SET_EXT_SCAN_ENABLE"} ELSE {}, {},
    IF "CENTRAL" \in Options THEN {"LE_EXT_CREATE_CONN"} ELSE {}, {})

PeriodicSync == Group(
    {"LE_PERIODIC_ADV_CREATE_SYNC_CANCEL", "LE_PERIODIC_ADV_TERM_SYNC",
     "LE_ADD_DEV_TO_PERIODIC_ADV_LIST", "LE_REM_DEV_FROM_PERIODIC_ADV_LIST",
     "LE_CLEAR_PERIODIC_ADV_LIST"},
    {"LE_RD_PERIODIC_ADV_LIST_SIZE"}, {"LE_PERIODIC_ADV_CREATE_SYNC"}, {})

Power == Group({"LE_WR_RF_PATH_COMPENSATION", "LE_SET_PRIVACY_MODE"},
    {"LE_RD_TRANSMIT_POWER", "LE_RD_RF_PATH_COMPENSATION"}, {}, {"LE_RX_TEST_V3", "LE_TX_TEST_V3"})

SyncTransfer == Group({"LE_PERIODIC_ADV_RECEIVE_ENABLE", "LE_SET_DEFAULT_SYNC_TRANSFER_PARAMS"},
    {"LE_PERIODIC_ADV_SYNC_TRANSFER", "LE_PERIODIC_ADV_SET_INFO_TRANSFER",
     "LE_PERIODIC_ADV_SYNC_TRANSFER_PARAMS"}, {}, {})

KeysV2 == Group({}, {}, {}, {"LE_GENERATE_DHKEY_V2", "LE_MODIFY_SCA"})

Isochronous == Group({},
    {"LE_READ_ISO_TX_SYNC", "LE_SET_CIG_PARAMS", "LE_SET_CIG_PARAMS_TEST", "LE_REMOVE_CIG",
     "LE_REJECT_CIS_REQ", "LE_BIG_TERMINATE_SYNC"},
    {"LE_CREATE_CIS", "LE_ACCEPT_CIS_REQ", "LE_CREATE_BIG", "LE_CREATE_BIG_TEST",
     "LE_TERMINATE_BIG", "LE_BIG_CREATE_SYNC"}, {})

PeerClock == Group({}, {}, {"LE_REQ_PEER_SCA"}, {})

IsoDataPath == Group({}, {"LE_SETUP_ISO_DATA_PATH", "LE_REMOVE_ISO_DATA_PATH"}, {}, {})

IsoTest == Group({}, {"LE_ISO_TRANSMIT_TEST", "LE_ISO_RECEIVE_TEST", "LE_ISO_READ_TEST_COUNTERS",
                      "LE_ISO_TEST_END"}, {}, {})

HostFeature == Group({"LE_SET_HOST_FEATURE"}, {}, {}, {})

IsoLinkQuality == Group({}, {"LE_READ_ISO_LINK_QUALITY"}, {}, {})

PowerControl == Group({},
    {"LE_ENH_READ_TRANSMIT_POWER_LEVEL", "LE_SET_PATH_LOSS_REPORT_PARAM",
     "LE_SET_PATH_LOSS_REPORT_ENABLE", "LE_SET_TRANS_PWR_REPORT_ENABLE"},
    {"LE_READ_REMOTE_TRANSMIT_POWER_LEVEL"}, {})

Subrating == Group({"LE_SET_DEFAULT_SUBRATE"}, {}, {"LE_SUBRATE_REQ"}, {})

ChannelSounding == Group({"LE_CS_SET_CHAN_CLASS", "LE_CS_TEST"},
    {"LE_CS_RD_LOC_SUPP_CAP", "LE_CS_WR_CACHED_REM_SUPP_CAP", "LE_CS_SET_DEF_SETTINGS",
     "LE_CS_WR_CACHED_REM_FAE", "LE_CS_SET_PROC_PARAMS"},
    {"LE_CS_RD_REM_SUPP_CAP", "LE_CS_SEC_ENABLE", "LE_CS_RD_REM_FAE", "LE_CS_CREATE_CONFIG",
     "LE_CS_REMOVE_CONFIG", "LE_CS_PROC_ENABLE", "LE_CS_TEST_END"}, {})

VendorSpecific == Group({}, {}, {}, {
    "VS_RD_STATIC_ADDR", "VS_SET_TX_PWR", "VS_CSS_CONFIGURE", "VS_CSS_ENABLE",
    "VS_CSS_SET_NEXT_SLOT", "VS_CSS_SET_CONN_SLOT", "VS_CSS_READ_CONN_SLOT",
    "VS_SET_DATA_LEN", "VS_SET_ANTENNA", "VS_SET_LOCAL_IRK", "VS_SET_SCAN_CFG"})

\* The groups under no condition of their own, and those that need an option.
Always == {LinkControl, Baseband, Information, StatusParameters, LeSetUp, AcceptList, Connections,
           Encryption, Tests, DataLength, ResolvingList, Phy, Power, KeysV2, PowerControl,
           VendorSpecific}

Optional == {<<"BROADCASTER", Broadcaster>>, <<"OBSERVER", Observer>>,
             <<"EXT_ADV", ExtAdv>>, <<"EXT_ADV", ExtScan>>, <<"EXT_ADV", ExtAdvV2>>,
             <<"PERIODIC_ADV", PeriodicAdv>>,
             <<"SYNC_TRANSFER", PeriodicSync>>, <<"SYNC_TRANSFER", SyncTransfer>>,
             <<"ISO", Isochronous>>, <<"ISO", IsoDataPath>>, <<"ISO", IsoLinkQuality>>,
             <<"ISO_TEST", IsoTest>>, <<"WHITELIST", PeerClock>>,
             <<"CONN_SUBRATING", HostFeature>>, <<"CONN_SUBRATING", Subrating>>,
             <<"CHANNEL_SOUNDING", ChannelSounding>>}

Switch == Always \cup {o[2] : o \in {p \in Optional : p[1] \in Options}}

\* Which kind of case a command has; "unlisted" when it meets a default.
KindOf(cmd) ==
    CASE \E g \in Switch : cmd \in g.plain -> "plain"
      [] \E g \in Switch : cmd \in g.returns -> "returns"
      [] \E g \in Switch : cmd \in g.status -> "status"
      [] \E g \in Switch : cmd \in g.bare -> "bare"
      [] OTHER -> "unlisted"

===============================================================================
