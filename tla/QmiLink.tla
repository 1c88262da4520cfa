------------------------------ MODULE QmiLink -------------------------------
(* QMI exchanges between the IPA driver and the modem: a call fills a        *)
(* structure, the QMI library encodes it by the element table and the length *)
(* limit its caller names, the peer decodes it and answers, and the caller   *)
(* waits for the answer with a timeout.  One exchange at a time; the modem   *)
(* may be restarting, may answer with an error, or not at all.               *)
EXTENDS QmiTables, FiniteSets

CONSTANT Exchanges   \* those of QmiCalls: the messages of each exchange

VARIABLES
  call,     \* the exchange under way, "none" between exchanges
  leg,      \* "first" message or "reply"
  at,       \* "idle", "filled", "wire", "decoded"
  filled,   \* field |-> number of elements the sender put in
  wire,     \* the TLVs of the message: [tag, n]
  bytes,    \* length of the encoded message
  got,      \* field |-> number of elements the receiver found
  overran,  \* fields whose decoding wrote past their end, ever
  answer,   \* what the modem answered in this exchange
  rc        \* what the call returned: "none", "ok" or "err"

vars == <<call, leg, at, filled, wire, bytes, got, overran, answer, rc>>

QMI_IPA_MAX_FILTERS_V01 == 64
MAX_NUM_Q6_RULE == 35

Count(f) == IF f \in DOMAIN filled THEN filled[f] ELSE 0

\* ipa_qmi_filter_request_ex_calc_length(): the structure without its arrays,
\* and the elements in use.
ipa_qmi_filter_request_ex_calc_length(n, xlat) ==
  LET s == ipa_install_fltr_rule_req_msg_v01
  IN  s.size - QMI_IPA_MAX_FILTERS_V01 * (ipa_filter_spec_type_v01.size + 4
        + ipa_filter_spec_ex_type_v01.size + ipa_filter_spec_ex2_type_v01.size + 4)
      + ipa_filter_spec_type_v01.size * n + 4 * xlat

Indications == {"ready", "reached"}
ByModem == {"register", "install", "installed", "config", "reached"}
ByAp == {"init", "request", "enable", "disable", "notify", "stats", "apnstats", "quota",
         "stop", "ready"}

M == Exchanges[call][leg]
DriverSends == (call \in ByAp) <=> (leg = "first")
Limit ==
  IF call = "request" /\ leg = "first"
  THEN ipa_qmi_filter_request_ex_calc_length(Count("filter_spec_list"),
                                             Count("xlat_filter_indices_list"))
  ELSE M.max
-----------------------------------------------------------------------------
Fields(ei, tags, n) ==
  [f \in {ei[i].elem.field : i \in {j \in DOMAIN ei : ~ei[j].opt \/ ei[j].tag \in tags}} |->
     LET e == ei[CHOOSE i \in DOMAIN ei : ei[i].elem.field = f].elem
     IN  IF e.list THEN IF n < e.max THEN n ELSE e.max ELSE 1]
OptTags(ei) == {ei[i].tag : i \in {j \in DOMAIN ei : ei[j].opt}}

\* The callers' checks on what they are about to send.
Sendable(c, fs) ==
  /\ c = "request" => /\ "source_pipe_index" \notin DOMAIN fs
                      /\ "filter_spec_list" \in DOMAIN fs =>
                           fs["filter_spec_list"] < QMI_IPA_MAX_FILTERS_V01
  /\ c = "notify" => ("embedded_pipe_index" \in DOMAIN fs) <=>
                        ("embedded_call_mux_id" \in DOMAIN fs)

\* The TLV tags tried: none, all, one, or all but one of the optional ones.
TagChoices(ei) ==
  LET T == OptTags(ei)
  IN  {{}, T} \cup {{t} : t \in T} \cup {T \ {t} : t \in T}

Init ==
  /\ call = "none" /\ leg = "first" /\ at = "idle"
  /\ filled = <<>> /\ wire = <<>> /\ bytes = 0 /\ got = <<>> /\ overran = {}
  /\ answer = "none" /\ rc = "none"

Start(c) ==
  /\ call = "none" /\ call' = c /\ leg' = "first" /\ answer' = "none" /\ rc' = "none"
  /\ LET ei == Exchanges[c].first.ei
     IN  \E tags \in TagChoices(ei), n \in {0, 1, IF c = "request" THEN 63 ELSE 64} :
           /\ Sendable(c, Fields(ei, tags, n))
           /\ filled' = Fields(ei, tags, n)
  /\ at' = "filled"
  /\ UNCHANGED <<wire, bytes, got, overran>>

\* The handlers fill in the result only; the install handler also the handles
\* of at most MAX_NUM_Q6_RULE rules.  The modem may fill in anything.
ReplyFields ==
  LET ei == M.ei
      n == IF "filter_spec_list" \in DOMAIN got THEN got["filter_spec_list"] ELSE 0
  IN  IF ~DriverSends THEN {Fields(ei, tags, k) : tags \in TagChoices(ei), k \in {0, 1, 64}}
      ELSE {IF call = "install" /\ "filter_spec_list" \in DOMAIN got
            THEN Fields(ei, {16}, IF n > MAX_NUM_Q6_RULE THEN MAX_NUM_Q6_RULE ELSE n)
            ELSE Fields(ei, {}, 0)}
Answer ==
  /\ leg = "reply" /\ at = "idle"
  /\ \E fs \in ReplyFields : filled' = fs
  /\ at' = "filled" /\ got' = <<>>
  /\ answer' \in IF DriverSends THEN {"ok"} ELSE {"ok", "bad"}
  /\ UNCHANGED <<call, leg, wire, bytes, overran, rc>>

\* qmi_encode(), called for qmi_send_request(), _response() and _indication():
\* the present TLVs in table order; a message longer than the limit is refused.
TlvBytes(t, n) == 3 + (IF t.elem.list THEN 1 ELSE 0) + n * t.elem.wire
Present(ei) == SelectSeq(ei, LAMBDA t : t.elem.field \in DOMAIN filled)
OnWire(t) == [tag |-> t.tag,
              n   |-> IF t.elem.list THEN Count(t.elem.field) ELSE t.elem.max]
Length(ts) ==
  LET sum[i \in 0 .. Len(ts)] ==
        IF i = 0 THEN 0 ELSE sum[i - 1] + TlvBytes(ts[i], OnWire(ts[i]).n)
  IN  sum[Len(ts)]
qmi_encode ==
  /\ at = "filled" /\ at' = "wire"
  /\ LET ts == Present(M.ei)
     IN  wire' = [i \in DOMAIN ts |-> OnWire(ts[i])] /\ bytes' = Length(ts)
  /\ got' = <<>>
  /\ UNCHANGED <<call, leg, filled, overran, answer, rc>>

\* qmi_decode(): for each TLV the table's first element with the tag, the
\* elements stored elem_size apart from the field's start.
ElementOf(ei, tag) ==
  LET hits == {i \in DOMAIN ei : ei[i].tag = tag}
  IN  ei[CHOOSE i \in hits : \A j \in hits : i <= j].elem
RoomFor(struct, f) == (CHOOSE r \in struct.room : r[1] = f)[2]
qmi_decode ==
  /\ at = "wire" /\ at' = "decoded"
  /\ LET m == M
         seen == {<<ElementOf(m.ei, wire[i].tag), wire[i].n>> : i \in DOMAIN wire}
     IN  /\ got' = [f \in {s[1].field : s \in seen} |->
                      (CHOOSE s \in seen : s[1].field = f)[2]]
         /\ overran' = overran \cup
              {f \in {s[1].field : s \in seen} :
                 \E s \in seen : s[1].field = f /\ s[2] * s[1].size > RoomFor(m.struct, f)}
  /\ UNCHANGED <<call, leg, filled, wire, bytes, answer, rc>>

Turn ==
  /\ at = "decoded" /\ leg = "first" /\ call \notin Indications
  /\ leg' = "reply" /\ at' = "idle"
  /\ UNCHANGED <<call, filled, wire, bytes, got, overran, answer, rc>>

\* The device tree's qcom,rmnet-ipa-ssr, read once when the driver is probed: the driver
\* takes part in the modem's restarts.
ipa_rmnet_ssr == TRUE

\* ipa_check_qmi_response(): without an answer, or with that of an error where restarts
\* are handled, the call fails.
ReportTimeoutAsOk(timeout) == IF answer = "bad" /\ ipa_rmnet_ssr THEN "err" ELSE "ok"
ipa_check_qmi_response(timeout) ==
  IF timeout \/ (answer = "bad" /\ ipa_rmnet_ssr) THEN "err" ELSE "ok"
\* The force-clear calls test the result themselves.
Returned(timeout) ==
  IF call \in {"enable", "disable"} /\ ~timeout
  THEN IF answer = "ok" THEN "ok" ELSE "err"
  ELSE ipa_check_qmi_response(timeout)

\* ipa_qmi_send_req_wait() returns: with the decoded answer, or because the
\* wait timed out at any point of the exchange (a late answer finds no
\* transaction and is dropped).
EndExchange ==
  /\ call' = "none" /\ leg' = "first" /\ at' = "idle"
  /\ filled' = <<>> /\ wire' = <<>> /\ bytes' = 0 /\ got' = <<>>
  /\ UNCHANGED <<overran>>
ipa_qmi_send_req_wait(timeout) ==
  /\ call \in ByAp \ Indications
  /\ timeout \/ (leg = "reply" /\ at = "decoded")
  /\ rc' = Returned(timeout)
  /\ answer' = IF timeout THEN "none" ELSE answer
  /\ EndExchange
Served ==
  /\ at = "decoded"
  /\ call \in Indications \/ (leg = "reply" /\ call \in ByModem)
  /\ rc' = "none" /\ answer' = "none" /\ EndExchange

Next ==
  \/ \E c \in ByAp \cup ByModem : Start(c)
  \/ Answer \/ qmi_encode \/ qmi_decode \/ Turn \/ Served
  \/ \E timeout \in BOOLEAN : ipa_qmi_send_req_wait(timeout)

Spec == Init /\ [][Next]_vars
-----------------------------------------------------------------------------
\* No message the driver sends, and none it expects to receive, is longer than
\* the limit its caller gives the QMI library (which refuses a longer one):
\* the MAX_MSG_LEN constants, the computed limit of an install-filter request
\* (ipa_qmi_filter_request_ex_calc_length()) and the receive buffer.
MessageFits == at = "wire" => bytes <= Limit

\* What the peer decodes is what was filled in: the tags of each table name
\* each field once and every list keeps its length.
DecodedAsSent == at = "decoded" => got = filled

\* Decoding an element never writes past its field.  The one table that breaks
\* this is dl_filter_rule_stats_list of the data-stats response, whose
\* elem_size is that of the pipe statistics (40) and not of the field (16).
DecodeStaysInField == overran \subseteq {"dl_filter_rule_stats_list"}

\* A request reports success only when its answer was decoded, as it was sent and with
\* a result of success.
OkMeansAnswered ==
  [][rc' = "ok" /\ rc # "ok" => answer' = "ok" /\ got = filled]_vars
=============================================================================
