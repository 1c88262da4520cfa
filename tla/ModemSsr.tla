------------------------------ MODULE ModemSsr ------------------------------
(***************************************************************************)
(* Modem start and restart as the WWAN driver lives through it:            *)
(* ssr_notifier_cb() and the platform driver's probe and remove            *)
(* (rmnet_ipa.c), the ioctl device (rmnet_ipa_fd_ioctl.c), and the QMI     *)
(* service and client (ipa_qmi_service.c), whose handlers run on other     *)
(* threads than the notifier.                                              *)
(***************************************************************************)
EXTENDS Naturals

CONSTANT MaxBoots              \* bound: how often the modem is started

VARIABLES
  modem,      \* the notification the restart framework sent last
  boots,      \* modem starts so far
  driver,     \* rmnet_ipa_driver is registered
  initd,      \* is_initialized
  ssr,        \* is_ssr
  held,       \* what probe set up: the names of Stages
  ioctls,     \* process_ioctl
  handler,    \* where the notifier is: "none", "drain" (ipa_qmi_service_exit), or the last
              \* thing it did of SUBSYS_BEFORE_SHUTDOWN
  svc, ctx,   \* ipa_svc_handle and ipa_qmi_ctx exist
  clnt,       \* ipa_q6_clnt exists
  wqs,        \* client work queues that exist
  wqStopped,  \* workqueues_stopped
  server,     \* server_sq holds the address of the modem's service
  queued,     \* work_svc_arrive is queued
  arrive,     \* where ipa_q6_clnt_svc_arrive() is
  ind,        \* where handle_indication_req() is
  initFin, indFin, \* qmi_modem_init_fin, qmi_indication_fin
  firstHs,    \* first_time_handshake
  indSent,    \* this modem was told that the driver is up
  unsent,     \* history: telling it failed in ipa_q6_clnt_svc_arrive()
  told,       \* the last restart notification sent to user space
  vote,       \* q6_proxy_clk_vote_valid
  votes,      \* clock votes the proxy holds
  failed,     \* history: a probe failed
  ucLoaded,   \* uc_loaded
  early       \* history: the modem went down before its start was over

qmiVars == <<svc, ctx, clnt, wqs, wqStopped, server, queued, arrive, ind, initFin,
             indFin, firstHs, indSent, unsent>>
vars == <<modem, boots, driver, initd, ssr, held, ioctls, handler, qmiVars, told, vote, votes,
          ucLoaded, failed, early>>

\* What ipa_wwan_probe() sets up, in its order; undone from the failing stage.
Stages == <<"qmi", "hdr", "rt", "ioctl", "netdev", "q6rm", "rsrc", "timer", "dep", "net">>
StageSet == {Stages[i] : i \in 1 .. 10}

\* Where ssr_notifier_cb(SUBSYS_BEFORE_SHUTDOWN) is; meanwhile the modem may still answer.
Shutting == {"told", "marked", "voted", "flagged", "stopped", "closed"}
Answers == modem = "up" \/ handler \in Shutting

TypeOK ==
  /\ modem \in {"down", "powering", "up", "stopping"} /\ boots \in 0 .. MaxBoots
  /\ driver \in BOOLEAN /\ initd \in BOOLEAN /\ ssr \in BOOLEAN
  /\ held \subseteq StageSet /\ ioctls \in BOOLEAN
  /\ handler \in {"none", "drain"} \cup Shutting
  /\ svc \in BOOLEAN /\ ctx \in BOOLEAN /\ clnt \in BOOLEAN /\ wqs \in 0 .. MaxBoots + 1
  /\ wqStopped \in BOOLEAN /\ server \in BOOLEAN /\ queued \in BOOLEAN
  /\ arrive \in {"idle", "wait", "fin", "hs"} /\ ind \in {"idle", "check"}
  /\ initFin \in BOOLEAN /\ indFin \in BOOLEAN /\ firstHs \in BOOLEAN
  /\ indSent \in BOOLEAN /\ unsent \in BOOLEAN /\ told \in {"none", "shutdown", "powerup"}
  /\ vote \in BOOLEAN /\ votes \in 0 .. MaxBoots + 1 /\ failed \in BOOLEAN
  /\ ucLoaded \in BOOLEAN /\ early \in BOOLEAN
-----------------------------------------------------------------------------
\* ipa2_proxy_clk_vote(), ipa2_proxy_clk_unvote(): the flag says whether to.  (Calls
\* that overlap are IpaPower's.)
ProxyVote == vote' = TRUE /\ votes' = (IF vote THEN votes ELSE votes + 1)
ProxyUnvote == vote' = FALSE /\ votes' = (IF vote THEN votes - 1 ELSE votes)
Keep == UNCHANGED <<vote, votes>>

\* ipa_qmi_service_init() and its worker.
QmiInit == /\ svc' = TRUE /\ ctx' = TRUE /\ clnt' = TRUE /\ wqs' = wqs + 1
           /\ wqStopped' = FALSE /\ server' = FALSE /\ initFin' = FALSE /\ indFin' = FALSE
           /\ UNCHANGED <<queued, arrive, ind, firstHs, indSent, unsent>>

\* ipa_qmi_service_exit() where a failed probe calls it: nothing is running.
QmiExit == /\ svc' = FALSE /\ ctx' = FALSE /\ clnt' = FALSE /\ wqs' = wqs
           /\ wqStopped' = TRUE /\ server' = FALSE /\ initFin' = FALSE /\ indFin' = FALSE
           /\ UNCHANGED <<queued, arrive, ind, firstHs, indSent, unsent>>

\* ipa_wwan_probe(), all of it: the ioctl device and the modem's resources
\* survive a restart, so it makes them only the first time.
Survives == {"ioctl", "q6rm"}
Probe ==
  /\ held' = StageSet /\ initd' = TRUE /\ ssr' = FALSE /\ ioctls' = TRUE
  /\ IF ssr THEN Keep ELSE ProxyUnvote      \* "offline charging mode"
  /\ UNCHANGED failed
  /\ QmiInit

\* A stage fails: what was set up is taken down again, the ioctl device too
\* even where it is older than this probe, and is_ssr is cleared.
Unwound(stage) == IF stage \in {"hdr", "rt"} THEN held ELSE held \ {"ioctl"}
ProbeFail ==
  \E stage \in StageSet \ {"qmi"} :
    /\ stage \notin held
    /\ held' = Unwound(stage) /\ initd' = FALSE /\ ssr' = FALSE
    /\ ioctls' = (ioctls \/ (ssr /\ stage \notin {"hdr", "rt"}))
    /\ failed' = TRUE
    /\ Keep /\ QmiExit

\* ipa_wwan_init(): the notifier and the driver are registered, probe runs.
ModuleInit ==
  /\ ~driver /\ boots = 0 /\ modem = "down" /\ driver' = TRUE
  /\ Probe \/ ProbeFail
  /\ UNCHANGED <<modem, boots, handler, told, ucLoaded, early>>

\* ssr_notifier_cb(SUBSYS_BEFORE_POWERUP): after a restart the QMI handles go
\* first; destroy_workqueue() waits for the work that is running.
BeforePowerup ==
  /\ modem = "down" /\ (driver \/ ssr) /\ boots < MaxBoots /\ handler = "none"
  /\ IF ssr
     THEN /\ clnt /\ ind = "idle"        \* qmi_handle_release() drains the server
          /\ wqStopped' = TRUE /\ svc' = FALSE /\ clnt' = FALSE
          /\ handler' = "drain"
          /\ Keep /\ UNCHANGED <<modem, boots, ctx, wqs, server, queued, arrive, ind,
                         initFin, indFin, firstHs, indSent, unsent>>
     ELSE /\ ProxyVote /\ modem' = "powering" /\ boots' = boots + 1
          /\ UNCHANGED <<handler, qmiVars>>
  /\ UNCHANGED <<driver, initd, ssr, held, ioctls, told, ucLoaded, failed, early>>
DropWq == wqs - 1
BeforePowerupEnd ==
  /\ handler = "drain" /\ arrive = "idle"
  /\ handler' = "none" /\ ctx' = FALSE /\ server' = FALSE
  /\ wqs' = DropWq
  /\ initFin' = FALSE /\ indFin' = FALSE
  /\ ProxyVote /\ modem' = "powering" /\ boots' = boots + 1
  /\ indSent' = FALSE /\ unsent' = FALSE
  /\ UNCHANGED <<driver, initd, ssr, held, ioctls, svc, clnt, wqStopped, queued, arrive,
                 ind, firstHs, told, ucLoaded, failed, early>>
\* The client handle was already freed by ipa_q6_clnt_svc_arrive(): the work
\* queue is then left behind.
BeforePowerupNoClient ==
  /\ modem = "down" /\ (driver \/ ssr) /\ boots < MaxBoots /\ handler = "none"
  /\ ssr /\ ~clnt /\ ind = "idle" /\ arrive = "idle"
  /\ wqStopped' = TRUE /\ svc' = FALSE /\ ctx' = FALSE /\ server' = FALSE
  /\ initFin' = FALSE /\ indFin' = FALSE /\ indSent' = FALSE
  /\ unsent' = FALSE
  /\ ProxyVote /\ modem' = "powering" /\ boots' = boots + 1
  /\ UNCHANGED <<driver, initd, ssr, held, ioctls, handler, clnt, wqs, queued, arrive,
                 ind, firstHs, told, ucLoaded, failed, early>>

\* ssr_notifier_cb(SUBSYS_AFTER_POWERUP): platform_driver_register() probes,
\* and refuses a driver that is registered already.
AfterPowerup ==
  /\ modem = "powering" /\ modem' = "up"
  /\ IF ~initd /\ ssr /\ ~driver
     THEN driver' = TRUE /\ (Probe \/ ProbeFail)
     ELSE Keep /\ UNCHANGED <<driver, held, initd, ssr, ioctls, failed, qmiVars>>
  /\ UNCHANGED <<boots, handler, told, ucLoaded, early>>

\* ssr_notifier_cb(SUBSYS_BEFORE_SHUTDOWN), beside the handlers of the QMI messages: user
\* space is told, is_ssr set, ...
BeforeShutdown ==
  /\ modem = "up" /\ modem' = "stopping" /\ handler' = "told"
  /\ told' = "shutdown"
  /\ early' = (early \/ ~firstHs \/ ~ucLoaded \/ vote \/ arrive # "idle")
  /\ UNCHANGED <<boots, driver, initd, ssr, held, ioctls, qmiVars, vote, votes,
                 ucLoaded, failed>>
ShutdownMark ==
  /\ handler = "told" /\ handler' = "marked" /\ ssr' = TRUE
  /\ UNCHANGED <<modem, boots, driver, initd, held, ioctls, qmiVars, told, vote, votes,
                 ucLoaded, failed, early>>
\* ... ipa_q6_pre_shutdown_cleanup() takes a vote, whether the flag was set or not, and
\* sets the flag when it has cleaned up the modem's tables, ...
ShutdownVote ==
  /\ handler = "marked" /\ handler' = "voted" /\ votes' = votes + 1
  /\ UNCHANGED <<modem, boots, driver, initd, ssr, held, ioctls, qmiVars, told, vote,
                 ucLoaded, failed, early>>
ShutdownFlag ==
  /\ handler = "voted" /\ handler' = "flagged" /\ vote' = TRUE
  /\ UNCHANGED <<modem, boots, driver, initd, ssr, held, ioctls, qmiVars, told, votes,
                 ucLoaded, failed, early>>
\* ... ipa_qmi_stop_workqueues() drops what has not begun, the ioctls are refused, ...
ShutdownStop ==
  /\ handler = "flagged" /\ handler' = "stopped"
  /\ wqStopped' = TRUE /\ queued' = FALSE
  /\ UNCHANGED <<modem, boots, driver, initd, ssr, held, ioctls, svc, ctx, clnt, wqs,
                 server, arrive, ind, initFin, indFin, firstHs, indSent, unsent, told,
                 vote, votes, ucLoaded, failed, early>>
ShutdownIoctls ==
  /\ handler = "stopped" /\ handler' = "closed" /\ ioctls' = FALSE
  /\ UNCHANGED <<modem, boots, driver, initd, ssr, held, qmiVars, told, vote, votes,
                 ucLoaded, failed, early>>
\* ... and the driver is unregistered, with ipa_wwan_remove().
RemovedKeeps == UNCHANGED <<driver, initd, held>>  \* mutant: not unregistered
Removed == IF initd THEN /\ driver' = FALSE /\ initd' = FALSE
                         /\ held' = held \cap Survives
                    ELSE UNCHANGED <<driver, initd, held>>
ShutdownRemove ==
  /\ handler = "closed" /\ handler' = "none"
  /\ Removed
  /\ UNCHANGED <<modem, boots, ssr, ioctls, qmiVars, told, vote, votes, ucLoaded,
                 failed, early>>
\* SUBSYS_AFTER_SHUTDOWN
AfterShutdown ==
  /\ modem = "stopping" /\ handler = "none" /\ modem' = "down"
  /\ UNCHANGED <<boots, driver, initd, ssr, held, ioctls, handler, qmiVars, told, vote,
                 votes, ucLoaded, failed, early>>

\* The modem's firmware loads the microcontroller once.
UcLoaded ==
  /\ Answers /\ ~ucLoaded
  /\ ucLoaded' = TRUE /\ ProxyUnvote
  /\ UNCHANGED <<modem, boots, driver, initd, ssr, held, ioctls, handler, qmiVars, told,
                 failed, early>>
-----------------------------------------------------------------------------
\* ipa_q6_clnt_svc_event_notify_svc_new()
SvcNew ==
  /\ Answers /\ clnt /\ ~server /\ ctx
  /\ server' = TRUE /\ queued' = (queued \/ ~wqStopped)
  /\ UNCHANGED <<modem, boots, driver, initd, ssr, held, ioctls, handler, svc, ctx,
                 clnt, wqs, wqStopped, arrive, ind, initFin, indFin, firstHs, indSent,
                 unsent, told, vote, votes, ucLoaded, failed, early>>
\* ... svc_exit, net_reset and the work that clears the address, behind the
\* arrival's on the one work queue.
SvcExit ==
  /\ server /\ Answers /\ ~wqStopped /\ arrive = "idle"
  /\ server' = FALSE
  /\ UNCHANGED <<modem, boots, driver, initd, ssr, held, ioctls, handler, svc, ctx,
                 clnt, wqs, wqStopped, queued, arrive, ind, initFin, indFin, firstHs,
                 indSent, unsent, told, vote, votes, ucLoaded, failed, early>>

\* ipa_q6_clnt_svc_arrive(): connecting may fail; the initial request to the modem ...
ArriveStart ==
  /\ queued /\ arrive = "idle" /\ clnt
  /\ queued' = FALSE /\ arrive' \in {"wait", "idle"}
  /\ early' = (early \/ modem # "up")
  /\ UNCHANGED <<modem, boots, driver, initd, ssr, held, ioctls, handler, svc, ctx,
                 clnt, wqs, wqStopped, server, ind, initFin, indFin, firstHs, indSent,
                 unsent, told, vote, votes, ucLoaded, failed>>
\* ... fails because the modem went away: the client handle is freed here
\* (any other failure panics the kernel);
ArriveReset ==
  /\ arrive = "wait" /\ modem # "up"
  /\ arrive' = "idle" /\ clnt' = FALSE
  /\ UNCHANGED <<modem, boots, driver, initd, ssr, held, ioctls, handler, svc, ctx, wqs,
                 wqStopped, server, queued, ind, initFin, indFin, firstHs, indSent,
                 unsent, told, vote, votes, ucLoaded, failed, early>>
\* ... or succeeds;
ArriveFin ==
  /\ arrive = "wait" /\ Answers
  /\ arrive' = "fin" /\ initFin' = TRUE
  /\ UNCHANGED <<modem, boots, driver, initd, ssr, held, ioctls, handler, svc, ctx,
                 clnt, wqs, wqStopped, server, queued, ind, indFin, firstHs, indSent,
                 unsent, told, vote, votes, ucLoaded, failed, early>>
\* ... ipa_q6_handshake_complete(): after a restart the proxy vote is released
\* and user space told;
Unvotes == firstHs
ArriveHandshake ==
  /\ arrive = "fin" /\ arrive' = "hs"
  /\ IF Unvotes THEN ProxyUnvote ELSE Keep
  /\ told' = IF firstHs THEN "powerup" ELSE told
  /\ firstHs' = TRUE
  /\ UNCHANGED <<modem, boots, driver, initd, ssr, held, ioctls, handler, svc, ctx,
                 clnt, wqs, wqStopped, server, queued, ind, initFin, indFin, indSent,
                 unsent, ucLoaded, failed, early>>
\* ... and the indication, if the modem has asked for it already.  That sending it
\* fails goes unnoticed: qmi_indication_fin stays set.
ArriveInd ==
  /\ arrive = "hs" /\ arrive' = "idle"
  /\ \E sent \in {FALSE, Answers} :
       /\ indSent' = (indSent \/ (indFin /\ sent))
       /\ unsent' = (unsent \/ (indFin /\ ~sent))
  /\ UNCHANGED <<modem, boots, driver, initd, ssr, held, ioctls, handler, svc, ctx,
                 clnt, wqs, wqStopped, server, queued, ind, initFin, indFin, firstHs,
                 told, vote, votes, ucLoaded, failed, early>>

\* handle_indication_req(), on the server's own thread: the flag is set, then
\* the other side's flag is read.
IndReq ==
  /\ Answers /\ svc /\ ctx /\ ind = "idle"
  /\ ind' = "check" /\ indFin' = TRUE
  /\ UNCHANGED <<modem, boots, driver, initd, ssr, held, ioctls, handler, svc, ctx,
                 clnt, wqs, wqStopped, server, queued, arrive, initFin, firstHs,
                 indSent, unsent, told, vote, votes, ucLoaded, failed, early>>
IndCheck ==
  /\ ind = "check" /\ ind' = "idle"
  /\ IF initFin
     THEN \E sent \in {FALSE, Answers} :      \* sending may fail
            indSent' = (indSent \/ sent) /\ indFin' = sent
     ELSE UNCHANGED <<indFin, indSent>>
  /\ UNCHANGED <<modem, boots, driver, initd, ssr, held, ioctls, handler, svc, ctx,
                 clnt, wqs, wqStopped, server, queued, arrive, initFin, firstHs, unsent,
                 told, vote, votes, ucLoaded, failed, early>>
-----------------------------------------------------------------------------
Init ==
  /\ modem = "down" /\ boots = 0 /\ driver = FALSE /\ initd = FALSE /\ ssr = FALSE
  /\ held = {} /\ ioctls = TRUE /\ handler = "none"
  /\ svc = FALSE /\ ctx = FALSE /\ clnt = FALSE /\ wqs = 0 /\ wqStopped = FALSE
  /\ server = FALSE /\ queued = FALSE /\ arrive = "idle" /\ ind = "idle"
  /\ initFin = FALSE /\ indFin = FALSE /\ firstHs = FALSE /\ indSent = FALSE
  /\ unsent = FALSE /\ told = "none" /\ vote = TRUE /\ votes = 1 /\ failed = FALSE
  /\ ucLoaded = FALSE /\ early = FALSE
Next ==
  \/ ModuleInit \/ BeforePowerup \/ BeforePowerupEnd \/ BeforePowerupNoClient
  \/ AfterPowerup \/ BeforeShutdown \/ ShutdownMark \/ ShutdownVote \/ ShutdownFlag
  \/ ShutdownStop \/ ShutdownIoctls \/ ShutdownRemove \/ AfterShutdown \/ UcLoaded
  \/ SvcNew \/ SvcExit \/ ArriveStart \/ ArriveReset \/ ArriveFin \/ ArriveHandshake
  \/ ArriveInd \/ IndReq \/ IndCheck
Spec == Init /\ [][Next]_vars
-----------------------------------------------------------------------------
HandshakeOver == initFin /\ arrive = "idle" /\ modem = "up" /\ ucLoaded
BeforeTheVote == handler \in {"told", "marked", "voted"}

\* The modem's clock vote: the flag and the votes agree (but while the one is on its way to
\* follow the other), one vote is held all through a restart, and it is given back when the
\* modem is up again.  (Of restarts that find the previous start over: see
\* HandshakeSettlesVote.)
VoteSettled ==
  ~early => /\ votes = (IF vote \/ handler = "voted" THEN 1 ELSE 0)
            /\ (ssr /\ modem # "up" /\ ~BeforeTheVote) => vote /\ told = "shutdown"
            /\ HandshakeOver => ~vote

\* The same of every restart: "proxy vote can be removed once Modem init is
\* complete".  A modem that goes down while the vote is held is voted for
\* twice, and the vote of a first handshake lost to a restart is never dropped.
HandshakeSettlesVote == HandshakeOver => votes = 0

\* The modem is told that the driver is up, whichever of its request and of the handshake
\* comes first and however they interleave, unless the handshake's sending failed: that
\* is not tried again before the modem asks again.
IndicationDelivered ==
  (initFin /\ indFin /\ arrive = "idle" /\ ind = "idle" /\ modem = "up") => indSent \/ unsent

\* After every restart the driver is there again, with all it sets up, unless
\* a probe failed; user space may use the ioctls again.
ComesBack ==
  (modem = "up" /\ ~failed) => initd /\ held = StageSet /\ svc /\ ioctls

\* Restarts do not pile up work queues, unless one met a pending handshake.
NoWorkqueueLeak == ~early => wqs <= 1
=============================================================================
