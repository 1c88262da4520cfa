----------------------------- MODULE VendorInit -----------------------------
(***************************************************************************)
(* vendor-init, the userspace tool that brings the modem up and holds the  *)
(* data bearer: the eight stages of STAGES[] run in order, each a sequence *)
(* of QMI transactions over a QRTR socket; the first failure ends the      *)
(* process.  bind_mux keeps its socket (ctx.fd) because the modem ties the *)
(* bearer to the client that started it; main() then waits for a signal.   *)
(*                                                                         *)
(* The modem may answer, refuse, stay silent or answer after the program   *)
(* has given up; it sends indications at any time.  The program may be     *)
(* started again (the systemd unit restarts it): the modem's state, the    *)
(* link and the files under /run/vendor-init outlive it.                   *)
(*                                                                         *)
(* Message contents are reduced to what the program looks at.  The bearer, *)
(* the packet data handle, the address and the MTU a START yields are      *)
(* named by the number of the run that sent it.                            *)
(***************************************************************************)
EXTENDS Integers, Sequences

CONSTANTS
  SimpleWds,    \* the values --simple-wds / --full-wds may give ctx.simple_wds
  DryRuns,      \* the values ctx.dry_run may have
  NumMuxes,     \* ctx.num_muxes
  MaxTries,     \* packets one transaction reads before it gives up (32)
  MaxPolls,     \* polls that fit into LTE_WAIT_TIMEOUT_SEC
  MaxNet,       \* bound: packets waiting on the socket
  MaxRuns       \* bound: times the program is started

ASSUME VendorInitAssumption ==
  /\ SimpleWds \subseteq BOOLEAN /\ SimpleWds # {}
  /\ DryRuns \subseteq BOOLEAN /\ DryRuns # {}
  /\ NumMuxes \in Nat /\ MaxTries \in Nat \ {0} /\ MaxPolls \in Nat
  /\ MaxNet \in Nat /\ MaxRuns \in Nat \ {0}

VARIABLES
  run,      \* the number of this run
  ctx,      \* struct vi_ctx
  stage,    \* i in main()'s loop, counted from 1
  at,       \* where the program is: the message being exchanged, or a point of main()
  waiting,  \* inside qrtr_txn(), between sendto() and its return
  own,      \* the stage has a socket of its own open
  tries,    \* packets read by this transaction
  polls,    \* polls made while waiting for LTE
  reqs,     \* requests of the open socket the modem has not looked at
  net,      \* packets from the modem to the open socket
  stop,     \* g_stop
  files,    \* the state files
  rc,       \* exit status
  modem,    \* the modem: its bearer and data format
  linkMtu,  \* whose MTU qmapmux0.0 has
  sawLte,   \* ghost: a poll of this run was answered "LTE"
  untuned   \* ghost: a command of this run's post_tune for the MTU failed

vars == <<run, ctx, stage, at, waiting, own, tries, polls, reqs, net, stop, files, rc, modem,
          linkMtu, sawLte, untuned>>

\* Mutant: the link is tuned before the bearer's settings are known.
StagesTuneFirst == <<"dms_online", "nas_rat", "dpm_open", "wda_set", "dsd",
                     "bind_mux", "post_tune", "wds_start">>
Stages == <<"dms_online", "nas_rat", "dpm_open", "wda_set", "dsd", "bind_mux",
            "wds_start", "post_tune">>
StageName == Stages[stage]

Polls == {"POLL", "POLL_AGAIN"}
Messages == {"GET_MODE", "SET_MODE", "SET_PREF", "REGISTER", "OPEN_PORT",
             "SET_FORMAT", "BIND", "SET_CLIENT_MODE", "SET_IP_FAMILY", "START",
             "SETTINGS"} \cup Polls
\* The message id on the wire: both polls are NAS_GET_SERVING_SYSTEM.
MsgId(m) == IF m = "POLL_AGAIN" THEN "POLL" ELSE m

None == 0       \* no bearer, no address
Dropped == -1   \* the network took the bearer away
Silence == [msg |-> "none", res |-> "none", val |-> "none"]
Indication == [msg |-> "indication", res |-> "none", val |-> "none"]

\* What an answer to m may tell the program.
Values(m) ==
  CASE m = "GET_MODE"   -> {"ONLINE", "other"}
    [] m \in Polls      -> {"LTE", "other"}
    [] m = "SET_FORMAT" -> {"QMAPv3", "QMAPv1"}
    [] m = "START"      -> {"handle", "none"}
    [] m = "SETTINGS"   -> IF modem.bearer > 0 THEN {"all", "no mtu", "none"} ELSE {"none"}
    [] OTHER            -> {"none"}
AnswersTo(m) == [msg : {MsgId(m)}, res : {"ok", "err"}, val : Values(m)]
----------------------------------------------------------------------------
(* What the stages do with an answer; Silence stands for qrtr_txn() < 0.   *)

ErrorFatal == {"SET_MODE", "OPEN_PORT", "SET_FORMAT", "BIND", "START"}
SilenceFatal == ErrorFatal \cup {"GET_MODE", "SET_CLIENT_MODE", "SET_IP_FAMILY"}

Fails(m, a) == \/ a.res = "none" /\ m \in SilenceFatal
               \/ a.res = "err" /\ m \in ErrorFatal

\* poll_serving_system(): any failure counts as "no radio".
OnLte(a) == a.res = "ok" /\ a.val = "LTE"

\* How a stage begins once it has its socket.
First(s) == CASE s = "dms_online" -> "GET_MODE"
              [] s = "nas_rat"    -> "POLL"
              [] s = "dpm_open"   -> "OPEN_PORT"
              [] s = "wda_set"    -> "SET_FORMAT"
              [] s = "dsd"        -> "done"
              [] s = "bind_mux"   -> IF NumMuxes > 0 THEN "BIND" ELSE "done"
              [] s = "wds_start"  -> IF ctx.simple THEN "START" ELSE "SET_CLIENT_MODE"
              [] s = "post_tune"  -> "tune"

MoreMuxes == ctx.muxes + 1 < NumMuxes

\* Where the stage goes from message m with answer a.
After(m, a) ==
  IF Fails(m, a) THEN "failed" ELSE
  CASE m = "GET_MODE"        -> IF a.res = "ok" /\ a.val # "ONLINE" THEN "SET_MODE" ELSE "done"
    [] m = "POLL"            -> IF OnLte(a) THEN "done" ELSE "SET_PREF"
    [] m = "SET_PREF"        -> "REGISTER"
    [] m = "REGISTER"        -> "POLL_AGAIN"
    [] m = "POLL_AGAIN"      -> IF OnLte(a) THEN "done" ELSE "POLL_AGAIN"
    [] m = "BIND"            -> IF MoreMuxes THEN "BIND" ELSE "done"
    [] m = "SET_CLIENT_MODE" -> "SET_IP_FAMILY"
    [] m = "SET_IP_FAMILY"   -> "START"
    [] m = "START"           -> "SETTINGS"
    [] OTHER                 -> "done"

\* What the answer leaves in ctx and in the files.
CtxAfter(m, a) ==
  [ctx EXCEPT !.muxes = IF m = "BIND" /\ a.res = "ok" THEN @ + 1 ELSE @,
              !.pdh   = IF m = "START" /\ a.res = "ok" /\ a.val = "handle" THEN run ELSE @,
              !.addr  = IF m = "SETTINGS" /\ a.val \in {"all", "no mtu"} THEN run ELSE @,
              !.mtu   = IF m = "SETTINGS" /\ a.val = "all" THEN run ELSE @]
FilesAfter(m, a) ==
  [files EXCEPT
     !.format = IF m = "SET_FORMAT" /\ a.res = "ok" THEN a.val ELSE @,
     !.bearer = IF m # "START" THEN @ ELSE IF a.res = "ok" THEN "UP"
                ELSE IF a.res = "err" THEN "FAIL" ELSE @,
     !.pdh    = IF m = "START" /\ a.res = "ok" /\ a.val = "handle" THEN run ELSE @,
     !.addr   = IF m = "SETTINGS" /\ a.val \in {"all", "no mtu"} THEN run ELSE @]
----------------------------------------------------------------------------
(* main()                                                                  *)

\* The stage returns: a socket of its own is closed, and the modem forgets it.
CloseOwn == /\ own' = FALSE
            /\ reqs' = IF own THEN <<>> ELSE reqs
            /\ net' = IF own THEN <<>> ELSE net

EndStage ==
  /\ at = "done"
  /\ stage' = stage + 1 /\ at' = "next" /\ CloseOwn
  /\ UNCHANGED <<run, ctx, waiting, tries, polls, stop, files, rc, modem,
                 linkMtu, sawLte, untuned>>

FailStage ==
  /\ at = "failed"
  /\ files' = [files EXCEPT !.result = "FAILED"]
  /\ rc' = 1 /\ at' = "exit" /\ CloseOwn
  /\ UNCHANGED <<run, ctx, stage, waiting, tries, polls, stop, modem,
                 linkMtu, sawLte, untuned>>

\* A read of the volatile g_stop.
StopSeen == stop

\* g_stop is only looked at between stages.
Interrupted ==
  /\ at = "next" /\ stage <= Len(Stages) /\ StopSeen
  /\ files' = [files EXCEPT !.result = "INTERRUPTED"]
  /\ rc' = 130 /\ at' = "exit"
  /\ UNCHANGED <<run, ctx, stage, waiting, own, tries, polls, reqs, net, stop, modem, linkMtu,
                 sawLte, untuned>>

\* The stages that start with qrtr_open() and qrtr_lookup().
Looking == StageName \notin {"wds_start", "post_tune"}

\* With --dry-run a stage returns 0 at once; wds_start goes on with ctx.fd.
BeginStage ==
  /\ at = "next" /\ stage <= Len(Stages) /\ ~StopSeen
  /\ at' = IF ctx.dry THEN "done" ELSE IF Looking THEN "lookup" ELSE First(StageName)
  /\ own' = (~ctx.dry /\ Looking)
  /\ UNCHANGED <<run, ctx, stage, waiting, tries, polls, reqs, net, stop,
                 files, rc, modem, linkMtu, sawLte, untuned>>

\* The socket cannot be opened or the service is not found: only dsd goes on.
NoService ==
  /\ at = "lookup"
  /\ at' = IF StageName = "dsd" THEN "done" ELSE "failed"
  /\ UNCHANGED <<run, ctx, stage, waiting, own, tries, polls, reqs, net, stop, files, rc, modem,
                 linkMtu, sawLte, untuned>>

\* Mutant: bind_mux closes its socket like the others.
KeepsSocketNever(s) == FALSE
\* bind_mux hands its socket over to ctx.fd.
KeepsSocket(s) == s = "bind_mux"

FoundService ==
  /\ at = "lookup"
  /\ at' = First(StageName)
  /\ ctx' = [ctx EXCEPT !.fd = @ \/ KeepsSocket(StageName)]
  /\ own' = ~KeepsSocket(StageName)
  /\ UNCHANGED <<run, stage, waiting, tries, polls, reqs, net, stop, files,
                 rc, modem, linkMtu, sawLte, untuned>>

\* post_tune: shell commands, none of which can fail the stage: when creating the link or
\* setting its MTU fails, try_cmd() only logs it and the link keeps what it had.  An MTU
\* outside 1 .. 1999 is not applied: it counts as "no mtu".
PostTune ==
  /\ at = "tune"
  /\ \/ linkMtu' = (IF ctx.mtu # None THEN ctx.mtu ELSE linkMtu) /\ untuned' = untuned
     \/ ctx.mtu # None /\ linkMtu' = linkMtu /\ untuned' = TRUE
  /\ at' = "done"
  /\ UNCHANGED <<run, ctx, stage, waiting, own, tries, polls, reqs, net, stop, files, rc, modem,
                 sawLte>>

\* All stages done: the bearer is held until g_stop is seen.
Ready ==
  /\ at = "next" /\ stage = Len(Stages) + 1
  /\ files' = [files EXCEPT !.result = "READY"]
  /\ at' = "check"
  /\ UNCHANGED <<run, ctx, stage, waiting, own, tries, polls, reqs, net, stop, rc, modem,
                 linkMtu, sawLte, untuned>>

\* while (!g_stop) pause(): the test and the call are two steps.
HoldBearer ==
  /\ \/ at = "check" /\ StopSeen /\ at' = "exit"
     \/ at = "check" /\ ~StopSeen /\ at' = "enter"
     \/ at = "enter" /\ at' = "pause"
  /\ UNCHANGED <<run, ctx, stage, waiting, own, tries, polls, reqs, net, stop, files, rc, modem,
                 linkMtu, sawLte, untuned>>

\* close(ctx.fd) and return: the modem tears the client's bearer down.
Exit ==
  /\ at = "exit"
  /\ at' = "exited"
  /\ ctx' = [ctx EXCEPT !.fd = FALSE]
  /\ modem' = [modem EXCEPT !.bearer = IF ctx.fd THEN None ELSE @]
  /\ reqs' = <<>> /\ net' = <<>>
  /\ UNCHANGED <<run, stage, waiting, own, tries, polls, stop, files, rc,
                 linkMtu, sawLte, untuned>>
----------------------------------------------------------------------------
(* qrtr_txn()                                                              *)

\* Mutant: the wait for LTE has no deadline.
PollsMadeNever == 0
\* The polls made before this one is sent; the deadline bounds them.
PollsMade == IF at = "POLL_AGAIN" THEN polls + 1 ELSE polls

Send ==
  /\ at \in Messages /\ ~waiting
  /\ at = "POLL_AGAIN" => polls < MaxPolls
  /\ waiting' = TRUE /\ tries' = 0
  /\ polls' = PollsMade
  /\ reqs' = Append(reqs, at)
  /\ UNCHANGED <<run, ctx, stage, at, own, net, stop, files, rc, modem,
                 linkMtu, sawLte, untuned>>

\* Mutant: the TLVs are left as they were asked for.
WithoutLteKept == ctx
\* LTE did not come: the LTE-flavoured TLVs are given up.
WithoutLte == [ctx EXCEPT !.simple = TRUE]

\* now - t0 >= LTE_WAIT_TIMEOUT_SEC; after slow polls it comes early.
PollDeadline ==
  /\ at = "POLL_AGAIN" /\ ~waiting
  /\ polls > 0 \/ MaxPolls = 0
  /\ ctx' = WithoutLte
  /\ at' = "done"
  /\ UNCHANGED <<run, stage, waiting, own, tries, polls, reqs, net, stop,
                 files, rc, modem, linkMtu, sawLte, untuned>>

\* The transaction for message at ends with answer a.
Conclude(a) ==
  /\ waiting' = FALSE
  /\ sawLte' = (sawLte \/ (at \in Polls /\ OnLte(a)))
  /\ ctx' = CtxAfter(at, a)
  /\ files' = FilesAfter(at, a)
  /\ at' = After(at, a)
  /\ UNCHANGED <<run, stage, own, polls, reqs, stop, rc, modem, linkMtu, untuned>>

\* A response with the right message id is taken for the answer, whichever
\* request it belongs to.
ReceiveAnswer ==
  /\ waiting /\ net # <<>> /\ Head(net).msg = MsgId(at)
  /\ net' = Tail(net) /\ tries' = 0
  /\ Conclude(Head(net))

\* Anything else is skipped.
SkipPacket ==
  /\ waiting /\ net # <<>> /\ Head(net).msg # MsgId(at) /\ tries + 1 < MaxTries
  /\ net' = Tail(net) /\ tries' = tries + 1
  /\ UNCHANGED <<run, ctx, stage, at, waiting, own, polls, reqs, stop, files,
                 rc, modem, linkMtu, sawLte, untuned>>

\* poll() times out or is interrupted by a signal; packets in net may still be
\* on their way.
Timeout ==
  /\ waiting
  /\ net' = net /\ tries' = 0
  /\ Conclude(Silence)

\* The last packet that may be read was not the answer.
OutOfTries ==
  /\ waiting /\ net # <<>> /\ Head(net).msg # MsgId(at) /\ tries + 1 = MaxTries
  /\ net' = Tail(net) /\ tries' = 0
  /\ Conclude(Silence)
----------------------------------------------------------------------------
(* The modem, the user and systemd.                                        *)

Effect(m, a) ==
  [modem EXCEPT !.format = IF m = "SET_FORMAT" /\ a.res = "ok" THEN a.val ELSE @,
                !.bearer = IF m = "START" /\ a.res = "ok" THEN run ELSE @]

ModemAnswers ==
  /\ reqs # <<>> /\ Len(net) < MaxNet
  /\ \E a \in AnswersTo(Head(reqs)) :
       net' = Append(net, a) /\ modem' = Effect(Head(reqs), a)
  /\ reqs' = Tail(reqs)
  /\ UNCHANGED <<run, ctx, stage, at, waiting, own, tries, polls, stop,
                 files, rc, linkMtu, sawLte, untuned>>

\* The modem never answers a request.
ModemIgnores ==
  /\ reqs # <<>> /\ reqs' = Tail(reqs)
  /\ UNCHANGED <<run, ctx, stage, at, waiting, own, tries, polls, net, stop,
                 files, rc, modem, linkMtu, sawLte, untuned>>

ModemIndicates ==
  /\ waiting /\ Len(net) < MaxNet
  /\ net' = Append(net, Indication)
  /\ UNCHANGED <<run, ctx, stage, at, waiting, own, tries, polls, reqs, stop,
                 files, rc, modem, linkMtu, sawLte, untuned>>

BearerDrops ==
  /\ modem.bearer > 0
  /\ modem' = [modem EXCEPT !.bearer = Dropped]
  /\ UNCHANGED <<run, ctx, stage, at, waiting, own, tries, polls, reqs, net, stop, files, rc,
                 linkMtu, sawLte, untuned>>

\* on_signal(): SIGINT or SIGTERM, which also ends pause().  A signal that finds
\* g_stop set, or a SIGINT that system() ignores during post_tune, is a
\* stuttering step.
Signal ==
  /\ at # "exited" /\ (~stop \/ at = "pause")
  /\ stop' = TRUE
  /\ at' = IF at = "pause" THEN "check" ELSE at
  /\ UNCHANGED <<run, ctx, stage, waiting, own, tries, polls, reqs, net, files, rc,
                 modem, linkMtu, sawLte, untuned>>

NewCtx(simple, dry) ==
  [fd |-> FALSE, simple |-> simple, dry |-> dry, muxes |-> 0,
   pdh |-> None, addr |-> None, mtu |-> None]

Init ==
  /\ run = 1 /\ stage = 1 /\ at = "next" /\ waiting = FALSE /\ own = FALSE
  /\ \E simple \in SimpleWds, dry \in DryRuns : ctx = NewCtx(simple, dry)
  /\ tries = 0 /\ polls = 0 /\ reqs = <<>> /\ net = <<>>
  /\ stop = FALSE /\ rc = 0 /\ sawLte = FALSE
  /\ files = [result |-> "STARTING", bearer |-> "none", pdh |-> None, addr |-> None,
              format |-> "none"]
  /\ modem = [bearer |-> None, format |-> "none"]
  /\ linkMtu = None /\ untuned = FALSE

\* The program is started again; the files of the last run are still there.
Restart ==
  /\ at = "exited" /\ run < MaxRuns
  /\ run' = run + 1 /\ stage' = 1 /\ at' = "next" /\ waiting' = FALSE /\ own' = FALSE
  /\ \E simple \in SimpleWds, dry \in DryRuns : ctx' = NewCtx(simple, dry)
  /\ tries' = 0 /\ polls' = 0 /\ reqs' = <<>> /\ net' = <<>>
  /\ stop' = FALSE /\ rc' = 0 /\ sawLte' = FALSE
  /\ files' = [files EXCEPT !.result = "STARTING"] /\ untuned' = FALSE
  /\ UNCHANGED <<modem, linkMtu>>

Program == \/ EndStage \/ FailStage \/ Interrupted \/ BeginStage \/ NoService
           \/ FoundService \/ PostTune \/ Ready \/ HoldBearer \/ Exit \/ Send
           \/ PollDeadline \/ ReceiveAnswer \/ SkipPacket \/ Timeout \/ OutOfTries
Modem == ModemAnswers \/ ModemIgnores \/ ModemIndicates \/ BearerDrops

Next == Program \/ Modem \/ Signal \/ Restart

Spec == Init /\ [][Next]_vars
\* The kernel runs the program and lets poll() time out; nothing is assumed of
\* the modem or the user.
FairSpec == Spec /\ WF_vars(Program)
----------------------------------------------------------------------------
(* Properties.                                                             *)

Bearers == {None, Dropped} \cup (1 .. MaxRuns)
Formats == {"none", "QMAPv3", "QMAPv1"}
Contexts == [fd : BOOLEAN, simple : BOOLEAN, dry : BOOLEAN, muxes : 0 .. NumMuxes,
             pdh : 0 .. MaxRuns, addr : 0 .. MaxRuns, mtu : 0 .. MaxRuns]
StateFiles == [result : {"STARTING", "INTERRUPTED", "READY", "FAILED"},
               bearer : {"none", "UP", "FAIL"}, pdh : 0 .. MaxRuns,
               addr : 0 .. MaxRuns, format : Formats]
Packets == [msg : Messages \cup {"indication"}, res : {"ok", "err", "none"},
            val : {"ONLINE", "other", "LTE", "QMAPv3", "QMAPv1", "handle", "all",
                   "no mtu", "none"}]
Points == {"next", "lookup", "tune", "done", "failed", "check", "enter", "pause",
           "exit", "exited"}

\* struct vi_ctx, the files and the protocol state stay in their ranges; bind_mux
\* never binds more muxes than ctx.num_muxes.
TypeOK ==
  /\ run \in 1 .. MaxRuns /\ stage \in 1 .. Len(Stages) + 1
  /\ ctx \in Contexts /\ at \in Messages \cup Points
  /\ waiting \in BOOLEAN /\ own \in BOOLEAN
  /\ tries \in 0 .. MaxTries - 1 /\ polls \in 0 .. MaxPolls
  /\ reqs \in Seq(Messages) /\ net \in Seq(Packets)
  /\ stop \in BOOLEAN /\ files \in StateFiles /\ rc \in {0, 1, 130}
  /\ modem \in [bearer : Bearers, format : Formats]
  /\ linkMtu \in 0 .. MaxRuns /\ sawLte \in BOOLEAN /\ untuned \in BOOLEAN

\* The result file says READY and main() has not begun to leave.
Holding == files.result = "READY" /\ at \notin {"exit", "exited"} /\ ~ctx.dry

\* A program that runs while the file says READY holds, on the socket it keeps, a bearer of
\* this run (unless the network took it away), and the data format it recorded
\* is the one the modem uses: whatever was late, lost or refused before.
ReadyHoldsBearer ==
  Holding => /\ ctx.fd /\ modem.bearer \in {Dropped, run}
             /\ files.bearer = "UP" /\ files.format = modem.format

\* The modem has a bearer only while the run that started it keeps its socket:
\* no failure, signal, late START or restart leaves one behind.
NoOrphanBearer == modem.bearer > 0 => ctx.fd /\ modem.bearer = run

\* What arrived is applied: the packet data handle and the address in the files
\* and, unless a command of post_tune failed, the MTU of the link are those of this
\* bearer, not of an earlier run.
SettingsApplied ==
  Holding => /\ ctx.pdh # None => files.pdh = run
             /\ ctx.addr # None => files.addr = run
             /\ ctx.mtu # None => linkMtu = run \/ untuned

\* The result file and the exit status agree: FAILED with 1, INTERRUPTED with 130, and
\* READY, which main() leaves in the file when it exits, only after a signal has
\* ended a bring-up that got through all stages.
ResultFits ==
  /\ files.result = "FAILED" <=> rc = 1
  /\ files.result = "INTERRUPTED" <=> rc = 130
  /\ files.result = "READY" /\ at \in {"exit", "exited"} => stop /\ stage > Len(Stages)

\* While the program runs, READY in the result file stands for a bearer it holds and for
\* settings that are this bearer's; once it has gone the file says how it ended
\* (vendor-init.c, stage_post_tune.c).
ResultTrue == TypeOK /\ ReadyHoldsBearer /\ SettingsApplied /\ ResultFits

\* "LTE-flavored TLVs would fail on non-LTE" (stage_nas_rat.c): the full form
\* of WDS_START_NETWORK and its two precedents go out only in a run in which
\* the modem has reported LTE.
FullStartOnlyOnLte ==
  at \in {"SET_CLIENT_MODE", "SET_IP_FAMILY", "START"} /\ ~ctx.simple => sawLte

\* The bring-up ends, ready or not, even when the modem never answers or floods
\* the socket with indications.
BringUpEnds == (at = "next") ~> (at \in {"pause", "exited"})

\* A signal that does not fall between the test of g_stop and pause() ends the
\* process, in whatever stage or transaction it arrives.
SignalEndsProgram == (stop /\ at \notin {"enter", "pause"}) ~> (at = "exited")

\* Every stage ends, and so does the program when it is told to in time.
ProgramEnds == BringUpEnds /\ SignalEndsProgram

\* Once g_stop is set the process ends ("Ctrl-C to tear down bearer").
StopEndsProgram == stop ~> (at = "exited")
=============================================================================
