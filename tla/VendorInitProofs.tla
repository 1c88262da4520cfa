-------------------------- MODULE VendorInitProofs --------------------------
(***************************************************************************)
(* Theorems about vendor-init, for every number of runs, of muxes, of      *)
(* packets and of polls.                                                   *)
(*                                                                         *)
(* NoOrphanBearer is not inductive: that a bearer implies an open ctx.fd   *)
(* rests on where in main()'s loop a START can be sent from.  SocketInv    *)
(* says that bind_mux leaves its socket behind whenever it succeeds, that  *)
(* every later step of a run has it, and that a START waits at the modem   *)
(* only while the socket it came from is open.                             *)
(*                                                                         *)
(* What READY promises rests on every stage before it.  BringUpInv adds    *)
(* what each stage leaves behind and what may be under way on its socket,  *)
(* and proves ResultTrue and FullStartOnlyOnLte.                           *)
(***************************************************************************)
EXTENDS VendorInit, TLAPS

\* The messages wds_start sends on ctx.fd to start the bearer.
StartMessages == {"SET_CLIENT_MODE", "SET_IP_FAMILY", "START"}

\* Points of main() at which bind_mux has not (yet) got its socket.
Socketless == {"next", "lookup", "failed", "exit", "exited"}

\* What the argument needs to know of ctx and of the modem.
SomeContext == [fd : BOOLEAN, simple : BOOLEAN, dry : BOOLEAN, muxes : Int,
             pdh : Int, addr : Int, mtu : Int]
SomeModem == [bearer : Int, format : {"none", "QMAPv3", "QMAPv1"}]

SocketInv ==
  /\ run \in Nat \ {0} /\ stage \in Nat \ {0} /\ ctx \in SomeContext /\ modem \in SomeModem
  /\ reqs \in Seq(Messages)
  /\ waiting => at \in Messages
  /\ stage = 6 /\ at \notin Socketless /\ ~ctx.dry => ctx.fd
  /\ stage > 6 /\ at # "exited" /\ ~ctx.dry => ctx.fd
  /\ at = "lookup" => stage \in 1 .. 8 /\ ~ctx.dry
  /\ at \in StartMessages => ctx.fd
  /\ \A i \in DOMAIN reqs : reqs[i] = "START" => ctx.fd
  /\ at = "exited" => ~ctx.fd
  /\ NoOrphanBearer

\* A device that has just booted holds no bearer, and vendor-init no socket.
LEMMA InitSocket == Init => SocketInv
<1> SUFFICES ASSUME Init PROVE SocketInv
  OBVIOUS
<1>1. PICK simple \in SimpleWds, dry \in DryRuns : ctx = NewCtx(simple, dry)
  BY DEF Init
<1>2. ctx \in SomeContext
  BY <1>1, VendorInitAssumption DEF NewCtx, SomeContext, None
<1>3. modem \in SomeModem /\ modem.bearer = 0
  BY DEF Init, SomeModem, None
<1> QED
  BY <1>2, <1>3 DEF Init, SocketInv, NoOrphanBearer, StartMessages, Socketless

\* The points of main() are not messages: no transaction is open there.
LEMMA PointsAreNoMessages ==
  \A m \in Messages : m \notin Socketless \cup {"tune", "done", "check", "enter", "pause"}
BY DEF Messages, Polls, Socketless

\* Only wds_start, the seventh stage, begins with a message that starts the bearer.
LEMMA FirstOfStage ==
  ASSUME stage \in 1 .. 8
  PROVE  /\ First(StageName) \in StartMessages => stage = 7
         /\ First(StageName) \notin {"exited", "lookup"}
         /\ stage = 6 <=> StageName = "bind_mux"
<1>1. CASE stage = 1 BY <1>1 DEF First, StageName, Stages, StartMessages
<1>2. CASE stage = 2 BY <1>2 DEF First, StageName, Stages, StartMessages
<1>3. CASE stage = 3 BY <1>3 DEF First, StageName, Stages, StartMessages
<1>4. CASE stage = 4 BY <1>4 DEF First, StageName, Stages, StartMessages
<1>5. CASE stage = 5 BY <1>5 DEF First, StageName, Stages, StartMessages
<1>6. CASE stage = 6 BY <1>6 DEF First, StageName, Stages, StartMessages
<1>7. CASE stage = 7 BY <1>7 DEF First, StageName, Stages, StartMessages
<1>8. CASE stage = 8 BY <1>8 DEF First, StageName, Stages, StartMessages
<1> QED
  BY <1>1, <1>2, <1>3, <1>4, <1>5, <1>6, <1>7, <1>8

\* Steps that neither touch a socket nor move main() on: the modem and the user.
LEMMA OutsideSteps ==
  ASSUME SocketInv, Modem \/ Signal
  PROVE  SocketInv'
<1>1. CASE ModemAnswers
  <2> DEFINE m == Head(reqs)
  <2>1. PICK a \in AnswersTo(m) : modem' = Effect(m, a)
    BY <1>1 DEF ModemAnswers
  <2>2. reqs # <<>> /\ reqs' = Tail(reqs) /\ UNCHANGED <<run, ctx, stage, at, waiting>>
    BY <1>1 DEF ModemAnswers
  <2>3. m = reqs[1] /\ 1 \in DOMAIN reqs
    BY <2>2 DEF SocketInv
  <2>4. reqs' \in Seq(Messages) /\ \A i \in DOMAIN reqs' : reqs'[i] = reqs[i + 1] /\ i + 1 \in DOMAIN reqs
    BY <2>2 DEF SocketInv
  <2>5. modem' \in SomeModem /\ (modem'.bearer # modem.bearer => m = "START" /\ modem'.bearer = run)
    <3> HIDE DEF m
    <3>0. m = "SET_FORMAT" => Values(m) = {"QMAPv3", "QMAPv1"}
      BY DEF Values, Polls
    <3>1. m = "SET_FORMAT" => a.val \in {"QMAPv3", "QMAPv1"}
      BY <2>1, <3>0 DEF AnswersTo
    <3> DEFINE format == IF m = "SET_FORMAT" /\ a.res = "ok" THEN a.val ELSE modem.format
               bearer == IF m = "START" /\ a.res = "ok" THEN run ELSE modem.bearer
    <3>2. format \in {"none", "QMAPv3", "QMAPv1"}
      BY <3>1 DEF SomeModem, SocketInv
    <3>3. bearer \in Int /\ (bearer # modem.bearer => m = "START" /\ bearer = run)
      BY DEF SomeModem, SocketInv
    <3>4. modem' = [modem EXCEPT !.format = format, !.bearer = bearer]
      BY <2>1 DEF Effect
    <3> HIDE DEF format, bearer
    <3> QED
      BY <3>2, <3>3, <3>4 DEF SomeModem, SocketInv
  <2> QED
    BY <2>2, <2>3, <2>4, <2>5 DEF SocketInv, NoOrphanBearer
<1>2. CASE ModemIgnores
  <2>1. reqs' \in Seq(Messages) /\ \A i \in DOMAIN reqs' : reqs'[i] = reqs[i + 1] /\ i + 1 \in DOMAIN reqs
    BY <1>2 DEF SocketInv, ModemIgnores
  <2> QED
    BY <1>2, <2>1 DEF SocketInv, ModemIgnores, NoOrphanBearer
<1>3. CASE ModemIndicates
  BY <1>3 DEF SocketInv, ModemIndicates, NoOrphanBearer
<1>4. CASE BearerDrops
  BY <1>4 DEF SocketInv, BearerDrops, NoOrphanBearer, Dropped, SomeModem
<1>5. CASE Signal
  BY <1>5, PointsAreNoMessages DEF SocketInv, Signal, NoOrphanBearer, StartMessages, Socketless
<1> QED
  BY <1>1, <1>2, <1>3, <1>4, <1>5 DEF Modem

\* main() between and at the ends of the stages.
LEMMA MainSteps ==
  ASSUME SocketInv,
         \/ EndStage \/ FailStage \/ Interrupted \/ BeginStage \/ NoService
         \/ FoundService \/ PostTune \/ Ready \/ HoldBearer \/ Exit
  PROVE  SocketInv'
<1>1. CASE EndStage
  BY <1>1, PointsAreNoMessages DEF SocketInv, EndStage, CloseOwn, NoOrphanBearer,
      StartMessages, Socketless
<1>2. CASE FailStage
  BY <1>2, PointsAreNoMessages DEF SocketInv, FailStage, CloseOwn, NoOrphanBearer,
      StartMessages, Socketless
<1>3. CASE Interrupted
  BY <1>3, PointsAreNoMessages DEF SocketInv, Interrupted, NoOrphanBearer, StartMessages, Socketless
<1>4. CASE BeginStage
  <2>1. stage \in 1 .. 8
    BY <1>4 DEF BeginStage, SocketInv, Stages
  <2>2. stage = 6 => Looking
    BY <2>1, FirstOfStage DEF Looking
  <2>3. \/ ctx.dry /\ at' = "done"
        \/ ~ctx.dry /\ Looking /\ at' = "lookup"
        \/ ~ctx.dry /\ ~Looking /\ at' = First(StageName)
    BY <1>4 DEF BeginStage
  <2> QED
    BY <1>4, <2>1, <2>2, <2>3, FirstOfStage, PointsAreNoMessages
    DEF SocketInv, BeginStage, NoOrphanBearer, StartMessages, Socketless
<1>5. CASE NoService
  <2>1. stage = 6 => StageName # "dsd"
    BY DEF StageName, Stages
  <2> QED
    BY <1>5, <2>1, PointsAreNoMessages DEF SocketInv, NoService, NoOrphanBearer, StartMessages,
        Socketless
<1>6. CASE FoundService
  <2>1. stage \in 1 .. 8 /\ ~ctx.dry
    BY <1>6 DEF FoundService, SocketInv
  <2>2. /\ ctx' \in SomeContext /\ ctx'.dry = ctx.dry
        /\ ctx'.fd <=> ctx.fd \/ stage = 6
    BY <1>6, <2>1, FirstOfStage DEF FoundService, SocketInv, SomeContext, KeepsSocket
  <2>3. ~waiting /\ at = "lookup" /\ at' = First(StageName) /\ UNCHANGED <<run, stage, waiting,
                                                                           reqs, modem>>
    BY <1>6, PointsAreNoMessages DEF FoundService, SocketInv, Socketless
  <2> QED
    BY <2>1, <2>2, <2>3, FirstOfStage DEF SocketInv, NoOrphanBearer
<1>7. CASE PostTune
  BY <1>7, PointsAreNoMessages DEF SocketInv, PostTune, NoOrphanBearer, StartMessages, Socketless
<1>8. CASE Ready
  BY <1>8, PointsAreNoMessages DEF SocketInv, Ready, NoOrphanBearer, StartMessages, Socketless,
      Stages
<1>9. CASE HoldBearer
  BY <1>9, PointsAreNoMessages DEF SocketInv, HoldBearer, NoOrphanBearer, StartMessages, Socketless
<1>10. CASE Exit
  <2>1. ctx' \in SomeContext /\ ~ctx'.fd
    BY <1>10 DEF Exit, SocketInv, SomeContext
  <2>2. modem' \in SomeModem /\ ~(modem'.bearer > 0)
    BY <1>10 DEF Exit, SocketInv, SomeModem, None, NoOrphanBearer
  <2>3. reqs' = <<>> /\ reqs' \in Seq(Messages) /\ at' = "exited" /\ UNCHANGED <<run, stage>>
    BY <1>10 DEF Exit
  <2> QED
    BY <1>10, <2>1, <2>2, <2>3, PointsAreNoMessages DEF Exit, SocketInv, NoOrphanBearer,
        StartMessages, Socketless
<1> QED
  BY <1>1, <1>2, <1>3, <1>4, <1>5, <1>6, <1>7, <1>8, <1>9, <1>10

\* The transactions of qrtr_txn() and the wait for LTE.
LEMMA TransactionSteps ==
  ASSUME SocketInv, Send \/ PollDeadline \/ ReceiveAnswer \/ SkipPacket \/ Timeout \/ OutOfTries
  PROVE  SocketInv'
<1>1. CASE Send
  <2>1. reqs' = Append(reqs, at) /\ at \in Messages
    BY <1>1 DEF Send
  <2>2. reqs' \in Seq(Messages)
    BY <2>1 DEF SocketInv
  <2>3. \A i \in DOMAIN reqs' : reqs'[i] = at \/ (i \in DOMAIN reqs /\ reqs'[i] = reqs[i])
    BY <2>1 DEF SocketInv
  <2> QED
    BY <1>1, <2>2, <2>3 DEF Send, SocketInv, NoOrphanBearer, StartMessages
<1>2. CASE PollDeadline
  <2>1. ctx' \in SomeContext /\ ctx'.dry = ctx.dry /\ ctx'.fd = ctx.fd
    BY <1>2 DEF PollDeadline, WithoutLte, SocketInv, SomeContext
  <2> QED
    BY <1>2, <2>1 DEF PollDeadline, SocketInv, NoOrphanBearer, StartMessages, Socketless
<1>3. CASE SkipPacket
  BY <1>3 DEF SkipPacket, SocketInv, NoOrphanBearer
<1>4. ASSUME NEW a, waiting, Conclude(a)
      PROVE  SocketInv'
  <2>1. ctx' \in SomeContext /\ ctx'.dry = ctx.dry /\ ctx'.fd = ctx.fd
    <3> DEFINE muxes == IF at = "BIND" /\ a.res = "ok" THEN ctx.muxes + 1 ELSE ctx.muxes
               pdh == IF at = "START" /\ a.res = "ok" /\ a.val = "handle" THEN run ELSE ctx.pdh
               addr == IF at = "SETTINGS" /\ a.val \in {"all", "no mtu"} THEN run ELSE ctx.addr
               mtu == IF at = "SETTINGS" /\ a.val = "all" THEN run ELSE ctx.mtu
    <3>0. /\ ctx.muxes \in Int /\ ctx.muxes + 1 \in Int /\ ctx.pdh \in Int
          /\ ctx.addr \in Int /\ ctx.mtu \in Int /\ run \in Int
      BY DEF SocketInv, SomeContext
    <3>1. muxes \in Int /\ pdh \in Int /\ addr \in Int /\ mtu \in Int
      BY <3>0, Zenon
    <3>2. ctx' = [ctx EXCEPT !.muxes = muxes, !.pdh = pdh, !.addr = addr, !.mtu = mtu]
      BY <1>4 DEF Conclude, CtxAfter
    <3> HIDE DEF muxes, pdh, addr, mtu
    <3> QED
      BY <3>1, <3>2 DEF SocketInv, SomeContext
  <2>2. at' \in StartMessages => at \in StartMessages
    BY <1>4 DEF Conclude, After, StartMessages
  <2>3. at' \notin {"exited", "lookup"}
    BY <1>4 DEF Conclude, After
  <2> QED
    BY <1>4, <2>1, <2>2, <2>3, PointsAreNoMessages DEF Conclude, SocketInv, NoOrphanBearer,
        Socketless
<1>5. CASE ReceiveAnswer
  BY <1>4, <1>5 DEF ReceiveAnswer
<1>6. CASE Timeout
  BY <1>4, <1>6 DEF Timeout
<1>7. CASE OutOfTries
  BY <1>4, <1>7 DEF OutOfTries
<1> QED
  BY <1>1, <1>2, <1>3, <1>5, <1>6, <1>7

\* The program is started again after it has exited.
LEMMA RestartStep ==
  ASSUME SocketInv, Restart
  PROVE  SocketInv'
BY VendorInitAssumption
   DEF SocketInv, Restart, NewCtx, SomeContext, SomeModem, NoOrphanBearer, StartMessages,
       Socketless, None

\* Whatever the modem answers or does not, whenever signals arrive and however
\* often systemd starts vendor-init again, a bearer exists at the modem only
\* while the very run that sent its WDS_START_NETWORK has ctx.fd open: a failed
\* stage, an interrupt or a START answered after its timeout leaves none behind.
THEOREM BearerTiedToSocket == Spec => []NoOrphanBearer
<1>1. Init => SocketInv
  BY InitSocket
<1>2. SocketInv /\ [Next]_vars => SocketInv'
  <2> SUFFICES ASSUME SocketInv, [Next]_vars
               PROVE  SocketInv'
    OBVIOUS
  <2>1. CASE UNCHANGED vars
    BY <2>1 DEF vars, SocketInv, NoOrphanBearer
  <2>2. CASE Next
    BY <2>2, OutsideSteps, MainSteps, TransactionSteps, RestartStep DEF Next, Program
  <2> QED
    BY <2>1, <2>2
<1>3. SocketInv => NoOrphanBearer
  BY DEF SocketInv
<1> QED
  BY <1>1, <1>2, <1>3, PTL DEF Spec
----------------------------------------------------------------------------
(* What a finished bring-up rests on.  Every stage leaves something behind *)
(* that a later one, or the result, needs; none of it can be seen from     *)
(* where the program is when it needs it, so the invariant carries it      *)
(* along.  Place ties the message being exchanged to its stage.            *)

\* Where in which stage: what main() is doing fits the stage it is in.
Place ==
  /\ stage \in 1 .. 9
  /\ at \in {"GET_MODE", "SET_MODE"} => stage = 1
  /\ at \in {"SET_PREF", "REGISTER"} \cup Polls => stage = 2
  /\ at = "OPEN_PORT" => stage = 3
  /\ at = "SET_FORMAT" => stage = 4
  /\ at = "BIND" => stage = 6
  /\ at \in StartMessages \cup {"SETTINGS"} => stage = 7
  /\ at = "tune" => stage = 8
  /\ at \in {"check", "enter", "pause"} => stage = 9
  /\ at = "lookup" => stage \in 1 .. 6 /\ own
  /\ at \in {"done", "failed"} => stage \in 1 .. 8
  /\ at \in Messages \cup {"tune", "lookup"} => ~ctx.dry
  /\ stage \in 1 .. 5 /\ at \in Messages \cup {"failed"} => own

\* What the stages before have left behind.
LteInv == ~ctx.dry /\ ~ctx.simple /\ (stage > 2 \/ (stage = 2 /\ at = "done")) => sawLte

MuxInv == /\ ctx.muxes \in 0 .. NumMuxes
          /\ at = "BIND" => ctx.muxes < NumMuxes
          /\ stage < 6 \/ (stage = 6 /\ at \in {"next", "lookup"}) => ctx.muxes = 0

\* At most one SET_FORMAT is under way, and only while wda_set waits for it.
FormatOpen == stage = 4 /\ own /\ ((at = "SET_FORMAT" /\ waiting) \/ at = "failed")
FormatInv ==
  /\ \A i \in DOMAIN reqs : reqs[i] = "SET_FORMAT" =>
       FormatOpen /\ \A j \in DOMAIN reqs : reqs[j] = "SET_FORMAT" => i = j
  /\ \A i \in DOMAIN net : net[i].msg = "SET_FORMAT" =>
       /\ FormatOpen
       /\ net[i].res = "ok" => net[i].val = modem.format
       /\ \A j \in DOMAIN reqs : reqs[j] # "SET_FORMAT"
       /\ \A j \in DOMAIN net : net[j].msg = "SET_FORMAT" => i = j
  /\ ~ctx.dry /\ (stage > 4 \/ (stage = 4 /\ at = "done")) => files.format = modem.format

BearerInv ==
  /\ \A i \in DOMAIN net : net[i].msg = "START" /\ net[i].res = "ok" =>
       modem.bearer \in {run, Dropped}
  /\ ~ctx.dry /\ at # "exited" /\ (stage > 7 \/ (stage = 7 /\ at \in {"SETTINGS", "done"}))
       => modem.bearer \in {run, Dropped} /\ files.bearer = "UP"

SettingsInv ==
  /\ ctx.pdh \in {None, run} /\ ctx.addr \in {None, run} /\ ctx.mtu \in {None, run}
  /\ ctx.pdh = run => files.pdh = run
  /\ ctx.addr = run => files.addr = run
  /\ ~ctx.dry /\ (stage > 8 \/ (stage = 8 /\ at = "done")) /\ ctx.mtu = run => linkMtu = run \/ untuned

\* The exit status is set on the way out; READY is written when all stages are done.
ResultInv ==
  /\ ResultFits
  /\ at \notin {"exit", "exited"} => rc = 0
  /\ files.result = "READY" =>
       stage > Len(Stages) /\ at \in {"check", "enter", "pause", "exit", "exited"}

BringUpInv == /\ SocketInv /\ TypeOK /\ Place /\ LteInv /\ MuxInv
              /\ FormatInv /\ BearerInv /\ SettingsInv /\ ResultInv

\* The first start after boot: nothing has been left behind yet.
LEMMA InitBringUp == Init => BringUpInv
<1> SUFFICES ASSUME Init PROVE BringUpInv
  OBVIOUS
<1>1. PICK simple \in SimpleWds, dry \in DryRuns : ctx = NewCtx(simple, dry)
  BY DEF Init
<1>2. SocketInv
  BY InitSocket
<1>3. TypeOK
  <2>1. ctx \in Contexts
    BY <1>1, VendorInitAssumption DEF NewCtx, None, Contexts
  <2>2. modem \in [bearer : Bearers, format : Formats]
    BY DEF Init, Bearers, Formats
  <2>3. reqs \in Seq(Messages) /\ net \in Seq(Packets)
    BY DEF Init
  <2>4. run \in 1 .. MaxRuns /\ stage \in 1 .. Len(Stages) + 1 /\ tries \in 0 .. MaxTries - 1
        /\ polls \in 0 .. MaxPolls /\ linkMtu \in 0 .. MaxRuns
    BY VendorInitAssumption DEF Init, Stages, None
  <2>5. files \in StateFiles
    BY VendorInitAssumption DEF Init, None, StateFiles, Formats
  <2> QED
    BY <2>1, <2>2, <2>3, <2>4, <2>5 DEF Init, TypeOK, Points
<1>4. Place /\ LteInv /\ MuxInv
  BY <1>1, VendorInitAssumption
  DEF Init, Place, LteInv, MuxInv, NewCtx, None, Messages, Polls, StartMessages
<1>5. FormatInv /\ BearerInv /\ SettingsInv
  BY <1>1, VendorInitAssumption
  DEF Init, FormatInv, BearerInv, SettingsInv, NewCtx, None
<1>6. ResultInv
  BY DEF Init, ResultInv, ResultFits
<1> QED
  BY <1>2, <1>3, <1>4, <1>5, <1>6 DEF BringUpInv

\* The points of main() and the messages, told apart.
LEMMA WhereMessages ==
  \A m \in Messages :
     m \notin {"next", "lookup", "tune", "done", "failed", "check", "enter", "pause",
               "exit", "exited", "indication", "none"}
BY DEF Messages, Polls

\* What a stage begins with, stage by stage.
LEMMA FirstTable ==
  ASSUME stage \in 1 .. 8
  PROVE  /\ stage = 1 => First(StageName) = "GET_MODE"
         /\ stage = 2 => First(StageName) = "POLL"
         /\ stage = 3 => First(StageName) = "OPEN_PORT"
         /\ stage = 4 => First(StageName) = "SET_FORMAT"
         /\ stage = 5 => First(StageName) = "done"
         /\ stage = 6 => \/ First(StageName) = "BIND" /\ NumMuxes > 0
                         \/ First(StageName) = "done"
         /\ stage = 7 => \/ First(StageName) = "START"
                         \/ First(StageName) = "SET_CLIENT_MODE" /\ ~ctx.simple
         /\ stage = 8 => First(StageName) = "tune"
         /\ First(StageName) \in Messages \cup {"done", "tune"}
         /\ Looking <=> stage \in 1 .. 6
         /\ KeepsSocket(StageName) <=> stage = 6
         /\ StageName = "dsd" <=> stage = 5
<1>1. CASE stage = 1 BY <1>1 DEF First, StageName, Stages, Looking, KeepsSocket, Messages, Polls
<1>2. CASE stage = 2 BY <1>2 DEF First, StageName, Stages, Looking, KeepsSocket, Messages, Polls
<1>3. CASE stage = 3 BY <1>3 DEF First, StageName, Stages, Looking, KeepsSocket, Messages, Polls
<1>4. CASE stage = 4 BY <1>4 DEF First, StageName, Stages, Looking, KeepsSocket, Messages, Polls
<1>5. CASE stage = 5 BY <1>5 DEF First, StageName, Stages, Looking, KeepsSocket, Messages, Polls
<1>6. CASE stage = 6 BY <1>6 DEF First, StageName, Stages, Looking, KeepsSocket, Messages, Polls
<1>7. CASE stage = 7 BY <1>7 DEF First, StageName, Stages, Looking, KeepsSocket, Messages, Polls
<1>8. CASE stage = 8 BY <1>8 DEF First, StageName, Stages, Looking, KeepsSocket, Messages, Polls
<1> QED
  BY <1>1, <1>2, <1>3, <1>4, <1>5, <1>6, <1>7, <1>8

\* Where a message leads, message by message.
LEMMA AfterTable ==
  ASSUME NEW a, NEW m \in Messages
  PROVE  \/ After(m, a) = "failed"
         \/ m = "GET_MODE" /\ After(m, a) \in {"SET_MODE", "done"}
         \/ m \in Polls /\ After(m, a) = "done" /\ OnLte(a)
         \/ m = "POLL" /\ After(m, a) = "SET_PREF"
         \/ m = "SET_PREF" /\ After(m, a) = "REGISTER"
         \/ m \in {"REGISTER", "POLL_AGAIN"} /\ After(m, a) = "POLL_AGAIN"
         \/ m = "BIND" /\ MoreMuxes /\ After(m, a) = "BIND"
         \/ m = "SET_CLIENT_MODE" /\ After(m, a) = "SET_IP_FAMILY"
         \/ m = "SET_IP_FAMILY" /\ After(m, a) = "START"
         \/ m = "START" /\ After(m, a) = "SETTINGS" /\ ~Fails(m, a)
         \/ /\ m \in {"SET_MODE", "OPEN_PORT", "SET_FORMAT", "BIND", "SETTINGS"}
            /\ After(m, a) = "done" /\ ~Fails(m, a)
BY DEF After, Messages, Polls

----------------------------------------------------------------------------
(* Place: the program is where its stage says.                             *)

\* The steps of main() outside a transaction go to a place of the next stage.
LEMMA MainPlace ==
  ASSUME BringUpInv,
         \/ EndStage \/ FailStage \/ Interrupted \/ BeginStage \/ NoService
         \/ FoundService \/ PostTune \/ Ready \/ HoldBearer \/ Exit
  PROVE  Place'
<1> USE WhereMessages DEF BringUpInv, StartMessages
<1>1. CASE EndStage
  BY <1>1 DEF EndStage, Place, CloseOwn, Polls
<1>2. CASE FailStage
  BY <1>2 DEF FailStage, Place, CloseOwn, Polls
<1>3. CASE Interrupted
  BY <1>3 DEF Interrupted, Place, Polls
<1>4. CASE BeginStage
  <2>1. stage \in 1 .. 8 /\ TypeOK
    BY <1>4 DEF BeginStage, Place, Stages
  <2>2. \/ ctx.dry /\ at' = "done" /\ own' = FALSE
        \/ ~ctx.dry /\ Looking /\ at' = "lookup" /\ own' = TRUE
        \/ ~ctx.dry /\ ~Looking /\ at' = First(StageName) /\ own' = FALSE
    BY <1>4 DEF BeginStage
  <2>3. UNCHANGED <<stage, ctx>>
    BY <1>4 DEF BeginStage
  <2> QED
    BY <2>1, <2>2, <2>3, FirstTable DEF Place, Messages, Polls
<1>5. CASE NoService
  <2>1. stage \in 1 .. 8 /\ TypeOK /\ at = "lookup" /\ UNCHANGED <<stage, ctx, own>>
    BY <1>5 DEF NoService, Place
  <2> QED
    BY <1>5, <2>1, FirstTable DEF NoService, Place, Polls
<1>6. CASE FoundService
  <2>1. stage \in 1 .. 8 /\ TypeOK /\ at = "lookup" /\ UNCHANGED stage
        /\ own' = ~KeepsSocket(StageName)
    BY <1>6 DEF FoundService, Place
  <2>2. ctx'.dry = ctx.dry
    BY <1>6 DEF FoundService, TypeOK, Contexts
  <2>3. at' = First(StageName)
    BY <1>6 DEF FoundService
  <2>4. own' <=> ~KeepsSocket(StageName)
    BY <2>1
  <2>5. \/ stage = 1 /\ at' = "GET_MODE" /\ own'
        \/ stage = 2 /\ at' = "POLL" /\ own'
        \/ stage = 3 /\ at' = "OPEN_PORT" /\ own'
        \/ stage = 4 /\ at' = "SET_FORMAT" /\ own'
        \/ stage = 5 /\ at' = "done" /\ own'
        \/ stage = 6 /\ at' \in {"BIND", "done"}
    BY <2>1, <2>3, <2>4, FirstTable DEF Place
  <2> QED
    BY <2>1, <2>2, <2>5 DEF Place, Messages, Polls
<1>7. CASE PostTune
  BY <1>7 DEF PostTune, Place, Polls
<1>8. CASE Ready
  BY <1>8 DEF Ready, Place, Polls, Stages
<1>9. CASE HoldBearer
  BY <1>9 DEF HoldBearer, Place, Polls
<1>10. CASE Exit
  BY <1>10 DEF Exit, Place, Polls
<1> QED
  BY <1>1, <1>2, <1>3, <1>4, <1>5, <1>6, <1>7, <1>8, <1>9, <1>10

\* The end of a transaction stays in its stage or completes it.
LEMMA ConcludePlace ==
  ASSUME BringUpInv, NEW a, waiting, Conclude(a)
  PROVE  Place'
<1>1. at \in Messages
  BY DEF BringUpInv, SocketInv
<1>2. ctx'.dry = ctx.dry /\ UNCHANGED <<stage, own>> /\ at' = After(at, a)
  BY DEF Conclude, CtxAfter, BringUpInv, TypeOK, Contexts
<1> QED
  BY <1>1, <1>2, AfterTable, WhereMessages DEF BringUpInv, Place, Polls, StartMessages, Messages

\* Any step keeps the program where its stage says.
LEMMA PlaceStep ==
  ASSUME BringUpInv, Next
  PROVE  Place'
<1>1. CASE Send
  BY <1>1 DEF Send, BringUpInv, Place
<1>2. CASE PollDeadline
  <2>1. ctx'.dry = ctx.dry
    BY <1>2 DEF PollDeadline, WithoutLte, BringUpInv, TypeOK, Contexts
  <2> QED
    BY <1>2, <2>1, WhereMessages DEF PollDeadline, BringUpInv, Place, StartMessages, Polls
<1>3. CASE SkipPacket
  BY <1>3 DEF SkipPacket, BringUpInv, Place
<1>4. CASE ReceiveAnswer \/ Timeout \/ OutOfTries
  BY <1>4, ConcludePlace DEF ReceiveAnswer, Timeout, OutOfTries
<1>5. CASE Modem
  BY <1>5 DEF Modem, ModemAnswers, ModemIgnores, ModemIndicates, BearerDrops, BringUpInv, Place
<1>6. CASE Signal
  BY <1>6, WhereMessages DEF Signal, BringUpInv, Place, StartMessages, Polls
<1>7. CASE Restart
  BY <1>7, WhereMessages DEF Restart, BringUpInv, Place, StartMessages, Polls
<1> QED
  BY <1>1, <1>2, <1>3, <1>4, <1>5, <1>6, <1>7, MainPlace DEF Next, Program

----------------------------------------------------------------------------
(* TypeOK.                                                                 *)

\* What recv() takes from a queue and what is left of it.
LEMMA TakeFirst ==
  ASSUME NEW S, NEW q \in Seq(S), q # <<>>
  PROVE  /\ 1 \in DOMAIN q /\ Head(q) = q[1] /\ Head(q) \in S
         /\ Tail(q) \in Seq(S)
         /\ \A i \in DOMAIN Tail(q) : i + 1 \in DOMAIN q /\ Tail(q)[i] = q[i + 1]
OBVIOUS

\* What sendto() adds to a queue.
LEMMA AddLast ==
  ASSUME NEW S, NEW q \in Seq(S), NEW e \in S
  PROVE  /\ Append(q, e) \in Seq(S)
         /\ \A i \in DOMAIN Append(q, e) :
              \/ i \in DOMAIN q /\ Append(q, e)[i] = q[i]
              \/ i = Len(q) + 1 /\ Append(q, e)[i] = e
OBVIOUS

\* An answer of the modem is a packet, and carries its request's message id.
LEMMA AnswersArePackets ==
  ASSUME TypeOK, NEW m \in Messages, NEW a \in AnswersTo(m)
  PROVE  /\ a \in Packets /\ a.msg = MsgId(m)
         /\ m = "SET_FORMAT" => a.val \in {"QMAPv3", "QMAPv1"}
<1>1. Values(m) \subseteq {"ONLINE", "other", "LTE", "QMAPv3", "QMAPv1", "handle", "all",
                          "no mtu", "none"}
  BY DEF Values, Messages, Polls
<1>2. MsgId(m) \in Messages
  BY DEF MsgId, Messages, Polls
<1>3. m = "SET_FORMAT" => Values(m) = {"QMAPv3", "QMAPv1"}
  BY DEF Values, Polls
<1> QED
  BY <1>1, <1>2, <1>3 DEF AnswersTo, Packets

\* What the end of a transaction records has its type.
LEMMA ConcludeTypes ==
  ASSUME BringUpInv, waiting, NEW a, Conclude(a),
         at = "SET_FORMAT" /\ a.res = "ok" => a.val \in Formats,
         tries' = 0, net' \in Seq(Packets), MuxInv'
  PROVE  TypeOK'
<1>1. at \in Messages /\ TypeOK
  BY DEF BringUpInv, SocketInv
<1>2. at' \in Messages \cup {"failed", "done"}
  BY <1>1, AfterTable DEF Conclude, Messages, Polls
<1>3. ctx' \in Contexts
  <2> DEFINE muxes == IF at = "BIND" /\ a.res = "ok" THEN ctx.muxes + 1 ELSE ctx.muxes
             pdh == IF at = "START" /\ a.res = "ok" /\ a.val = "handle" THEN run ELSE ctx.pdh
             addr == IF at = "SETTINGS" /\ a.val \in {"all", "no mtu"} THEN run ELSE ctx.addr
             mtu == IF at = "SETTINGS" /\ a.val = "all" THEN run ELSE ctx.mtu
  <2>1. ctx' = [ctx EXCEPT !.muxes = muxes, !.pdh = pdh, !.addr = addr, !.mtu = mtu]
    BY DEF Conclude, CtxAfter
  <2>2. run \in 0 .. MaxRuns /\ ctx.pdh \in 0 .. MaxRuns /\ ctx.addr \in 0 .. MaxRuns /\ ctx.mtu \in 0 .. MaxRuns
    BY <1>1 DEF TypeOK, Contexts, StateFiles
  <2>3. pdh \in 0 .. MaxRuns /\ addr \in 0 .. MaxRuns /\ mtu \in 0 .. MaxRuns
    BY <2>2, Zenon
  <2> HIDE DEF muxes, pdh, addr, mtu
  <2>4. ctx'.muxes = muxes
    BY <1>1, <2>1 DEF TypeOK, Contexts
  <2>5. muxes \in 0 .. NumMuxes
    BY <2>4 DEF MuxInv
  <2> QED
    BY <1>1, <2>1, <2>3, <2>5 DEF TypeOK, Contexts
<1>4. files' \in StateFiles
  <2> DEFINE format == IF at = "SET_FORMAT" /\ a.res = "ok" THEN a.val ELSE files.format
             bearer == IF at # "START" THEN files.bearer ELSE IF a.res = "ok" THEN "UP"
                       ELSE IF a.res = "err" THEN "FAIL" ELSE files.bearer
             pdh == IF at = "START" /\ a.res = "ok" /\ a.val = "handle" THEN run ELSE files.pdh
             addr == IF at = "SETTINGS" /\ a.val \in {"all", "no mtu"} THEN run ELSE files.addr
  <2>1. files' = [files EXCEPT !.format = format, !.bearer = bearer, !.pdh = pdh, !.addr = addr]
    BY DEF Conclude, FilesAfter
  <2>2. run \in 0 .. MaxRuns /\ files.pdh \in 0 .. MaxRuns /\ files.addr \in 0 .. MaxRuns
        /\ files.bearer \in {"none", "UP", "FAIL"} /\ files.format \in Formats
    BY <1>1 DEF TypeOK, Contexts, StateFiles
  <2>3. pdh \in 0 .. MaxRuns /\ addr \in 0 .. MaxRuns
    BY <2>2, Zenon
  <2>4. bearer \in {"none", "UP", "FAIL"} /\ format \in Formats
    BY <2>2
  <2> HIDE DEF format, bearer, pdh, addr
  <2> QED
    BY <1>1, <2>1, <2>3, <2>4 DEF TypeOK, StateFiles
<1>5. sawLte' \in BOOLEAN /\ waiting' = FALSE /\ UNCHANGED <<run, stage, own, polls, reqs, stop,
                                                             rc, modem, linkMtu, untuned>>
  BY DEF Conclude
<1>6. tries' \in 0 .. MaxTries - 1
  BY VendorInitAssumption
<1> QED
  BY <1>1, <1>2, <1>3, <1>4, <1>5, <1>6 DEF TypeOK, Points

\* So has what main() writes between transactions.
LEMMA MainTypes ==
  ASSUME BringUpInv, Place',
         \/ EndStage \/ FailStage \/ Interrupted \/ BeginStage \/ NoService
         \/ FoundService \/ PostTune \/ Ready \/ HoldBearer \/ Exit
  PROVE  TypeOK'
<1>0. TypeOK /\ Place
  BY DEF BringUpInv
<1>1. CASE EndStage
  <2>1. reqs' \in Seq(Messages) /\ net' \in Seq(Packets) /\ own' = FALSE
    BY <1>0, <1>1 DEF EndStage, CloseOwn, TypeOK
  <2>2. stage' \in 1 .. Len(Stages) + 1
    BY <1>0, <1>1 DEF EndStage, Place, Stages
  <2> QED
    BY <1>0, <1>1, <2>1, <2>2 DEF EndStage, TypeOK, Points
<1>2. CASE FailStage
  <2>1. reqs' \in Seq(Messages) /\ net' \in Seq(Packets) /\ own' = FALSE
    BY <1>0, <1>2 DEF FailStage, CloseOwn, TypeOK
  <2>2. files' \in StateFiles
    BY <1>0, <1>2 DEF FailStage, TypeOK, StateFiles
  <2> QED
    BY <1>0, <1>2, <2>1, <2>2 DEF FailStage, TypeOK, Points
<1>3. CASE Interrupted
  BY <1>0, <1>3 DEF Interrupted, TypeOK, StateFiles, Points
<1>4. CASE BeginStage
  <2>1. stage \in 1 .. 8
    BY <1>0, <1>4 DEF BeginStage, Place, Stages
  <2>2. First(StageName) \in Messages \cup {"done", "tune"}
    BY <2>1, FirstTable
  <2> QED
    BY <1>0, <1>4, <2>2 DEF BeginStage, TypeOK, Points
<1>5. CASE NoService
  BY <1>0, <1>5 DEF NoService, TypeOK, Points
<1>6. CASE FoundService
  <2>1. stage \in 1 .. 8
    BY <1>0, <1>6 DEF FoundService, Place
  <2>2. First(StageName) \in Messages \cup {"done", "tune"}
    BY <2>1, FirstTable
  <2>3. KeepsSocket(StageName) \in BOOLEAN
    BY DEF KeepsSocket
  <2> QED
    BY <1>0, <1>6, <2>2, <2>3 DEF FoundService, TypeOK, Points, Contexts
<1>7. CASE PostTune
  <2>1. linkMtu' \in 0 .. MaxRuns
    BY <1>0, <1>7 DEF PostTune, TypeOK, Contexts
  <2>2. untuned' \in BOOLEAN
    BY <1>0, <1>7, Zenon DEF PostTune, TypeOK
  <2>3. /\ at' = "done"
        /\ UNCHANGED <<run, ctx, stage, waiting, own, tries, polls, reqs, net, stop, files, rc,
                       modem, sawLte>>
    BY <1>7 DEF PostTune
  <2> QED
    BY <1>0, <2>1, <2>2, <2>3 DEF TypeOK, Points
<1>8. CASE Ready
  BY <1>0, <1>8 DEF Ready, TypeOK, Points, StateFiles
<1>9. CASE HoldBearer
  BY <1>0, <1>9 DEF HoldBearer, TypeOK, Points
<1>10. CASE Exit
  <2>1. reqs' \in Seq(Messages) /\ net' \in Seq(Packets)
    BY <1>10 DEF Exit
  <2>2. ctx' \in Contexts
    BY <1>0, <1>10 DEF Exit, TypeOK, Contexts
  <2>3. modem' \in [bearer : Bearers, format : Formats]
    BY <1>0, <1>10 DEF Exit, TypeOK, Bearers
  <2> QED
    BY <1>0, <1>10, <2>1, <2>2, <2>3 DEF Exit, TypeOK, Points
<1> QED
  BY <1>1, <1>2, <1>3, <1>4, <1>5, <1>6, <1>7, <1>8, <1>9, <1>10

\* Any step keeps TypeOK; what an answer does to ctx.muxes is MuxInv's part.
LEMMA TypeStep ==
  ASSUME BringUpInv, Next, Place', MuxInv'
  PROVE  TypeOK'
<1>0. TypeOK /\ Place /\ (waiting => at \in Messages)
  BY DEF BringUpInv, SocketInv
<1>1. CASE Send
  <2>1. at \in Messages /\ reqs' \in Seq(Messages)
    BY <1>0, <1>1 DEF Send, TypeOK
  <2>2. polls' \in 0 .. MaxPolls
    BY <1>0, <1>1, VendorInitAssumption DEF Send, TypeOK, PollsMade
  <2>3. tries' \in 0 .. MaxTries - 1
    BY <1>1, VendorInitAssumption DEF Send
  <2> QED
    BY <1>0, <1>1, <2>1, <2>2, <2>3 DEF Send, TypeOK
<1>2. CASE PollDeadline
  <2>1. ctx' \in Contexts
    BY <1>0, <1>2 DEF PollDeadline, WithoutLte, TypeOK, Contexts
  <2> QED
    BY <1>0, <1>2, <2>1 DEF PollDeadline, TypeOK, Points
<1>3. CASE SkipPacket
  <2>1. net' \in Seq(Packets)
    BY <1>0, <1>3, TakeFirst DEF SkipPacket, TypeOK
  <2>2. tries' \in 0 .. MaxTries - 1
    BY <1>0, <1>3, VendorInitAssumption DEF SkipPacket, TypeOK
  <2> QED
    BY <1>0, <1>3, <2>1, <2>2 DEF SkipPacket, TypeOK
<1>4. CASE ReceiveAnswer
  <2>1. net \in Seq(Packets) /\ net # <<>> /\ net' = Tail(net) /\ Head(net).msg = MsgId(at)
    BY <1>0, <1>4 DEF ReceiveAnswer, TypeOK
  <2>2. net' \in Seq(Packets) /\ 1 \in DOMAIN net /\ Head(net) = net[1]
    BY <2>1, TakeFirst
  <2>3. at = "SET_FORMAT" /\ Head(net).res = "ok" => Head(net).val = modem.format
    BY <2>1, <2>2 DEF BringUpInv, FormatInv, MsgId
  <2>4. modem.format \in Formats
    BY <1>0 DEF TypeOK
  <2> QED
    BY <1>4, <2>2, <2>3, <2>4, ConcludeTypes DEF ReceiveAnswer
<1>5. CASE Timeout
  <2>1. net' \in Seq(Packets)
    BY <1>0, <1>5 DEF Timeout, TypeOK
  <2> QED
    BY <1>5, <2>1, ConcludeTypes DEF Timeout, Silence
<1>6. CASE OutOfTries
  <2>1. net' \in Seq(Packets)
    BY <1>0, <1>6, TakeFirst DEF OutOfTries, TypeOK
  <2> QED
    BY <1>6, <2>1, ConcludeTypes DEF OutOfTries, Silence
<1>7. CASE ModemAnswers
  <2>1. reqs \in Seq(Messages) /\ reqs # <<>> /\ reqs' = Tail(reqs)
    BY <1>0, <1>7 DEF ModemAnswers, TypeOK
  <2>2. reqs' \in Seq(Messages) /\ Head(reqs) \in Messages
    BY <2>1, TakeFirst
  <2>3. PICK a \in AnswersTo(Head(reqs)) : net' = Append(net, a) /\ modem' = Effect(Head(reqs), a)
    BY <1>7 DEF ModemAnswers
  <2>4. a \in Packets /\ (Head(reqs) = "SET_FORMAT" => a.val \in {"QMAPv3", "QMAPv1"})
    BY <1>0, <2>2, AnswersArePackets
  <2>5. net' \in Seq(Packets)
    BY <1>0, <2>3, <2>4 DEF TypeOK
  <2>6. modem' \in [bearer : Bearers, format : Formats]
    <3> DEFINE format == IF Head(reqs) = "SET_FORMAT" /\ a.res = "ok" THEN a.val ELSE modem.format
               bearer == IF Head(reqs) = "START" /\ a.res = "ok" THEN run ELSE modem.bearer
    <3>1. modem' = [modem EXCEPT !.format = format, !.bearer = bearer]
      BY <2>3 DEF Effect
    <3>2. format \in Formats
      BY <1>0, <2>4 DEF TypeOK, Formats
    <3>3. bearer \in Bearers
      BY <1>0 DEF TypeOK, Bearers
    <3> HIDE DEF format, bearer
    <3> QED
      BY <1>0, <3>1, <3>2, <3>3 DEF TypeOK
  <2> QED
    BY <1>0, <1>7, <2>2, <2>5, <2>6 DEF ModemAnswers, TypeOK
<1>8. CASE ModemIgnores
  <2>1. reqs' \in Seq(Messages)
    BY <1>0, <1>8, TakeFirst DEF ModemIgnores, TypeOK
  <2> QED
    BY <1>0, <1>8, <2>1 DEF ModemIgnores, TypeOK
<1>9. CASE ModemIndicates
  <2>0. Indication \in Packets
    BY DEF Indication, Packets
  <2>1. net' \in Seq(Packets)
    BY <1>0, <1>9, <2>0 DEF ModemIndicates, TypeOK
  <2> QED
    BY <1>0, <1>9, <2>1 DEF ModemIndicates, TypeOK
<1>10. CASE BearerDrops
  <2>1. modem' \in [bearer : Bearers, format : Formats]
    BY <1>0, <1>10 DEF BearerDrops, TypeOK, Bearers
  <2> QED
    BY <1>0, <1>10, <2>1 DEF BearerDrops, TypeOK
<1>11. CASE Signal
  BY <1>0, <1>11 DEF Signal, TypeOK, Points
<1>12. CASE Restart
  <2>1. ctx' \in Contexts
    BY <1>12, VendorInitAssumption DEF Restart, NewCtx, Contexts, None
  <2>2. files' \in StateFiles
    BY <1>0, <1>12 DEF Restart, TypeOK, StateFiles
  <2>3. reqs' \in Seq(Messages) /\ net' \in Seq(Packets)
    BY <1>12 DEF Restart
  <2>4. run' \in 1 .. MaxRuns /\ tries' \in 0 .. MaxTries - 1 /\ polls' \in 0 .. MaxPolls
        /\ stage' \in 1 .. Len(Stages) + 1
    BY <1>0, <1>12, VendorInitAssumption DEF Restart, TypeOK, Stages
  <2> QED
    BY <1>0, <1>12, <2>1, <2>2, <2>3, <2>4 DEF Restart, TypeOK, Points
<1> QED
  BY <1>1, <1>2, <1>3, <1>4, <1>5, <1>6, <1>7, <1>8, <1>9, <1>10, <1>11, <1>12, MainTypes
  DEF Next, Program, Modem

----------------------------------------------------------------------------
(* LteInv and MuxInv: what nas_rat and bind_mux leave.                     *)

\* The end of a transaction keeps what is known of LTE and the muxes.
LEMMA ConcludeLteMux ==
  ASSUME BringUpInv, NEW a, waiting, Conclude(a)
  PROVE  LteInv' /\ MuxInv'
<1>1. at \in Messages /\ TypeOK /\ Place /\ LteInv /\ MuxInv
  BY DEF BringUpInv, SocketInv
<1>2. /\ ctx'.dry = ctx.dry /\ ctx'.simple = ctx.simple
      /\ ctx'.muxes = IF at = "BIND" /\ a.res = "ok" THEN ctx.muxes + 1 ELSE ctx.muxes
      /\ UNCHANGED stage /\ at' = After(at, a) /\ (sawLte' <=> sawLte \/ (at \in Polls /\ OnLte(a)))
  BY <1>1 DEF Conclude, CtxAfter, TypeOK, Contexts, OnLte
<1>3. LteInv'
  BY <1>1, <1>2, AfterTable, WhereMessages DEF LteInv, Place, TypeOK, StartMessages
<1>4. MuxInv'
  BY <1>1, <1>2, AfterTable, WhereMessages, VendorInitAssumption DEF MuxInv, Place, MoreMuxes,
      StartMessages
<1> QED
  BY <1>3, <1>4

\* So does every step.
LEMMA LteMuxStep ==
  ASSUME BringUpInv, Next
  PROVE  LteInv' /\ MuxInv'
<1>0. TypeOK /\ Place /\ LteInv /\ MuxInv
  BY DEF BringUpInv
<1>1. CASE EndStage
  BY <1>0, <1>1 DEF EndStage, TypeOK, Place, LteInv, MuxInv
<1>2. CASE FailStage \/ Interrupted \/ Ready \/ HoldBearer \/ Send \/ SkipPacket \/ Modem \/ Signal
  BY <1>0, <1>2 DEF FailStage, Interrupted, Ready, HoldBearer, Send, SkipPacket, Modem,
      ModemAnswers,
     ModemIgnores, ModemIndicates, BearerDrops, Signal, LteInv, MuxInv
<1>3. CASE BeginStage
  <2>1. stage \in 1 .. 8 /\ at = "next" /\ UNCHANGED <<stage, ctx, sawLte>>
    BY <1>0, <1>3 DEF BeginStage, Place, Stages
  <2>2. \/ ctx.dry /\ at' = "done"
        \/ ~ctx.dry /\ Looking /\ at' = "lookup"
        \/ ~ctx.dry /\ ~Looking /\ at' = First(StageName)
    BY <1>3 DEF BeginStage
  <2> QED
    BY <1>0, <2>1, <2>2, FirstTable DEF LteInv, MuxInv
<1>4. CASE NoService
  <2>1. stage \in 1 .. 8 /\ at = "lookup" /\ UNCHANGED <<stage, ctx, sawLte>>
    BY <1>0, <1>4 DEF NoService, Place
  <2>2. at' = "failed" \/ (at' = "done" /\ stage = 5)
    BY <1>4, <2>1, FirstTable DEF NoService
  <2> QED
    BY <1>0, <2>1, <2>2 DEF LteInv, MuxInv
<1>5. CASE FoundService
  <2>1. stage \in 1 .. 6 /\ at = "lookup" /\ at' = First(StageName) /\ UNCHANGED <<stage, sawLte>>
    BY <1>0, <1>5 DEF FoundService, Place
  <2>2. ctx'.dry = ctx.dry /\ ctx'.simple = ctx.simple /\ ctx'.muxes = ctx.muxes
    BY <1>0, <1>5 DEF FoundService, TypeOK, Contexts
  <2> QED
    BY <1>0, <2>1, <2>2, FirstTable DEF LteInv, MuxInv
<1>6. CASE PostTune
  BY <1>0, <1>6 DEF PostTune, LteInv, MuxInv, Place
<1>7. CASE Exit
  <2>1. ctx'.dry = ctx.dry /\ ctx'.simple = ctx.simple /\ ctx'.muxes = ctx.muxes
    BY <1>0, <1>7 DEF Exit, TypeOK, Contexts
  <2> QED
    BY <1>0, <1>7, <2>1 DEF Exit, LteInv, MuxInv
<1>8. CASE PollDeadline
  <2>1. ctx'.dry = ctx.dry /\ ctx'.simple /\ ctx'.muxes = ctx.muxes
    BY <1>0, <1>8 DEF PollDeadline, WithoutLte, TypeOK, Contexts
  <2> QED
    BY <1>0, <1>8, <2>1 DEF PollDeadline, LteInv, MuxInv
<1>9. CASE Restart
  BY <1>9, VendorInitAssumption DEF Restart, NewCtx, LteInv, MuxInv
<1>10. CASE ReceiveAnswer \/ Timeout \/ OutOfTries
  BY <1>10, ConcludeLteMux DEF ReceiveAnswer, Timeout, OutOfTries
<1> QED
  BY <1>1, <1>2, <1>3, <1>4, <1>5, <1>6, <1>7, <1>8, <1>9, <1>10 DEF Next, Program

----------------------------------------------------------------------------
(* FormatInv: the format wda_set recorded is the one the modem uses.       *)

\* Only a SET_FORMAT carries its message id.
LEMMA FormatId == \A m \in Messages : MsgId(m) = "SET_FORMAT" <=> m = "SET_FORMAT"
BY DEF MsgId, Messages, Polls

\* A packet taken, or none: nothing new appears on the socket.
FewerPackets(k) ==
  /\ net' \in Seq(Packets)
  /\ \A i \in DOMAIN net' : i + k \in DOMAIN net /\ net'[i] = net[i + k]

\* Outside wda_set's transaction there is no SET_FORMAT under way, and a step
\* that adds none keeps it so.
LEMMA FormatQuiet ==
  ASSUME FormatInv, ~FormatOpen, NEW k \in {0, 1}, FewerPackets(k),
         \A i \in DOMAIN reqs' : i \in DOMAIN reqs /\ reqs'[i] = reqs[i],
         UNCHANGED modem,
         ~ctx'.dry /\ (stage' > 4 \/ (stage' = 4 /\ at' = "done")) =>
            files'.format = modem.format
  PROVE  FormatInv'
<1>1. \A i \in DOMAIN reqs' : reqs'[i] # "SET_FORMAT"
  BY DEF FormatInv
<1>2. \A i \in DOMAIN net' : net'[i].msg # "SET_FORMAT"
  BY DEF FormatInv, FewerPackets
<1> QED
  BY <1>1, <1>2 DEF FormatInv

\* The end of a transaction keeps the format in step with the modem's.
LEMMA ConcludeFormat ==
  ASSUME BringUpInv, NEW a, waiting, Conclude(a), NEW k \in {0, 1}, FewerPackets(k),
         \/ a = Silence
         \/ k = 1 /\ net # <<>> /\ a = net[1] /\ a.msg = MsgId(at)
  PROVE  FormatInv'
<1>1. at \in Messages /\ TypeOK /\ Place /\ FormatInv
  BY DEF BringUpInv, SocketInv
<1>2. /\ ctx'.dry = ctx.dry /\ at' = After(at, a) /\ UNCHANGED <<stage, own, reqs, modem>>
      /\ files'.format = IF at = "SET_FORMAT" /\ a.res = "ok" THEN a.val ELSE files.format
  BY <1>1 DEF Conclude, CtxAfter, FilesAfter, TypeOK, Contexts, StateFiles
<1>3. CASE at # "SET_FORMAT"
  <2>1. ~FormatOpen
    BY <1>1, <1>3, WhereMessages DEF FormatOpen
  <2>2. stage = 4 => FALSE
    BY <1>1, <1>3 DEF Place, Messages, Polls, StartMessages
  <2> QED
    BY <1>1, <1>2, <1>3, <2>1, <2>2, FormatQuiet DEF FormatInv
<1>4. CASE at = "SET_FORMAT" /\ Fails(at, a)
  <2>1. at' = "failed" /\ stage = 4 /\ own
    BY <1>1, <1>2, <1>4 DEF After, Place
  <2>2. FormatOpen'
    BY <1>2, <2>1 DEF FormatOpen
  <2>3. \A i \in DOMAIN net' : i \in Int /\ i + k \in DOMAIN net /\ net'[i] = net[i + k]
    BY DEF FewerPackets
  <2>4. \A i \in DOMAIN net' : net'[i].msg = "SET_FORMAT" =>
          /\ net'[i].res = "ok" => net'[i].val = modem'.format
          /\ \A j \in DOMAIN reqs' : reqs'[j] # "SET_FORMAT"
          /\ \A j \in DOMAIN net' : net'[j].msg = "SET_FORMAT" => i = j
    BY <1>1, <1>2, <2>3 DEF FormatInv
  <2>5. \A i, j \in DOMAIN reqs' : reqs'[i] = "SET_FORMAT" /\ reqs'[j] = "SET_FORMAT" => i = j
    BY <1>1, <1>2 DEF FormatInv
  <2> QED
    BY <1>2, <2>1, <2>2, <2>4, <2>5 DEF FormatInv
<1>5. CASE at = "SET_FORMAT" /\ ~Fails(at, a)
  <2>0. a.res # "none" /\ a.res # "err" /\ a # Silence
    BY <1>5 DEF Fails, SilenceFatal, ErrorFatal, Silence
  <2>1. k = 1 /\ 1 \in DOMAIN net /\ net[1] = a /\ a.msg = MsgId(at)
    BY <1>1, <2>0 DEF TypeOK
  <2>2. net[1].msg = "SET_FORMAT" /\ a.res = "ok"
    <3>1. net[1] \in Packets
      BY <1>1, <2>1 DEF TypeOK
    <3>2. a.res \in {"ok", "err", "none"}
      BY <2>1, <3>1 DEF Packets
    <3> QED
      BY <1>1, <1>5, <2>0, <2>1, <3>2, FormatId
  <2>3. \A i \in DOMAIN reqs' : reqs'[i] # "SET_FORMAT"
    BY <1>1, <1>2, <2>1, <2>2 DEF FormatInv
  <2>4. \A i \in DOMAIN net' : net'[i].msg # "SET_FORMAT"
    <3>1. \A i \in DOMAIN net' : i + 1 \in DOMAIN net /\ net'[i] = net[i + 1]
      BY <2>1 DEF FewerPackets
    <3>2. \A i \in DOMAIN net' : i \in Nat \ {0}
      BY DEF FewerPackets
    <3>3. ASSUME NEW i \in DOMAIN net', net'[i].msg = "SET_FORMAT" PROVE i + 1 = 1
      BY <1>1, <2>1, <2>2, <3>1, <3>3 DEF FormatInv
    <3> QED
      BY <3>2, <3>3
  <2>5. files'.format = modem'.format
    BY <1>1, <1>2, <1>5, <2>1, <2>2 DEF FormatInv
  <2> QED
    BY <2>3, <2>4, <2>5 DEF FormatInv
<1> QED
  BY <1>3, <1>4, <1>5

\* A step that leaves the socket alone: no packet is taken.
LEMMA SameSocket ==
  ASSUME TypeOK, UNCHANGED <<reqs, net>>
  PROVE  /\ FewerPackets(0)
         /\ \A i \in DOMAIN reqs' : i \in DOMAIN reqs /\ reqs'[i] = reqs[i]
<1>1. net \in Seq(Packets) /\ \A i \in DOMAIN net : i + 0 = i
  BY DEF TypeOK
<1> QED
  BY <1>1 DEF FewerPackets

\* A socket that is closed has nothing under way.
LEMMA ClosedSocket ==
  ASSUME reqs' = <<>>, net' = <<>>,
         ~ctx'.dry /\ (stage' > 4 \/ (stage' = 4 /\ at' = "done")) =>
            files'.format = modem'.format
  PROVE  FormatInv'
BY DEF FormatInv

\* So does main() between transactions.
LEMMA MainFormat ==
  ASSUME BringUpInv,
         \/ EndStage \/ FailStage \/ Interrupted \/ BeginStage \/ NoService
         \/ FoundService \/ PostTune \/ Ready \/ HoldBearer \/ Exit
  PROVE  FormatInv'
<1>0. TypeOK /\ Place /\ FormatInv
  BY DEF BringUpInv
<1>1. CASE EndStage
  <2>1. ~FormatOpen /\ UNCHANGED <<modem, files,
                                   ctx>> /\ stage' = stage + 1 /\ at = "done" /\ at' = "next"
    BY <1>1 DEF EndStage, FormatOpen
  <2>2. ~ctx'.dry /\ (stage' > 4 \/ (stage' = 4 /\ at' = "done")) => files'.format = modem'.format
    BY <1>0, <2>1 DEF FormatInv, TypeOK
  <2>3. CASE own
    BY <1>1, <2>2, <2>3, ClosedSocket DEF EndStage, CloseOwn
  <2>4. CASE ~own
    BY <1>0, <1>1, <2>1, <2>2, <2>4, SameSocket, FormatQuiet DEF EndStage, CloseOwn
  <2> QED
    BY <2>3, <2>4
<1>2. CASE FailStage
  <2>1. UNCHANGED <<modem, ctx,
                    stage>> /\ files'.format = files.format /\ at = "failed" /\ at' = "exit"
    BY <1>0, <1>2 DEF FailStage, TypeOK, StateFiles
  <2>2. ~ctx'.dry /\ (stage' > 4 \/ (stage' = 4 /\ at' = "done")) => files'.format = modem'.format
    BY <1>0, <2>1 DEF FormatInv, TypeOK
  <2>3. CASE own
    BY <1>2, <2>2, <2>3, ClosedSocket DEF FailStage, CloseOwn
  <2>4. CASE ~own
    BY <1>0, <1>2, <2>1, <2>2, <2>4, SameSocket, FormatQuiet DEF FailStage, CloseOwn, FormatOpen
  <2> QED
    BY <2>3, <2>4
<1>3. CASE Interrupted \/ Ready \/ HoldBearer
  <2>1. UNCHANGED <<modem, ctx, stage, reqs, net>> /\ files'.format = files.format /\ ~FormatOpen
        /\ (at' = "done" => FALSE)
    BY <1>0, <1>3 DEF Interrupted, Ready, HoldBearer, TypeOK, StateFiles, FormatOpen
  <2> QED
    BY <1>0, <2>1, SameSocket, FormatQuiet DEF FormatInv
<1>4. CASE BeginStage
  <2>1. UNCHANGED <<modem, ctx, stage, reqs, net, files>> /\ ~FormatOpen
    BY <1>4 DEF BeginStage, FormatOpen
  <2>2. stage \in 1 .. 8 /\ (stage = 4 => ctx.dry \/ at' = "lookup")
    BY <1>0, <1>4, FirstTable DEF BeginStage, Place, Stages
  <2> QED
    BY <1>0, <2>1, <2>2, SameSocket, FormatQuiet DEF FormatInv
<1>5. CASE NoService
  <2>1. UNCHANGED <<modem, ctx, stage, reqs, net, files>> /\ ~FormatOpen
    BY <1>5 DEF NoService, FormatOpen
  <2>2. stage \in 1 .. 8 /\ (stage = 4 => at' = "failed")
    BY <1>0, <1>5, FirstTable DEF NoService, Place
  <2> QED
    BY <1>0, <2>1, <2>2, SameSocket, FormatQuiet DEF FormatInv
<1>6. CASE FoundService
  <2>1. UNCHANGED <<modem, stage, reqs, net, files>> /\ ~FormatOpen /\ ctx'.dry = ctx.dry
    BY <1>0, <1>6 DEF FoundService, FormatOpen, TypeOK, Contexts
  <2>2. stage \in 1 .. 8 /\ (stage = 4 => at' = "SET_FORMAT")
    BY <1>0, <1>6, FirstTable DEF FoundService, Place
  <2> QED
    BY <1>0, <2>1, <2>2, SameSocket, FormatQuiet DEF FormatInv
<1>7. CASE PostTune
  <2>1. UNCHANGED <<modem, ctx, stage, reqs, net, files>> /\ ~FormatOpen /\ stage = 8
    BY <1>0, <1>7 DEF PostTune, FormatOpen, Place
  <2> QED
    BY <1>0, <2>1, SameSocket, FormatQuiet DEF FormatInv
<1>8. CASE Exit
  <2>1. reqs' = <<>> /\ net' = <<>> /\ UNCHANGED <<stage, files>> /\ at' = "exited"
    BY <1>8 DEF Exit
  <2>2. modem'.format = modem.format /\ ctx'.dry = ctx.dry
    BY <1>0, <1>8 DEF Exit, TypeOK, Contexts
  <2> QED
    BY <1>0, <2>1, <2>2, ClosedSocket DEF FormatInv
<1> QED
  BY <1>1, <1>2, <1>3, <1>4, <1>5, <1>6, <1>7, <1>8

\* So does every step.
LEMMA FormatStep ==
  ASSUME BringUpInv, Next
  PROVE  FormatInv'
<1>0. TypeOK /\ Place /\ FormatInv /\ (waiting => at \in Messages)
  BY DEF BringUpInv, SocketInv
<1>1. CASE Send
  <2>1. /\ at \in Messages /\ ~waiting /\ waiting' /\ reqs' = Append(reqs, at)
        /\ UNCHANGED <<stage, at, own, ctx, net, files, modem>>
    BY <1>1 DEF Send
  <2>2. ~FormatOpen
    BY <2>1, WhereMessages DEF FormatOpen
  <2>3. /\ \A i \in DOMAIN reqs : reqs[i] # "SET_FORMAT"
        /\ \A i \in DOMAIN net : net[i].msg # "SET_FORMAT"
    BY <1>0, <2>2 DEF FormatInv
  <2>4. \A i \in DOMAIN reqs' : \/ i \in DOMAIN reqs /\ reqs'[i] = reqs[i]
                                \/ i = Len(reqs) + 1 /\ reqs'[i] = at
    BY <1>0, <2>1, AddLast DEF TypeOK
  <2>5. at = "SET_FORMAT" => FormatOpen'
    BY <1>0, <2>1 DEF FormatOpen, Place
  <2> QED
    BY <1>0, <2>1, <2>3, <2>4, <2>5 DEF FormatInv
<1>2. CASE PollDeadline
  <2>1. UNCHANGED <<modem, stage, reqs, net, files>> /\ ~FormatOpen /\ stage = 2
    BY <1>0, <1>2 DEF PollDeadline, FormatOpen, Place, Polls
  <2> QED
    BY <1>0, <2>1, SameSocket, FormatQuiet DEF FormatInv
<1>3. CASE SkipPacket
  <2>1. net # <<>> /\ net' = Tail(net) /\ UNCHANGED <<stage, at, own, waiting, ctx, reqs, files,
                modem>>
    BY <1>3 DEF SkipPacket
  <2>2. \A i \in DOMAIN net' : i \in Int /\ i + 1 \in DOMAIN net /\ net'[i] = net[i + 1]
    BY <1>0, <2>1 DEF TypeOK
  <2> QED
    BY <1>0, <2>1, <2>2 DEF FormatInv, FormatOpen
<1>4. CASE ReceiveAnswer
  <2>1. net # <<>> /\ net' = Tail(net) /\ Head(net).msg = MsgId(at) /\ net \in Seq(Packets)
    BY <1>0, <1>4 DEF ReceiveAnswer, TypeOK
  <2>2. FewerPackets(1) /\ Head(net) = net[1]
    BY <2>1, TakeFirst DEF FewerPackets
  <2> QED
    BY <1>4, <2>1, <2>2, ConcludeFormat DEF ReceiveAnswer
<1>5. CASE Timeout
  <2>1. FewerPackets(0)
    BY <1>0, <1>5 DEF Timeout, FewerPackets, TypeOK
  <2> QED
    BY <1>5, <2>1, ConcludeFormat DEF Timeout
<1>6. CASE OutOfTries
  <2>1. net # <<>> /\ net' = Tail(net) /\ net \in Seq(Packets)
    BY <1>0, <1>6 DEF OutOfTries, TypeOK
  <2>2. FewerPackets(1)
    BY <2>1, TakeFirst DEF FewerPackets
  <2> QED
    BY <1>6, <2>2, ConcludeFormat DEF OutOfTries
<1>7. CASE ModemAnswers
  <2>1. reqs \in Seq(Messages) /\ reqs # <<>> /\ reqs' = Tail(reqs) /\ net \in Seq(Packets)
        /\ UNCHANGED <<stage, at, own, waiting, ctx, files>>
    BY <1>0, <1>7 DEF ModemAnswers, TypeOK
  <2>2. /\ Head(reqs) = reqs[1] /\ 1 \in DOMAIN reqs /\ Head(reqs) \in Messages
        /\ \A i \in DOMAIN reqs' : i + 1 \in DOMAIN reqs /\ reqs'[i] = reqs[i + 1]
        /\ \A i \in DOMAIN reqs' : i \in Nat \ {0}
    BY <2>1, TakeFirst
  <2>3. PICK a \in AnswersTo(Head(reqs)) : net' = Append(net, a) /\ modem' = Effect(Head(reqs), a)
    BY <1>7 DEF ModemAnswers
  <2>4. a \in Packets /\ (a.msg = "SET_FORMAT" <=> Head(reqs) = "SET_FORMAT")
    BY <1>0, <2>2, AnswersArePackets, FormatId
  <2>5. \A i \in DOMAIN net' : \/ i \in DOMAIN net /\ net'[i] = net[i]
                               \/ i = Len(net) + 1 /\ net'[i] = a
    BY <2>1, <2>3, <2>4, AddLast
  <2>6. modem'.format = IF Head(reqs) = "SET_FORMAT" /\ a.res = "ok" THEN a.val ELSE modem.format
    BY <1>0, <2>3 DEF Effect, TypeOK
  <2>7. CASE Head(reqs) = "SET_FORMAT"
    <3>1. FormatOpen /\ FormatOpen'
      BY <1>0, <2>1, <2>2, <2>7 DEF FormatInv, FormatOpen
    <3>2. \A i \in DOMAIN reqs' : reqs'[i] # "SET_FORMAT"
      <4>1. ASSUME NEW i \in DOMAIN reqs', reqs'[i] = "SET_FORMAT" PROVE i + 1 = 1
        BY <1>0, <2>2, <2>7, <4>1 DEF FormatInv
      <4> QED
        BY <2>2, <4>1
    <3>3. \A i \in DOMAIN net : net[i].msg # "SET_FORMAT"
      BY <1>0, <2>2, <2>7 DEF FormatInv
    <3>4. stage = 4 /\ at # "done"
      BY <3>1 DEF FormatOpen
    <3> QED
      BY <2>1, <2>5, <2>6, <2>7, <3>1, <3>2, <3>3, <3>4 DEF FormatInv
  <2>8. CASE Head(reqs) # "SET_FORMAT"
    <3>1. modem'.format = modem.format /\ a.msg # "SET_FORMAT" /\ (FormatOpen' <=> FormatOpen)
      BY <2>1, <2>4, <2>6, <2>8 DEF FormatOpen
    <3>2. \A i \in DOMAIN net' : net'[i].msg = "SET_FORMAT" => i \in DOMAIN net /\ net'[i] = net[i]
      BY <2>5, <3>1
    <3>3. \A i \in DOMAIN reqs' : reqs'[i] = "SET_FORMAT" =>
            FormatOpen' /\ \A j \in DOMAIN reqs' : reqs'[j] = "SET_FORMAT" => i = j
      BY <1>0, <2>2, <3>1 DEF FormatInv
    <3> QED
      BY <1>0, <2>1, <2>2, <3>1, <3>2, <3>3 DEF FormatInv
  <2> QED
    BY <2>7, <2>8
<1>8. CASE ModemIgnores
  <2>1. reqs # <<>> /\ reqs' = Tail(reqs) /\ UNCHANGED <<stage, at, own, waiting, ctx, files,
                 modem, net>>
    BY <1>8 DEF ModemIgnores
  <2>2. \A i \in DOMAIN reqs' : i \in Int /\ i + 1 \in DOMAIN reqs /\ reqs'[i] = reqs[i + 1]
    BY <1>0, <2>1 DEF TypeOK
  <2> QED
    BY <1>0, <2>1, <2>2 DEF FormatInv, FormatOpen
<1>9. CASE ModemIndicates
  <2>1. net' = Append(net, Indication) /\ UNCHANGED <<stage, at, own, waiting, ctx, reqs, files,
                                                      modem>>
    BY <1>9 DEF ModemIndicates
  <2>2. Indication \in Packets /\ Indication.msg # "SET_FORMAT"
    BY DEF Indication, Packets
  <2>3. \A i \in DOMAIN net' : net'[i].msg = "SET_FORMAT" => i \in DOMAIN net /\ net'[i] = net[i]
    BY <1>0, <2>1, <2>2, AddLast DEF TypeOK
  <2> QED
    BY <1>0, <2>1, <2>3 DEF FormatInv, FormatOpen
<1>10. CASE BearerDrops
  <2>1. modem'.format = modem.format /\ UNCHANGED <<stage, at, own, waiting, ctx, reqs, net, files>>
    BY <1>0, <1>10 DEF BearerDrops, TypeOK
  <2> QED
    BY <1>0, <2>1 DEF FormatInv, FormatOpen
<1>11. CASE Signal
  BY <1>0, <1>11 DEF Signal, FormatInv, FormatOpen
<1>12. CASE Restart
  BY <1>12, ClosedSocket DEF Restart
<1> QED
  BY <1>1, <1>2, <1>3, <1>4, <1>5, <1>6, <1>7, <1>8, <1>9, <1>10, <1>11, <1>12, MainFormat
  DEF Next, Program, Modem

----------------------------------------------------------------------------
(* BearerInv and SettingsInv: the bearer of this run and what is known of  *)
(* it.                                                                     *)

\* The part of wds_start and of the stages after it in which the bearer is up.
LEMMA ConcludeBearer ==
  ASSUME BringUpInv, NEW a, waiting, Conclude(a), NEW k \in {0, 1}, FewerPackets(k),
         \/ a = Silence
         \/ k = 1 /\ net # <<>> /\ a = net[1] /\ a.msg = MsgId(at)
  PROVE  BearerInv' /\ SettingsInv'
<1>1. at \in Messages /\ TypeOK /\ Place /\ BearerInv /\ SettingsInv
  BY DEF BringUpInv, SocketInv
<1>2. /\ ctx'.dry = ctx.dry /\ at' = After(at, a) /\ UNCHANGED <<run, stage, modem, linkMtu,
                                                                 untuned>>
      /\ files'.bearer = IF at # "START" THEN files.bearer ELSE IF a.res = "ok" THEN "UP"
                         ELSE IF a.res = "err" THEN "FAIL" ELSE files.bearer
  BY <1>1 DEF Conclude, CtxAfter, FilesAfter, TypeOK, Contexts, StateFiles
<1>3. \A i \in DOMAIN net' : net'[i].msg = "START" /\ net'[i].res = "ok" => modem'.bearer \in {run', Dropped}
  BY <1>1, <1>2 DEF BearerInv, FewerPackets
<1>4. at = "START" /\ ~Fails(at, a) => modem.bearer \in {run, Dropped} /\ files'.bearer = "UP"
  <2> SUFFICES ASSUME at = "START", ~Fails(at, a)
               PROVE  modem.bearer \in {run, Dropped} /\ files'.bearer = "UP"
    OBVIOUS
  <2>1. a.res # "none" /\ a.res # "err" /\ a # Silence
    BY DEF Fails, SilenceFatal, ErrorFatal, Silence
  <2>2. 1 \in DOMAIN net /\ net[1] = a /\ a.msg = "START" /\ a \in Packets
    BY <1>1, <2>1 DEF TypeOK, MsgId
  <2>3. a.res = "ok"
    BY <2>1, <2>2 DEF Packets
  <2> QED
    BY <1>1, <1>2, <2>2, <2>3 DEF BearerInv
<1>5. BearerInv'
  <2>1. at' # "exited"
    BY <1>1, <1>2, AfterTable, WhereMessages DEF Messages, Polls
  <2>2. ASSUME stage = 7, at' \in {"SETTINGS", "done"}
        PROVE  (at = "START" /\ ~Fails(at, a)) \/ at = "SETTINGS"
    BY <1>1, <1>2, <2>2, AfterTable, WhereMessages DEF Place, Polls, StartMessages
  <2>3. stage > 7 => FALSE
    BY <1>1 DEF Place, Messages, Polls, StartMessages
  <2> QED
    BY <1>1, <1>2, <1>3, <1>4, <2>1, <2>2, <2>3 DEF BearerInv, Place
<1>6. SettingsInv'
  <2>1. /\ ctx'.pdh = IF at = "START" /\ a.res = "ok" /\ a.val = "handle" THEN run ELSE ctx.pdh
        /\ ctx'.addr = IF at = "SETTINGS" /\ a.val \in {"all", "no mtu"} THEN run ELSE ctx.addr
        /\ ctx'.mtu = IF at = "SETTINGS" /\ a.val = "all" THEN run ELSE ctx.mtu
    BY <1>1 DEF Conclude, CtxAfter, TypeOK, Contexts
  <2>2. /\ files'.pdh = IF at = "START" /\ a.res = "ok" /\ a.val = "handle" THEN run ELSE files.pdh
        /\ files'.addr = IF at = "SETTINGS" /\ a.val \in {"all", "no mtu"} THEN run ELSE files.addr
    BY <1>1 DEF Conclude, FilesAfter, TypeOK, StateFiles
  <2>3. stage < 8
    BY <1>1 DEF Place, Messages, Polls, StartMessages
  <2>4. ctx'.pdh \in {None, run} /\ (ctx'.pdh = run => files'.pdh = run)
    BY <1>1, <2>1, <2>2 DEF SettingsInv
  <2>5. ctx'.addr \in {None, run} /\ (ctx'.addr = run => files'.addr = run)
    BY <1>1, <2>1, <2>2 DEF SettingsInv
  <2>6. ctx'.mtu \in {None, run}
    BY <1>1, <2>1 DEF SettingsInv
  <2>7. ~(stage' > 8) /\ ~(stage' = 8)
    BY <1>1, <1>2, <2>3 DEF TypeOK
  <2> QED
    BY <1>2, <2>4, <2>5, <2>6, <2>7 DEF SettingsInv
<1> QED
  BY <1>5, <1>6

\* Every step keeps what is known of the bearer and its settings.
LEMMA BearerStep ==
  ASSUME BringUpInv, Next
  PROVE  BearerInv' /\ SettingsInv'
<1>0. TypeOK /\ Place /\ BearerInv /\ SettingsInv /\ (waiting => at \in Messages)
  BY DEF BringUpInv, SocketInv
<1>1. CASE EndStage \/ FailStage
  <2>1. /\ UNCHANGED <<run, ctx, modem, linkMtu, untuned>> /\ at' \in {"next",
                       "exit"} /\ at # "exited"
        /\ files'.bearer = files.bearer /\ files'.pdh = files.pdh /\ files'.addr = files.addr
        /\ \/ at = "done" /\ stage' = stage + 1
           \/ stage' = stage
    BY <1>0, <1>1 DEF EndStage, FailStage, TypeOK, StateFiles
  <2>2. \A i \in DOMAIN net' : i \in DOMAIN net /\ net'[i] = net[i]
    BY <1>1 DEF EndStage, FailStage, CloseOwn
  <2> QED
    BY <1>0, <2>1, <2>2 DEF BearerInv, SettingsInv, Place
<1>2. CASE Interrupted \/ Ready \/ HoldBearer \/ Send \/ Signal \/ ModemIgnores
  <2>1. /\ UNCHANGED <<run, ctx, modem, linkMtu, untuned, stage, net>>
        /\ files'.bearer = files.bearer /\ files'.pdh = files.pdh /\ files'.addr = files.addr
        /\ at' \in {"SETTINGS", "done"} => at' = at
        /\ at # "exited" \/ at' = "exited"
    BY <1>0, <1>2 DEF Interrupted, Ready, HoldBearer, Send, Signal, ModemIgnores, TypeOK, StateFiles
  <2> QED
    BY <1>0, <2>1 DEF BearerInv, SettingsInv
<1>3. CASE BeginStage
  <2>1. /\ stage \in 1 .. 8 /\ at = "next"
        /\ UNCHANGED <<run, ctx, modem, linkMtu, untuned, stage, net, files>>
    BY <1>0, <1>3 DEF BeginStage, Place, Stages
  <2>2. ~ctx.dry => (stage = 7 => at' \in {"START", "SET_CLIENT_MODE"}) /\ (stage = 8 => at' = "tune")
    BY <1>3, <2>1, FirstTable DEF BeginStage
  <2> QED
    BY <1>0, <2>1, <2>2 DEF BearerInv, SettingsInv
<1>4. CASE NoService \/ FoundService
  <2>1. /\ stage \in 1 .. 6 /\ at = "lookup" /\ UNCHANGED <<run, modem, linkMtu, untuned, stage,
                                                            net, files>>
        /\ ctx'.dry = ctx.dry /\ ctx'.pdh = ctx.pdh /\ ctx'.addr = ctx.addr /\ ctx'.mtu = ctx.mtu
    BY <1>0, <1>4 DEF NoService, FoundService, Place, TypeOK, Contexts
  <2> QED
    BY <1>0, <2>1 DEF BearerInv, SettingsInv
<1>5. CASE PostTune
  <2>1. /\ at = "tune" /\ stage = 8 /\ at' = "done" /\ UNCHANGED <<run, ctx, modem, stage, net,
                                                                   files>>
        /\ ctx.mtu # None => linkMtu' = ctx.mtu \/ untuned'
    BY <1>0, <1>5 DEF PostTune, Place
  <2>2. run # None
    BY <1>0 DEF TypeOK, None
  <2> QED
    BY <1>0, <2>1, <2>2 DEF BearerInv, SettingsInv
<1>6. CASE Exit
  <2>1. /\ net' = <<>> /\ at' = "exited" /\ UNCHANGED <<run, linkMtu, untuned, stage, files>>
        /\ ctx'.dry = ctx.dry /\ ctx'.pdh = ctx.pdh /\ ctx'.addr = ctx.addr /\ ctx'.mtu = ctx.mtu
    BY <1>0, <1>6 DEF Exit, TypeOK, Contexts
  <2> QED
    BY <1>0, <2>1 DEF BearerInv, SettingsInv
<1>7. CASE PollDeadline
  <2>1. /\ stage = 2 /\ UNCHANGED <<run, modem, linkMtu, untuned, stage, net, files>>
        /\ ctx'.dry = ctx.dry /\ ctx'.pdh = ctx.pdh /\ ctx'.addr = ctx.addr /\ ctx'.mtu = ctx.mtu
    BY <1>0, <1>7 DEF PollDeadline, WithoutLte, Place, Polls, TypeOK, Contexts
  <2> QED
    BY <1>0, <2>1 DEF BearerInv, SettingsInv
<1>8. CASE SkipPacket
  <2>1. net # <<>> /\ net' = Tail(net) /\ UNCHANGED <<run, ctx, modem, linkMtu, untuned, stage,
                at, files>>
    BY <1>8 DEF SkipPacket
  <2>2. \A i \in DOMAIN net' : i + 1 \in DOMAIN net /\ net'[i] = net[i + 1]
    BY <1>0, <2>1, TakeFirst DEF TypeOK
  <2> QED
    BY <1>0, <2>1, <2>2 DEF BearerInv, SettingsInv
<1>9. CASE ReceiveAnswer
  <2>1. net # <<>> /\ net' = Tail(net) /\ Head(net).msg = MsgId(at) /\ net \in Seq(Packets)
    BY <1>0, <1>9 DEF ReceiveAnswer, TypeOK
  <2>2. FewerPackets(1) /\ Head(net) = net[1]
    BY <2>1, TakeFirst DEF FewerPackets
  <2> QED
    BY <1>9, <2>1, <2>2, ConcludeBearer DEF ReceiveAnswer
<1>10. CASE Timeout
  <2>1. FewerPackets(0)
    BY <1>0, <1>10 DEF Timeout, FewerPackets, TypeOK
  <2> QED
    BY <1>10, <2>1, ConcludeBearer DEF Timeout
<1>11. CASE OutOfTries
  <2>1. net # <<>> /\ net' = Tail(net) /\ net \in Seq(Packets)
    BY <1>0, <1>11 DEF OutOfTries, TypeOK
  <2>2. FewerPackets(1)
    BY <2>1, TakeFirst DEF FewerPackets
  <2> QED
    BY <1>11, <2>2, ConcludeBearer DEF OutOfTries
<1>12. CASE ModemAnswers
  <2>1. reqs \in Seq(Messages) /\ reqs # <<>> /\ net \in Seq(Packets)
        /\ UNCHANGED <<run, ctx, linkMtu, untuned, stage, at, files>>
    BY <1>0, <1>12 DEF ModemAnswers, TypeOK
  <2>2. Head(reqs) \in Messages
    BY <2>1, TakeFirst
  <2>3. PICK a \in AnswersTo(Head(reqs)) : net' = Append(net, a) /\ modem' = Effect(Head(reqs), a)
    BY <1>12 DEF ModemAnswers
  <2>4. a \in Packets /\ a.msg = MsgId(Head(reqs)) /\ (a.msg = "START" <=> Head(reqs) = "START")
    BY <1>0, <2>2, AnswersArePackets DEF MsgId, Messages, Polls
  <2>5. \A i \in DOMAIN net' : \/ i \in DOMAIN net /\ net'[i] = net[i]
                               \/ net'[i] = a
    BY <2>1, <2>3, <2>4, AddLast
  <2>6. modem'.bearer = IF Head(reqs) = "START" /\ a.res = "ok" THEN run ELSE modem.bearer
    BY <1>0, <2>3 DEF Effect, TypeOK
  <2>7. BearerInv'
    BY <1>0, <2>1, <2>4, <2>5, <2>6 DEF BearerInv
  <2> QED
    BY <1>0, <2>1, <2>7 DEF SettingsInv
<1>13. CASE ModemIndicates
  <2>1. net' = Append(net, Indication) /\ UNCHANGED <<run, ctx, modem, linkMtu, untuned, stage,
                                                      at, files>>
    BY <1>13 DEF ModemIndicates
  <2>2. Indication \in Packets /\ Indication.msg # "START"
    BY DEF Indication, Packets
  <2>3. \A i \in DOMAIN net' : net'[i].msg = "START" => i \in DOMAIN net /\ net'[i] = net[i]
    BY <1>0, <2>1, <2>2, AddLast DEF TypeOK
  <2> QED
    BY <1>0, <2>1, <2>3 DEF BearerInv, SettingsInv
<1>14. CASE BearerDrops
  <2>1. modem'.bearer = Dropped /\ UNCHANGED <<run, ctx, linkMtu, untuned, stage, at, net, files>>
    BY <1>0, <1>14 DEF BearerDrops, TypeOK
  <2> QED
    BY <1>0, <2>1 DEF BearerInv, SettingsInv
<1>15. CASE Restart
  <2>1. /\ net' = <<>> /\ stage' = 1 /\ run' # None
        /\ ctx'.pdh = None /\ ctx'.addr = None /\ ctx'.mtu = None
    BY <1>0, <1>15 DEF Restart, NewCtx, TypeOK, None
  <2> QED
    BY <2>1 DEF BearerInv, SettingsInv
<1> QED
  BY <1>1, <1>2, <1>3, <1>4, <1>5, <1>6, <1>7, <1>8, <1>9, <1>10, <1>11, <1>12, <1>13, <1>14, <1>15
  DEF Next, Program, Modem

\* The result file and the exit status are written together, by main() alone.
LEMMA ResultStep ==
  ASSUME BringUpInv, Next
  PROVE  ResultInv'
<1>0. TypeOK /\ Place /\ ResultInv /\ (waiting => at \in Messages)
  BY DEF BringUpInv, SocketInv
<1>1. CASE FailStage \/ Interrupted \/ Ready
  <2>1. /\ \/ files'.result = "FAILED" /\ rc' = 1 /\ at' = "exit"
           \/ files'.result = "INTERRUPTED" /\ rc' = 130 /\ at' = "exit"
           \/ /\ files'.result = "READY" /\ rc' = rc /\ at = "next" /\ at' = "check"
              /\ stage = Len(Stages) + 1 /\ stage' = stage
    BY <1>0, <1>1 DEF FailStage, Interrupted, Ready, TypeOK, StateFiles
  <2>2. Len(Stages) + 1 > Len(Stages)
    BY DEF Stages
  <2> QED
    BY <1>0, <2>1, <2>2 DEF ResultInv, ResultFits
<1>2. CASE HoldBearer \/ Exit
  <2>1. /\ UNCHANGED <<files, rc, stage, stop>>
        /\ \/ at = "check" /\ stop /\ at' = "exit"
           \/ at \in {"check", "enter"} /\ at' \in {"enter", "pause"}
           \/ at = "exit" /\ at' = "exited"
    BY <1>2 DEF HoldBearer, Exit, StopSeen
  <2>2. at = "check" => stage > Len(Stages)
    BY <1>0 DEF Place, Stages
  <2> QED
    BY <1>0, <2>1, <2>2 DEF ResultInv, ResultFits
<1>3. CASE Signal
  <2>1. /\ UNCHANGED <<files, rc, stage>> /\ stop'
        /\ \/ at = "pause" /\ at' = "check"
           \/ at' = at
    BY <1>3 DEF Signal
  <2> QED
    BY <1>0, <2>1 DEF ResultInv, ResultFits
<1>4. CASE Modem
  <2>1. UNCHANGED <<files, rc, stage, stop, at>>
    BY <1>4 DEF Modem, ModemAnswers, ModemIgnores, ModemIndicates, BearerDrops
  <2> QED
    BY <1>0, <2>1 DEF ResultInv, ResultFits
<1>5. CASE Restart
  <2>1. files'.result = "STARTING" /\ rc' = 0
    BY <1>0, <1>5 DEF Restart, TypeOK, StateFiles
  <2> QED
    BY <2>1 DEF ResultInv, ResultFits
<1>6. CASE EndStage \/ BeginStage \/ NoService \/ FoundService \/ PostTune
  <2>1. at \in {"done", "next", "lookup", "tune"} /\ UNCHANGED <<files, rc>>
    BY <1>6 DEF EndStage, BeginStage, NoService, FoundService, PostTune
  <2>2. rc' = 0 /\ files'.result \notin {"FAILED", "INTERRUPTED", "READY"}
    BY <1>0, <2>1 DEF ResultInv, ResultFits
  <2> QED
    BY <2>2 DEF ResultInv, ResultFits
<1>7. CASE Send \/ PollDeadline \/ ReceiveAnswer \/ SkipPacket \/ Timeout \/ OutOfTries
  <2>1. at \in Messages /\ rc' = rc /\ files'.result = files.result
    BY <1>0, <1>7
    DEF Send, PollDeadline, ReceiveAnswer, SkipPacket, Timeout, OutOfTries, Conclude,
        FilesAfter, TypeOK, StateFiles, Messages, Polls
  <2>2. rc' = 0 /\ files'.result \notin {"FAILED", "INTERRUPTED", "READY"}
    BY <1>0, <2>1, WhereMessages DEF ResultInv, ResultFits
  <2> QED
    BY <2>2 DEF ResultInv, ResultFits
<1> QED
  BY <1>1, <1>2, <1>3, <1>4, <1>5, <1>6, <1>7 DEF Next, Program

\* BringUpInv is inductive.
LEMMA BringUpHolds == Spec => []BringUpInv
<1>1. BringUpInv /\ [Next]_vars => BringUpInv'
  <2> SUFFICES ASSUME BringUpInv, [Next]_vars
               PROVE  BringUpInv'
    OBVIOUS
  <2>1. CASE UNCHANGED vars
    BY <2>1 DEF vars, BringUpInv, SocketInv, NoOrphanBearer, TypeOK, Place, LteInv, MuxInv,
        FormatInv,
       FormatOpen, BearerInv, SettingsInv, ResultInv, ResultFits
  <2>2. CASE Next
    <3>1. SocketInv'
      BY <2>2, OutsideSteps, MainSteps, TransactionSteps, RestartStep DEF Next, Program, BringUpInv
    <3>2. Place' /\ LteInv' /\ MuxInv'
      BY <2>2, PlaceStep, LteMuxStep
    <3>3. TypeOK'
      BY <2>2, <3>2, TypeStep
    <3>4. FormatInv' /\ BearerInv' /\ SettingsInv'
      BY <2>2, FormatStep, BearerStep
    <3>5. ResultInv'
      BY <2>2, ResultStep
    <3> QED
      BY <3>1, <3>2, <3>3, <3>4, <3>5 DEF BringUpInv
  <2> QED
    BY <2>1, <2>2
<1> QED
  BY <1>1, InitBringUp, PTL DEF Spec

\* The full, LTE-flavoured form of WDS_START_NETWORK and its two precedents are
\* sent only in a run in which the modem has answered a poll with LTE: nas_rat,
\* four stages earlier, gave the other form up in every other case (stage_nas_rat.c),
\* whatever was late, lost or refused in between.
THEOREM LteStartNeedsLte == Spec => []FullStartOnlyOnLte
<1>1. BringUpInv => FullStartOnlyOnLte
  BY DEF BringUpInv, Place, LteInv, StartMessages, FullStartOnlyOnLte, Messages
<1> QED
  BY <1>1, BringUpHolds, PTL

\* What vendor-init reports is true for any number of restarts, muxes and packets: while
\* it runs, READY in the result file stands for a bearer of this run on the socket it
\* keeps, for the data format the modem uses and for the handle, the address and (unless a
\* command of post_tune failed, which is only logged) the MTU that arrived; once it has
\* gone, the file and the exit status tell the same end, and READY is left behind only by
\* a signal (vendor-init.c, stage_post_tune.c).
THEOREM ReadyIsTrue == Spec => []ResultTrue
<1>1. BringUpInv => ResultTrue
  <2> SUFFICES ASSUME BringUpInv PROVE ResultTrue
    OBVIOUS
  <2>1. Holding => stage = 9 /\ ~ctx.dry /\ at # "exited"
    BY DEF Holding, BringUpInv, Place, ResultInv
  <2>2. ReadyHoldsBearer
    BY <2>1 DEF ReadyHoldsBearer, BringUpInv, SocketInv, FormatInv, BearerInv
  <2>3. SettingsApplied
    BY <2>1 DEF SettingsApplied, BringUpInv, SettingsInv
  <2> QED
    BY <2>2, <2>3 DEF ResultTrue, BringUpInv, ResultInv
<1> QED
  BY <1>1, BringUpHolds, PTL
=============================================================================
