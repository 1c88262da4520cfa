------------------------------ MODULE MCIpaRm ------------------------------
(* IpaRm in six settings, one per behaviour, named by variant:               *)
(*   fan      one producer needs two consumers, whose drivers answer later;  *)
(*   shared   two producers share a consumer, one needs a second consumer;   *)
(*   others   the same while other clients of the IPA hold clock votes too;  *)
(*   perf     two producers with bandwidth profiles and a voltage floor;     *)
(*   dynamic  resources, listeners and synchronous and user-space            *)
(*            dependencies come and go, drivers answer later;                *)
(*   errors   a driver may fail, and resources are deleted while busy.       *)
(* Even numbers are producers, odd ones consumers.  The constants of "fan"   *)
(* are those of the configuration, the others' are given here.               *)
EXTENDS IpaRm

CONSTANT Variants   \* the settings a run explores

VARIABLE variant

FanOutDeps == {<<2, 1>>, <<2, 3>>}
NoVoltage == [r \in Resources |-> 0]

Shared == INSTANCE IpaRm WITH
  Producers <- {2, 4}, Consumers <- {1, 3}, Dynamic <- {}, Listened <- {},
  Dependencies <- {<<2, 1>>, <<2, 3>>, <<4, 1>>}, SyncCalls <- {FALSE},
  DepOwners <- {"kernel"}, DriverResults <- {"OK"}, Bandwidths <- {}, BwMod <- 2,
  FloorVoltage <- [r \in 1 .. 4 |-> 0], DeleteWhileRequesting <- FALSE,
  DeleteWhileBusy <- FALSE, MaxWq <- 2, MaxTimers <- 0, MaxOther <- 0, MaxLeak <- 0
Others == INSTANCE IpaRm WITH
  Producers <- {2, 4}, Consumers <- {1, 3}, Dynamic <- {}, Listened <- {},
  Dependencies <- {<<2, 1>>, <<2, 3>>, <<4, 1>>}, SyncCalls <- {FALSE},
  DepOwners <- {"kernel"}, DriverResults <- {"OK"}, Bandwidths <- {}, BwMod <- 2,
  FloorVoltage <- [r \in 1 .. 4 |-> 0], DeleteWhileRequesting <- FALSE,
  DeleteWhileBusy <- FALSE, MaxWq <- 2, MaxTimers <- 0, MaxOther <- 1, MaxLeak <- 0
Perf == INSTANCE IpaRm WITH
  Producers <- {2, 4}, Consumers <- {1}, Dynamic <- {}, Listened <- {},
  Dependencies <- {<<2, 1>>, <<4, 1>>}, SyncCalls <- {FALSE}, DepOwners <- {"kernel"},
  DriverResults <- {"OK"}, Bandwidths <- {1, 2}, BwMod <- 3,
  FloorVoltage <- [r \in {1, 2, 4} |-> IF r = 1 THEN 1 ELSE 0],
  DeleteWhileRequesting <- FALSE, DeleteWhileBusy <- FALSE, MaxWq <- 2,
  MaxTimers <- 0, MaxOther <- 0, MaxLeak <- 0
Dyn == INSTANCE IpaRm WITH
  Producers <- {2}, Consumers <- {1}, Dynamic <- {1, 2}, Listened <- {2},
  Dependencies <- {<<2, 1>>}, SyncCalls <- BOOLEAN, DepOwners <- {"kernel", "user"},
  DriverResults <- {"OK", "INPROGRESS"}, Bandwidths <- {}, BwMod <- 2,
  FloorVoltage <- [r \in 1 .. 2 |-> 0], DeleteWhileRequesting <- FALSE,
  DeleteWhileBusy <- FALSE, MaxWq <- 2, MaxTimers <- 1, MaxOther <- 0, MaxLeak <- 0
Errs == INSTANCE IpaRm WITH
  Producers <- {2}, Consumers <- {1}, Dynamic <- {1}, Listened <- {},
  Dependencies <- {<<2, 1>>}, SyncCalls <- {FALSE}, DepOwners <- {"kernel"},
  DriverResults <- {"OK", "ERROR"}, Bandwidths <- {}, BwMod <- 2,
  FloorVoltage <- [r \in 1 .. 2 |-> 0], DeleteWhileRequesting <- TRUE,
  DeleteWhileBusy <- TRUE, MaxWq <- 2, MaxTimers <- 0, MaxOther <- 1, MaxLeak <- 1

MCInit ==
  /\ variant \in Variants
  /\ \/ variant = "fan" /\ Init
     \/ variant = "shared" /\ Shared!Init
     \/ variant = "others" /\ Others!Init
     \/ variant = "perf" /\ Perf!Init
     \/ variant = "dynamic" /\ Dyn!Init
     \/ variant = "errors" /\ Errs!Init
FanStep     == variant = "fan" /\ Next /\ UNCHANGED variant
SharedStep  == variant = "shared" /\ Shared!Next /\ UNCHANGED variant
OthersStep  == variant = "others" /\ Others!Next /\ UNCHANGED variant
PerfStep    == variant = "perf" /\ Perf!Next /\ UNCHANGED variant
DynamicStep == variant = "dynamic" /\ Dyn!Next /\ UNCHANGED variant
ErrorStep   == variant = "errors" /\ Errs!Next /\ UNCHANGED variant
MCNext == FanStep \/ SharedStep \/ OthersStep \/ PerfStep \/ DynamicStep \/ ErrorStep
MCSpec == MCInit /\ [][MCNext]_<<vars, variant>>
MCFairSpec == MCSpec /\ Fairness   \* for the behaviours of "fan"

\* With shared consumers and with resources that come and go, a consumer's usage count is
\* the number of its requested or granted users and it is not released under them; with
\* shared consumers a producer also waits for as many as it counts and is granted when
\* all of them are.  When drivers fail less is left (ipa_rm_resource_consumer_request_work()
\* gives up the use of a producer that stays granted): the count never exceeds the users,
\* and a producer never waits for more consumers than it has.  In all of them whoever
\* asked is told of the grant (ipa_rm_resource_producer_notify_clients).
CountsRight ==
  /\ variant = "shared" => /\ Shared!UsageCountsUsers /\ Shared!UsedConsumersStay
                           /\ Shared!PendingCountsWaits /\ Shared!GrantedConsumers
                           /\ Shared!GrantsDelivered
  /\ variant = "dynamic" => Dyn!UsageCountsUsers /\ Dyn!UsedConsumersStay /\ Dyn!GrantsDelivered
  /\ variant = "errors" => /\ Errs!UsageWithinUsers /\ Errs!PendingWithinPeers
                           /\ Errs!GrantsDelivered
\* The clock votes of the consumers are those their states call for, a consumer's
\* bandwidth is the sum of its users' and the performance votes settle on what the
\* resources in use need.
VotesRight == /\ variant = "others" => Others!ClockVotesBalance
              /\ variant = "dynamic" => Dyn!ClockVotesBalance
              /\ variant = "perf" => Perf!NeededBwAddsUp /\ Perf!PerfVotesSettle
=============================================================================
