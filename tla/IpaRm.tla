------------------------------- MODULE IpaRm -------------------------------
(***************************************************************************)
(* The IPA resource manager (ipa_rm.c, ipa_rm_resource.c,                  *)
(* ipa_rm_dependency_graph.c, ipa_rm_peers_list.c): clients request and    *)
(* release producer resources; a producer is GRANTED once every consumer   *)
(* resource it depends on is; a consumer in use holds one vote on the IPA  *)
(* clocks.  Every operation runs under ipa_rm_lock and is one action; what *)
(* cannot be done under a spinlock is queued on the single-threaded work   *)
(* queue ipa_rm_wq, whose handlers touch the clock vote before they take   *)
(* the lock and are therefore two actions each.                            *)
(*                                                                         *)
(* Resources are numbered as in enum ipa_rm_resource_name; a loop over the *)
(* peers visits them in ascending order.  Three abstractions: a resource   *)
(* is deleted after its dependencies (the loops of                         *)
(* ipa_rm_resource_delete() are DeleteDependency steps); the bandwidth     *)
(* notifications that one critical section queues are collapsed into the   *)
(* last one and kept in a queue of their own, perfQ; a producer never      *)
(* rests in RELEASE_IN_PROGRESS, because ipa_rm_resource_producer_release  *)
(* ignores what the consumers answer, so that value is left out.           *)
(***************************************************************************)
EXTENDS Integers, Sequences, FiniteSets, FiniteSetsExt, Functions

CONSTANTS
  Producers, Consumers,   \* the resource names in use
  Dynamic,                \* the ones created and deleted at run time; the
                          \* others were created before the first request
  Listened,               \* producers on which ipa_rm_register() is called
  Dependencies,           \* the <<producer, consumer>> pairs clients ever add
  SyncCalls,              \* {FALSE}, {TRUE}: which add_dependency variant is used
  DepOwners,              \* who adds them: "kernel", "user" (userspace_dep)
  DriverResults,          \* what request_resource()/release_resource() return
  Bandwidths,             \* the values given to ipa_rm_set_perf_profile()
  BwMod,                  \* 2^32 in the code: needed_bw and max_bw are u32
  FloorVoltage,           \* floor_voltage of each resource
  DeleteWhileRequesting,  \* may a granted dependency be deleted while its
                          \* producer is still REQUEST_IN_PROGRESS?
  DeleteWhileBusy,        \* may a consumer be deleted while work for it is
                          \* queued or its driver has not finished?
  MaxWq, MaxTimers, MaxOther, MaxLeak
                          \* bounds: queued works, delayed releases per consumer,
                          \* clock votes of others, votes a driver error leaks

Resources == Producers \cup Consumers

ASSUME IpaRmAssumption ==
  /\ Producers \subseteq Nat /\ Consumers \subseteq Nat
  /\ Producers \cap Consumers = {}
  /\ IsFiniteSet(Producers) /\ IsFiniteSet(Consumers)
  /\ Dynamic \subseteq Resources /\ Listened \subseteq Producers
  /\ Dependencies \subseteq Producers \X Consumers
  /\ SyncCalls \subseteq BOOLEAN
  /\ DepOwners \subseteq {"kernel", "user"}
  /\ DriverResults \subseteq {"OK", "INPROGRESS", "ERROR"}
  /\ BwMod \in Nat \ {0}
  /\ Bandwidths \subseteq 0 .. BwMod - 1
  /\ FloorVoltage \in [Resources -> Nat]
  /\ DeleteWhileRequesting \in BOOLEAN /\ DeleteWhileBusy \in BOOLEAN
  /\ MaxWq \in Nat /\ MaxTimers \in Nat /\ MaxOther \in Nat /\ MaxLeak \in Nat

VARIABLES
  exists,      \* dep_graph->resource_table: the resources that are created
  dep,         \* peers_list of both sides: who added each dependency, or "none"
  prodState,   \* producer->resource.state
  pending,     \* producer->pending_request
  consState,   \* consumer->resource.state
  usage,       \* consumer->usage_count
  done,        \* is request_consumer_in_progress completed?
  maxBw, neededBw,  \* resource->max_bw, resource->needed_bw
  votes,       \* active-clients votes logged under each consumer's name
  other,       \* active-clients votes of everyone else
  resumed,     \* resume_on_connect / endpoints of the consumer not suspended
  driverOwes,  \* events a consumer's driver will still report
  timers,      \* pending delayed_release_work items per consumer
  waiter,      \* a thread inside ipa_rm_add_dependency_sync()
  listening,   \* producers with an explicit listener (ipa_rm_register)
  owed,        \* ghost: who must still hear GRANTED for the last request
  wq, worker,  \* ipa_rm_wq and the work its thread has started
  perfVote, perfOn, \* prof_vote.bw_resources, resources with a voltage vote
  perfQ, perfSet    \* queued ipa_set_required_perf_profile() and the last one

graphVars  == <<exists, dep>>
prodVars   == <<prodState, pending>>
consVars   == <<consState, usage>>
clockVars  == <<votes, resumed>>
clientVars == <<listening, owed>>
bwVars     == <<maxBw, neededBw>>
perfVars   == <<perfVote, perfOn, perfQ, perfSet>>
vars == <<graphVars, prodVars, consVars, done, bwVars, clockVars, other,
          driverOwes, timers, waiter, clientVars, wq, worker, perfVars>>

Busy == {"REQUEST_IN_PROGRESS", "GRANTED"}
ProdStates == {"RELEASED"} \cup Busy
ConsStates == ProdStates \cup {"RELEASE_IN_PROGRESS"}
Events == {"GRANTED", "RELEASED"}
Listeners == {"creator", "client"}
Bw == 0 .. BwMod - 1

\* The kinds of work queued on ipa_rm_wq.
ResumeWork  == [kind : {"resume"}, res : Consumers, prev : ConsStates,
                bw : Bw, inc : {0, 1}]
SuspendWork == [kind : {"suspend"}, res : Consumers, prev : ConsStates]
NotifyWork  == [kind : {"notify"}, res : Producers, event : Events,
                registeredOnly : BOOLEAN]
CbWork      == [kind : {"cb"}, res : Consumers, event : Events]
Work == ResumeWork \cup SuspendWork \cup NotifyWork \cup CbWork
Idle == [kind |-> "idle"]

Peers(p)  == {c \in Consumers : dep[<<p, c>>] # "none"}
Owners(c) == {p \in Producers : dep[<<p, c>>] # "none"}
\* The producers that count in a consumer's usage_count.
Users(c)  == {p \in Owners(c) : prodState[p] \in Busy}
State(r)  == IF r \in Producers THEN prodState[r] ELSE consState[r]
\* ipa_active_clients.cnt
ActiveClients == other + SumFunctionOnSet(votes, Consumers)
\* u32 arithmetic
AddBw(a, b) == (a + b) % BwMod
SubBw(a, b) == (a - b) % BwMod

Notify(p, event, registeredOnly) ==
  [kind |-> "notify", res |-> p, event |-> event,
   registeredOnly |-> registeredOnly]
\* The set S in the order in which a loop over a peers list meets it.
Ordered(S) == {o \in [1 .. Cardinality(S) -> S] :
                 \A i, j \in DOMAIN o : i < j => o[i] < o[j]}
----------------------------------------------------------------------------
(* Performance votes.                                                      *)

\* curr_volt and curr_bw for given votes.
Level(on, vote) ==
  <<Max({0} \cup {FloorVoltage[r] : r \in on}),
    Min({SumFunctionOnSet(vote, Producers) % BwMod,
         SumFunctionOnSet(vote, Consumers) % BwMod})>>
Levels == {Level(on, vote) : on \in SUBSET Resources, vote \in [Resources -> Bw]}

MinBw(a, b) == IF a < b THEN a ELSE b
PerfOf(r) == IF State(r) \in Busy THEN MinBw(maxBw[r], neededBw[r]) ELSE 0

\* ipa_rm_perf_profile_change() called for the resources S after their state
\* and bandwidths have changed.
PerfChange(S) ==
  /\ perfVote' = [r \in Resources |-> IF r \in S THEN PerfOf(r)' ELSE perfVote[r]]
  /\ perfOn' = {r \in Resources : IF r \in S THEN State(r)' \in Busy
                                              ELSE r \in perfOn}
  /\ perfQ' = IF Level(perfOn', perfVote') = Level(perfOn, perfVote)
              THEN perfQ ELSE Append(perfQ, Level(perfOn', perfVote'))
  /\ UNCHANGED perfSet
----------------------------------------------------------------------------
(* Requesting consumers.  C is the set of consumers a call reaches, fast   *)
(* those whose clock vote ipa_inc_client_enable_clks_no_block() takes at   *)
(* once, res what their drivers answer, bw and inc the arguments of        *)
(* ipa_rm_resource_consumer_request().                                     *)

\* Mutant: a consumer still being released is not woken.
AsleepOnlyReleased(C) == {c \in C : consState[c] = "RELEASED"}
\* Consumers of C that a request has to wake.
Asleep(C) == {c \in C : consState[c] \notin Busy}
\* prev_state RELEASE_IN_PROGRESS always goes through the queue.
MayVoteNow(C) == {c \in C : consState[c] = "RELEASED"}
\* The no-block increment fails when its lock is taken or nobody holds a vote.
CanVoteNow(fast) == fast # {} => ActiveClients > 0

\* What the drivers of the consumers in fast may answer.
FewLeaks(c) == votes[c] \in -MaxLeak .. MaxLeak
Answers(fast) == {res \in [fast -> DriverResults] :
                    \A c \in fast : res[c] = "ERROR" => FewLeaks(c)}

AfterDriver(c, result) ==
  CASE result = "OK" -> "GRANTED"
    [] result = "INPROGRESS" -> "REQUEST_IN_PROGRESS"
    [] result = "ERROR" -> consState[c]

RequestedState(c, fast, res) ==
  IF consState[c] \in Busy THEN consState[c]
  ELSE IF c \in fast THEN AfterDriver(c, res[c]) ELSE "REQUEST_IN_PROGRESS"

Failed(fast, res) == {c \in fast : res[c] = "ERROR"}
\* The consumers for which consumer_request() returns -EINPROGRESS.
Waiting(C, fast, res) ==
  {c \in C : RequestedState(c, fast, res) = "REQUEST_IN_PROGRESS"}

\* A blocked ipa_rm_add_dependency_sync() thread sees its consumer granted.
SeeGrants(w) ==
  waiter' = [c \in Consumers |-> IF w[c] = "blocked" /\ consState'[c] = "GRANTED"
                                 THEN "granted" ELSE w[c]]

\* ipa_rm_resource_consumer_request() for every consumer of C.
RequestConsumers(C, fast, res, inc) ==
  /\ consState' = [c \in Consumers |-> IF c \in C THEN RequestedState(c, fast, res)
                                                  ELSE consState[c]]
  /\ usage' = [c \in Consumers |-> IF c \in C \ Failed(fast, res) THEN usage[c] + inc
                                                                  ELSE usage[c]]
  /\ votes' = [c \in Consumers |-> IF c \in fast THEN votes[c] + 1 ELSE votes[c]]
  /\ resumed' = [c \in Consumers |-> resumed[c] \/ (c \in fast /\ res[c] = "OK")]
  /\ done' = [c \in Consumers |-> done[c] /\ c \notin Asleep(C)]
  /\ driverOwes' = [c \in Consumers |->
       IF c \in fast /\ res[c] = "INPROGRESS" THEN driverOwes[c] \cup {"GRANTED"}
                                              ELSE driverOwes[c]]

\* needed_bw of the consumers after such a request.
RequestedBw(C, fast, res, bw) ==
  [r \in Resources |-> IF r \in C \ Failed(fast, res) THEN AddBw(neededBw[r], bw)
                                                      ELSE neededBw[r]]

ResumeWorks(order, bw, inc) ==
  [i \in DOMAIN order |-> [kind |-> "resume", res |-> order[i],
     prev |-> consState[order[i]], bw |-> bw, inc |-> inc]]
----------------------------------------------------------------------------
(* Releasing consumers: ipa_rm_resource_consumer_release().                *)

\* Mutant: the count drops only for granted consumers.
ReleasedUsageGrantedOnly(c, dec) ==
  IF consState[c] = "GRANTED" /\ usage[c] > 0 THEN usage[c] - dec ELSE usage[c]
ReleasedUsage(c, dec) == IF consState[c] # "RELEASED" /\ usage[c] > 0
                         THEN usage[c] - dec ELSE usage[c]
\* Mutant: the count is not looked at.
UnusedAnyCount(C, dec) == {c \in C : consState[c] \in Busy}
\* The consumers that nobody uses any more.
Unused(C, dec) == {c \in C : consState[c] \in Busy /\ ReleasedUsage(c, dec) = 0}
\* save_state REQUEST_IN_PROGRESS always goes through the queue: its resume
\* work may still be there.
MaySuspendNow(C, dec) == {c \in Unused(C, dec) : consState[c] = "GRANTED"}
\* ipa_suspend_resource_no_block() refuses to drop the last vote; the loop over
\* the peers drops one vote after the other.
CanSuspendNow(fast) == ActiveClients \notin 1 .. Cardinality(fast)

ReleasedState(c, C, dec, fast, res) ==
  IF c \notin Unused(C, dec) THEN consState[c]
  ELSE IF c \notin fast THEN "RELEASE_IN_PROGRESS"
  ELSE IF res[c] = "ERROR" THEN consState[c] ELSE "RELEASED"

ReleaseConsumers(C, dec, fast, res) ==
  /\ consState' = [c \in Consumers |-> ReleasedState(c, C, dec, fast, res)]
  /\ usage' = [c \in Consumers |-> IF c \in C THEN ReleasedUsage(c, dec) ELSE usage[c]]
  /\ votes' = [c \in Consumers |-> IF c \in fast THEN votes[c] - 1 ELSE votes[c]]
  /\ resumed' = [c \in Consumers |-> resumed[c] /\ c \notin fast]
  /\ done' = [c \in Consumers |-> done[c] \/ c \in fast \ Failed(fast, res)]
  /\ driverOwes' = [c \in Consumers |->
       IF c \in fast /\ res[c] = "INPROGRESS" THEN driverOwes[c] \cup {"RELEASED"}
                                              ELSE driverOwes[c]]

ReleasedBw(C, bw) ==
  [r \in Resources |-> IF r \in C THEN SubBw(neededBw[r], bw) ELSE neededBw[r]]
\* The consumers whose performance vote the release recomputes.
ReleasedPerf(C, dec, fast, res) ==
  (fast \ Failed(fast, res))
    \cup {c \in C \ Unused(C, dec) : consState[c] = "GRANTED"}

SuspendWorks(order) ==
  [i \in DOMAIN order |-> [kind |-> "suspend", res |-> order[i],
                           prev |-> consState[order[i]]]]
----------------------------------------------------------------------------
(* Operations of the clients.                                              *)

\* Bound on the work that may be outstanding when a client calls.
RoomInWq == Len(wq) + Len(perfQ) < MaxWq

\* ipa_rm_create_resource()
CreateResource(r) ==
  /\ r \notin exists
  /\ exists' = exists \cup {r}
  /\ maxBw' = [maxBw EXCEPT ![r] = 0]
  /\ neededBw' = [neededBw EXCEPT ![r] = 0]
  /\ IF r \in Producers
     THEN /\ prodState' = [prodState EXCEPT ![r] = "RELEASED"]
          /\ pending' = [pending EXCEPT ![r] = 0]
          /\ owed' = [owed EXCEPT ![r] = {}]
          /\ UNCHANGED <<consVars, done>>
     ELSE /\ consState' = [consState EXCEPT ![r] = "RELEASED"]
          /\ usage' = [usage EXCEPT ![r] = 0]
          /\ done' = [done EXCEPT ![r] = FALSE]
          /\ UNCHANGED <<prodVars, owed>>
  /\ UNCHANGED <<dep, clockVars, other, driverOwes, timers, waiter, listening,
                 wq, worker, perfVars>>

\* Is nothing queued, started or owed for consumer c?  Deleting an idle
\* consumer is what every caller in the tree intends.
Quiet(c) == /\ \A i \in DOMAIN wq : wq[i].res # c
            /\ worker # Idle => worker.res # c
            /\ driverOwes[c] = {} /\ timers[c] = 0
            /\ consState[c] = "RELEASED"

\* ipa_rm_delete_resource() of a producer without dependencies left: it is
\* released, its listeners are freed and it leaves the table.
DeleteProducer(p) ==
  /\ RoomInWq
  /\ p \in exists /\ Peers(p) = {}
  /\ exists' = exists \ {p}
  /\ prodState' = [prodState EXCEPT ![p] = "RELEASED"]
  /\ pending' = [pending EXCEPT ![p] = 0]
  /\ listening' = listening \ {p}
  /\ owed' = [owed EXCEPT ![p] = {}]
  /\ wq' = IF prodState[p] = "RELEASED" THEN wq
           ELSE Append(wq, Notify(p, "RELEASED", TRUE))
  /\ UNCHANGED <<consVars, bwVars>>
  /\ PerfChange(IF prodState[p] = "RELEASED" THEN {} ELSE {p})
  /\ UNCHANGED <<dep, done, clockVars, other, driverOwes, timers, waiter, worker>>

\* ipa_rm_delete_resource() of a consumer without dependencies left.  A thread
\* blocked in ipa_rm_add_dependency_sync() would wait on freed memory.
DeleteConsumer(c) ==
  /\ c \in exists /\ Owners(c) = {} /\ waiter[c] \in {"none", "early"}
  /\ IF DeleteWhileBusy THEN FewLeaks(c) ELSE Quiet(c)
  /\ exists' = exists \ {c}
  /\ UNCHANGED <<dep, prodVars, consVars, done, bwVars, clockVars, other,
                 driverOwes, timers, waiter, clientVars, wq, worker, perfVars>>

\* The peers producer_request() gets to: it leaves the loop at the first failure.
Reached(p, fast, res) == {c \in Peers(p) : \A e \in Failed(fast, res) : c <= e}
\* The consumers whose performance vote a request recomputes.
RequestedPerf(C, fast, res) == {c \in C : RequestedState(c, fast, res) = "GRANTED"}

\* A grant without waiting is told only to registered listeners: the caller has
\* its answer.
RequestNotice(p) == <<Notify(p, "GRANTED", TRUE)>>

\* ipa_rm_request_resource(): a producer that is not RELEASED only gets an
\* answer (0 or -EINPROGRESS), so those calls are stuttering steps.
RequestResource(p) ==
  /\ RoomInWq
  /\ p \in exists /\ prodState[p] = "RELEASED"
  /\ \E fast \in SUBSET MayVoteNow(Peers(p)) : \E res \in Answers(fast) :
     LET C == Reached(p, fast, res)
         queued == Asleep(C) \ fast
         pend == Cardinality(Waiting(C, fast, res))
         granted == pend = 0 /\ Failed(fast, res) = {}
     IN
     /\ fast \subseteq C /\ CanVoteNow(fast)
     /\ RequestConsumers(C, fast, res, 1) /\ SeeGrants(waiter)
     /\ neededBw' = RequestedBw(C, fast, res, maxBw[p])
     /\ prodState' = [prodState EXCEPT ![p] = IF granted THEN "GRANTED"
                                              ELSE "REQUEST_IN_PROGRESS"]
     /\ pending' = [pending EXCEPT ![p] = pend]
     /\ \E order \in Ordered(queued) :
          wq' = wq \o ResumeWorks(order, maxBw[p], 1)
                   \o (IF granted THEN RequestNotice(p) ELSE <<>>)
     /\ owed' = [owed EXCEPT ![p] = (IF granted THEN {} ELSE {"creator"})
                   \cup (IF p \in listening THEN {"client"} ELSE {})]
     /\ UNCHANGED maxBw
     /\ PerfChange(RequestedPerf(C, fast, res) \cup (IF granted THEN {p} ELSE {}))
  /\ UNCHANGED <<graphVars, other, timers, listening, worker>>

\* ipa_rm_release_resource(): whatever the consumers answer, the producer is
\* RELEASED when the call returns.
ReleaseResource(p) ==
  /\ RoomInWq
  /\ p \in exists /\ prodState[p] \in Busy
  /\ LET C == Peers(p) IN
     \E fast \in SUBSET MaySuspendNow(C, 1) : \E res \in Answers(fast) :
     /\ CanSuspendNow(fast)
     /\ ReleaseConsumers(C, 1, fast, res) /\ SeeGrants(waiter)
     /\ neededBw' = ReleasedBw(C, maxBw[p])
     /\ prodState' = [prodState EXCEPT ![p] = "RELEASED"]
     /\ \E order \in Ordered(Unused(C, 1) \ fast) :
          wq' = wq \o SuspendWorks(order) \o <<Notify(p, "RELEASED", TRUE)>>
     /\ owed' = [owed EXCEPT ![p] = {}]
     /\ UNCHANGED maxBw
     /\ PerfChange(ReleasedPerf(C, 1, fast, res) \cup {p})
  /\ UNCHANGED <<graphVars, pending, other, timers, listening, worker>>

\* ipa_rm_add_dependency() and, with sync, ipa_rm_add_dependency_sync(), which
\* then waits for the consumer's completion.
AddDependency(p, c, owner, sync) ==
  /\ RoomInWq
  /\ {p, c} \subseteq exists /\ dep[<<p, c>>] = "none"
  /\ sync => waiter[c] \in {"none", "early"}
  /\ dep' = [dep EXCEPT ![<<p, c>>] = owner]
  /\ UNCHANGED maxBw
  /\ \/ /\ prodState[p] = "RELEASED"
        /\ neededBw' = [neededBw EXCEPT ![p] = AddBw(@, maxBw[c])]
        /\ UNCHANGED <<prodVars, consVars, clockVars, done, driverOwes, waiter,
                       wq, perfVars>>
     \/ /\ prodState[p] \in Busy
        /\ \E fast \in SUBSET MayVoteNow({c}) : \E res \in Answers(fast) :
           LET inProgress == Waiting({c}, fast, res) # {} IN
           /\ CanVoteNow(fast)
           /\ RequestConsumers({c}, fast, res, 1)
           /\ SeeGrants(IF sync /\ inProgress THEN [waiter EXCEPT ![c] = "blocked"]
                                              ELSE waiter)
           /\ neededBw' = [RequestedBw({c}, fast, res, maxBw[p])
                             EXCEPT ![p] = AddBw(@, maxBw[c])]
           /\ prodState' = [prodState EXCEPT ![p] =
                              IF inProgress THEN "REQUEST_IN_PROGRESS" ELSE @]
           /\ pending' = [pending EXCEPT ![p] = IF inProgress THEN @ + 1 ELSE @]
           /\ wq' = wq \o ResumeWorks(IF c \in Asleep({c}) \ fast THEN <<c>> ELSE <<>>,
                                      maxBw[p], 1)
           /\ PerfChange(RequestedPerf({c}, fast, res)
                           \cup (IF inProgress THEN {} ELSE {p}))
  /\ UNCHANGED <<exists, other, timers, clientVars, worker>>

\* Mutant: the guards on the decrement are gone.
PendingAfterDeleteUnguarded(p) == pending[p] - 1
\* pending_request after ipa_rm_resource_delete_dependency(); it does not look
\* at whether the deleted consumer was still pending.
PendingAfterDelete(p) ==
  IF prodState[p] = "REQUEST_IN_PROGRESS" /\ pending[p] > 0 THEN pending[p] - 1
                                                            ELSE pending[p]
GrantedByDelete(p, c) ==
  /\ prodState[p] = "REQUEST_IN_PROGRESS" /\ consState[c] = "REQUEST_IN_PROGRESS"
  /\ PendingAfterDelete(p) = 0
\* Mutant: the producer's creator is not told.
DeleteNoticeRegisteredOnly(p) == <<Notify(p, "GRANTED", TRUE)>>
DeleteNotice(p) == <<Notify(p, "GRANTED", FALSE)>>

\* ipa_rm_delete_dependency() by the side that added it; the other side's call
\* changes nothing.
DeleteDependency(p, c) ==
  /\ RoomInWq
  /\ {p, c} \subseteq exists /\ dep[<<p, c>>] # "none"
  /\ (prodState[p] = "REQUEST_IN_PROGRESS" /\ ~DeleteWhileRequesting)
       => consState[c] = "REQUEST_IN_PROGRESS"
  /\ dep' = [dep EXCEPT ![<<p, c>>] = "none"]
  /\ UNCHANGED maxBw
  /\ \/ /\ prodState[p] = "RELEASED"
        /\ neededBw' = [neededBw EXCEPT ![p] = SubBw(@, maxBw[c])]
        /\ UNCHANGED <<prodVars, consVars, clockVars, done, driverOwes, waiter,
                       wq, perfVars>>
     \/ /\ prodState[p] \in Busy
        /\ \E fast \in SUBSET MaySuspendNow({c}, 1) : \E res \in Answers(fast) :
           LET pend == PendingAfterDelete(p)
               granted == GrantedByDelete(p, c)
               suspend == c \in Unused({c}, 1) \ fast
           IN
           /\ CanSuspendNow(fast)
           /\ ReleaseConsumers({c}, 1, fast, res) /\ SeeGrants(waiter)
           /\ neededBw' = [ReleasedBw({c}, maxBw[p]) EXCEPT ![p] = SubBw(@, maxBw[c])]
           /\ prodState' = [prodState EXCEPT ![p] = IF granted THEN "GRANTED" ELSE @]
           /\ pending' = [pending EXCEPT ![p] = pend]
           /\ wq' = wq \o (IF granted THEN DeleteNotice(p) ELSE <<>>)
                       \o SuspendWorks(IF suspend THEN <<c>> ELSE <<>>)
           /\ PerfChange(ReleasedPerf({c}, 1, fast, res)
                 \cup (IF granted \/ prodState[p] = "GRANTED" THEN {p} ELSE {}))
  /\ UNCHANGED <<exists, other, timers, clientVars, worker>>

\* ipa_rm_request_resource_with_timer(): a consumer is requested on nobody's
\* account and released by delayed_release_work_func() a second later.  A
\* GRANTED consumer's driver is called again (wake_client).
RequestWithTimer(c) ==
  /\ RoomInWq
  /\ c \in exists /\ timers[c] < MaxTimers
  /\ UNCHANGED bwVars
  /\ \/ /\ consState[c] # "GRANTED"
        /\ \E fast \in SUBSET MayVoteNow({c}) : \E res \in Answers(fast) :
           /\ CanVoteNow(fast)
           /\ RequestConsumers({c}, fast, res, 0) /\ SeeGrants(waiter)
           /\ wq' = wq \o ResumeWorks(IF c \in Asleep({c}) \ fast THEN <<c>> ELSE <<>>, 0, 0)
           /\ timers' = [timers EXCEPT ![c] = IF Failed(fast, res) = {} THEN @ + 1 ELSE @]
           /\ PerfChange(RequestedPerf({c}, fast, res))
     \/ /\ consState[c] = "GRANTED"
        /\ \E result \in DriverResults :   \* no vote is taken: no leak
           /\ resumed' = [resumed EXCEPT ![c] = @ \/ result = "OK"]
           /\ driverOwes' = [driverOwes EXCEPT ![c] =
                               IF result = "INPROGRESS" THEN @ \cup {"GRANTED"} ELSE @]
           /\ timers' = [timers EXCEPT ![c] = IF result = "ERROR" THEN @ ELSE @ + 1]
           /\ UNCHANGED <<consVars, votes, done, waiter, wq>>
           /\ PerfChange(IF result = "OK" THEN {c} ELSE {})
  /\ UNCHANGED <<graphVars, prodVars, other, clientVars, worker>>

\* delayed_release_work_func()
DelayedRelease(c) ==
  /\ timers[c] > 0
  /\ timers' = [timers EXCEPT ![c] = @ - 1]
  /\ UNCHANGED <<bwVars, prodVars>>
  /\ \E fast \in SUBSET MaySuspendNow({c} \cap exists, 0) :
     \E res \in Answers(fast) :
     /\ CanSuspendNow(fast)
     /\ ReleaseConsumers({c} \cap exists, 0, fast, res) /\ SeeGrants(waiter)
     /\ wq' = wq \o SuspendWorks(IF c \in Unused({c} \cap exists, 0) \ fast
                                 THEN <<c>> ELSE <<>>)
     /\ PerfChange(ReleasedPerf({c} \cap exists, 0, fast, res))
  /\ UNCHANGED <<graphVars, other, clientVars, worker>>

\* ipa_rm_register() and ipa_rm_deregister() of the one explicit listener.
Register(p) ==
  /\ p \in exists \ listening
  /\ listening' = listening \cup {p}
  /\ UNCHANGED <<graphVars, prodVars, consVars, done, bwVars, clockVars, other,
                 driverOwes, timers, waiter, owed, wq, worker, perfVars>>

Deregister(p) ==
  /\ p \in listening
  /\ listening' = listening \ {p}
  /\ owed' = [owed EXCEPT ![p] = @ \ {"client"}]
  /\ UNCHANGED <<graphVars, prodVars, consVars, done, bwVars, clockVars, other,
                 driverOwes, timers, waiter, wq, worker, perfVars>>

ProfilePeers(r) == IF r \in Producers
                   THEN IF prodState[r] \in Busy THEN Peers(r) ELSE {}
                   ELSE Owners(r)

\* ipa_rm_set_perf_profile(): the new bandwidth replaces the old one in what
\* the peers need; a producer counts only while it is requested or granted.
SetPerfProfile(r, bw) ==
  /\ RoomInWq
  /\ r \in exists /\ bw # maxBw[r]
  /\ maxBw' = [maxBw EXCEPT ![r] = bw]
  /\ neededBw' = [s \in Resources |-> IF s \in ProfilePeers(r)
                     THEN AddBw(SubBw(neededBw[s], maxBw[r]), bw) ELSE neededBw[s]]
  /\ UNCHANGED <<prodVars, consVars>>
  /\ PerfChange({s \in ProfilePeers(r) \cup {r} : State(s) = "GRANTED"})
  /\ UNCHANGED <<graphVars, done, clockVars, other, driverOwes, timers, waiter,
                 clientVars, wq, worker>>

\* wait_for_completion_timeout() in _ipa_rm_add_dependency_sync() ends with the
\* completion, or after five seconds with -ETIME.  "early" records a success
\* returned to a caller whose consumer was never granted while it waited.
SyncReturn(c) ==
  /\ waiter[c] \in {"blocked", "granted"}
  /\ \/ done[c] /\ waiter' = [waiter EXCEPT ![c] = IF @ = "granted" THEN "none" ELSE "early"]
     \/ ~done[c] /\ waiter' = [waiter EXCEPT ![c] = "none"]
  /\ UNCHANGED <<graphVars, prodVars, consVars, done, bwVars, clockVars, other,
                 driverOwes, timers, clientVars, wq, worker, perfVars>>
----------------------------------------------------------------------------
(* The work queue thread.                                                  *)

\* Mutant: off by one.
WaitingForMany(c) ==
  {p \in Owners(c) : prodState[p] = "REQUEST_IN_PROGRESS" /\ pending[p] > 1}
\* ipa_rm_resource_consumer_handle_cb(c, GRANTED): a consumer still waiting is
\* granted, and with it every producer that waited for nothing else.
WaitingFor(c) == {p \in Owners(c) : prodState[p] = "REQUEST_IN_PROGRESS" /\ pending[p] > 0}
\* Mutant: the first grant is enough.
AnyPending(c) == WaitingFor(c)
LastPending(c) == {p \in WaitingFor(c) : pending[p] = 1}

HandleGranted(c) ==
  IF consState[c] = "REQUEST_IN_PROGRESS"
  THEN /\ consState' = [consState EXCEPT ![c] = "GRANTED"]
       /\ resumed' = [resumed EXCEPT ![c] = TRUE]
       /\ done' = [done EXCEPT ![c] = TRUE]
       /\ pending' = [p \in Producers |-> IF p \in WaitingFor(c) THEN pending[p] - 1
                                                                ELSE pending[p]]
       /\ prodState' = [p \in Producers |-> IF p \in LastPending(c) THEN "GRANTED"
                                                                  ELSE prodState[p]]
       /\ owed' = [p \in Producers |-> IF p \in LastPending(c) THEN {} ELSE owed[p]]
       /\ SeeGrants(waiter)
       /\ UNCHANGED bwVars
       /\ PerfChange(LastPending(c) \cup {c})
  ELSE UNCHANGED <<consState, resumed, done, prodVars, owed, waiter, bwVars, perfVars>>

\* Mutant: the state is not looked at.
ReleasedByCbAlways(c) == "RELEASED"
\* handle_cb(c, RELEASED): producers are not concerned, none of them rests in
\* RELEASE_IN_PROGRESS.
ReleasedByCb(c) == IF consState[c] = "RELEASE_IN_PROGRESS" THEN "RELEASED" ELSE consState[c]

TakeWork(kind) == /\ worker = Idle /\ wq # <<>> /\ Head(wq).kind = kind
                  /\ wq' = Tail(wq)

\* ipa_rm_wq_resume_handler() up to the lock: the clock vote.
ResumeVote ==
  /\ TakeWork("resume")
  /\ worker' = Head(wq)
  /\ votes' = [votes EXCEPT ![Head(wq).res] = @ + 1]
  /\ UNCHANGED <<graphVars, prodVars, consVars, done, bwVars, resumed, other,
                 driverOwes, timers, waiter, clientVars, perfVars>>

\* ... and under the lock: ipa_rm_resource_consumer_request_work().
ResumeLocked ==
  /\ worker.kind = "resume"
  /\ worker' = Idle
  /\ LET c == worker.res IN
     \/ /\ c \notin exists
        /\ votes' = [votes EXCEPT ![c] = @ - 1]
        /\ UNCHANGED <<prodVars, consVars, done, bwVars, resumed, driverOwes,
                       waiter, owed, perfVars>>
     \/ /\ c \in exists /\ "OK" \in DriverResults
        /\ HandleGranted(c)
        /\ UNCHANGED <<usage, votes, driverOwes>>
     \/ /\ c \in exists /\ "INPROGRESS" \in DriverResults
        /\ driverOwes' = [driverOwes EXCEPT ![c] = @ \cup {"GRANTED"}]
        /\ UNCHANGED <<prodVars, consVars, done, bwVars, clockVars, waiter, owed, perfVars>>
     \/ /\ c \in exists /\ "ERROR" \in DriverResults /\ FewLeaks(c)
        /\ consState' = [consState EXCEPT ![c] = worker.prev]
        /\ usage' = [usage EXCEPT ![c] = @ - worker.inc]
        /\ neededBw' = [neededBw EXCEPT ![c] = SubBw(@, worker.bw)]
        /\ SeeGrants(waiter)
        /\ UNCHANGED <<maxBw, prodVars, done, clockVars, driverOwes, owed, perfVars>>
  /\ UNCHANGED <<graphVars, other, timers, listening, wq>>

\* ipa_rm_wq_suspend_handler() up to the lock: ipa_suspend_resource_sync().
SuspendVote ==
  /\ TakeWork("suspend")
  /\ worker' = Head(wq)
  /\ votes' = [votes EXCEPT ![Head(wq).res] = @ - 1]
  /\ resumed' = [resumed EXCEPT ![Head(wq).res] = FALSE]
  /\ UNCHANGED <<graphVars, prodVars, consVars, done, bwVars, other,
                 driverOwes, timers, waiter, clientVars, perfVars>>

\* ... and under the lock: ipa_rm_resource_consumer_release_work().
SuspendLocked ==
  /\ worker.kind = "suspend"
  /\ worker' = Idle
  /\ UNCHANGED <<usage, bwVars, prodVars>>
  /\ LET c == worker.res IN
     \/ /\ c \notin exists
        /\ UNCHANGED <<consState, done, driverOwes, waiter, perfVars>>
     \/ \E result \in DriverResults \ {"ERROR"} :
        /\ c \in exists
        /\ consState' = [consState EXCEPT ![c] = ReleasedByCb(c)]
        /\ done' = [done EXCEPT ![c] = TRUE]
        /\ driverOwes' = [driverOwes EXCEPT ![c] =
                            IF result = "INPROGRESS" THEN @ \cup {"RELEASED"} ELSE @]
        /\ SeeGrants(waiter)
        /\ PerfChange({c})
     \/ /\ c \in exists /\ "ERROR" \in DriverResults /\ FewLeaks(c)
        /\ consState' = [consState EXCEPT ![c] = worker.prev]
        /\ SeeGrants(waiter)
        /\ UNCHANGED <<done, driverOwes, perfVars>>
  /\ UNCHANGED <<graphVars, clockVars, other, timers, clientVars, wq>>

\* ipa_rm_wq_handler(), IPA_RM_WQ_NOTIFY_PROD: the listeners are called.
NotifyProducer ==
  /\ TakeWork("notify")
  /\ LET w == Head(wq) IN
     owed' = IF w.res \in exists /\ w.event = "GRANTED"
             THEN [owed EXCEPT ![w.res] = IF w.registeredOnly THEN @ \ {"client"} ELSE {}]
             ELSE owed
  /\ UNCHANGED <<graphVars, prodVars, consVars, done, bwVars, clockVars, other,
                 driverOwes, timers, waiter, listening, worker, perfVars>>

\* ipa_rm_wq_handler(), IPA_RM_WQ_RESOURCE_CB.
ResourceCb ==
  /\ TakeWork("cb")
  /\ LET w == Head(wq) IN
     \/ /\ w.res \in exists /\ w.event = "GRANTED"
        /\ HandleGranted(w.res)
     \/ /\ ~(w.res \in exists /\ w.event = "GRANTED")
        /\ consState' = [consState EXCEPT ![w.res] =
                           IF w.res \in exists THEN ReleasedByCb(w.res) ELSE @]
        /\ UNCHANGED <<resumed, done, prodVars, owed, waiter, bwVars, perfVars>>
  /\ UNCHANGED <<graphVars, usage, votes, other, driverOwes, timers, listening, worker>>

\* ipa_rm_perf_profile_notify_to_ipa_work()
PerfWork ==
  /\ perfQ # <<>>
  /\ perfSet' = Head(perfQ) /\ perfQ' = Tail(perfQ)
  /\ UNCHANGED <<graphVars, prodVars, consVars, done, bwVars, clockVars, other,
                 driverOwes, timers, waiter, clientVars, wq, worker, perfVote, perfOn>>

\* A consumer's driver finishes what it answered -EINPROGRESS to and calls
\* ipa_rm_notify_completion(), from any context and in any order.
NotifyCompletion(c, event) ==
  /\ event \in driverOwes[c]
  /\ driverOwes' = [driverOwes EXCEPT ![c] = @ \ {event}]
  /\ wq' = Append(wq, [kind |-> "cb", res |-> c, event |-> event])
  /\ UNCHANGED <<graphVars, prodVars, consVars, done, bwVars, clockVars, other,
                 timers, waiter, clientVars, worker, perfVars>>

\* Other users of the IPA take and drop clock votes.
OtherVote(n) ==
  /\ n # other
  /\ other' = n
  /\ UNCHANGED <<graphVars, prodVars, consVars, done, bwVars, clockVars, driverOwes,
                 timers, waiter, clientVars, wq, worker, perfVars>>
----------------------------------------------------------------------------
\* ipa_rm_initialize()
Init ==
  /\ exists = Resources \ Dynamic
  /\ dep = [d \in Producers \X Consumers |-> "none"]
  /\ prodState = [p \in Producers |-> "RELEASED"]
  /\ pending = [p \in Producers |-> 0]
  /\ consState = [c \in Consumers |-> "RELEASED"]
  /\ usage = [c \in Consumers |-> 0]
  /\ done = [c \in Consumers |-> FALSE]
  /\ maxBw = [r \in Resources |-> 0] /\ neededBw = [r \in Resources |-> 0]
  /\ votes = [c \in Consumers |-> 0] /\ other = 0
  /\ resumed = [c \in Consumers |-> FALSE]
  /\ driverOwes = [c \in Consumers |-> {}]
  /\ timers = [c \in Consumers |-> 0]
  /\ waiter = [c \in Consumers |-> "none"]
  /\ listening = {} /\ owed = [p \in Producers |-> {}]
  /\ wq = <<>> /\ worker = Idle
  /\ perfVote = [r \in Resources |-> 0] /\ perfOn = {}
  /\ perfQ = <<>> /\ perfSet = Level({}, perfVote)

Client ==
  \/ \E r \in Dynamic : CreateResource(r)
  \/ \E p \in Dynamic \cap Producers : DeleteProducer(p)
  \/ \E c \in Dynamic \cap Consumers : DeleteConsumer(c)
  \/ \E p \in Producers : RequestResource(p) \/ ReleaseResource(p)
  \/ \E p \in Listened : Register(p) \/ Deregister(p)
  \/ \E d \in Dependencies : \/ \E owner \in DepOwners, sync \in SyncCalls :
                                  AddDependency(d[1], d[2], owner, sync)
                             \/ DeleteDependency(d[1], d[2])
  \/ \E c \in Consumers : RequestWithTimer(c) \/ SyncReturn(c)
  \/ \E r \in Resources, bw \in Bandwidths : SetPerfProfile(r, bw)
  \/ \E n \in 0 .. MaxOther : OtherVote(n)

Worker == \/ ResumeVote \/ ResumeLocked \/ SuspendVote \/ SuspendLocked
          \/ NotifyProducer \/ ResourceCb \/ PerfWork
Timer  == \E c \in Consumers : DelayedRelease(c)
Driver == \E c \in Consumers, event \in Events : NotifyCompletion(c, event)

Next == Client \/ Worker \/ Timer \/ Driver

Spec == Init /\ [][Next]_vars
----------------------------------------------------------------------------
(* Properties.                                                             *)

\* Every variable holds a value of its C type.  (usage_count is an int the code
\* decrements without a check on the error path.)
TypeOK ==
  /\ exists \subseteq Resources
  /\ dep \in [Producers \X Consumers -> {"none", "kernel", "user"}]
  /\ prodState \in [Producers -> ProdStates] /\ pending \in [Producers -> Nat]
  /\ consState \in [Consumers -> ConsStates] /\ usage \in [Consumers -> Int]
  /\ done \in [Consumers -> BOOLEAN]
  /\ maxBw \in [Resources -> Bw] /\ neededBw \in [Resources -> Bw]
  /\ votes \in [Consumers -> Int] /\ other \in 0 .. MaxOther
  /\ resumed \in [Consumers -> BOOLEAN]
  /\ driverOwes \in [Consumers -> SUBSET Events]
  /\ timers \in [Consumers -> 0 .. MaxTimers]
  /\ waiter \in [Consumers -> {"none", "blocked", "granted", "early"}]
  /\ listening \subseteq Producers /\ owed \in [Producers -> SUBSET Listeners]
  /\ wq \in Seq(Work) /\ worker \in ResumeWork \cup SuspendWork \cup {Idle}
  /\ perfVote \in [Resources -> Bw] /\ perfOn \subseteq Resources
  /\ perfQ \in Seq(Levels) /\ perfSet \in Levels

\* usage_count is "number of producers in GRANTED / REQUESTED state using this
\* consumer" (ipa_rm_resource.h:66).
UsageCountsUsers == \A c \in Consumers : usage[c] = Cardinality(Users(c))

\* Drivers that fail leave a producer granted whose consumer is not counted, never the
\* reverse: no use outlives its user, so a consumer can always be released.
UsageWithinUsers == \A c \in Consumers : usage[c] <= Cardinality(Users(c))

\* A consumer that a granted or requested producer depends on is itself granted
\* or being requested: no release, late work or late driver event takes it away.
UsedConsumersStay ==
  \A p \in Producers, c \in Consumers :
    p \in Users(c) => consState[c] \in Busy

\* needed_bw of a consumer is the sum over the producers using it, and that of a
\* producer the sum over its dependencies, through every change of profile.
NeededBwAddsUp ==
  /\ \A c \in Consumers \cap exists :
       neededBw[c] = SumFunctionOnSet(maxBw, Users(c)) % BwMod
  /\ \A p \in Producers \cap exists :
       neededBw[p] = SumFunctionOnSet(maxBw, Peers(p)) % BwMod

Queued(kind, c) == Cardinality({i \in DOMAIN wq : wq[i].kind = kind /\ wq[i].res = c})

\* Once the queued resumes and suspends have run, a consumer holds exactly one
\* clock vote if it is in use and none otherwise.
ClockVotesBalance ==
  \A c \in Consumers :
    votes[c] + Queued("resume", c) - Queued("suspend", c)
      = IF consState[c] \in Busy THEN 1 ELSE 0

\* pending_request of a producer being requested counts the consumers it waits
\* for, so the last of them grants it.
PendingCountsWaits ==
  \A p \in Producers :
    prodState[p] = "REQUEST_IN_PROGRESS" =>
      pending[p] = Cardinality({c \in Peers(p) : consState[c] = "REQUEST_IN_PROGRESS"})

\* Even when drivers fail, a producer being requested never waits for more
\* consumers than it depends on.
PendingWithinPeers ==
  \A p \in Producers : prodState[p] = "REQUEST_IN_PROGRESS" =>
    pending[p] <= Cardinality(Peers(p))

\* Whoever is told GRANTED may use every consumer the producer depends on.
GrantedConsumers ==
  \A p \in Producers : prodState[p] = "GRANTED" =>
    \A c \in Peers(p) : consState[c] = "GRANTED"

\* pending_request of a producer is the number of consumers it waits for, and a granted
\* producer has all its consumers granted: ipa_rm_resource_producer_handle_cb() counts
\* each grant once.
GrantsCounted == PendingCountsWaits /\ GrantedConsumers

Quiescent == wq = <<>> /\ worker = Idle

\* When the queue has drained, everybody who has to be told about a grant has
\* been ("All registered callbacks are called with IPA_RM_RESOURCE_GRANTED on
\* successful completion of this operation", ipa_rm.c:396).
GrantsDelivered ==
  Quiescent => \A p \in Producers : prodState[p] = "GRANTED" => owed[p] = {}

\* When the queue has drained, the bandwidth and voltage vote of a settled
\* resource is the one its state calls for, and the IPA clock was last set to
\* the level of the current votes.
PerfVotesSettle ==
  Quiescent =>
    /\ \A r \in exists : State(r) \in {"GRANTED", "RELEASED"} =>
         perfVote[r] = PerfOf(r) /\ (r \in perfOn <=> State(r) \in Busy)
    /\ perfQ = <<>> => perfSet = Level(perfOn, perfVote)

\* The queue thread and every timer and driver, each on its own, make progress.
Fairness == /\ WF_vars(Worker) /\ WF_vars(PerfWork)
            /\ \A c \in Consumers : WF_vars(DelayedRelease(c))
            /\ \A c \in Consumers, event \in Events : WF_vars(NotifyCompletion(c, event))
FairSpec == Spec /\ Fairness

\* A request does not stay in progress for ever, unless its clients never stop
\* to change the dependencies: it is granted or released ("All registered
\* callbacks are called with IPA_RM_RESOURCE_GRANTED on successful completion of
\* this operation", ipa_rm.c:396).
RequestsSettle ==
  \A p \in Producers :
    <>[](prodState[p] = "REQUEST_IN_PROGRESS") => []<><<dep' # dep>>_dep
=============================================================================
