-------------------------- MODULE IpaRmTypeProofs --------------------------
(***************************************************************************)
(* Type correctness of IpaRm: whatever clients, drivers, timers and the    *)
(* work queue do, driver errors included, every variable keeps a value of  *)
(* its C type; in particular the unsigned pending_request never wraps.     *)
(***************************************************************************)
EXTENDS IpaRm, FiniteSetTheorems, SequenceTheorems, TLAPS

\* TypeOK in parts that the actions touch together.
GraphType == /\ exists \subseteq Resources
             /\ dep \in [Producers \X Consumers -> {"none", "kernel", "user"}]
             /\ listening \subseteq Producers
ProdType == /\ prodState \in [Producers -> ProdStates]
            /\ pending \in [Producers -> Nat]
OwedType == owed \in [Producers -> SUBSET Listeners]
ConsType == /\ consState \in [Consumers -> ConsStates]
            /\ usage \in [Consumers -> Int]
            /\ votes \in [Consumers -> Int]
            /\ resumed \in [Consumers -> BOOLEAN]
            /\ done \in [Consumers -> BOOLEAN]
            /\ driverOwes \in [Consumers -> SUBSET Events]
Waiters == [Consumers -> {"none", "blocked", "granted", "early"}]
MiscType == /\ other \in 0 .. MaxOther
            /\ timers \in [Consumers -> 0 .. MaxTimers]
            /\ waiter \in Waiters
BwType == maxBw \in [Resources -> Bw] /\ neededBw \in [Resources -> Bw]
QueueType == wq \in Seq(Work) /\ worker \in ResumeWork \cup SuspendWork \cup {Idle}
PerfType == /\ perfVote \in [Resources -> Bw] /\ perfOn \subseteq Resources
            /\ perfQ \in Seq(Levels) /\ perfSet \in Levels

\* The parts make up TypeOK.
LEMMA TypeParts ==
  TypeOK <=> /\ GraphType /\ ProdType /\ OwedType /\ ConsType
             /\ MiscType /\ BwType /\ QueueType /\ PerfType
BY DEF TypeOK, GraphType, ProdType, OwedType, ConsType, MiscType, BwType,
       QueueType, PerfType, Waiters

\* And after a step.
LEMMA TypePartsNext ==
  ASSUME GraphType', ProdType', OwedType', ConsType', MiscType', BwType', QueueType',
         PerfType'
  PROVE  TypeOK'
BY DEF TypeOK, GraphType, ProdType, OwedType, ConsType, MiscType, BwType,
       QueueType, PerfType, Waiters

\* Sequences built by the queue operations.
LEMMA SeqClosed ==
  ASSUME NEW S
  PROVE  /\ <<>> \in Seq(S)
         /\ \A x \in S : <<x>> \in Seq(S)
         /\ \A s, t \in Seq(S) : s \o t \in Seq(S)
         /\ \A s \in Seq(S), x \in S : Append(s, x) \in Seq(S)
OBVIOUS

\* u32 arithmetic stays within u32.
LEMMA BwClosed ==
  /\ 0 \in Bw
  /\ \A a, b \in Bw : AddBw(a, b) \in Bw /\ SubBw(a, b) \in Bw /\ MinBw(a, b) \in Bw
BY IpaRmAssumption DEF Bw, AddBw, SubBw, MinBw

\* The performance votes are computed from bandwidths.
LEMMA PerfChangeType ==
  ASSUME PerfType, BwType', NEW S, PerfChange(S)
  PROVE  PerfType'
<1>1. \A r \in Resources : PerfOf(r)' \in Bw
  BY BwClosed DEF PerfOf, BwType
<1>2. perfVote' \in [Resources -> Bw] /\ perfOn' \subseteq Resources
  BY <1>1 DEF PerfChange, PerfType
<1>3. Level(perfOn', perfVote') \in Levels
  BY <1>2 DEF Levels
<1>4. perfQ' \in Seq(Levels) /\ perfSet' \in Levels
  BY <1>3 DEF PerfChange, PerfType
<1> QED
  BY <1>2, <1>4 DEF PerfType

\* What the drivers answer keeps the consumers' variables in their types.
LEMMA RequestConsumersType ==
  ASSUME ConsType, NEW C, NEW fast \in SUBSET Consumers, NEW res \in Answers(fast),
         NEW inc \in {0, 1}, RequestConsumers(C, fast, res, inc)
  PROVE  ConsType'
<1>1. \A c \in fast : res[c] \in {"OK", "INPROGRESS", "ERROR"}
  BY IpaRmAssumption DEF Answers
<1>2. \A c \in fast : AfterDriver(c, res[c]) \in ConsStates
  <2> SUFFICES ASSUME NEW c \in fast PROVE AfterDriver(c, res[c]) \in ConsStates
    OBVIOUS
  <2>1. consState[c] \in ConsStates
    BY DEF ConsType
  <2>2. CASE res[c] = "OK"
    BY <2>2 DEF AfterDriver, ConsStates, ProdStates, Busy
  <2>3. CASE res[c] = "INPROGRESS"
    BY <2>3 DEF AfterDriver, ConsStates, ProdStates, Busy
  <2>4. CASE res[c] = "ERROR"
    BY <2>1, <2>4 DEF AfterDriver
  <2> QED
    BY <1>1, <2>2, <2>3, <2>4
<1>3. \A c \in Consumers : RequestedState(c, fast, res) \in ConsStates
  BY <1>2 DEF RequestedState, ConsType, ConsStates, ProdStates, Busy
<1>4. consState' \in [Consumers -> ConsStates]
  BY <1>3 DEF RequestConsumers, ConsType
<1>5. usage' \in [Consumers -> Int] /\ votes' \in [Consumers -> Int]
  BY DEF RequestConsumers, ConsType
<1>6. resumed' \in [Consumers -> BOOLEAN] /\ done' \in [Consumers -> BOOLEAN]
  BY DEF RequestConsumers, ConsType
<1>7. driverOwes' \in [Consumers -> SUBSET Events]
  BY DEF RequestConsumers, ConsType, Events
<1> QED
  BY <1>4, <1>5, <1>6, <1>7 DEF ConsType

\* So does a release.
LEMMA ReleaseConsumersType ==
  ASSUME ConsType, NEW C, NEW dec \in {0, 1}, NEW fast, NEW res,
         ReleaseConsumers(C, dec, fast, res)
  PROVE  ConsType'
<1>1. \A c \in Consumers : ReleasedState(c, C, dec, fast, res) \in ConsStates
  BY DEF ReleasedState, ConsType, ConsStates, ProdStates, Busy
<1>2. \A c \in Consumers : ReleasedUsage(c, dec) \in Int
  BY DEF ReleasedUsage, ConsType
<1>3. consState' \in [Consumers -> ConsStates] /\ usage' \in [Consumers -> Int]
  BY <1>1, <1>2 DEF ReleaseConsumers, ConsType
<1>4. votes' \in [Consumers -> Int]
  BY DEF ReleaseConsumers, ConsType
<1>5. resumed' \in [Consumers -> BOOLEAN] /\ done' \in [Consumers -> BOOLEAN]
  BY DEF ReleaseConsumers, ConsType
<1>6. driverOwes' \in [Consumers -> SUBSET Events]
  BY DEF ReleaseConsumers, ConsType, Events
<1> QED
  BY <1>3, <1>4, <1>5, <1>6 DEF ConsType

\* A waiting thread either sees the grant or goes on waiting.
LEMMA SeeGrantsType ==
  ASSUME NEW w \in Waiters, SeeGrants(w)
  PROVE  waiter' \in Waiters
BY DEF SeeGrants, Waiters

\* The works queued for the consumers of a peers list.
LEMMA WorksType ==
  ASSUME ConsType, NEW S \in SUBSET Consumers, NEW n, NEW order \in [1 .. n -> S], n \in Nat,
         NEW bw \in Bw, NEW inc \in {0, 1}
  PROVE  ResumeWorks(order, bw, inc) \in Seq(Work) /\ SuspendWorks(order) \in Seq(Work)
<1>1. \A i \in 1 .. n : order[i] \in Consumers /\ consState[order[i]] \in ConsStates
  BY DEF ConsType
<1>2. \A i \in 1 .. n :
        /\ [kind |-> "resume", res |-> order[i], prev |-> consState[order[i]],
            bw |-> bw, inc |-> inc] \in Work
        /\ [kind |-> "suspend", res |-> order[i], prev |-> consState[order[i]]] \in Work
  BY <1>1 DEF Work, ResumeWork, SuspendWork
<1>3. ResumeWorks(order, bw, inc) \in [1 .. n -> Work]
      /\ SuspendWorks(order) \in [1 .. n -> Work]
  BY <1>2 DEF ResumeWorks, SuspendWorks
<1> QED
  BY <1>3

\* The same for a set of consumers in the order of the loop.
LEMMA OrderedWorksType ==
  ASSUME ConsType, NEW S \in SUBSET Consumers, NEW order \in Ordered(S),
         NEW bw \in Bw, NEW inc \in {0, 1}
  PROVE  ResumeWorks(order, bw, inc) \in Seq(Work) /\ SuspendWorks(order) \in Seq(Work)
<1>1. Cardinality(S) \in Nat
  BY IpaRmAssumption, FS_Subset, FS_CardinalityType
<1>2. order \in [1 .. Cardinality(S) -> S]
  BY DEF Ordered
<1> QED
  BY <1>1, <1>2, WorksType

\* The same for at most one consumer.
LEMMA OneWorkType ==
  ASSUME ConsType, NEW c \in Consumers, NEW order \in {<<c>>, <<>>},
         NEW bw \in Bw, NEW inc \in {0, 1}
  PROVE  ResumeWorks(order, bw, inc) \in Seq(Work) /\ SuspendWorks(order) \in Seq(Work)
<1>1. <<c>> \in [1 .. 1 -> {c}] /\ <<>> \in [1 .. 0 -> {c}]
  OBVIOUS
<1>2. CASE order = <<c>>
  BY <1>1, <1>2, WorksType
<1>3. CASE order = <<>>
  BY <1>1, <1>3, WorksType
<1> QED
  BY <1>2, <1>3

\* A notification is a work.
LEMMA NotifyType ==
  ASSUME NEW p \in Producers, NEW event \in Events, NEW registeredOnly \in BOOLEAN
  PROVE  Notify(p, event, registeredOnly) \in Work
BY DEF Notify, Work, NotifyWork

\* A count of consumers is a natural number.
LEMMA WaitingCount ==
  ASSUME NEW C \in SUBSET Consumers, NEW fast, NEW res
  PROVE  Cardinality(Waiting(C, fast, res)) \in Nat
BY IpaRmAssumption, FS_Subset, FS_CardinalityType DEF Waiting

\* needed_bw after a request or a release.
LEMMA ConsumersBw ==
  ASSUME BwType, NEW bw \in Bw, NEW C, NEW fast, NEW res
  PROVE  /\ RequestedBw(C, fast, res, bw) \in [Resources -> Bw]
         /\ ReleasedBw(C, bw) \in [Resources -> Bw]
BY BwClosed DEF BwType, RequestedBw, ReleasedBw

\* ipa_rm_request_resource()
LEMMA RequestResourceType ==
  ASSUME TypeOK, NEW p \in Producers, RequestResource(p)
  PROVE  TypeOK'
<1>1. /\ GraphType /\ ProdType /\ OwedType /\ ConsType
      /\ MiscType /\ BwType /\ QueueType /\ PerfType
  BY TypeParts
<1>2. UNCHANGED <<graphVars, other, timers, listening, worker, maxBw>>
  BY DEF RequestResource
<1>3. PICK fast, res :
      LET C == Reached(p, fast, res)
          queued == Asleep(C) \ fast
          pend == Cardinality(Waiting(C, fast, res))
          granted == pend = 0 /\ Failed(fast, res) = {}
      IN
      /\ fast \in SUBSET MayVoteNow(Peers(p)) /\ res \in Answers(fast)
      /\ RequestConsumers(C, fast, res, 1) /\ SeeGrants(waiter)
      /\ neededBw' = RequestedBw(C, fast, res, maxBw[p])
      /\ prodState' = [prodState EXCEPT ![p] = IF granted THEN "GRANTED"
                                               ELSE "REQUEST_IN_PROGRESS"]
      /\ pending' = [pending EXCEPT ![p] = pend]
      /\ \E order \in Ordered(queued) :
           wq' = wq \o ResumeWorks(order, maxBw[p], 1)
                    \o (IF granted THEN RequestNotice(p) ELSE <<>>)
      /\ owed' = [owed EXCEPT ![p] = (IF granted THEN {} ELSE {"creator"})
                    \cup (IF p \in listening THEN {"client"} ELSE {})]
      /\ PerfChange(RequestedPerf(C, fast, res) \cup (IF granted THEN {p} ELSE {}))
  BY DEF RequestResource
<1> DEFINE C == Reached(p, fast, res)
           granted == Cardinality(Waiting(C, fast, res)) = 0 /\ Failed(fast, res) = {}
<1>4. C \in SUBSET Consumers /\ fast \in SUBSET Consumers /\ maxBw[p] \in Bw
  BY <1>1, <1>3 DEF Reached, Peers, MayVoteNow, BwType, Resources
<1>5. ConsType'
  BY <1>1, <1>3, <1>4, RequestConsumersType
<1>6. MiscType'
  BY <1>1, <1>2, <1>3, SeeGrantsType DEF MiscType
<1>7. BwType'
  BY <1>1, <1>2, <1>3, <1>4, ConsumersBw DEF BwType
<1>8. ProdType'
  BY <1>1, <1>3, <1>4, WaitingCount DEF ProdType, ProdStates, Busy
<1>9. OwedType'
  BY <1>1, <1>3 DEF OwedType, Listeners
<1>10. QueueType'
  <2>1. PICK order \in Ordered(Asleep(C) \ fast) :
          wq' = wq \o ResumeWorks(order, maxBw[p], 1)
                   \o (IF granted THEN RequestNotice(p) ELSE <<>>)
    BY <1>3
  <2>2. Asleep(C) \ fast \in SUBSET Consumers
    BY <1>4 DEF Asleep
  <2>3. ResumeWorks(order, maxBw[p], 1) \in Seq(Work)
    BY <1>1, <1>4, <2>2, OrderedWorksType
  <2>4. RequestNotice(p) \in Seq(Work)
    BY NotifyType, SeqClosed DEF RequestNotice, Events
  <2>5. wq' \in Seq(Work)
    BY <1>1, <2>1, <2>3, <2>4, SeqClosed DEF QueueType
  <2> QED
    BY <1>1, <1>2, <2>5 DEF QueueType
<1>11. PerfType'
  BY <1>1, <1>3, <1>7, PerfChangeType
<1>12. GraphType'
  BY <1>1, <1>2 DEF GraphType, graphVars
<1> QED
  BY <1>5, <1>6, <1>7, <1>8, <1>9, <1>10, <1>11, <1>12, TypePartsNext

\* ipa_rm_release_resource()
LEMMA ReleaseResourceType ==
  ASSUME TypeOK, NEW p \in Producers, ReleaseResource(p)
  PROVE  TypeOK'
<1>1. /\ GraphType /\ ProdType /\ OwedType /\ ConsType
      /\ MiscType /\ BwType /\ QueueType /\ PerfType
  BY TypeParts
<1>2. UNCHANGED <<graphVars, pending, other, timers, listening, worker, maxBw>>
  BY DEF ReleaseResource
<1>3. PICK fast, res :
      /\ ReleaseConsumers(Peers(p), 1, fast, res) /\ SeeGrants(waiter)
      /\ neededBw' = ReleasedBw(Peers(p), maxBw[p])
      /\ prodState' = [prodState EXCEPT ![p] = "RELEASED"]
      /\ \E order \in Ordered(Unused(Peers(p), 1) \ fast) :
           wq' = wq \o SuspendWorks(order) \o <<Notify(p, "RELEASED", TRUE)>>
      /\ owed' = [owed EXCEPT ![p] = {}]
      /\ PerfChange(ReleasedPerf(Peers(p), 1, fast, res) \cup {p})
  BY DEF ReleaseResource
<1>4. Peers(p) \in SUBSET Consumers /\ maxBw[p] \in Bw
  BY <1>1 DEF Peers, BwType, Resources
<1>5. ConsType'
  BY <1>1, <1>3, ReleaseConsumersType
<1>6. MiscType'
  BY <1>1, <1>2, <1>3, SeeGrantsType DEF MiscType
<1>7. BwType'
  BY <1>1, <1>2, <1>3, <1>4, ConsumersBw DEF BwType
<1>8. ProdType' /\ OwedType'
  BY <1>1, <1>2, <1>3 DEF ProdType, OwedType, ProdStates
<1>9. QueueType'
  <2>1. PICK order \in Ordered(Unused(Peers(p), 1) \ fast) :
          wq' = wq \o SuspendWorks(order) \o <<Notify(p, "RELEASED", TRUE)>>
    BY <1>3
  <2>2. Unused(Peers(p), 1) \ fast \in SUBSET Consumers
    BY <1>4 DEF Unused
  <2>3. SuspendWorks(order) \in Seq(Work)
    BY <1>1, <1>4, <2>2, OrderedWorksType
  <2>4. <<Notify(p, "RELEASED", TRUE)>> \in Seq(Work)
    BY NotifyType, SeqClosed DEF Events
  <2>5. wq' \in Seq(Work)
    BY <1>1, <2>1, <2>3, <2>4, SeqClosed DEF QueueType
  <2> QED
    BY <1>1, <1>2, <2>5 DEF QueueType
<1>10. PerfType'
  BY <1>1, <1>3, <1>7, PerfChangeType
<1>11. GraphType'
  BY <1>1, <1>2 DEF GraphType, graphVars
<1> QED
  BY <1>5, <1>6, <1>7, <1>8, <1>9, <1>10, <1>11, TypePartsNext

\* ipa_rm_add_dependency() and its synchronous variant
LEMMA AddDependencyType ==
  ASSUME TypeOK, NEW p \in Producers, NEW c \in Consumers,
         NEW owner \in {"kernel", "user"}, NEW sync, AddDependency(p, c, owner, sync)
  PROVE  TypeOK'
<1>1. /\ GraphType /\ ProdType /\ OwedType /\ ConsType
      /\ MiscType /\ BwType /\ QueueType /\ PerfType
  BY TypeParts
<1>2. UNCHANGED <<exists, other, timers, listening, owed, worker, maxBw>>
      /\ dep' = [dep EXCEPT ![<<p, c>>] = owner]
  BY DEF AddDependency, clientVars
<1>3. GraphType' /\ OwedType'
  BY <1>1, <1>2 DEF GraphType, OwedType
<1>4. maxBw[p] \in Bw /\ maxBw[c] \in Bw
  BY <1>1 DEF BwType, Resources
<1>5. CASE prodState[p] = "RELEASED"
  <2>1. /\ neededBw' = [neededBw EXCEPT ![p] = AddBw(neededBw[p], maxBw[c])]
        /\ UNCHANGED <<prodVars, consVars, clockVars, done, driverOwes, waiter, wq, perfVars>>
    BY <1>5 DEF AddDependency, Busy
  <2>2. BwType'
    BY <1>1, <1>2, <1>4, <2>1, BwClosed DEF BwType, Resources
  <2>3. ProdType' /\ ConsType' /\ MiscType' /\ QueueType' /\ PerfType'
    BY <1>1, <1>2, <2>1 DEF ProdType, ConsType, MiscType, QueueType, PerfType,
                            prodVars, consVars, clockVars, perfVars
  <2> QED
    BY <1>3, <2>2, <2>3, TypePartsNext
<1>6. CASE prodState[p] # "RELEASED"
  <2>1. PICK fast, res :
        LET inProgress == Waiting({c}, fast, res) # {} IN
        /\ fast \in SUBSET MayVoteNow({c}) /\ res \in Answers(fast)
        /\ RequestConsumers({c}, fast, res, 1)
        /\ SeeGrants(IF sync /\ inProgress THEN [waiter EXCEPT ![c] = "blocked"]
                                           ELSE waiter)
        /\ neededBw' = [RequestedBw({c}, fast, res, maxBw[p])
                          EXCEPT ![p] = AddBw(@, maxBw[c])]
        /\ prodState' = [prodState EXCEPT ![p] =
                           IF inProgress THEN "REQUEST_IN_PROGRESS" ELSE @]
        /\ pending' = [pending EXCEPT ![p] = IF inProgress THEN @ + 1 ELSE @]
        /\ wq' = wq \o ResumeWorks(IF c \in Asleep({c}) \ fast THEN <<c>> ELSE <<>>,
                                   maxBw[p], 1)
        /\ PerfChange(RequestedPerf({c}, fast, res)
                        \cup (IF inProgress THEN {} ELSE {p}))
    BY <1>6 DEF AddDependency
  <2> DEFINE inProgress == Waiting({c}, fast, res) # {}
             w == IF sync /\ inProgress THEN [waiter EXCEPT ![c] = "blocked"] ELSE waiter
             order == IF c \in Asleep({c}) \ fast THEN <<c>> ELSE <<>>
  <2>2. fast \in SUBSET Consumers
    BY <2>1 DEF MayVoteNow
  <2>3. ConsType'
    BY <1>1, <2>1, <2>2, RequestConsumersType
  <2>4. w \in Waiters
    BY <1>1, <2>1 DEF MiscType, Waiters
  <2>5. MiscType'
    BY <1>1, <1>2, <2>1, <2>4, SeeGrantsType DEF MiscType
  <2>6. RequestedBw({c}, fast, res, maxBw[p]) \in [Resources -> Bw]
    BY <1>1, <1>4, ConsumersBw
  <2>7. BwType'
    BY <1>1, <1>2, <1>4, <2>1, <2>6, BwClosed DEF BwType, Resources
  <2>8. ProdType'
    BY <1>1, <2>1 DEF ProdType, ProdStates, Busy
  <2>9. ResumeWorks(order, maxBw[p], 1) \in Seq(Work)
    BY <1>1, <1>4, OneWorkType
  <2>10. QueueType'
    BY <1>1, <1>2, <2>1, <2>9, SeqClosed DEF QueueType
  <2>11. PerfType'
    BY <1>1, <2>1, <2>7, PerfChangeType
  <2> QED
    BY <1>3, <2>3, <2>5, <2>7, <2>8, <2>10, <2>11, TypePartsNext
<1> QED
  BY <1>5, <1>6

\* ipa_rm_delete_dependency()
LEMMA DeleteDependencyType ==
  ASSUME TypeOK, NEW p \in Producers, NEW c \in Consumers, DeleteDependency(p, c)
  PROVE  TypeOK'
<1>1. /\ GraphType /\ ProdType /\ OwedType /\ ConsType
      /\ MiscType /\ BwType /\ QueueType /\ PerfType
  BY TypeParts
<1>2. UNCHANGED <<exists, other, timers, listening, owed, worker, maxBw>>
      /\ dep' = [dep EXCEPT ![<<p, c>>] = "none"]
  BY DEF DeleteDependency, clientVars
<1>3. GraphType' /\ OwedType'
  BY <1>1, <1>2 DEF GraphType, OwedType
<1>4. maxBw[p] \in Bw /\ maxBw[c] \in Bw
  BY <1>1 DEF BwType, Resources
<1>5. CASE prodState[p] = "RELEASED"
  <2>1. /\ neededBw' = [neededBw EXCEPT ![p] = SubBw(neededBw[p], maxBw[c])]
        /\ UNCHANGED <<prodVars, consVars, clockVars, done, driverOwes, waiter, wq, perfVars>>
    BY <1>5 DEF DeleteDependency, Busy
  <2>2. BwType'
    BY <1>1, <1>2, <1>4, <2>1, BwClosed DEF BwType, Resources
  <2>3. ProdType' /\ ConsType' /\ MiscType' /\ QueueType' /\ PerfType'
    BY <1>1, <1>2, <2>1 DEF ProdType, ConsType, MiscType, QueueType, PerfType,
                            prodVars, consVars, clockVars, perfVars
  <2> QED
    BY <1>3, <2>2, <2>3, TypePartsNext
<1>6. CASE prodState[p] # "RELEASED"
  <2>1. PICK fast, res :
        LET granted == GrantedByDelete(p, c)
            suspend == c \in Unused({c}, 1) \ fast
        IN
        /\ ReleaseConsumers({c}, 1, fast, res) /\ SeeGrants(waiter)
        /\ neededBw' = [ReleasedBw({c}, maxBw[p]) EXCEPT ![p] = SubBw(@, maxBw[c])]
        /\ prodState' = [prodState EXCEPT ![p] = IF granted THEN "GRANTED" ELSE @]
        /\ pending' = [pending EXCEPT ![p] = PendingAfterDelete(p)]
        /\ wq' = wq \o (IF granted THEN DeleteNotice(p) ELSE <<>>)
                    \o SuspendWorks(IF suspend THEN <<c>> ELSE <<>>)
        /\ PerfChange(ReleasedPerf({c}, 1, fast, res)
              \cup (IF granted \/ prodState[p] = "GRANTED" THEN {p} ELSE {}))
    BY <1>6 DEF DeleteDependency
  <2> DEFINE order == IF c \in Unused({c}, 1) \ fast THEN <<c>> ELSE <<>>
  <2>2. ConsType'
    BY <1>1, <2>1, ReleaseConsumersType
  <2>3. MiscType'
    BY <1>1, <1>2, <2>1, SeeGrantsType DEF MiscType
  <2>4. ReleasedBw({c}, maxBw[p]) \in [Resources -> Bw]
    BY <1>1, <1>4, ConsumersBw
  <2>5. BwType'
    BY <1>1, <1>2, <1>4, <2>1, <2>4, BwClosed DEF BwType, Resources
  <2>6. ProdType'
    BY <1>1, <2>1 DEF ProdType, ProdStates, Busy, PendingAfterDelete
  <2>7. SuspendWorks(order) \in Seq(Work)
    BY <1>1, <1>4, OneWorkType
  <2>8. DeleteNotice(p) \in Seq(Work)
    BY NotifyType, SeqClosed DEF DeleteNotice, Events
  <2>9. QueueType'
    BY <1>1, <1>2, <2>1, <2>7, <2>8, SeqClosed DEF QueueType
  <2>10. PerfType'
    BY <1>1, <2>1, <2>5, PerfChangeType
  <2> QED
    BY <1>3, <2>2, <2>3, <2>5, <2>6, <2>9, <2>10, TypePartsNext
<1> QED
  BY <1>5, <1>6

\* ipa_rm_request_resource_with_timer()
LEMMA RequestWithTimerType ==
  ASSUME TypeOK, NEW c \in Consumers, RequestWithTimer(c)
  PROVE  TypeOK'
<1>1. /\ GraphType /\ ProdType /\ OwedType /\ ConsType
      /\ MiscType /\ BwType /\ QueueType /\ PerfType
  BY TypeParts
<1>2. UNCHANGED <<graphVars, prodVars, other, clientVars, worker, bwVars>> /\ timers[c] < MaxTimers
  BY DEF RequestWithTimer
<1>3. GraphType' /\ ProdType' /\ OwedType' /\ BwType'
  BY <1>1, <1>2 DEF GraphType, ProdType, OwedType, BwType, graphVars, prodVars,
                    clientVars, bwVars
<1>4. timers' \in [Consumers -> 0 .. MaxTimers]
  <2>1. \/ timers' = [timers EXCEPT ![c] = timers[c] + 1]
        \/ timers' = [timers EXCEPT ![c] = timers[c]]
    BY DEF RequestWithTimer
  <2> QED
    BY <1>1, <1>2, <2>1, IpaRmAssumption DEF MiscType
<1>5. \E S : PerfChange(S)
  BY DEF RequestWithTimer
<1>6. PerfType'
  BY <1>1, <1>3, <1>5, PerfChangeType
<1>7. CASE consState[c] = "GRANTED"
  <2>1. PICK result \in DriverResults :
          /\ resumed' = [resumed EXCEPT ![c] = @ \/ result = "OK"]
          /\ driverOwes' = [driverOwes EXCEPT ![c] =
                              IF result = "INPROGRESS" THEN @ \cup {"GRANTED"} ELSE @]
          /\ UNCHANGED <<consVars, votes, done, waiter, wq>>
    BY <1>7 DEF RequestWithTimer
  <2>2. ConsType'
    BY <1>1, <2>1 DEF ConsType, consVars, Events
  <2>3. MiscType' /\ QueueType'
    BY <1>1, <1>2, <1>4, <2>1 DEF MiscType, QueueType
  <2> QED
    BY <1>3, <1>6, <2>2, <2>3, TypePartsNext
<1>8. CASE consState[c] # "GRANTED"
  <2>1. PICK fast, res :
          /\ fast \in SUBSET MayVoteNow({c}) /\ res \in Answers(fast)
          /\ RequestConsumers({c}, fast, res, 0) /\ SeeGrants(waiter)
          /\ wq' = wq \o ResumeWorks(IF c \in Asleep({c}) \ fast THEN <<c>> ELSE <<>>, 0, 0)
    BY <1>8 DEF RequestWithTimer
  <2>2. fast \in SUBSET Consumers
    BY <2>1 DEF MayVoteNow
  <2>3. ConsType'
    BY <1>1, <2>1, <2>2, RequestConsumersType
  <2>4. MiscType'
    BY <1>1, <1>2, <1>4, <2>1, SeeGrantsType DEF MiscType
  <2>5. ResumeWorks(IF c \in Asleep({c}) \ fast THEN <<c>> ELSE <<>>, 0, 0) \in Seq(Work)
    BY <1>1, BwClosed, OneWorkType
  <2>6. QueueType'
    BY <1>1, <1>2, <2>1, <2>5, SeqClosed DEF QueueType
  <2> QED
    BY <1>3, <1>6, <2>3, <2>4, <2>6, TypePartsNext
<1> QED
  BY <1>7, <1>8

\* delayed_release_work_func()
LEMMA DelayedReleaseType ==
  ASSUME TypeOK, NEW c \in Consumers, DelayedRelease(c)
  PROVE  TypeOK'
<1>1. /\ GraphType /\ ProdType /\ OwedType /\ ConsType
      /\ MiscType /\ BwType /\ QueueType /\ PerfType
  BY TypeParts
<1>2. UNCHANGED <<graphVars, prodVars, other, clientVars, worker, bwVars>>
      /\ timers[c] > 0 /\ timers' = [timers EXCEPT ![c] = @ - 1]
  BY DEF DelayedRelease
<1>3. GraphType' /\ ProdType' /\ OwedType' /\ BwType'
  BY <1>1, <1>2 DEF GraphType, ProdType, OwedType, BwType, graphVars, prodVars,
                    clientVars, bwVars
<1>4. PICK fast, res :
        /\ ReleaseConsumers({c} \cap exists, 0, fast, res) /\ SeeGrants(waiter)
        /\ wq' = wq \o SuspendWorks(IF c \in Unused({c} \cap exists, 0) \ fast
                                    THEN <<c>> ELSE <<>>)
        /\ PerfChange(ReleasedPerf({c} \cap exists, 0, fast, res))
  BY DEF DelayedRelease
<1>5. ConsType'
  BY <1>1, <1>4, ReleaseConsumersType
<1>6. MiscType'
  BY <1>1, <1>2, <1>4, SeeGrantsType, IpaRmAssumption DEF MiscType
<1>7. SuspendWorks(IF c \in Unused({c} \cap exists, 0) \ fast THEN <<c>> ELSE <<>>) \in Seq(Work)
  BY <1>1, BwClosed, OneWorkType
<1>8. QueueType'
  BY <1>1, <1>2, <1>4, <1>7, SeqClosed DEF QueueType
<1>9. PerfType'
  BY <1>1, <1>3, <1>4, PerfChangeType
<1> QED
  BY <1>3, <1>5, <1>6, <1>8, <1>9, TypePartsNext

\* ipa_rm_create_resource()
LEMMA CreateType ==
  ASSUME TypeOK, NEW r \in Resources, CreateResource(r)
  PROVE  TypeOK'
<1>1. /\ GraphType /\ ProdType /\ OwedType /\ ConsType
      /\ MiscType /\ BwType /\ QueueType /\ PerfType
  BY TypeParts
<1>2. GraphType' /\ MiscType' /\ QueueType' /\ PerfType'
  BY <1>1 DEF CreateResource, GraphType, MiscType, QueueType, PerfType, perfVars
<1>3. BwType'
  BY <1>1, BwClosed DEF CreateResource, BwType
<1>4. ProdType' /\ OwedType'
  BY <1>1 DEF CreateResource, ProdType, OwedType, prodVars, ProdStates
<1>5. ConsType'
  <2>1. consState' \in [Consumers -> ConsStates] /\ usage' \in [Consumers -> Int]
    BY <1>1 DEF CreateResource, ConsType, consVars, ConsStates, ProdStates
  <2>2. done' \in [Consumers -> BOOLEAN]
    BY <1>1 DEF CreateResource, ConsType
  <2> QED
    BY <1>1, <2>1, <2>2 DEF CreateResource, ConsType, clockVars
<1> QED
  BY <1>2, <1>3, <1>4, <1>5, TypePartsNext

\* ipa_rm_delete_resource()
LEMMA DeleteType ==
  ASSUME TypeOK, NEW r \in Resources,
         (r \in Producers /\ DeleteProducer(r)) \/ (r \in Consumers /\ DeleteConsumer(r))
  PROVE  TypeOK'
<1>1. /\ GraphType /\ ProdType /\ OwedType /\ ConsType
      /\ MiscType /\ BwType /\ QueueType /\ PerfType
  BY TypeParts
<1>2. CASE r \in Producers /\ DeleteProducer(r)
  <2>1. BwType' /\ ConsType' /\ MiscType'
    BY <1>1, <1>2 DEF DeleteProducer, BwType, bwVars, ConsType, consVars, clockVars, MiscType
  <2>2. GraphType' /\ ProdType' /\ OwedType'
    BY <1>1, <1>2 DEF DeleteProducer, GraphType, ProdType, OwedType, ProdStates
  <2>3. Notify(r, "RELEASED", TRUE) \in Work
    BY <1>2, NotifyType DEF Events
  <2>4. QueueType'
    BY <1>1, <1>2, <2>3, SeqClosed DEF DeleteProducer, QueueType
  <2>5. PerfType'
    BY <1>1, <1>2, <2>1, PerfChangeType DEF DeleteProducer
  <2> QED
    BY <2>1, <2>2, <2>4, <2>5, TypePartsNext
<1>3. CASE r \in Consumers /\ DeleteConsumer(r)
  <2>1. GraphType' /\ ProdType' /\ OwedType' /\ ConsType'
    BY <1>1, <1>3 DEF DeleteConsumer, GraphType, ProdType, OwedType, ConsType,
                      prodVars, consVars, clockVars, clientVars
  <2>2. MiscType' /\ BwType' /\ QueueType' /\ PerfType'
    BY <1>1, <1>3 DEF DeleteConsumer, MiscType, BwType, QueueType, PerfType, bwVars, perfVars
  <2> QED
    BY <2>1, <2>2, TypePartsNext
<1> QED
  BY <1>2, <1>3

\* ipa_rm_register(), ipa_rm_deregister(), a return from the synchronous wait,
\* and the clock votes of others
LEMMA CallersType ==
  ASSUME TypeOK,
         \/ \E p \in Producers : Register(p) \/ Deregister(p)
         \/ \E c \in Consumers : SyncReturn(c)
         \/ \E n \in 0 .. MaxOther : OtherVote(n)
  PROVE  TypeOK'
<1>1. /\ GraphType /\ ProdType /\ OwedType /\ ConsType
      /\ MiscType /\ BwType /\ QueueType /\ PerfType
  BY TypeParts
<1>2. CASE \E p \in Producers : Register(p) \/ Deregister(p)
  <2>1. UNCHANGED <<exists, dep, prodVars, consVars, done, bwVars, clockVars, other,
                    driverOwes, timers, waiter, wq, worker, perfVars>>
    BY <1>2 DEF Register, Deregister, graphVars
  <2>2. listening' \subseteq Producers /\ owed' \in [Producers -> SUBSET Listeners]
    BY <1>1, <1>2 DEF Register, Deregister, GraphType, OwedType
  <2> QED
    BY <1>1, <2>1, <2>2, TypePartsNext
    DEF GraphType, ProdType, OwedType, ConsType, MiscType, BwType, QueueType,
        PerfType, prodVars, consVars, bwVars, clockVars, perfVars
<1>3. CASE \E c \in Consumers : SyncReturn(c)
  <2>1. UNCHANGED <<graphVars, prodVars, consVars, done, bwVars, clockVars, other,
                    driverOwes, timers, clientVars, wq, worker, perfVars>>
    BY <1>3 DEF SyncReturn
  <2>2. waiter' \in Waiters
    BY <1>1, <1>3 DEF SyncReturn, MiscType, Waiters
  <2> QED
    BY <1>1, <2>1, <2>2, TypePartsNext
    DEF GraphType, ProdType, OwedType, ConsType, MiscType, BwType, QueueType,
        PerfType, graphVars, prodVars, consVars, bwVars, clockVars, clientVars, perfVars
<1>4. CASE \E n \in 0 .. MaxOther : OtherVote(n)
  BY <1>1, <1>4, TypePartsNext
  DEF OtherVote, GraphType, ProdType, OwedType, ConsType, MiscType, BwType, QueueType,
      PerfType, graphVars, prodVars, consVars, bwVars, clockVars, clientVars, perfVars
<1> QED
  BY <1>2, <1>3, <1>4

\* ipa_rm_set_perf_profile()
LEMMA SetPerfProfileType ==
  ASSUME TypeOK, NEW r \in Resources, NEW bw \in Bandwidths, SetPerfProfile(r, bw)
  PROVE  TypeOK'
<1>1. /\ GraphType /\ ProdType /\ OwedType /\ ConsType
      /\ MiscType /\ BwType /\ QueueType /\ PerfType
  BY TypeParts
<1>2. bw \in Bw
  BY IpaRmAssumption DEF Bw
<1>3. BwType'
  <2>1. \A s \in Resources : AddBw(SubBw(neededBw[s], maxBw[r]), bw) \in Bw
    BY <1>1, <1>2, BwClosed DEF BwType
  <2> QED
    BY <1>1, <1>2, <2>1 DEF SetPerfProfile, BwType
<1>4. PerfType'
  BY <1>1, <1>3, PerfChangeType DEF SetPerfProfile
<1> QED
  BY <1>1, <1>3, <1>4, TypePartsNext
  DEF SetPerfProfile, GraphType, ProdType, OwedType, ConsType, MiscType, QueueType,
      graphVars, prodVars, consVars, clockVars, clientVars

\* ipa_rm_resource_consumer_handle_cb() for GRANTED
LEMMA HandleGrantedType ==
  ASSUME ProdType, OwedType, ConsType, MiscType, BwType, PerfType,
         NEW c, HandleGranted(c)
  PROVE  /\ ProdType' /\ OwedType' /\ BwType' /\ PerfType' /\ waiter' \in Waiters
         /\ consState' \in [Consumers -> ConsStates]
         /\ resumed' \in [Consumers -> BOOLEAN] /\ done' \in [Consumers -> BOOLEAN]
<1>1. CASE consState[c] = "REQUEST_IN_PROGRESS"
  <2>1. ProdType'
    BY <1>1 DEF HandleGranted, ProdType, LastPending, WaitingFor, ProdStates, Busy
  <2>2. OwedType'
    BY <1>1 DEF HandleGranted, OwedType
  <2>3. consState' \in [Consumers -> ConsStates]
    BY <1>1 DEF HandleGranted, ConsType, ConsStates, ProdStates, Busy
  <2>4. resumed' \in [Consumers -> BOOLEAN] /\ done' \in [Consumers -> BOOLEAN]
    BY <1>1 DEF HandleGranted, ConsType
  <2>5. BwType'
    BY <1>1 DEF HandleGranted, BwType, bwVars
  <2>6. PerfType'
    BY <1>1, <2>5, PerfChangeType DEF HandleGranted
  <2>7. waiter' \in Waiters
    BY <1>1, SeeGrantsType DEF HandleGranted, MiscType
  <2> QED
    BY <2>1, <2>2, <2>3, <2>4, <2>5, <2>6, <2>7
<1>2. CASE consState[c] # "REQUEST_IN_PROGRESS"
  BY <1>2 DEF HandleGranted, ProdType, OwedType, ConsType, MiscType, BwType, PerfType,
              prodVars, bwVars, perfVars
<1> QED
  BY <1>1, <1>2

\* The next work of the queue is one the thread can run.
LEMMA HeadType ==
  ASSUME QueueType, wq # <<>>
  PROVE  /\ Head(wq) \in Work /\ Tail(wq) \in Seq(Work)
         /\ Head(wq).kind = "resume" => Head(wq) \in ResumeWork
         /\ Head(wq).kind = "suspend" => Head(wq) \in SuspendWork
         /\ Head(wq).kind = "notify" => Head(wq) \in NotifyWork
         /\ Head(wq).kind = "cb" => Head(wq) \in CbWork
<1>1. Head(wq) \in Work /\ Tail(wq) \in Seq(Work)
  BY DEF QueueType
<1>2. \A w \in Work :
        /\ w.kind = "resume" => w \in ResumeWork
        /\ w.kind = "suspend" => w \in SuspendWork
        /\ w.kind = "notify" => w \in NotifyWork
        /\ w.kind = "cb" => w \in CbWork
  BY DEF Work, ResumeWork, SuspendWork, NotifyWork, CbWork
<1> QED
  BY <1>1, <1>2

\* The handlers up to the lock
LEMMA VoteType ==
  ASSUME TypeOK, ResumeVote \/ SuspendVote
  PROVE  TypeOK'
<1>1. /\ GraphType /\ ProdType /\ OwedType /\ ConsType
      /\ MiscType /\ BwType /\ QueueType /\ PerfType
  BY TypeParts
<1>2. UNCHANGED <<graphVars, prodVars, consVars, done, bwVars, other, driverOwes, timers,
                  waiter, clientVars, perfVars>>
  BY DEF ResumeVote, SuspendVote
<1>3. votes' \in [Consumers -> Int] /\ resumed' \in [Consumers -> BOOLEAN]
  <2>1. votes' \in [Consumers -> Int]
    BY <1>1 DEF ResumeVote, SuspendVote, ConsType
  <2>2. resumed' \in [Consumers -> BOOLEAN]
    BY <1>1 DEF ResumeVote, SuspendVote, ConsType
  <2> QED
    BY <2>1, <2>2
<1>4. QueueType'
  <2>1. wq # <<>> /\ wq' = Tail(wq) /\ worker' = Head(wq)
        /\ Head(wq).kind \in {"resume", "suspend"}
    BY DEF ResumeVote, SuspendVote, TakeWork
  <2> QED
    BY <1>1, <2>1, HeadType DEF QueueType
<1> QED
  BY <1>1, <1>2, <1>3, <1>4, TypePartsNext
  DEF GraphType, ProdType, OwedType, ConsType, MiscType, BwType, PerfType,
      graphVars, prodVars, consVars, bwVars, clientVars, perfVars

\* ipa_rm_wq_resume_handler() under the lock
LEMMA ResumeLockedType ==
  ASSUME TypeOK, ResumeLocked
  PROVE  TypeOK'
<1>1. /\ GraphType /\ ProdType /\ OwedType /\ ConsType
      /\ MiscType /\ BwType /\ QueueType /\ PerfType
  BY TypeParts
<1>2. UNCHANGED <<graphVars, other, timers, listening, wq>> /\ worker' = Idle
  BY DEF ResumeLocked
<1>3. GraphType' /\ QueueType'
  BY <1>1, <1>2 DEF GraphType, QueueType, graphVars
<1>4. worker \in ResumeWork
  BY <1>1 DEF ResumeLocked, QueueType, SuspendWork, Idle
<1> DEFINE c == worker.res
<1>5. c \in Consumers /\ worker.prev \in ConsStates /\ worker.bw \in Bw /\ worker.inc \in {0, 1}
  BY <1>4 DEF ResumeWork
<1>6. CASE /\ votes' = [votes EXCEPT ![c] = @ - 1]
           /\ UNCHANGED <<prodVars, consVars, done, bwVars, resumed, driverOwes, waiter,
                          owed, perfVars>>
  <2>0. votes' \in [Consumers -> Int]
    <3> HIDE DEF c
    <3> QED
      BY <1>1, <1>5, <1>6 DEF ConsType
  <2>1. ConsType'
    BY <1>1, <1>6, <2>0 DEF ConsType, consVars
  <2> QED
    BY <1>1, <1>2, <1>3, <1>6, <2>1, TypePartsNext
    DEF ProdType, OwedType, MiscType, BwType, PerfType, prodVars, bwVars, perfVars
<1>7. CASE HandleGranted(c) /\ UNCHANGED <<usage, votes, driverOwes>>
  <2>1. /\ ProdType' /\ OwedType' /\ BwType' /\ PerfType' /\ waiter' \in Waiters
        /\ consState' \in [Consumers -> ConsStates]
        /\ resumed' \in [Consumers -> BOOLEAN] /\ done' \in [Consumers -> BOOLEAN]
    BY <1>1, <1>7, HandleGrantedType
  <2> QED
    BY <1>1, <1>2, <1>3, <1>7, <2>1, TypePartsNext DEF ConsType, MiscType
<1>8. CASE /\ driverOwes' = [driverOwes EXCEPT ![c] = @ \cup {"GRANTED"}]
           /\ UNCHANGED <<prodVars, consVars, done, bwVars, clockVars, waiter, owed, perfVars>>
  <2>1. ConsType'
    BY <1>1, <1>8 DEF ConsType, consVars, clockVars, Events
  <2> QED
    BY <1>1, <1>2, <1>3, <1>8, <2>1, TypePartsNext
    DEF ProdType, OwedType, MiscType, BwType, PerfType, prodVars, bwVars, perfVars
<1>9. CASE /\ consState' = [consState EXCEPT ![c] = worker.prev]
           /\ usage' = [usage EXCEPT ![c] = @ - worker.inc]
           /\ neededBw' = [neededBw EXCEPT ![c] = SubBw(@, worker.bw)]
           /\ SeeGrants(waiter)
           /\ UNCHANGED <<maxBw, prodVars, done, clockVars, driverOwes, owed, perfVars>>
  <2>1. ConsType'
    BY <1>1, <1>5, <1>9 DEF ConsType, clockVars
  <2>2. BwType'
    BY <1>1, <1>5, <1>9, BwClosed DEF BwType, Resources
  <2>3. MiscType'
    BY <1>1, <1>2, <1>9, SeeGrantsType DEF MiscType
  <2> QED
    BY <1>1, <1>3, <1>9, <2>1, <2>2, <2>3, TypePartsNext
    DEF ProdType, OwedType, PerfType, prodVars, perfVars
<1> QED
  BY <1>6, <1>7, <1>8, <1>9 DEF ResumeLocked

\* ipa_rm_wq_suspend_handler() under the lock
LEMMA SuspendLockedType ==
  ASSUME TypeOK, SuspendLocked
  PROVE  TypeOK'
<1>1. /\ GraphType /\ ProdType /\ OwedType /\ ConsType
      /\ MiscType /\ BwType /\ QueueType /\ PerfType
  BY TypeParts
<1>2. UNCHANGED <<usage, bwVars, prodVars, graphVars, clockVars, other, timers, clientVars, wq>>
      /\ worker' = Idle
  BY DEF SuspendLocked
<1>3. GraphType' /\ QueueType' /\ ProdType' /\ OwedType' /\ BwType'
  BY <1>1, <1>2 DEF GraphType, QueueType, ProdType, OwedType, BwType, graphVars,
                    clientVars, prodVars, bwVars
<1>4. worker \in SuspendWork
  BY <1>1 DEF SuspendLocked, QueueType, ResumeWork, Idle
<1> DEFINE c == worker.res
<1>5. c \in Consumers /\ worker.prev \in ConsStates
  BY <1>4 DEF SuspendWork
<1>6. CASE UNCHANGED <<consState, done, driverOwes, waiter, perfVars>>
  BY <1>1, <1>2, <1>3, <1>6, TypePartsNext
  DEF ConsType, MiscType, PerfType, clockVars, perfVars
<1>7. CASE \E result \in DriverResults \ {"ERROR"} :
           /\ consState' = [consState EXCEPT ![c] = ReleasedByCb(c)]
           /\ done' = [done EXCEPT ![c] = TRUE]
           /\ driverOwes' = [driverOwes EXCEPT ![c] =
                               IF result = "INPROGRESS" THEN @ \cup {"RELEASED"} ELSE @]
           /\ SeeGrants(waiter)
           /\ PerfChange({c})
  <2>1. consState' \in [Consumers -> ConsStates]
    BY <1>1, <1>5, <1>7 DEF ConsType, ReleasedByCb, ConsStates, ProdStates
  <2>2. done' \in [Consumers -> BOOLEAN]
    BY <1>1, <1>7 DEF ConsType
  <2>3. driverOwes' \in [Consumers -> SUBSET Events]
    <3>1. PICK result : driverOwes' = [driverOwes EXCEPT ![c] =
                          IF result = "INPROGRESS" THEN @ \cup {"RELEASED"} ELSE @]
      BY <1>7
    <3> DEFINE now == IF result = "INPROGRESS" THEN driverOwes[c] \cup {"RELEASED"}
                                               ELSE driverOwes[c]
    <3>2. now \in SUBSET Events
      BY <1>1, <1>5 DEF ConsType, Events
    <3>3. driverOwes' = [driverOwes EXCEPT ![c] = now]
      BY <3>1
    <3> HIDE DEF now
    <3> QED
      BY <1>1, <1>5, <3>2, <3>3 DEF ConsType
  <2>4. MiscType'
    BY <1>1, <1>2, <1>7, SeeGrantsType DEF MiscType
  <2>5. PerfType'
    BY <1>1, <1>3, <1>7, PerfChangeType
  <2> QED
    BY <1>1, <1>2, <1>3, <2>1, <2>2, <2>3, <2>4, <2>5, TypePartsNext DEF ConsType, clockVars
<1>8. CASE /\ consState' = [consState EXCEPT ![c] = worker.prev]
           /\ SeeGrants(waiter)
           /\ UNCHANGED <<done, driverOwes, perfVars>>
  <2>1. ConsType'
    BY <1>1, <1>2, <1>5, <1>8 DEF ConsType, clockVars
  <2>2. MiscType'
    BY <1>1, <1>2, <1>8, SeeGrantsType DEF MiscType
  <2> QED
    BY <1>1, <1>3, <1>8, <2>1, <2>2, TypePartsNext DEF PerfType, perfVars
<1> QED
  BY <1>6, <1>7, <1>8 DEF SuspendLocked

\* ipa_rm_wq_handler(), the performance work and ipa_rm_notify_completion()
LEMMA WqType ==
  ASSUME TypeOK,
         \/ NotifyProducer \/ ResourceCb \/ PerfWork
         \/ \E c \in Consumers, event \in Events : NotifyCompletion(c, event)
  PROVE  TypeOK'
<1>1. /\ GraphType /\ ProdType /\ OwedType /\ ConsType
      /\ MiscType /\ BwType /\ QueueType /\ PerfType
  BY TypeParts
<1>2. CASE NotifyProducer
  <2>1. wq' \in Seq(Work)
    BY <1>1, <1>2, HeadType DEF NotifyProducer, TakeWork
  <2>2. OwedType'
    BY <1>1, <1>2 DEF NotifyProducer, OwedType
  <2> QED
    BY <1>1, <1>2, <2>1, <2>2, TypePartsNext
    DEF NotifyProducer, GraphType, ProdType, ConsType, MiscType, BwType, QueueType,
        PerfType, graphVars, prodVars, consVars, bwVars, clockVars, perfVars
<1>3. CASE PerfWork
  BY <1>1, <1>3, TypePartsNext
  DEF PerfWork, GraphType, ProdType, OwedType, ConsType, MiscType, BwType, QueueType,
      PerfType, graphVars, prodVars, consVars, bwVars, clockVars, clientVars
<1>4. CASE ResourceCb
  <2>1. wq # <<>> /\ Head(wq).kind = "cb" /\ wq' = Tail(wq)
        /\ UNCHANGED <<graphVars, usage, votes, other, driverOwes, timers, listening, worker>>
    BY <1>4 DEF ResourceCb, TakeWork
  <2>2. GraphType' /\ QueueType'
    BY <1>1, <2>1, HeadType DEF GraphType, QueueType, graphVars
  <2>3. CASE HandleGranted(Head(wq).res)
    <3>1. /\ ProdType' /\ OwedType' /\ BwType' /\ PerfType' /\ waiter' \in Waiters
          /\ consState' \in [Consumers -> ConsStates]
          /\ resumed' \in [Consumers -> BOOLEAN] /\ done' \in [Consumers -> BOOLEAN]
      BY <1>1, <2>3, HandleGrantedType
    <3> QED
      BY <1>1, <2>1, <2>2, <3>1, TypePartsNext DEF ConsType, MiscType
  <2>4. CASE ~HandleGranted(Head(wq).res)
    <3>1. /\ consState' = [consState EXCEPT ![Head(wq).res] =
                IF Head(wq).res \in exists THEN ReleasedByCb(Head(wq).res) ELSE @]
          /\ UNCHANGED <<resumed, done, prodVars, owed, waiter, bwVars, perfVars>>
      BY <1>4, <2>4 DEF ResourceCb
    <3>2. Head(wq).res \in Consumers
      BY <1>1, <2>1, HeadType DEF CbWork
    <3>3. consState' \in [Consumers -> ConsStates]
      BY <1>1, <3>1, <3>2 DEF ConsType, ReleasedByCb, ConsStates, ProdStates
    <3> QED
      BY <1>1, <2>1, <2>2, <3>1, <3>3, TypePartsNext
      DEF ProdType, OwedType, ConsType, MiscType, BwType, PerfType, prodVars, bwVars, perfVars
  <2> QED
    BY <2>3, <2>4
<1>5. CASE \E c \in Consumers, event \in Events : NotifyCompletion(c, event)
  <2>1. PICK c \in Consumers, event \in Events : NotifyCompletion(c, event)
    BY <1>5
  <2>2. [kind |-> "cb", res |-> c, event |-> event] \in Work
    BY DEF Work, CbWork
  <2>3. QueueType'
    BY <1>1, <2>1, <2>2, SeqClosed DEF NotifyCompletion, QueueType
  <2>4. ConsType'
    BY <1>1, <2>1 DEF NotifyCompletion, ConsType, consVars, clockVars
  <2> QED
    BY <1>1, <2>1, <2>3, <2>4, TypePartsNext
    DEF NotifyCompletion, GraphType, ProdType, OwedType, MiscType, BwType, PerfType,
        graphVars, prodVars, bwVars, clientVars, perfVars
<1> QED
  BY <1>2, <1>3, <1>4, <1>5

\* ipa_rm_initialize()
LEMMA InitType == Init => TypeOK
<1> SUFFICES ASSUME Init PROVE TypeOK
  OBVIOUS
<1>1. 0 \in Bw
  BY BwClosed
<1>2. perfSet \in Levels
  <2>1. perfVote \in [Resources -> Bw] /\ {} \in SUBSET Resources
    BY <1>1 DEF Init
  <2> QED
    BY <2>1 DEF Init, Levels
<1> QED
  BY <1>1, <1>2, IpaRmAssumption DEF Init, TypeOK, Resources, ProdStates, ConsStates

\* Every action keeps the types.
LEMMA NextType == TypeOK /\ [Next]_vars => TypeOK'
<1> SUFFICES ASSUME TypeOK, [Next]_vars PROVE TypeOK'
  OBVIOUS
<1>1. ASSUME NEW r \in Dynamic, CreateResource(r) PROVE TypeOK'
  BY <1>1, CreateType, IpaRmAssumption
<1>2. ASSUME NEW p \in Producers, DeleteProducer(p) PROVE TypeOK'
  BY <1>2, DeleteType DEF Resources
<1>3. ASSUME NEW c \in Consumers, DeleteConsumer(c) PROVE TypeOK'
  BY <1>3, DeleteType DEF Resources
<1>4. ASSUME NEW p \in Producers, RequestResource(p) \/ ReleaseResource(p) PROVE TypeOK'
  BY <1>4, RequestResourceType, ReleaseResourceType
<1>5. ASSUME NEW d \in Dependencies, NEW owner \in DepOwners, NEW sync \in SyncCalls,
             AddDependency(d[1], d[2], owner, sync)
      PROVE  TypeOK'
  <2>1. d[1] \in Producers /\ d[2] \in Consumers /\ owner \in {"kernel", "user"}
    BY IpaRmAssumption
  <2> QED
    BY <1>5, <2>1, AddDependencyType
<1>6. ASSUME NEW d \in Dependencies, DeleteDependency(d[1], d[2]) PROVE TypeOK'
  <2>1. d[1] \in Producers /\ d[2] \in Consumers
    BY IpaRmAssumption
  <2> QED
    BY <1>6, <2>1, DeleteDependencyType
<1>7. ASSUME NEW c \in Consumers, RequestWithTimer(c) \/ DelayedRelease(c) PROVE TypeOK'
  BY <1>7, RequestWithTimerType, DelayedReleaseType
<1>8. ASSUME NEW r \in Resources, NEW bw \in Bandwidths, SetPerfProfile(r, bw) PROVE TypeOK'
  BY <1>8, SetPerfProfileType
<1>9. ASSUME \/ \E p \in Producers : Register(p) \/ Deregister(p)
             \/ \E c \in Consumers : SyncReturn(c)
             \/ \E n \in 0 .. MaxOther : OtherVote(n)
      PROVE  TypeOK'
  BY <1>9, CallersType
<1>10. CASE Client
  BY <1>1, <1>2, <1>3, <1>4, <1>5, <1>6, <1>7, <1>8, <1>9, <1>10, IpaRmAssumption DEF Client
<1>11. CASE Worker \/ Driver
  BY <1>11, VoteType, ResumeLockedType, SuspendLockedType, WqType DEF Worker, Driver
<1>12. CASE Timer
  BY <1>7, <1>12 DEF Timer
<1>13. CASE UNCHANGED vars
  BY <1>13 DEF TypeOK, vars, graphVars, prodVars, consVars, bwVars, clockVars,
               clientVars, perfVars
<1> QED
  BY <1>10, <1>11, <1>12, <1>13 DEF Next

\* Every reachable state is well typed, with any resources and dependencies and
\* whatever the drivers answer: pending_request, an unsigned count, never wraps,
\* and needed_bw stays a u32.
THEOREM TypeCorrect == Spec => []TypeOK
<1>1. Init => TypeOK
  BY InitType
<1>2. TypeOK /\ [Next]_vars => TypeOK'
  BY NextType
<1> QED
  BY <1>1, <1>2, PTL DEF Spec
=============================================================================
