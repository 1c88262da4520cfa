---------------------------- MODULE IpaRmProofs ----------------------------
(***************************************************************************)
(* Proofs about IpaRm for any set of resources and dependencies.           *)
(***************************************************************************)
EXTENDS IpaRmTypeProofs, FiniteSetTheorems, WellFoundedInduction, TLAPS

\* The part of TypeOK that the usage counts depend on.
Shape ==
  /\ exists \subseteq Resources
  /\ dep \in [Producers \X Consumers -> {"none", "kernel", "user"}]
  /\ prodState \in [Producers -> ProdStates]
  /\ consState \in [Consumers -> ConsStates]
  /\ usage \in [Consumers -> Int]

\* A dependency does not outlive its resources.
DepsExist == \A p \in Producers, c \in Consumers :
               dep[<<p, c>>] # "none" => p \in exists /\ c \in exists

\* usage_count of one consumer, and what it guarantees.
Counted(c) == /\ usage[c] = Cardinality(Users(c))
              /\ Users(c) # {} => consState[c] \in Busy

\* The inductive invariant behind UsageCountsUsers and UsedConsumersStay.
UsageInv == Shape /\ DepsExist /\ \A c \in Consumers : Counted(c)

\* The users of a consumer are finitely many.
LEMMA UsersFinite ==
  \A c : IsFiniteSet(Users(c)) /\ Cardinality(Users(c)) \in Nat
BY IpaRmAssumption, FS_Subset, FS_CardinalityType DEF Users, Owners

\* A finite set gains or loses one element.
LEMMA CountChange ==
  ASSUME NEW S, IsFiniteSet(S), NEW x
  PROVE  /\ x \notin S => Cardinality(S \cup {x}) = Cardinality(S) + 1
         /\ x \in S => Cardinality(S \ {x}) = Cardinality(S) - 1
BY FS_AddElement, FS_RemoveElement

\* A step that keeps a consumer's users, its count and its being in use.
LEMMA CountedSame ==
  ASSUME NEW c, Counted(c), Users(c)' = Users(c), usage'[c] = usage[c],
         Users(c) # {} /\ consState[c] \in Busy => consState'[c] \in Busy
  PROVE  Counted(c)'
BY DEF Counted

\* What a request answers without a driver error: the consumer is in use.
LEMMA RequestedBusy ==
  ASSUME "ERROR" \notin DriverResults, Shape,
         NEW c \in Consumers, NEW fast, NEW res \in Answers(fast)
  PROVE  RequestedState(c, fast, res) \in Busy /\ Failed(fast, res) = {}
<1>1. res \in [fast -> DriverResults]
  BY DEF Answers
<1>2. \A d \in fast : res[d] \in {"OK", "INPROGRESS"}
  <2>1. DriverResults \subseteq {"OK", "INPROGRESS"}
    BY IpaRmAssumption
  <2> QED
    BY <1>1, <2>1
<1>3. Failed(fast, res) = {}
  BY <1>2 DEF Failed
<1>4. RequestedState(c, fast, res) \in Busy
  BY <1>2 DEF RequestedState, AfterDriver, Busy
<1> QED
  BY <1>3, <1>4

\* Releasing a consumer in use drops the count by one, and leaves the state
\* alone while somebody else uses it.
LEMMA ReleasedCounted ==
  ASSUME Shape, NEW c \in Consumers, Counted(c), NEW C, NEW fast, NEW res,
         Users(c) # {}
  PROVE  /\ ReleasedUsage(c, 1) = usage[c] - 1
         /\ usage[c] # 1 => ReleasedState(c, C, 1, fast, res) = consState[c]
<1>1. usage[c] > 0 /\ usage[c] \in Nat
  BY UsersFinite, FS_EmptySet DEF Counted
<1>2. ReleasedUsage(c, 1) = usage[c] - 1
  BY <1>1 DEF Counted, ReleasedUsage, Busy
<1> QED
  BY <1>1, <1>2 DEF ReleasedState, Unused

\* Requesting, on behalf of p, the consumers C that p starts to use.
LEMMA RequestKeeps ==
  ASSUME "ERROR" \notin DriverResults, UsageInv, Shape',
         NEW p \in Producers, NEW C \in SUBSET Consumers, NEW fast,
         NEW res \in Answers(fast), RequestConsumers(C, fast, res, 1),
         \A c \in Consumers : Users(c)' = IF c \in C THEN Users(c) \cup {p} ELSE Users(c),
         \A c \in C : p \notin Users(c)
  PROVE  \A c \in Consumers : Counted(c)'
<1> SUFFICES ASSUME NEW c \in Consumers PROVE Counted(c)'
  OBVIOUS
<1>1. Shape /\ Counted(c)
  BY DEF UsageInv
<1>2. RequestedState(c, fast, res) \in Busy /\ Failed(fast, res) = {}
  BY <1>1, RequestedBusy
<1>3. CASE c \in C
  <2>1. consState'[c] \in Busy
    BY <1>2, <1>3 DEF RequestConsumers
  <2>2. usage'[c] = usage[c] + 1
    BY <1>2, <1>3 DEF RequestConsumers
  <2>3. Users(c)' = Users(c) \cup {p} /\ p \notin Users(c)
    BY <1>3
  <2>4. Cardinality(Users(c) \cup {p}) = Cardinality(Users(c)) + 1
    BY <2>3, UsersFinite, CountChange
  <2> QED
    BY <1>1, <2>1, <2>2, <2>3, <2>4 DEF Counted
<1>4. CASE c \notin C
  BY <1>1, <1>4, CountedSame DEF RequestConsumers
<1> QED
  BY <1>3, <1>4

\* Releasing, on behalf of p, the consumers C that p stops to use.
LEMMA ReleaseKeeps ==
  ASSUME UsageInv, NEW p \in Producers, NEW C \in SUBSET Consumers,
         NEW fast \in SUBSET MaySuspendNow(C, 1), NEW res,
         ReleaseConsumers(C, 1, fast, res),
         \A c \in Consumers : Users(c)' = IF c \in C THEN Users(c) \ {p} ELSE Users(c),
         \A c \in C : p \in Users(c)
  PROVE  \A c \in Consumers : Counted(c)'
<1> SUFFICES ASSUME NEW c \in Consumers PROVE Counted(c)'
  OBVIOUS
<1>1. Shape /\ Counted(c)
  BY DEF UsageInv
<1>2. CASE c \in C
  <2>1. p \in Users(c) /\ Users(c)' = Users(c) \ {p}
    BY <1>2
  <2>2. Cardinality(Users(c) \ {p}) = Cardinality(Users(c)) - 1
    BY <2>1, UsersFinite, CountChange
  <2>3. usage'[c] = usage[c] - 1
    BY <1>1, <1>2, <2>1, ReleasedCounted DEF ReleaseConsumers
  <2>4. Users(c) \ {p} # {} => Cardinality(Users(c) \ {p}) # 0
    BY UsersFinite, FS_Subset, FS_EmptySet
  <2>5. Users(c) \ {p} # {} => usage[c] # 1
    BY <1>1, <2>2, <2>4, UsersFinite DEF Counted
  <2>6. Users(c)' # {} => consState'[c] = consState[c]
    BY <1>1, <2>1, <2>5, ReleasedCounted DEF ReleaseConsumers
  <2> QED
    BY <1>1, <2>1, <2>2, <2>3, <2>6 DEF Counted
<1>3. CASE c \notin C
  <2>1. consState'[c] = consState[c]
    BY <1>3 DEF ReleaseConsumers, ReleasedState, Unused
  <2> QED
    BY <1>1, <1>3, <2>1, CountedSame DEF ReleaseConsumers
<1> QED
  BY <1>2, <1>3

\* A consumer granted by its driver, and the producers granted with it.
LEMMA GrantKeeps ==
  ASSUME UsageInv, UNCHANGED <<graphVars, usage>>, NEW d, HandleGranted(d)
  PROVE  UsageInv'
<1> USE DEF UsageInv, Shape
<1>1. prodState' \in [Producers -> ProdStates]
       /\ \A p \in Producers : prodState'[p] \in Busy <=> prodState[p] \in Busy
  BY DEF HandleGranted, prodVars, LastPending, WaitingFor, ProdStates, Busy
<1>2. consState' \in [Consumers -> ConsStates]
       /\ \A c \in Consumers : consState[c] \in Busy => consState'[c] \in Busy
  BY DEF HandleGranted, ConsStates, ProdStates, Busy
<1>3. \A c \in Consumers : Users(c)' = Users(c)
  BY <1>1 DEF graphVars, Users, Owners
<1>4. \A c \in Consumers : Counted(c)'
  BY <1>2, <1>3, CountedSame
<1> QED
  BY <1>1, <1>2, <1>4 DEF graphVars, DepsExist

\* Initially nothing is used.
LEMMA UsageInit == Init => UsageInv
<1> SUFFICES ASSUME Init PROVE UsageInv
  OBVIOUS
<1>1. Shape
  BY DEF Init, Shape, Resources, ProdStates, ConsStates
<1>2. DepsExist
  BY DEF Init, DepsExist
<1>3. \A c \in Consumers : Users(c) = {}
  BY DEF Init, Users, Owners
<1> QED
  BY <1>1, <1>2, <1>3, FS_EmptySet DEF UsageInv, Counted, Init

\* The actions that leave the graph, the states and the counts alone.
LEMMA UsageStutter ==
  ASSUME UsageInv, UNCHANGED <<graphVars, prodState, consVars>>
  PROVE  UsageInv'
<1>1. \A c \in Consumers : Users(c)' = Users(c)
  BY DEF Users, Owners, graphVars
<1> QED
  BY <1>1 DEF UsageInv, Shape, DepsExist, Counted, graphVars, consVars

\* A new resource has no dependencies yet.
LEMMA CreateKeeps ==
  ASSUME UsageInv, NEW r \in Resources, CreateResource(r)
  PROVE  UsageInv'
<1> USE DEF UsageInv, Shape
<1>1. Shape' /\ DepsExist'
  BY DEF CreateResource, DepsExist, consVars, prodVars, Resources, ConsStates, ProdStates
<1>2. \A p \in Producers, c \in Consumers : dep[<<p, c>>] # "none" => p # r /\ c # r
  BY DEF CreateResource, DepsExist
<1>3. \A c \in Consumers : Users(c)' = Users(c) /\ (c = r => Users(c) = {})
  BY <1>2 DEF CreateResource, Users, Owners, prodVars
<1>4. \A c \in Consumers : Counted(c)'
  BY <1>3, FS_EmptySet DEF CreateResource, Counted, consVars
<1> QED
  BY <1>1, <1>4

\* A producer goes when its last dependency has.
LEMMA DeleteProducerKeeps ==
  ASSUME UsageInv, NEW p \in Producers, DeleteProducer(p)
  PROVE  UsageInv'
<1> USE DEF UsageInv, Shape
<1>1. \A c \in Consumers : dep[<<p, c>>] = "none"
  BY DEF DeleteProducer, Peers
<1>2. Shape' /\ DepsExist'
  BY <1>1, IpaRmAssumption DEF DeleteProducer, DepsExist, consVars, ProdStates
<1>3. \A c \in Consumers : Users(c)' = Users(c)
  BY <1>1 DEF DeleteProducer, Users, Owners
<1> QED
  BY <1>2, <1>3 DEF DeleteProducer, Counted, consVars

\* So does a consumer.
LEMMA DeleteConsumerKeeps ==
  ASSUME UsageInv, NEW d \in Consumers, DeleteConsumer(d)
  PROVE  UsageInv'
<1> USE DEF UsageInv, Shape
<1>1. \A p \in Producers : dep[<<p, d>>] = "none"
  BY DEF DeleteConsumer, Owners
<1>2. Shape' /\ DepsExist'
  BY <1>1, IpaRmAssumption DEF DeleteConsumer, DepsExist, consVars, prodVars
<1>3. \A c \in Consumers : Users(c)' = Users(c)
  BY DEF DeleteConsumer, Users, Owners, prodVars
<1> QED
  BY <1>2, <1>3 DEF DeleteConsumer, Counted, consVars

\* A request moves consumers to proper states and never out of use.
LEMMA RequestShape ==
  ASSUME Shape, "ERROR" \notin DriverResults, NEW C, NEW fast, NEW res \in Answers(fast),
         NEW inc \in {0, 1}, RequestConsumers(C, fast, res, inc)
  PROVE  /\ consState' \in [Consumers -> ConsStates] /\ usage' \in [Consumers -> Int]
         /\ \A c \in Consumers : consState[c] \in Busy => consState'[c] = consState[c]
<1>1. \A c \in Consumers : RequestedState(c, fast, res) \in Busy
  BY RequestedBusy
<1>2. \A c \in Consumers : consState'[c] \in ConsStates
  BY <1>1 DEF RequestConsumers, Shape, ConsStates, ProdStates
<1>3. consState' \in [Consumers -> ConsStates]
  BY <1>2 DEF RequestConsumers
<1>4. usage' \in [Consumers -> Int]
  BY DEF RequestConsumers, Shape
<1> QED
  BY <1>3, <1>4 DEF RequestConsumers, RequestedState

\* A release moves consumers to proper states.
LEMMA ReleaseShape ==
  ASSUME Shape, NEW C, NEW fast, NEW res, NEW dec \in {0, 1},
         ReleaseConsumers(C, dec, fast, res)
  PROVE  consState' \in [Consumers -> ConsStates] /\ usage' \in [Consumers -> Int]
<1>1. \A c \in Consumers : ReleasedState(c, C, dec, fast, res) \in ConsStates
  BY DEF ReleasedState, Shape, ConsStates, ProdStates
<1>2. \A c \in Consumers : ReleasedUsage(c, dec) \in Int
  BY DEF ReleasedUsage, Shape
<1> QED
  BY <1>1, <1>2 DEF ReleaseConsumers, Shape

\* ipa_rm_request_resource(): p becomes a user of every consumer it depends on.
LEMMA RequestResourceKeeps ==
  ASSUME "ERROR" \notin DriverResults, UsageInv, NEW p \in Producers, RequestResource(p)
  PROVE  UsageInv'
<1>1. Shape /\ DepsExist /\ \A c \in Consumers : Counted(c)
  BY DEF UsageInv
<1>2. prodState[p] = "RELEASED" /\ UNCHANGED graphVars
  BY DEF RequestResource
<1>3. PICK fast, res : /\ res \in Answers(fast)
                       /\ RequestConsumers(Reached(p, fast, res), fast, res, 1)
                       /\ \E s \in Busy : prodState' = [prodState EXCEPT ![p] = s]
  BY ZenonT(40) DEF RequestResource, Busy
<1>4. Reached(p, fast, res) = Peers(p)
  <2>1. Failed(fast, res) = {}
    BY <1>3, IpaRmAssumption DEF Answers, Failed
  <2> QED
    BY <2>1 DEF Reached
<1>5. prodState' \in [Producers -> ProdStates] /\ prodState'[p] \in Busy
       /\ \A q \in Producers \ {p} : prodState'[q] = prodState[q]
  BY <1>1, <1>3 DEF Shape, ProdStates
<1>6. Shape' /\ DepsExist'
  BY <1>1, <1>2, <1>3, <1>5, RequestShape DEF Shape, DepsExist, graphVars
<1>7. \A c \in Consumers :
        Users(c)' = IF c \in Peers(p) THEN Users(c) \cup {p} ELSE Users(c)
  BY <1>2, <1>5 DEF Users, Owners, Peers, graphVars, Busy
<1>8. \A c \in Peers(p) : p \notin Users(c)
  BY <1>2 DEF Users, Busy
<1>9. \A c \in Consumers : Counted(c)'
  BY <1>3, <1>4, <1>6, <1>7, <1>8, RequestKeeps DEF Peers
<1> QED
  BY <1>6, <1>9 DEF UsageInv

\* ipa_rm_release_resource(): p stops using them.
LEMMA ReleaseResourceKeeps ==
  ASSUME UsageInv, NEW p \in Producers, ReleaseResource(p)
  PROVE  UsageInv'
<1>1. Shape /\ DepsExist /\ \A c \in Consumers : Counted(c)
  BY DEF UsageInv
<1>2. prodState[p] \in Busy /\ UNCHANGED graphVars
       /\ prodState' = [prodState EXCEPT ![p] = "RELEASED"]
  BY DEF ReleaseResource
<1>3. PICK fast, res :
        /\ fast \in SUBSET MaySuspendNow(Peers(p), 1)
        /\ ReleaseConsumers(Peers(p), 1, fast, res)
  BY DEF ReleaseResource
<1>4. Shape' /\ DepsExist'
  BY <1>1, <1>2, <1>3, ReleaseShape DEF Shape, DepsExist, graphVars, ProdStates
<1>5. \A c \in Consumers :
        Users(c)' = IF c \in Peers(p) THEN Users(c) \ {p} ELSE Users(c)
  BY <1>1, <1>2 DEF Shape, Users, Owners, Peers, graphVars, Busy
<1>6. \A c \in Peers(p) : p \in Users(c)
  BY <1>2 DEF Users, Owners, Peers
<1>7. \A c \in Consumers : Counted(c)'
  BY <1>3, <1>5, <1>6, ReleaseKeeps DEF Peers
<1> QED
  BY <1>4, <1>7 DEF UsageInv

\* ipa_rm_add_dependency(): a producer in use becomes a user of the consumer.
LEMMA AddDependencyKeeps ==
  ASSUME "ERROR" \notin DriverResults, UsageInv, NEW p \in Producers, NEW c \in Consumers,
         NEW owner \in {"kernel", "user"}, NEW sync, AddDependency(p, c, owner, sync)
  PROVE  UsageInv'
<1>1. Shape /\ DepsExist /\ \A d \in Consumers : Counted(d)
  BY DEF UsageInv
<1>2. /\ dep' = [dep EXCEPT ![<<p, c>>] = owner] /\ dep[<<p, c>>] = "none"
      /\ {p, c} \subseteq exists /\ UNCHANGED exists
  BY DEF AddDependency
<1>3. dep' \in [Producers \X Consumers -> {"none", "kernel", "user"}]
      /\ \A q \in Producers, d \in Consumers :
           dep'[<<q, d>>] = IF q = p /\ d = c THEN owner ELSE dep[<<q, d>>]
  BY <1>1, <1>2 DEF Shape
<1>4. DepsExist'
  BY <1>1, <1>2, <1>3 DEF DepsExist
<1>5. CASE prodState[p] = "RELEASED"
  <2>1. UNCHANGED <<prodVars, consVars>>
    BY <1>5 DEF AddDependency, Busy
  <2>2. \A d \in Consumers : Users(d)' = Users(d)
    BY <1>3, <1>5, <2>1 DEF Users, Owners, prodVars, Busy
  <2> QED
    BY <1>1, <1>2, <1>3, <1>4, <2>1, <2>2 DEF UsageInv, Shape, Counted, prodVars, consVars
<1>6. CASE prodState[p] # "RELEASED"
  <2>1. PICK fast, res : /\ res \in Answers(fast)
                         /\ RequestConsumers({c}, fast, res, 1)
                         /\ \/ prodState' = [prodState EXCEPT ![p] = "REQUEST_IN_PROGRESS"]
                            \/ prodState' = [prodState EXCEPT ![p] = prodState[p]]
    BY <1>6 DEF AddDependency
  <2>2. prodState[p] \in Busy /\ prodState'[p] \in Busy
        /\ prodState' \in [Producers -> ProdStates]
        /\ \A q \in Producers \ {p} : prodState'[q] = prodState[q]
    BY <1>1, <1>6, <2>1 DEF Shape, ProdStates, Busy
  <2>3. Shape'
    BY <1>1, <1>2, <1>3, <2>1, <2>2, RequestShape DEF Shape
  <2>4. \A d \in Consumers :
          Users(d)' = IF d \in {c} THEN Users(d) \cup {p} ELSE Users(d)
    BY <1>3, <2>2 DEF Users, Owners
  <2>5. p \notin Users(c)
    BY <1>2 DEF Users, Owners
  <2>6. \A d \in Consumers : Counted(d)'
    BY <2>1, <2>3, <2>4, <2>5, RequestKeeps
  <2> QED
    BY <1>4, <2>3, <2>6 DEF UsageInv
<1> QED
  BY <1>5, <1>6

\* ipa_rm_delete_dependency(): it stops being one.
LEMMA DeleteDependencyKeeps ==
  ASSUME UsageInv, NEW p \in Producers, NEW c \in Consumers, DeleteDependency(p, c)
  PROVE  UsageInv'
<1>1. Shape /\ DepsExist /\ \A d \in Consumers : Counted(d)
  BY DEF UsageInv
<1>2. /\ dep' = [dep EXCEPT ![<<p, c>>] = "none"] /\ dep[<<p, c>>] # "none"
      /\ UNCHANGED exists
  BY DEF DeleteDependency
<1>3. dep' \in [Producers \X Consumers -> {"none", "kernel", "user"}]
      /\ \A q \in Producers, d \in Consumers :
           dep'[<<q, d>>] = IF q = p /\ d = c THEN "none" ELSE dep[<<q, d>>]
  BY <1>1, <1>2 DEF Shape
<1>4. DepsExist'
  BY <1>1, <1>2, <1>3 DEF DepsExist
<1>5. CASE prodState[p] = "RELEASED"
  <2>1. UNCHANGED <<prodVars, consVars>>
    BY <1>5 DEF DeleteDependency, Busy
  <2>2. \A d \in Consumers : Users(d)' = Users(d)
    BY <1>3, <1>5, <2>1 DEF Users, Owners, prodVars, Busy
  <2> QED
    BY <1>1, <1>2, <1>3, <1>4, <2>1, <2>2 DEF UsageInv, Shape, Counted, prodVars, consVars
<1>6. CASE prodState[p] # "RELEASED"
  <2>1. PICK fast, res :
          /\ fast \in SUBSET MaySuspendNow({c}, 1)
          /\ ReleaseConsumers({c}, 1, fast, res)
          /\ \/ prodState' = [prodState EXCEPT ![p] = "GRANTED"]
             \/ prodState' = [prodState EXCEPT ![p] = prodState[p]]
    BY <1>6 DEF DeleteDependency
  <2>2. prodState[p] \in Busy /\ prodState'[p] \in Busy
        /\ prodState' \in [Producers -> ProdStates]
        /\ \A q \in Producers \ {p} : prodState'[q] = prodState[q]
    BY <1>1, <1>6, <2>1 DEF Shape, ProdStates, Busy
  <2>3. Shape'
    BY <1>1, <1>2, <1>3, <2>1, <2>2, ReleaseShape DEF Shape
  <2>4. \A d \in Consumers :
          Users(d)' = IF d \in {c} THEN Users(d) \ {p} ELSE Users(d)
    BY <1>3, <2>2 DEF Users, Owners
  <2>5. p \in Users(c)
    BY <1>2, <2>2 DEF Users, Owners
  <2>6. \A d \in Consumers : Counted(d)'
    BY <2>1, <2>4, <2>5, ReleaseKeeps
  <2> QED
    BY <1>4, <2>3, <2>6 DEF UsageInv
<1> QED
  BY <1>5, <1>6

\* ipa_rm_request_resource_with_timer(): the consumer is woken for nobody.
LEMMA RequestWithTimerKeeps ==
  ASSUME "ERROR" \notin DriverResults, UsageInv, NEW c \in Consumers, RequestWithTimer(c)
  PROVE  UsageInv'
<1>1. Shape /\ DepsExist /\ \A d \in Consumers : Counted(d)
  BY DEF UsageInv
<1>2. UNCHANGED <<graphVars, prodVars>>
  BY DEF RequestWithTimer
<1>3. CASE consState[c] = "GRANTED"
  BY <1>2, <1>3, UsageStutter DEF RequestWithTimer, prodVars
<1>4. CASE consState[c] # "GRANTED"
  <2>1. PICK fast, res : res \in Answers(fast) /\ RequestConsumers({c}, fast, res, 0)
    BY <1>4 DEF RequestWithTimer
  <2>2. Shape' /\ DepsExist'
    BY <1>1, <1>2, <2>1, RequestShape DEF Shape, DepsExist, graphVars, prodVars
  <2>3. \A d \in Consumers : usage'[d] = usage[d] /\ Users(d)' = Users(d)
    BY <1>1, <1>2, <2>1 DEF RequestConsumers, Shape, Users, Owners, graphVars, prodVars
  <2>4. \A d \in Consumers : consState[d] \in Busy => consState'[d] \in Busy
    BY <1>1, <2>1, RequestShape
  <2>5. \A d \in Consumers : Counted(d)'
    BY <1>1, <2>3, <2>4, CountedSame
  <2> QED
    BY <2>2, <2>5 DEF UsageInv
<1> QED
  BY <1>3, <1>4

\* delayed_release_work_func(): it only releases a consumer nobody uses.
LEMMA DelayedReleaseKeeps ==
  ASSUME UsageInv, NEW c \in Consumers, DelayedRelease(c)
  PROVE  UsageInv'
<1>1. Shape /\ DepsExist /\ \A d \in Consumers : Counted(d)
  BY DEF UsageInv
<1>2. UNCHANGED <<graphVars, prodVars>>
  BY DEF DelayedRelease
<1>3. PICK fast, res : ReleaseConsumers({c} \cap exists, 0, fast, res)
  BY DEF DelayedRelease
<1>4. Shape' /\ DepsExist'
  BY <1>1, <1>2, <1>3, ReleaseShape DEF Shape, DepsExist, graphVars, prodVars
<1>5. \A d \in Consumers : usage'[d] = usage[d] /\ Users(d)' = Users(d)
  BY <1>1, <1>2, <1>3
  DEF ReleaseConsumers, ReleasedUsage, Shape, Users, Owners, graphVars, prodVars
<1>6. \A d \in Consumers : Users(d) # {} => usage[d] # 0
  BY <1>1, UsersFinite, FS_EmptySet DEF Counted
<1>7. \A d \in Consumers : Users(d) # {} => consState'[d] = consState[d]
  BY <1>1, <1>3, <1>6 DEF ReleaseConsumers, ReleasedState, Unused, ReleasedUsage, Shape
<1>8. \A d \in Consumers : Counted(d)'
  BY <1>1, <1>5, <1>7, CountedSame
<1> QED
  BY <1>4, <1>8 DEF UsageInv

\* A late RELEASED, from the queue or from a driver, finds the state changed.
LEMMA LateReleaseKeeps ==
  ASSUME UsageInv, UNCHANGED <<graphVars, prodVars, usage>>, NEW d,
         \/ consState' = consState
         \/ consState' = [consState EXCEPT ![d] = ReleasedByCb(d)]
  PROVE  UsageInv'
<1>1. Shape /\ DepsExist /\ \A c \in Consumers : Counted(c)
  BY DEF UsageInv
<1>2. consState' \in [Consumers -> ConsStates]
      /\ \A c \in Consumers : consState[c] \in Busy => consState'[c] \in Busy
  BY <1>1 DEF Shape, ReleasedByCb, ConsStates, ProdStates, Busy
<1>3. \A c \in Consumers : Users(c)' = Users(c)
  BY DEF Users, Owners, graphVars, prodVars
<1>4. \A c \in Consumers : Counted(c)'
  BY <1>1, <1>2, <1>3, CountedSame
<1> QED
  BY <1>1, <1>2, <1>4 DEF UsageInv, Shape, DepsExist, graphVars, prodVars

\* One step per action.
LEMMA UsageNext ==
  ASSUME "ERROR" \notin DriverResults, UsageInv, [Next]_vars
  PROVE  UsageInv'
<1> USE DEF Client, Worker, Timer, Driver
<1>1. ASSUME NEW r \in Dynamic, CreateResource(r) PROVE UsageInv'
  BY <1>1, CreateKeeps, IpaRmAssumption
<1>2. ASSUME NEW p \in Producers, DeleteProducer(p) PROVE UsageInv'
  BY <1>2, DeleteProducerKeeps
<1>3. ASSUME NEW c \in Consumers, DeleteConsumer(c) PROVE UsageInv'
  BY <1>3, DeleteConsumerKeeps
<1>4. ASSUME NEW p \in Producers, RequestResource(p) PROVE UsageInv'
  BY <1>4, RequestResourceKeeps
<1>5. ASSUME NEW p \in Producers, ReleaseResource(p) PROVE UsageInv'
  BY <1>5, ReleaseResourceKeeps
<1>6. ASSUME NEW p, Register(p) \/ Deregister(p) PROVE UsageInv'
  BY <1>6, UsageStutter DEF Register, Deregister, prodVars
<1>7. ASSUME NEW d \in Dependencies, NEW owner \in DepOwners, NEW sync \in SyncCalls,
             AddDependency(d[1], d[2], owner, sync)
      PROVE  UsageInv'
  <2>1. d[1] \in Producers /\ d[2] \in Consumers /\ owner \in {"kernel", "user"}
    BY IpaRmAssumption
  <2> QED
    BY <1>7, <2>1, AddDependencyKeeps
<1>8. ASSUME NEW d \in Dependencies, DeleteDependency(d[1], d[2]) PROVE UsageInv'
  BY <1>8, DeleteDependencyKeeps, IpaRmAssumption
<1>9. ASSUME NEW c \in Consumers, RequestWithTimer(c) PROVE UsageInv'
  BY <1>9, RequestWithTimerKeeps
<1>10. ASSUME NEW c, SyncReturn(c) PROVE UsageInv'
  BY <1>10, UsageStutter DEF SyncReturn, prodVars
<1>11. ASSUME NEW r, NEW bw, SetPerfProfile(r, bw) PROVE UsageInv'
  BY <1>11, UsageStutter DEF SetPerfProfile, prodVars
<1>12. ASSUME NEW n, OtherVote(n) PROVE UsageInv'
  BY <1>12, UsageStutter DEF OtherVote, prodVars
<1>13. CASE ResumeVote \/ SuspendVote \/ NotifyProducer \/ PerfWork
  BY <1>13, UsageStutter DEF ResumeVote, SuspendVote, NotifyProducer, PerfWork, prodVars
<1>14. CASE ResumeLocked
  <2>1. UNCHANGED graphVars
    BY <1>14 DEF ResumeLocked
  <2>2. \/ UNCHANGED <<prodVars, consVars>>
        \/ HandleGranted(worker.res) /\ UNCHANGED usage
    BY <1>14 DEF ResumeLocked
  <2> QED
    BY <2>1, <2>2, UsageStutter, GrantKeeps DEF prodVars
<1>15. CASE SuspendLocked
  <2>1. UNCHANGED <<graphVars, prodVars, usage>>
    BY <1>15 DEF SuspendLocked
  <2>2. \/ consState' = consState
        \/ consState' = [consState EXCEPT ![worker.res] = ReleasedByCb(worker.res)]
    BY <1>15 DEF SuspendLocked
  <2> QED
    BY <2>1, <2>2, LateReleaseKeeps
<1>16. CASE ResourceCb
  <2> DEFINE c == Head(wq).res
  <2>1. UNCHANGED <<graphVars, usage>>
    BY <1>16 DEF ResourceCb
  <2>2. \/ HandleGranted(c)
        \/ /\ UNCHANGED prodVars
           /\ \/ consState' = [consState EXCEPT ![c] = consState[c]]
              \/ consState' = [consState EXCEPT ![c] = ReleasedByCb(c)]
    BY <1>16 DEF ResourceCb
  <2>3. consState \in [Consumers -> ConsStates]
    BY DEF UsageInv, Shape
  <2>4. [consState EXCEPT ![c] = consState[c]] = consState
    BY <2>3
  <2> HIDE DEF c
  <2> QED
    BY <2>1, <2>2, <2>4, GrantKeeps, LateReleaseKeeps
<1>17. ASSUME NEW c \in Consumers, DelayedRelease(c) PROVE UsageInv'
  BY <1>17, DelayedReleaseKeeps
<1>18. ASSUME NEW c, NEW event, NotifyCompletion(c, event) PROVE UsageInv'
  BY <1>18, UsageStutter DEF NotifyCompletion, prodVars
<1>19. CASE UNCHANGED vars
  BY <1>19, UsageStutter DEF vars, prodVars
<1> QED
  BY <1>1, <1>2, <1>3, <1>4, <1>5, <1>6, <1>7, <1>8, <1>9, <1>10, <1>11, <1>12,
     <1>13, <1>14, <1>15, <1>16, <1>17, <1>18, <1>19, IpaRmAssumption DEF Next

\* As long as no driver fails, usage_count is the number of producers using the
\* consumer (ipa_rm_resource.h:66), in every configuration.
THEOREM UsageCorrect ==
  ASSUME "ERROR" \notin DriverResults
  PROVE  Spec => []UsageCountsUsers
<1>1. Init => UsageInv
  BY UsageInit
<1>2. UsageInv /\ [Next]_vars => UsageInv'
  BY UsageNext
<1>3. UsageInv => UsageCountsUsers
  BY DEF UsageInv, Counted, UsageCountsUsers
<1> QED
  BY <1>1, <1>2, <1>3, PTL DEF Spec

\* And no interleaving of releases, timers, queued work and driver events takes
\* a consumer away from a producer that is granted or being requested.
THEOREM UsedConsumersStayInUse ==
  ASSUME "ERROR" \notin DriverResults
  PROVE  Spec => []UsedConsumersStay
<1>1. Init => UsageInv
  BY UsageInit
<1>2. UsageInv /\ [Next]_vars => UsageInv'
  BY UsageNext
<1>3. UsageInv => UsedConsumersStay
  BY DEF UsageInv, Counted, UsedConsumersStay
<1> QED
  BY <1>1, <1>2, <1>3, PTL DEF Spec
----------------------------------------------------------------------------
(***************************************************************************)
(* pending_request.  That it counts the consumers a producer waits for is  *)
(* preserved because no step changes whether a consumer in use is being    *)
(* requested without also visiting the producers that use it: UsageInv is  *)
(* part of the invariant.                                                  *)
(***************************************************************************)

\* The consumers whose grant producer p still waits for.
WaitsFor(p) == {c \in Peers(p) : consState[c] = "REQUEST_IN_PROGRESS"}

PendingRight(p) ==
  prodState[p] \in Busy => /\ pending[p] = Cardinality(WaitsFor(p))
                           /\ prodState[p] = "GRANTED" => WaitsFor(p) = {}

\* The inductive invariant behind GrantsCounted.
GrantInv == /\ UsageInv
            /\ pending \in [Producers -> Nat]
            /\ \A p \in Producers : PendingRight(p)

\* A producer waits for finitely many consumers.
LEMMA WaitsFinite ==
  \A p : IsFiniteSet(WaitsFor(p)) /\ Cardinality(WaitsFor(p)) \in Nat
BY IpaRmAssumption, FS_Subset, FS_CardinalityType DEF WaitsFor, Peers

\* A step that leaves the producer alone and does not change whether one of the
\* consumers it uses is being requested.
LEMMA PendingSame ==
  ASSUME NEW p \in Producers, PendingRight(p), pending'[p] = pending[p],
         prodState'[p] = prodState[p], Peers(p)' = Peers(p),
         \A c \in Consumers : p \in Users(c) =>
           (consState'[c] = "REQUEST_IN_PROGRESS" <=> consState[c] = "REQUEST_IN_PROGRESS")
  PROVE  PendingRight(p)'
<1>1. CASE prodState[p] \in Busy
  <2>1. \A c \in Peers(p) : c \in Consumers /\ p \in Users(c)
    BY <1>1 DEF Peers, Users, Owners
  <2>2. WaitsFor(p)' = WaitsFor(p)
    BY <2>1 DEF WaitsFor
  <2> QED
    BY <2>2 DEF PendingRight
<1>2. CASE prodState[p] \notin Busy
  BY <1>2 DEF PendingRight
<1> QED
  BY <1>1, <1>2

\* Releasing consumers on behalf of p does not touch those somebody else uses.
LEMMA ReleaseSpares ==
  ASSUME UsageInv, NEW p \in Producers, NEW C \in SUBSET Consumers, NEW fast, NEW res,
         \A c \in C : p \in Users(c), ReleaseConsumers(C, 1, fast, res),
         NEW q \in Producers \ {p}, NEW c \in Consumers, q \in Users(c)
  PROVE  consState'[c] = consState[c]
<1>1. Shape /\ Counted(c)
  BY DEF UsageInv
<1>2. CASE c \in C
  <2>1. p \in Users(c) /\ Users(c) \ {p} # {}
    BY <1>2
  <2>2. Cardinality(Users(c) \ {p}) = Cardinality(Users(c)) - 1
    BY <2>1, UsersFinite, CountChange
  <2>3. Cardinality(Users(c) \ {p}) # 0
    BY <2>1, UsersFinite, FS_Subset, FS_EmptySet
  <2>4. usage[c] # 1
    BY <1>1, <2>2, <2>3, UsersFinite DEF Counted
  <2> QED
    BY <1>1, <2>4, ReleasedCounted DEF ReleaseConsumers
<1>3. CASE c \notin C
  BY <1>3 DEF ReleaseConsumers, ReleasedState, Unused
<1> QED
  BY <1>2, <1>3

\* A grant is counted once by every producer that waits for it, and the last
\* one grants the producer.
LEMMA GrantCounts ==
  ASSUME GrantInv, UNCHANGED <<graphVars, usage>>, NEW d \in Consumers, HandleGranted(d)
  PROVE  GrantInv'
<1>1. UsageInv /\ UsageInv' /\ pending \in [Producers -> Nat]
  BY GrantKeeps DEF GrantInv
<1>2. CASE consState[d] # "REQUEST_IN_PROGRESS"
  <2>1. UNCHANGED <<prodState, pending, consState, dep>>
    BY <1>2 DEF HandleGranted, prodVars, graphVars
  <2>2. \A p \in Producers : PendingRight(p)'
    BY <2>1, PendingSame DEF GrantInv, Peers
  <2> QED
    BY <1>1, <2>1, <2>2 DEF GrantInv
<1>3. CASE consState[d] = "REQUEST_IN_PROGRESS"
  <2>1. /\ consState' = [consState EXCEPT ![d] = "GRANTED"]
        /\ pending' = [p \in Producers |-> IF p \in WaitingFor(d) THEN pending[p] - 1
                                                                 ELSE pending[p]]
        /\ prodState' = [p \in Producers |-> IF p \in LastPending(d) THEN "GRANTED"
                                                                   ELSE prodState[p]]
    BY <1>3 DEF HandleGranted
  <2>2. pending' \in [Producers -> Nat]
    BY <1>1, <2>1 DEF WaitingFor
  <2>3. consState \in [Consumers -> ConsStates] /\ prodState \in [Producers -> ProdStates]
    BY <1>1 DEF UsageInv, Shape
  <2>4. ASSUME NEW p \in Producers
        PROVE  PendingRight(p)'
    <3>1. Peers(p)' = Peers(p) /\ PendingRight(p)
      BY DEF Peers, graphVars, GrantInv
    <3>2. WaitsFor(p)' = WaitsFor(p) \ {d}
      BY <2>1, <2>3, <3>1 DEF WaitsFor, Peers
    <3>3. CASE prodState[p] \in Busy /\ d \in Peers(p)
      <4>1. d \in WaitsFor(p)
        BY <1>3, <3>3 DEF WaitsFor
      <4>2. pending[p] = Cardinality(WaitsFor(p)) /\ prodState[p] = "REQUEST_IN_PROGRESS"
        BY <3>1, <3>3, <4>1 DEF PendingRight, Busy
      <4>3. Cardinality(WaitsFor(p)') = pending[p] - 1
        BY <3>2, <4>1, <4>2, WaitsFinite, CountChange
      <4>4. pending[p] # 0
        BY <4>1, <4>2, WaitsFinite, FS_EmptySet
      <4>5. p \in WaitingFor(d)
        BY <1>1, <3>3, <4>2, <4>4 DEF WaitingFor, Owners, Peers
      <4>6. pending'[p] = Cardinality(WaitsFor(p)')
        BY <2>1, <4>3, <4>5
      <4>7. prodState'[p] = "GRANTED" => pending[p] = 1
        BY <2>1, <4>2 DEF LastPending
      <4>8. IsFiniteSet(WaitsFor(p)')
        BY <3>2, WaitsFinite, FS_Subset
      <4> QED
        BY <4>3, <4>6, <4>7, <4>8, FS_EmptySet DEF PendingRight
    <3>4. CASE ~(prodState[p] \in Busy /\ d \in Peers(p))
      <4>1. p \notin WaitingFor(d)
        BY <3>4 DEF WaitingFor, Owners, Peers, Busy
      <4>2. pending'[p] = pending[p] /\ prodState'[p] = prodState[p]
        BY <2>1, <4>1 DEF LastPending
      <4>3. \A c \in Consumers : p \in Users(c) => c # d
        BY <3>4 DEF Users, Owners, Peers
      <4> QED
        BY <2>1, <2>3, <3>1, <4>2, <4>3, PendingSame
    <3> QED
      BY <3>3, <3>4
  <2> QED
    BY <1>1, <2>2, <2>4 DEF GrantInv
<1> QED
  BY <1>2, <1>3

\* Steps that leave the graph, the producers and what is being requested alone.
LEMMA GrantStutter ==
  ASSUME GrantInv, UsageInv', UNCHANGED <<dep, prodVars>>,
         \A c \in Consumers : Users(c) # {} =>
           (consState'[c] = "REQUEST_IN_PROGRESS" <=> consState[c] = "REQUEST_IN_PROGRESS")
  PROVE  GrantInv'
<1>1. \A p \in Producers : PendingRight(p)'
  BY PendingSame DEF GrantInv, prodVars, Peers
<1> QED
  BY <1>1 DEF GrantInv, prodVars

\* A resource that is created or deleted has no dependencies.
LEMMA LifetimeCounts ==
  ASSUME GrantInv, UsageInv', NEW r \in Resources,
         \/ CreateResource(r)
         \/ r \in Producers /\ DeleteProducer(r)
         \/ r \in Consumers /\ DeleteConsumer(r)
  PROVE  GrantInv'
<1>1. UsageInv /\ Shape /\ DepsExist /\ pending \in [Producers -> Nat]
  BY DEF GrantInv, UsageInv
<1>2. dep' = dep
  BY DEF CreateResource, DeleteProducer, DeleteConsumer
<1>3. /\ pending' \in [Producers -> Nat]
      /\ \A p \in Producers : \/ prodState'[p] = "RELEASED"
                              \/ prodState'[p] = prodState[p] /\ pending'[p] = pending[p]
  <2>1. \/ UNCHANGED prodVars
        \/ /\ prodState' = [prodState EXCEPT ![r] = "RELEASED"]
           /\ pending' = [pending EXCEPT ![r] = 0]
    BY DEF CreateResource, DeleteProducer, DeleteConsumer
  <2> QED
    BY <1>1, <2>1 DEF prodVars, Shape
<1>4. \A c \in Consumers : Users(c) # {} => consState'[c] = consState[c]
  <2>1. \A c \in Consumers : Users(c) # {} => c \in exists
    BY <1>1 DEF Users, Owners, DepsExist
  <2>2. \A c \in Consumers : c \in exists => consState'[c] = consState[c]
    BY <1>1 DEF CreateResource, DeleteProducer, DeleteConsumer, consVars, Shape
  <2> QED
    BY <2>1, <2>2
<1>5. ASSUME NEW p \in Producers PROVE PendingRight(p)'
  <2>1. CASE prodState'[p] = "RELEASED"
    BY <2>1 DEF PendingRight, Busy
  <2>2. CASE prodState'[p] = prodState[p] /\ pending'[p] = pending[p]
    BY <1>2, <1>4, <2>2, PendingSame DEF Peers, GrantInv
  <2> QED
    BY <1>3, <2>1, <2>2
<1> QED
  BY <1>3, <1>5 DEF GrantInv

\* A request leaves the consumers in use as they are.
LEMMA RequestSpares ==
  ASSUME UsageInv, "ERROR" \notin DriverResults, NEW C, NEW fast, NEW res \in Answers(fast),
         NEW inc \in {0, 1}, RequestConsumers(C, fast, res, inc)
  PROVE  \A c \in Consumers : Users(c) # {} => consState'[c] = consState[c]
BY RequestShape DEF UsageInv, Counted

\* ipa_rm_request_resource(): p waits for the consumers that are not granted.
LEMMA RequestResourceCounts ==
  ASSUME "ERROR" \notin DriverResults, GrantInv, NEW p \in Producers, RequestResource(p)
  PROVE  GrantInv'
<1>1. UsageInv /\ UsageInv' /\ Shape /\ pending \in [Producers -> Nat]
  BY RequestResourceKeeps DEF GrantInv, UsageInv
<1>2. PICK fast, res :
        LET C == Reached(p, fast, res)
            pend == Cardinality(Waiting(C, fast, res))
        IN /\ res \in Answers(fast)
           /\ RequestConsumers(C, fast, res, 1)
           /\ prodState' = [prodState EXCEPT ![p] =
                IF pend = 0 /\ Failed(fast, res) = {} THEN "GRANTED" ELSE "REQUEST_IN_PROGRESS"]
           /\ pending' = [pending EXCEPT ![p] = pend]
  BY DEF RequestResource
<1>3. Failed(fast, res) = {}
  BY <1>2, IpaRmAssumption DEF Answers, Failed
<1>4. Reached(p, fast, res) = Peers(p)
  BY <1>3 DEF Reached
<1> DEFINE W == Waiting(Peers(p), fast, res)
<1>5. /\ prodState' = [prodState EXCEPT ![p] = IF Cardinality(W) = 0 THEN "GRANTED"
                                                        ELSE "REQUEST_IN_PROGRESS"]
      /\ pending' = [pending EXCEPT ![p] = Cardinality(W)]
      /\ RequestConsumers(Peers(p), fast, res, 1) /\ dep' = dep
  BY <1>2, <1>3, <1>4 DEF RequestResource, graphVars
<1>6. WaitsFor(p)' = W
  BY <1>5 DEF WaitsFor, Waiting, RequestConsumers, Peers
<1>7. IsFiniteSet(W) /\ Cardinality(W) \in Nat
  BY IpaRmAssumption, FS_Subset, FS_CardinalityType DEF Waiting, Peers
<1>8. pending' \in [Producers -> Nat]
  BY <1>1, <1>5, <1>7
<1>9. ASSUME NEW q \in Producers PROVE PendingRight(q)'
  <2>1. CASE q = p
    <3>1. pending'[p] = Cardinality(W)
      BY <1>1, <1>5
    <3>2. prodState'[p] = "GRANTED" => Cardinality(W) = 0
      BY <1>1, <1>5 DEF Shape
    <3> QED
      BY <1>6, <1>7, <2>1, <3>1, <3>2, FS_EmptySet DEF PendingRight
  <2>2. CASE q # p
    <3>1. prodState'[q] = prodState[q] /\ pending'[q] = pending[q] /\ Peers(q)' = Peers(q)
      BY <1>1, <1>5, <2>2 DEF Shape, Peers
    <3> QED
      BY <1>1, <1>2, <1>5, <3>1, RequestSpares, PendingSame DEF GrantInv
  <2> QED
    BY <2>1, <2>2
<1> QED
  BY <1>1, <1>8, <1>9 DEF GrantInv

\* ipa_rm_release_resource(): p waits for nothing any more.
LEMMA ReleaseResourceCounts ==
  ASSUME GrantInv, NEW p \in Producers, ReleaseResource(p)
  PROVE  GrantInv'
<1>1. UsageInv /\ UsageInv' /\ Shape
  BY ReleaseResourceKeeps DEF GrantInv, UsageInv
<1>2. prodState[p] \in Busy /\ dep' = dep /\ pending' = pending
       /\ prodState' = [prodState EXCEPT ![p] = "RELEASED"]
  BY DEF ReleaseResource, graphVars
<1>3. PICK fast, res : ReleaseConsumers(Peers(p), 1, fast, res)
  BY DEF ReleaseResource
<1>4. \A c \in Peers(p) : p \in Users(c)
  BY <1>2 DEF Users, Owners, Peers
<1>5. ASSUME NEW q \in Producers PROVE PendingRight(q)'
  <2>1. CASE q = p
    BY <1>1, <1>2, <2>1 DEF PendingRight, Shape, Busy
  <2>2. CASE q # p
    <3>1. prodState'[q] = prodState[q] /\ Peers(q)' = Peers(q)
      BY <1>1, <1>2, <2>2 DEF Shape, Peers
    <3>2. Peers(p) \in SUBSET Consumers
      BY DEF Peers
    <3>3. \A c \in Consumers : q \in Users(c) => consState'[c] = consState[c]
      BY <1>1, <1>3, <1>4, <2>2, <3>2, ReleaseSpares
    <3> QED
      BY <1>2, <3>1, <3>3, PendingSame DEF GrantInv
  <2> QED
    BY <2>1, <2>2
<1> QED
  BY <1>1, <1>2, <1>5 DEF GrantInv

\* ipa_rm_add_dependency(): a producer in use also waits for the new consumer,
\* unless that is granted.
LEMMA AddDependencyCounts ==
  ASSUME "ERROR" \notin DriverResults, GrantInv, UsageInv', NEW p \in Producers,
         NEW c \in Consumers, NEW owner \in {"kernel", "user"}, NEW sync,
         AddDependency(p, c, owner, sync)
  PROVE  GrantInv'
<1>1. UsageInv /\ Shape /\ pending \in [Producers -> Nat] /\ \A q \in Producers : PendingRight(q)
  BY DEF GrantInv, UsageInv
<1>2. dep' = [dep EXCEPT ![<<p, c>>] = owner] /\ dep[<<p, c>>] = "none"
  BY DEF AddDependency
<1>3. \A q \in Producers : Peers(q)' = IF q = p THEN Peers(q) \cup {c} ELSE Peers(q)
  BY <1>1, <1>2 DEF Shape, Peers
<1>4. CASE prodState[p] = "RELEASED"
  <2>1. UNCHANGED <<prodState, pending, consState>>
    BY <1>4 DEF AddDependency, Busy, prodVars, consVars
  <2>2. ASSUME NEW q \in Producers PROVE PendingRight(q)'
    <3>1. CASE q = p
      BY <1>4, <2>1, <3>1 DEF PendingRight, Busy
    <3>2. CASE q # p
      BY <1>1, <1>3, <2>1, <3>2, PendingSame
    <3> QED
      BY <3>1, <3>2
  <2> QED
    BY <1>1, <2>1, <2>2 DEF GrantInv
<1>5. CASE prodState[p] \in Busy
  <2>1. PICK fast, res :
          LET inProgress == Waiting({c}, fast, res) # {} IN
          /\ res \in Answers(fast)
          /\ RequestConsumers({c}, fast, res, 1)
          /\ prodState' = [prodState EXCEPT ![p] =
                             IF inProgress THEN "REQUEST_IN_PROGRESS" ELSE @]
          /\ pending' = [pending EXCEPT ![p] = IF inProgress THEN @ + 1 ELSE @]
    BY <1>5 DEF AddDependency, Busy
  <2>2. Waiting({c}, fast, res) # {} <=> consState'[c] = "REQUEST_IN_PROGRESS"
    BY <2>1 DEF Waiting, RequestConsumers
  <2>3. /\ prodState' = [prodState EXCEPT ![p] =
              IF consState'[c] = "REQUEST_IN_PROGRESS" THEN "REQUEST_IN_PROGRESS" ELSE prodState[p]]
        /\ pending' = [pending EXCEPT ![p] =
              IF consState'[c] = "REQUEST_IN_PROGRESS" THEN pending[p] + 1 ELSE pending[p]]
    BY <2>1, <2>2
  <2>4. pending' \in [Producers -> Nat]
    BY <1>1, <2>3
  <2>5. \A d \in Consumers \ {c} : consState'[d] = consState[d]
    BY <2>1 DEF RequestConsumers
  <2>6. PendingRight(p)'
    <3>1. pending[p] = Cardinality(WaitsFor(p)) /\ c \notin WaitsFor(p)
          /\ (prodState[p] = "GRANTED" => WaitsFor(p) = {})
      BY <1>1, <1>2, <1>5 DEF PendingRight, WaitsFor, Peers
    <3>2. CASE consState'[c] = "REQUEST_IN_PROGRESS"
      <4>1. WaitsFor(p)' = WaitsFor(p) \cup {c}
        BY <1>3, <2>5, <3>2 DEF WaitsFor, Peers
      <4>2. Cardinality(WaitsFor(p)') = pending[p] + 1
        BY <3>1, <4>1, WaitsFinite, CountChange
      <4>3. pending'[p] = pending[p] + 1 /\ prodState'[p] = "REQUEST_IN_PROGRESS"
        BY <1>1, <2>3, <3>2 DEF Shape
      <4> QED
        BY <4>2, <4>3 DEF PendingRight
    <3>3. CASE consState'[c] # "REQUEST_IN_PROGRESS"
      <4>1. WaitsFor(p)' = WaitsFor(p)
        BY <1>3, <2>5, <3>1, <3>3 DEF WaitsFor, Peers
      <4>2. pending'[p] = pending[p] /\ prodState'[p] = prodState[p]
        BY <1>1, <2>3, <3>3 DEF Shape
      <4> QED
        BY <3>1, <4>1, <4>2 DEF PendingRight
    <3> QED
      BY <3>2, <3>3
  <2>7. ASSUME NEW q \in Producers, q # p PROVE PendingRight(q)'
    <3>1. prodState'[q] = prodState[q] /\ pending'[q] = pending[q] /\ Peers(q)' = Peers(q)
      BY <1>1, <1>3, <2>3, <2>7 DEF Shape
    <3> QED
      BY <1>1, <2>1, <3>1, RequestSpares, PendingSame
  <2> QED
    BY <2>4, <2>6, <2>7 DEF GrantInv
<1> QED
  BY <1>1, <1>4, <1>5 DEF Shape, ProdStates

\* ipa_rm_delete_dependency(): a producer stops waiting for the consumer, and is
\* granted if it was the last one.
LEMMA DeleteDependencyCounts ==
  ASSUME DeleteWhileRequesting = FALSE, GrantInv, UsageInv', NEW p \in Producers,
         NEW c \in Consumers, DeleteDependency(p, c)
  PROVE  GrantInv'
<1>1. UsageInv /\ Shape /\ pending \in [Producers -> Nat] /\ \A q \in Producers : PendingRight(q)
  BY DEF GrantInv, UsageInv
<1>2. /\ dep' = [dep EXCEPT ![<<p, c>>] = "none"] /\ dep[<<p, c>>] # "none"
      /\ prodState[p] = "REQUEST_IN_PROGRESS" => consState[c] = "REQUEST_IN_PROGRESS"
  BY DEF DeleteDependency
<1>3. \A q \in Producers : Peers(q)' = IF q = p THEN Peers(q) \ {c} ELSE Peers(q)
  BY <1>1, <1>2 DEF Shape, Peers
<1>4. CASE prodState[p] = "RELEASED"
  <2>1. UNCHANGED <<prodState, pending, consState>>
    BY <1>4 DEF DeleteDependency, Busy, prodVars, consVars
  <2>2. ASSUME NEW q \in Producers PROVE PendingRight(q)'
    <3>1. CASE q = p
      BY <1>4, <2>1, <3>1 DEF PendingRight, Busy
    <3>2. CASE q # p
      BY <1>1, <1>3, <2>1, <3>2, PendingSame
    <3> QED
      BY <3>1, <3>2
  <2> QED
    BY <1>1, <2>1, <2>2 DEF GrantInv
<1>5. CASE prodState[p] \in Busy
  <2>1. PICK fast, res :
          /\ ReleaseConsumers({c}, 1, fast, res)
          /\ prodState' = [prodState EXCEPT ![p] = IF GrantedByDelete(p, c) THEN "GRANTED" ELSE @]
          /\ pending' = [pending EXCEPT ![p] = PendingAfterDelete(p)]
    BY <1>5 DEF DeleteDependency, Busy
  <2>2. PendingAfterDelete(p) \in Nat
    BY <1>1 DEF PendingAfterDelete
  <2>3. pending' \in [Producers -> Nat] /\ pending'[p] = PendingAfterDelete(p)
    BY <1>1, <2>1, <2>2
  <2>4. prodState'[p] = IF GrantedByDelete(p, c) THEN "GRANTED" ELSE prodState[p]
    BY <1>1, <2>1 DEF Shape
  <2>5. \A d \in Consumers \ {c} : consState'[d] = consState[d]
    BY <2>1 DEF ReleaseConsumers, ReleasedState, Unused
  <2>6. WaitsFor(p)' = WaitsFor(p) \ {c} /\ c \in Peers(p)
    BY <1>2, <1>3, <2>5 DEF WaitsFor, Peers
  <2>7. PendingRight(p)'
    <3>1. pending[p] = Cardinality(WaitsFor(p))
      BY <1>1, <1>5 DEF PendingRight
    <3>2. CASE prodState[p] = "REQUEST_IN_PROGRESS"
      <4>1. c \in WaitsFor(p)
        BY <1>2, <2>6, <3>2 DEF WaitsFor
      <4>2. Cardinality(WaitsFor(p)') = pending[p] - 1 /\ pending[p] # 0
        BY <2>6, <3>1, <4>1, WaitsFinite, CountChange, FS_EmptySet
      <4>3. PendingAfterDelete(p) = Cardinality(WaitsFor(p)')
        BY <1>1, <3>2, <4>2 DEF PendingAfterDelete
      <4>4. prodState'[p] = "GRANTED" => PendingAfterDelete(p) = 0
        BY <2>4, <3>2 DEF GrantedByDelete
      <4>5. IsFiniteSet(WaitsFor(p)')
        BY <2>6, WaitsFinite, FS_Subset
      <4> QED
        BY <2>3, <4>3, <4>4, <4>5, FS_EmptySet DEF PendingRight
    <3>3. CASE prodState[p] = "GRANTED"
      <4>1. WaitsFor(p) = {} /\ WaitsFor(p)' = WaitsFor(p)
        BY <1>1, <1>5, <2>6, <3>3 DEF PendingRight
      <4>2. pending'[p] = pending[p] /\ prodState'[p] = prodState[p]
        BY <2>3, <2>4, <3>3 DEF PendingAfterDelete, GrantedByDelete
      <4> QED
        BY <3>1, <4>1, <4>2 DEF PendingRight
    <3> QED
      BY <1>5, <3>2, <3>3 DEF Busy
  <2>8. ASSUME NEW q \in Producers, q # p PROVE PendingRight(q)'
    <3>1. prodState'[q] = prodState[q] /\ pending'[q] = pending[q] /\ Peers(q)' = Peers(q)
      BY <1>1, <1>3, <2>1, <2>8 DEF Shape
    <3>2. p \in Users(c)
      BY <1>2, <1>5 DEF Users, Owners
    <3>3. \A d \in Consumers : q \in Users(d) => consState'[d] = consState[d]
      BY <1>1, <2>1, <2>8, <3>2, ReleaseSpares
    <3> QED
      BY <1>1, <3>1, <3>3, PendingSame
  <2> QED
    BY <2>3, <2>7, <2>8 DEF GrantInv
<1> QED
  BY <1>1, <1>4, <1>5 DEF Shape, ProdStates

\* The timer's request and release do not touch a consumer in use.
LEMMA TimerSpares ==
  ASSUME "ERROR" \notin DriverResults, UsageInv, NEW c \in Consumers,
         RequestWithTimer(c) \/ DelayedRelease(c)
  PROVE  \A d \in Consumers : Users(d) # {} => consState'[d] = consState[d]
<1>1. CASE RequestWithTimer(c)
  <2>1. CASE consState[c] = "GRANTED"
    BY <1>1, <2>1 DEF RequestWithTimer, consVars
  <2>2. CASE consState[c] # "GRANTED"
    <3>1. PICK fast, res : res \in Answers(fast) /\ RequestConsumers({c}, fast, res, 0)
      BY <1>1, <2>2 DEF RequestWithTimer
    <3> QED
      BY <3>1, RequestSpares
  <2> QED
    BY <2>1, <2>2
<1>2. CASE DelayedRelease(c)
  <2>1. PICK fast, res : ReleaseConsumers({c} \cap exists, 0, fast, res)
    BY <1>2 DEF DelayedRelease
  <2>2. \A d \in Consumers : Users(d) # {} => usage[d] # 0
    BY UsersFinite, FS_EmptySet DEF UsageInv, Counted
  <2> QED
    BY <2>1, <2>2 DEF ReleaseConsumers, ReleasedState, Unused, ReleasedUsage, UsageInv, Shape
<1> QED
  BY <1>1, <1>2

\* One step per action.
LEMMA GrantNext ==
  ASSUME "ERROR" \notin DriverResults, DeleteWhileRequesting = FALSE, TypeOK,
         GrantInv, [Next]_vars
  PROVE  GrantInv'
<1> USE DEF Client, Worker, Timer, Driver
<1>0. UsageInv /\ UsageInv'
  BY UsageNext DEF GrantInv
<1>1. ASSUME NEW r \in Dynamic, CreateResource(r) PROVE GrantInv'
  BY <1>0, <1>1, LifetimeCounts, IpaRmAssumption
<1>2. ASSUME NEW p \in Producers, DeleteProducer(p) PROVE GrantInv'
  BY <1>0, <1>2, LifetimeCounts DEF Resources
<1>3. ASSUME NEW c \in Consumers, DeleteConsumer(c) PROVE GrantInv'
  BY <1>0, <1>3, LifetimeCounts DEF Resources
<1>4. ASSUME NEW p \in Producers, RequestResource(p) PROVE GrantInv'
  BY <1>4, RequestResourceCounts
<1>5. ASSUME NEW p \in Producers, ReleaseResource(p) PROVE GrantInv'
  BY <1>5, ReleaseResourceCounts
<1>6. ASSUME NEW d \in Dependencies, NEW owner \in DepOwners, NEW sync \in SyncCalls,
             AddDependency(d[1], d[2], owner, sync)
      PROVE  GrantInv'
  <2>1. d[1] \in Producers /\ d[2] \in Consumers /\ owner \in {"kernel", "user"}
    BY IpaRmAssumption
  <2> QED
    BY <1>0, <1>6, <2>1, AddDependencyCounts
<1>7. ASSUME NEW d \in Dependencies, DeleteDependency(d[1], d[2]) PROVE GrantInv'
  BY <1>0, <1>7, DeleteDependencyCounts, IpaRmAssumption
<1>8. ASSUME NEW c \in Consumers, RequestWithTimer(c) \/ DelayedRelease(c) PROVE GrantInv'
  <2>1. UNCHANGED <<dep, prodVars>>
    BY <1>8 DEF RequestWithTimer, DelayedRelease, graphVars
  <2> QED
    BY <1>0, <1>8, <2>1, TimerSpares, GrantStutter
<1>9. CASE \/ \E p \in Listened : Register(p) \/ Deregister(p)
           \/ \E c \in Consumers : SyncReturn(c)
           \/ \E r \in Resources, bw \in Bandwidths : SetPerfProfile(r, bw)
           \/ \E n \in 0 .. MaxOther : OtherVote(n)
           \/ \E c \in Consumers, event \in Events : NotifyCompletion(c, event)
           \/ ResumeVote \/ SuspendVote \/ NotifyProducer \/ PerfWork \/ UNCHANGED vars
  <2>1. UNCHANGED <<dep, prodVars, consState>>
    BY <1>9 DEF Register, Deregister, SyncReturn, SetPerfProfile, OtherVote, ResumeVote,
                SuspendVote, NotifyProducer, PerfWork, NotifyCompletion, vars, graphVars,
                consVars
  <2> QED
    BY <1>0, <2>1, GrantStutter
<1>10. CASE ResumeLocked
  <2>1. \/ UNCHANGED <<dep, prodVars, consState>>
        \/ HandleGranted(worker.res) /\ UNCHANGED usage
    BY <1>10 DEF ResumeLocked, graphVars, consVars
  <2>2. worker.res \in Consumers /\ UNCHANGED graphVars
    BY <1>10 DEF ResumeLocked, TypeOK, ResumeWork, SuspendWork, Idle
  <2> QED
    BY <1>0, <2>1, <2>2, GrantCounts, GrantStutter
<1>11. CASE SuspendLocked
  <2>1. UNCHANGED <<dep, prodVars>>
        /\ \/ consState' = consState
           \/ consState' = [consState EXCEPT ![worker.res] = ReleasedByCb(worker.res)]
    BY <1>11 DEF SuspendLocked, graphVars
  <2>2. \A c \in Consumers :
          consState'[c] = "REQUEST_IN_PROGRESS" <=> consState[c] = "REQUEST_IN_PROGRESS"
    BY <1>0, <2>1 DEF UsageInv, Shape, ReleasedByCb
  <2> QED
    BY <1>0, <2>1, <2>2, GrantStutter
<1>12. CASE ResourceCb
  <2> DEFINE c == Head(wq).res
  <2>1. /\ UNCHANGED <<graphVars, usage>>
        /\ \/ HandleGranted(c)
           \/ /\ UNCHANGED prodVars
              /\ \/ consState' = [consState EXCEPT ![c] = consState[c]]
                 \/ consState' = [consState EXCEPT ![c] = ReleasedByCb(c)]
    BY <1>12 DEF ResourceCb
  <2>2. c \in Consumers
    <3>1. Head(wq) \in Work /\ Head(wq).kind = "cb"
      BY <1>12 DEF ResourceCb, TakeWork, TypeOK
    <3> QED
      BY <3>1 DEF Work, ResumeWork, SuspendWork, NotifyWork, CbWork
  <2> HIDE DEF c
  <2>3. CASE HandleGranted(c)
    BY <2>1, <2>2, <2>3, GrantCounts
  <2>4. CASE UNCHANGED prodVars /\ consState' = [consState EXCEPT ![c] = consState[c]]
    BY <1>0, <2>1, <2>4, GrantStutter DEF UsageInv, Shape, graphVars
  <2>5. CASE UNCHANGED prodVars /\ consState' = [consState EXCEPT ![c] = ReleasedByCb(c)]
    <3>1. \A d \in Consumers :
            consState'[d] = "REQUEST_IN_PROGRESS" <=> consState[d] = "REQUEST_IN_PROGRESS"
      BY <1>0, <2>5 DEF UsageInv, Shape, ReleasedByCb
    <3> QED
      BY <1>0, <2>1, <2>5, <3>1, GrantStutter DEF graphVars
  <2> QED
    BY <2>1, <2>3, <2>4, <2>5
<1> QED
  BY <1>1, <1>2, <1>3, <1>4, <1>5, <1>6, <1>7, <1>8, <1>9, <1>10, <1>11, <1>12,
     IpaRmAssumption DEF Next

\* Initially no producer waits.
LEMMA GrantInit == Init => GrantInv
<1> SUFFICES ASSUME Init PROVE GrantInv
  OBVIOUS
<1>1. \A p \in Producers : prodState[p] \notin Busy
  BY DEF Init, Busy
<1> QED
  BY <1>1, UsageInit DEF Init, GrantInv, PendingRight

\* As long as no driver fails and no dependency is deleted that its producer has
\* been granted while still waiting for others, pending_request of a producer being
\* requested is the number of consumers it waits for, and a producer is told
\* GRANTED only when every consumer it depends on is granted: however requests,
\* releases, queued work, timers and late driver events interleave
\* (ipa_rm_resource_producer_handle_cb, ipa_rm_resource_delete_dependency).
THEOREM GrantsAreCounted ==
  ASSUME "ERROR" \notin DriverResults, DeleteWhileRequesting = FALSE
  PROVE  Spec => []GrantsCounted
<1>1. Init => TypeOK /\ GrantInv
  BY InitType, GrantInit
<1>2. TypeOK /\ GrantInv /\ [Next]_vars => TypeOK' /\ GrantInv'
  BY NextType, GrantNext
<1>3. GrantInv => GrantsCounted
  <2> SUFFICES ASSUME GrantInv PROVE GrantsCounted
    OBVIOUS
  <2>1. PendingCountsWaits
    BY DEF GrantInv, PendingRight, PendingCountsWaits, WaitsFor, Busy
  <2>2. ASSUME NEW p \in Producers, prodState[p] = "GRANTED", NEW c \in Peers(p)
        PROVE  consState[c] = "GRANTED"
    <3>1. c \in Consumers /\ p \in Users(c)
      BY <2>2 DEF Peers, Users, Owners, Busy
    <3>2. consState[c] \in Busy
      BY <3>1 DEF GrantInv, UsageInv, Counted
    <3>3. consState[c] # "REQUEST_IN_PROGRESS"
      BY <2>2 DEF GrantInv, PendingRight, WaitsFor, Busy
    <3> QED
      BY <3>2, <3>3 DEF Busy
  <2> QED
    BY <2>1, <2>2 DEF GrantsCounted, GrantedConsumers
<1> QED
  BY <1>1, <1>2, <1>3, PTL DEF Spec

----------------------------------------------------------------------------
(* Who asked hears of the grant.  GrantsDelivered speaks of the drained    *)
(* queue only; before that, whoever is owed a grant has a notification     *)
(* waiting that reaches it.  No assumption on the drivers is needed.       *)

\* Some work of queue q tells listener l that producer p is granted.
Told(p, l, q) ==
  \E i \in DOMAIN q : /\ q[i].kind = "notify" /\ q[i].res = p /\ q[i].event = "GRANTED"
                      /\ l = "creator" => ~q[i].registeredOnly

BusyExist == \A p \in Producers : prodState[p] # "RELEASED" => p \in exists
OwedInv ==
  \A p \in Producers : prodState[p] = "GRANTED" => \A l \in owed[p] : Told(p, l, wq)

\* Work queued behind q takes nothing away from it.
LEMMA ToldByEither ==
  ASSUME NEW q \in Seq(Work), NEW s \in Seq(Work), NEW p, NEW l,
         Told(p, l, q) \/ Told(p, l, s)
  PROVE  Told(p, l, q \o s)
<1>1. CASE Told(p, l, q)
  <2>1. PICK i \in DOMAIN q : /\ q[i].kind = "notify" /\ q[i].res = p /\ q[i].event = "GRANTED"
                              /\ l = "creator" => ~q[i].registeredOnly
    BY <1>1 DEF Told
  <2>2. i \in DOMAIN (q \o s) /\ (q \o s)[i] = q[i]
    OBVIOUS
  <2> QED
    BY <2>1, <2>2 DEF Told
<1>2. CASE Told(p, l, s)
  <2>1. PICK i \in DOMAIN s : /\ s[i].kind = "notify" /\ s[i].res = p /\ s[i].event = "GRANTED"
                              /\ l = "creator" => ~s[i].registeredOnly
    BY <1>2 DEF Told
  <2>2. Len(q) + i \in DOMAIN (q \o s) /\ (q \o s)[Len(q) + i] = s[i]
    OBVIOUS
  <2> QED
    BY <2>1, <2>2 DEF Told
<1> QED
  BY <1>1, <1>2

\* A notification tells whom it is for.
LEMMA ToldByNotice ==
  ASSUME NEW p, NEW l, NEW only \in BOOLEAN, l = "creator" => ~only
  PROVE  Told(p, l, <<Notify(p, "GRANTED", only)>>)
BY DEF Told, Notify

\* A step that queues s and lets only those be owed a grant who are told by s, or
\* were owed it already.
LEMMA OwedFrame ==
  ASSUME TypeOK, OwedInv, NEW s \in Seq(Work), wq' = wq \o s,
         \A p \in Producers : prodState'[p] = "GRANTED" =>
            \A l \in owed'[p] : Told(p, l, s) \/ (prodState[p] = "GRANTED" /\ l \in owed[p])
  PROVE  OwedInv'
<1> SUFFICES ASSUME NEW p \in Producers, prodState'[p] = "GRANTED", NEW l \in owed'[p]
             PROVE  Told(p, l, wq')
  BY DEF OwedInv, Told
<1>1. Told(p, l, s) \/ Told(p, l, wq)
  BY DEF OwedInv
<1> QED
  BY <1>1, ToldByEither DEF TypeOK

\* A step that leaves the queue and the owed grants alone and grants nothing.
LEMMA OwedQuiet ==
  ASSUME OwedInv, UNCHANGED wq,
         \A p \in Producers : prodState'[p] = "GRANTED" =>
            owed'[p] = {} \/ (prodState[p] = "GRANTED" /\ owed'[p] \subseteq owed[p])
  PROVE  OwedInv'
BY DEF OwedInv, Told

\* The queue thread takes a work that is no notification.
LEMMA OwedTake ==
  ASSUME TypeOK, OwedInv, NEW kind, kind # "notify", TakeWork(kind),
         \A p \in Producers : prodState'[p] = "GRANTED" =>
            owed'[p] = {} \/ (prodState[p] = "GRANTED" /\ owed'[p] \subseteq owed[p])
  PROVE  OwedInv'
<1> SUFFICES ASSUME NEW p \in Producers, prodState'[p] = "GRANTED", NEW l \in owed'[p]
             PROVE  Told(p, l, wq')
  BY DEF OwedInv, Told
<1>1. wq \in Seq(Work) /\ wq # <<>> /\ wq' = Tail(wq) /\ wq[1].kind # "notify"
  BY DEF TypeOK, TakeWork
<1>2. PICK i \in DOMAIN wq : /\ wq[i].kind = "notify" /\ wq[i].res = p /\ wq[i].event = "GRANTED"
                             /\ l = "creator" => ~wq[i].registeredOnly
  BY DEF OwedInv, Told
<1>3. i # 1
  BY <1>1, <1>2
<1>4. i - 1 \in DOMAIN wq' /\ wq'[i - 1] = wq[i]
  BY <1>1, <1>3
<1> QED
  BY <1>2, <1>4 DEF Told

\* The notification itself: whom it does not reach is told by a later one.
LEMMA OwedNotify ==
  ASSUME TypeOK, BusyExist, OwedInv, NotifyProducer
  PROVE  OwedInv'
<1> SUFFICES ASSUME NEW p \in Producers, prodState'[p] = "GRANTED", NEW l \in owed'[p]
             PROVE  Told(p, l, wq')
  BY DEF OwedInv, Told
<1> DEFINE w == Head(wq)
<1>1. wq \in Seq(Work) /\ wq # <<>> /\ wq' = Tail(wq) /\ w = wq[1] /\ UNCHANGED <<prodVars, exists>>
  BY DEF TypeOK, NotifyProducer, TakeWork, graphVars
<1>2. owed' = IF w.res \in exists /\ w.event = "GRANTED"
              THEN [owed EXCEPT ![w.res] = IF w.registeredOnly THEN owed[w.res] \ {"client"} ELSE {}]
              ELSE owed
  BY DEF NotifyProducer
<1>3. prodState[p] = "GRANTED" /\ p \in exists /\ owed \in [Producers -> SUBSET Listeners]
  BY <1>1 DEF prodVars, BusyExist, TypeOK
<1>4. l \in owed[p] /\ ~(w.res = p /\ w.event = "GRANTED" /\ (l = "creator" => ~w.registeredOnly))
  BY <1>2, <1>3 DEF Listeners
<1>5. PICK i \in DOMAIN wq : /\ wq[i].kind = "notify" /\ wq[i].res = p /\ wq[i].event = "GRANTED"
                             /\ l = "creator" => ~wq[i].registeredOnly
  BY <1>3, <1>4 DEF OwedInv, Told
<1>6. i # 1
  BY <1>1, <1>4, <1>5
<1>7. i - 1 \in DOMAIN wq' /\ wq'[i - 1] = wq[i]
  BY <1>1, <1>5, <1>6
<1> QED
  BY <1>5, <1>7 DEF Told

\* Requests and releases of producers.
LEMMA OwedRequest ==
  ASSUME TypeOK, BusyExist, OwedInv, NEW p \in Producers, RequestResource(p) \/ ReleaseResource(p)
  PROVE  BusyExist' /\ OwedInv'
<1>0. ConsType /\ QueueType /\ BwType /\ ProdType /\ OwedType
  BY TypeParts
<1>1. CASE RequestResource(p)
  <2>1. PICK fast, res :
        LET C == Reached(p, fast, res)
            granted == Cardinality(Waiting(C, fast, res)) = 0 /\ Failed(fast, res) = {}
        IN
        /\ prodState' = [prodState EXCEPT ![p] = IF granted THEN "GRANTED"
                                                 ELSE "REQUEST_IN_PROGRESS"]
        /\ \E order \in Ordered(Asleep(C) \ fast) :
             wq' = wq \o ResumeWorks(order, maxBw[p], 1)
                      \o (IF granted THEN RequestNotice(p) ELSE <<>>)
        /\ owed' = [owed EXCEPT ![p] = (IF granted THEN {} ELSE {"creator"})
                      \cup (IF p \in listening THEN {"client"} ELSE {})]
    BY <1>1 DEF RequestResource
  <2> DEFINE C == Reached(p, fast, res)
             granted == Cardinality(Waiting(C, fast, res)) = 0 /\ Failed(fast, res) = {}
             notice == IF granted THEN RequestNotice(p) ELSE <<>>
  <2>2. PICK order \in Ordered(Asleep(C) \ fast) : wq' = wq \o ResumeWorks(order, maxBw[p], 1) \o notice
    BY <2>1
  <2>3. Asleep(C) \ fast \in SUBSET Consumers /\ maxBw[p] \in Bw
    BY <1>0 DEF Asleep, Reached, Peers, BwType, Resources
  <2>4. ResumeWorks(order, maxBw[p], 1) \in Seq(Work)
    BY <1>0, <2>3, OrderedWorksType
  <2>5. RequestNotice(p) \in Seq(Work)
    BY NotifyType, SeqClosed DEF RequestNotice, Events
  <2>6. notice \in Seq(Work)
    BY <2>5, SeqClosed
  <2>7. /\ prodState' = [prodState EXCEPT ![p] = IF granted THEN "GRANTED" ELSE "REQUEST_IN_PROGRESS"]
        /\ owed' = [owed EXCEPT ![p] = (IF granted THEN {} ELSE {"creator"})
                      \cup (IF p \in listening THEN {"client"} ELSE {})]
    BY <2>1
  <2>8. granted => notice = <<Notify(p, "GRANTED", TRUE)>>
    BY DEF RequestNotice
  <2>9. granted => Told(p, "client", notice)
    BY <2>8, ToldByNotice
  <2> HIDE DEF granted, notice, C
  <2> DEFINE s == ResumeWorks(order, maxBw[p], 1) \o notice
  <2>10. s \in Seq(Work) /\ wq' = wq \o s
    BY <1>0, <2>2, <2>4, <2>6, SeqClosed DEF QueueType
  <2>11. granted => Told(p, "client", s)
    BY <2>4, <2>6, <2>9, ToldByEither
  <2> HIDE DEF s
  <2>12. OwedInv'
    BY SMTT(30), <1>0, <2>7, <2>10, <2>11, OwedFrame DEF ProdType, OwedType
  <2>13. BusyExist'
    BY <1>0, <1>1, <2>7 DEF RequestResource, BusyExist, ProdType, graphVars
  <2> QED
    BY <2>12, <2>13
<1>2. CASE ReleaseResource(p)
  <2>1. PICK fast :
        /\ prodState' = [prodState EXCEPT ![p] = "RELEASED"] /\ owed' = [owed EXCEPT ![p] = {}]
        /\ \E order \in Ordered(Unused(Peers(p), 1) \ fast) :
             wq' = wq \o SuspendWorks(order) \o <<Notify(p, "RELEASED", TRUE)>>
    BY <1>2 DEF ReleaseResource
  <2>2. PICK order \in Ordered(Unused(Peers(p), 1) \ fast) :
          wq' = wq \o SuspendWorks(order) \o <<Notify(p, "RELEASED", TRUE)>>
    BY <2>1
  <2>3. Unused(Peers(p), 1) \ fast \in SUBSET Consumers /\ 0 \in Bw
    BY BwClosed DEF Unused, Peers
  <2>4. SuspendWorks(order) \in Seq(Work) /\ <<Notify(p, "RELEASED", TRUE)>> \in Seq(Work)
    BY <1>0, <2>3, OrderedWorksType, NotifyType, SeqClosed DEF Events
  <2> DEFINE works == SuspendWorks(order)
             notice == <<Notify(p, "RELEASED", TRUE)>>
             s == works \o notice
  <2>5. s \in Seq(Work) /\ wq' = wq \o s
    <3>1. wq \in Seq(Work) /\ works \in Seq(Work) /\ notice \in Seq(Work) /\ wq' = wq \o works \o notice
      BY <1>0, <2>2, <2>4 DEF QueueType
    <3> HIDE DEF works, notice
    <3>2. s \in Seq(Work)
      BY <3>1, SeqClosed
    <3>3. wq \o works \o notice = wq \o s
      BY <3>1, ConcatAssociative
    <3> QED
      BY <3>1, <3>2, <3>3
  <2> HIDE DEF s
  <2>6. OwedInv'
    BY <1>0, <2>1, <2>5, OwedFrame DEF ProdType, OwedType
  <2>7. BusyExist'
    BY <1>0, <1>2, <2>1 DEF ReleaseResource, BusyExist, ProdType, graphVars
  <2> QED
    BY <2>6, <2>7
<1> QED
  BY <1>1, <1>2

\* Dependencies that come and go under a request.
LEMMA OwedDependency ==
  ASSUME TypeOK, BusyExist, OwedInv, NEW p \in Producers, NEW c \in Consumers,
         \/ \E owner, sync : AddDependency(p, c, owner, sync)
         \/ DeleteDependency(p, c)
  PROVE  BusyExist' /\ OwedInv'
<1>0. ConsType /\ QueueType /\ BwType /\ ProdType /\ OwedType /\ 0 \in Bw
  BY TypeParts, BwClosed
<1>1. UNCHANGED <<exists, owed>> /\ p \in exists
  BY DEF AddDependency, DeleteDependency, clientVars
<1>2. CASE UNCHANGED <<prodVars, wq>>
  BY <1>1, <1>2, OwedQuiet DEF BusyExist, prodVars
<1>3. CASE \E owner, sync : AddDependency(p, c, owner, sync) /\ prodState[p] \in Busy
  <2>1. PICK fast, res :
        /\ prodState' = [prodState EXCEPT ![p] = IF Waiting({c}, fast, res) # {}
                                                 THEN "REQUEST_IN_PROGRESS" ELSE prodState[p]]
        /\ wq' = wq \o ResumeWorks(IF c \in Asleep({c}) \ fast THEN <<c>> ELSE <<>>, maxBw[p], 1)
    BY <1>3 DEF AddDependency, Busy
  <2> DEFINE s == ResumeWorks(IF c \in Asleep({c}) \ fast THEN <<c>> ELSE <<>>, maxBw[p], 1)
  <2>2. maxBw[p] \in Bw
    BY <1>0 DEF BwType, Resources
  <2>3. s \in Seq(Work)
    BY <1>0, <2>2, OneWorkType
  <2>4. wq' = wq \o s
    BY <2>1
  <2>5. \A q \in Producers : prodState'[q] = prodState[q] \/ prodState'[q] = "REQUEST_IN_PROGRESS"
    BY <1>0, <2>1 DEF ProdType
  <2>6. \A q \in Producers : prodState'[q] # prodState[q] => q = p
    BY <1>0, <2>1 DEF ProdType
  <2> HIDE DEF s
  <2>7. OwedInv'
    BY <1>1, <2>3, <2>4, <2>5, OwedFrame
  <2> QED
    BY <1>1, <2>6, <2>7 DEF BusyExist
<1>4. CASE DeleteDependency(p, c) /\ prodState[p] \in Busy
  <2>1. PICK fast :
        /\ prodState' = [prodState EXCEPT ![p] = IF GrantedByDelete(p, c) THEN "GRANTED" ELSE prodState[p]]
        /\ wq' = wq \o (IF GrantedByDelete(p, c) THEN DeleteNotice(p) ELSE <<>>)
                    \o SuspendWorks(IF c \in Unused({c}, 1) \ fast THEN <<c>> ELSE <<>>)
    BY <1>4 DEF DeleteDependency, Busy
  <2> DEFINE notice == IF GrantedByDelete(p, c) THEN DeleteNotice(p) ELSE <<>>
             works == SuspendWorks(IF c \in Unused({c}, 1) \ fast THEN <<c>> ELSE <<>>)
             s == notice \o works
  <2>2. DeleteNotice(p) \in Seq(Work)
    BY NotifyType, SeqClosed DEF DeleteNotice, Events
  <2>3. notice \in Seq(Work)
    BY <2>2, SeqClosed
  <2>4. works \in Seq(Work)
    BY <1>0, OneWorkType
  <2>5. GrantedByDelete(p, c) => \A l : Told(p, l, notice)
    BY ToldByNotice DEF DeleteNotice
  <2>6. wq' = wq \o notice \o works
    BY <2>1
  <2> HIDE DEF notice, works
  <2>7. s \in Seq(Work) /\ wq' = wq \o s
    BY <1>0, <2>3, <2>4, <2>6, SeqClosed DEF QueueType
  <2>8. GrantedByDelete(p, c) => \A l : Told(p, l, s)
    BY <2>3, <2>4, <2>5, ToldByEither
  <2> HIDE DEF s
  <2>9. \A q \in Producers : prodState'[q] = prodState[q] \/ (q = p /\ GrantedByDelete(p, c))
    BY <1>0, <2>1 DEF ProdType
  <2>10. OwedInv'
    BY <1>1, <2>7, <2>8, <2>9, OwedFrame
  <2> QED
    BY <1>1, <2>9, <2>10 DEF BusyExist
<1>5. ASSUME NEW owner, NEW sync, AddDependency(p, c, owner, sync)
      PROVE  prodState[p] \in Busy \/ UNCHANGED <<prodVars, wq>>
  BY <1>5 DEF AddDependency
<1>6. ASSUME DeleteDependency(p, c)
      PROVE  prodState[p] \in Busy \/ UNCHANGED <<prodVars, wq>>
  BY <1>6 DEF DeleteDependency
<1> QED
  BY <1>2, <1>3, <1>4, <1>5, <1>6

\* Consumers taken by themselves, with a timer.
LEMMA OwedTimer ==
  ASSUME TypeOK, BusyExist, OwedInv, NEW c \in Consumers, RequestWithTimer(c) \/ DelayedRelease(c)
  PROVE  BusyExist' /\ OwedInv'
<1>0. ConsType /\ QueueType /\ 0 \in Bw
  BY TypeParts, BwClosed
<1>1. UNCHANGED <<exists, owed, prodState>>
  BY DEF RequestWithTimer, DelayedRelease, graphVars, prodVars, clientVars
<1>2. CASE UNCHANGED wq
  BY <1>1, <1>2, OwedQuiet DEF BusyExist
<1>3. CASE \E fast : \/ wq' = wq \o ResumeWorks(IF c \in Asleep({c}) \ fast THEN <<c>> ELSE <<>>, 0, 0)
                     \/ wq' = wq \o SuspendWorks(IF c \in Unused({c} \cap exists, 0) \ fast
                                                 THEN <<c>> ELSE <<>>)
  <2>1. PICK s \in Seq(Work) : wq' = wq \o s
    BY <1>0, <1>3, OneWorkType
  <2>2. OwedInv'
    BY <1>1, <2>1, OwedFrame
  <2> QED
    BY <1>1, <2>2 DEF BusyExist
<1> QED
  BY <1>2, <1>3 DEF RequestWithTimer, DelayedRelease

\* A grant: those who waited for nothing else are told at once.
LEMMA OwedGrant ==
  ASSUME ProdType, BusyExist, NEW c \in Consumers, HandleGranted(c)
  PROVE  /\ \A p \in Producers : prodState'[p] = "GRANTED" =>
              owed'[p] = {} \/ (prodState[p] = "GRANTED" /\ owed'[p] \subseteq owed[p])
         /\ \A p \in Producers : prodState'[p] # "RELEASED" => p \in exists
<1>1. CASE consState[c] = "REQUEST_IN_PROGRESS"
  BY <1>1 DEF HandleGranted, BusyExist, LastPending, WaitingFor, ProdType
<1>2. CASE consState[c] # "REQUEST_IN_PROGRESS"
  BY <1>2 DEF HandleGranted, BusyExist, prodVars
<1> QED
  BY <1>1, <1>2

\* Any step keeps what is owed in the queue.
LEMMA OwedNext ==
  ASSUME TypeOK, BusyExist, OwedInv, [Next]_vars
  PROVE  BusyExist' /\ OwedInv'
<1>0. ConsType /\ QueueType /\ ProdType /\ OwedType /\ GraphType
  BY TypeParts
<1>1. CASE \/ \E c \in Consumers : DeleteConsumer(c) \/ SyncReturn(c)
           \/ \E r \in Resources, bw \in Bandwidths : SetPerfProfile(r, bw)
           \/ \E n \in 0 .. MaxOther : OtherVote(n)
           \/ \E p \in Producers : Register(p) \/ Deregister(p)
           \/ SuspendLocked \/ PerfWork \/ UNCHANGED vars
  <2>1. UNCHANGED <<prodState, wq>> /\ (\A p \in Producers : p \in exists => p \in exists')
    BY <1>1, IpaRmAssumption DEF DeleteConsumer, SyncReturn, SetPerfProfile, OtherVote,
        Register, Deregister,
       SuspendLocked, PerfWork, vars, prodVars, graphVars
  <2>2. \A p \in Producers : owed'[p] \subseteq owed[p]
    BY <1>0, <1>1 DEF DeleteConsumer, SyncReturn, SetPerfProfile, OtherVote, Register, Deregister,
       SuspendLocked, PerfWork, vars, clientVars, OwedType
  <2> QED
    BY <2>1, <2>2, OwedQuiet DEF BusyExist
<1>2. ASSUME NEW r \in Resources, CreateResource(r) PROVE BusyExist' /\ OwedInv'
  <2>1. UNCHANGED wq /\ exists' = exists \cup {r}
    BY <1>2 DEF CreateResource
  <2>2. \A p \in Producers : \/ prodState'[p] = "RELEASED"
                             \/ prodState'[p] = prodState[p] /\ owed'[p] = owed[p]
    BY <1>0, <1>2 DEF CreateResource, prodVars, ProdType, OwedType
  <2>3. OwedInv'
    BY <2>1, <2>2, OwedQuiet
  <2> QED
    BY <2>1, <2>2, <2>3 DEF BusyExist
<1>3. ASSUME NEW p \in Producers, DeleteProducer(p) PROVE BusyExist' /\ OwedInv'
  <2>1. /\ exists' = exists \ {p} /\ prodState' = [prodState EXCEPT ![p] = "RELEASED"]
        /\ owed' = [owed EXCEPT ![p] = {}]
        /\ wq' = IF prodState[p] = "RELEASED" THEN wq ELSE Append(wq, Notify(p, "RELEASED", TRUE))
    BY <1>3 DEF DeleteProducer
  <2>2. Notify(p, "RELEASED", TRUE) \in Work
    BY NotifyType DEF Events
  <2>3. PICK s \in Seq(Work) : wq' = wq \o s
    <3>1. wq \in Seq(Work)
      BY <1>0 DEF QueueType
    <3>2. CASE wq' = wq
      BY <3>1, <3>2, SeqClosed, ConcatEmptySeq
    <3>3. CASE wq' = Append(wq, Notify(p, "RELEASED", TRUE))
      <4>1. wq' = wq \o <<Notify(p, "RELEASED", TRUE)>>
        BY <2>2, <3>1, <3>3, AppendIsConcat
      <4> QED
        BY <2>2, <4>1, SeqClosed
    <3> QED
      BY <2>1, <3>2, <3>3
  <2>4. OwedInv'
    BY <1>0, <2>1, <2>3, OwedFrame DEF ProdType, OwedType
  <2> QED
    BY <1>0, <2>1, <2>4 DEF BusyExist, ProdType
<1>4. ASSUME NEW d \in Dependencies,
             \/ \E owner \in DepOwners, sync \in SyncCalls : AddDependency(d[1], d[2], owner, sync)
             \/ DeleteDependency(d[1], d[2])
      PROVE  BusyExist' /\ OwedInv'
  <2>1. d[1] \in Producers /\ d[2] \in Consumers
    BY IpaRmAssumption
  <2> QED
    BY <1>4, <2>1, OwedDependency
<1>5. CASE ResumeVote \/ SuspendVote
  <2>1. UNCHANGED <<prodState, exists, owed>>
    BY <1>5 DEF ResumeVote, SuspendVote, prodVars, graphVars, clientVars
  <2>2. OwedInv'
    BY <1>5, <2>1, OwedTake DEF ResumeVote, SuspendVote
  <2> QED
    BY <2>1, <2>2 DEF BusyExist
<1>6. CASE ResumeLocked
  <2>1. UNCHANGED <<wq, exists>> /\ (HandleGranted(worker.res) \/ UNCHANGED <<prodState, owed>>)
    BY <1>6 DEF ResumeLocked, prodVars, graphVars
  <2>2. worker.res \in Consumers
    BY <1>0, <1>6 DEF ResumeLocked, QueueType, ResumeWork, SuspendWork, Idle
  <2>3. CASE HandleGranted(worker.res)
    BY <1>0, <2>1, <2>2, <2>3, OwedGrant, OwedQuiet DEF BusyExist
  <2>4. CASE UNCHANGED <<prodState, owed>>
    BY <2>1, <2>4, OwedQuiet DEF BusyExist
  <2> QED
    BY <2>1, <2>3, <2>4
<1>7. CASE ResourceCb
  <2>1. TakeWork("cb") /\ UNCHANGED exists /\ (HandleGranted(Head(wq).res) \/ UNCHANGED <<prodState, owed>>)
    BY <1>7 DEF ResourceCb, prodVars, graphVars
  <2>2. Head(wq).res \in Consumers
    BY <1>0, <2>1, HeadType DEF TakeWork, CbWork
  <2>3. CASE HandleGranted(Head(wq).res)
    BY <1>0, <2>1, <2>2, <2>3, OwedGrant, OwedTake DEF BusyExist
  <2>4. CASE UNCHANGED <<prodState, owed>>
    BY <2>1, <2>4, OwedTake DEF BusyExist
  <2> QED
    BY <2>1, <2>3, <2>4
<1>8. CASE NotifyProducer
  <2>1. UNCHANGED <<prodState, exists>>
    BY <1>8 DEF NotifyProducer, prodVars, graphVars
  <2> QED
    BY <1>8, <2>1, OwedNotify DEF BusyExist
<1>9. CASE Driver
  <2>1. PICK c \in Consumers, event \in Events : NotifyCompletion(c, event)
    BY <1>9 DEF Driver
  <2>2. [kind |-> "cb", res |-> c, event |-> event] \in Work
    BY DEF Work, CbWork
  <2>3. wq' = wq \o <<[kind |-> "cb", res |-> c, event |-> event]>>
    BY <1>0, <2>1, <2>2 DEF NotifyCompletion, QueueType
  <2>4. UNCHANGED <<prodState, exists, owed>>
    BY <2>1 DEF NotifyCompletion, prodVars, graphVars, clientVars
  <2>5. OwedInv'
    BY <2>2, <2>3, <2>4, SeqClosed, OwedFrame
  <2> QED
    BY <2>4, <2>5 DEF BusyExist
<1>10. CASE Client
  BY <1>1, <1>2, <1>3, <1>4, <1>10, OwedRequest, OwedTimer, IpaRmAssumption DEF Client
<1>11. CASE Worker
  BY <1>1, <1>5, <1>6, <1>7, <1>8, <1>11 DEF Worker
<1>12. CASE Timer
  BY <1>12, OwedTimer DEF Timer
<1> QED
  BY <1>1, <1>9, <1>10, <1>11, <1>12 DEF Next

\* Everybody who asked for a producer hears that it was granted, whoever the
\* drivers are, whether they fail or answer late, and however dependencies and
\* resources come and go meanwhile: when the queue has drained, no grant is owed
\* (ipa_rm_resource_producer_notify_clients, ipa_rm.c:396).
THEOREM GrantsAreHeard == Spec => []GrantsDelivered
<1>1. Init => TypeOK /\ BusyExist /\ OwedInv
  BY InitType DEF Init, BusyExist, OwedInv
<1>2. TypeOK /\ BusyExist /\ OwedInv /\ [Next]_vars => TypeOK' /\ BusyExist' /\ OwedInv'
  BY NextType, OwedNext
<1>3. OwedInv => GrantsDelivered
  BY DEF OwedInv, Told, GrantsDelivered, Quiescent
<1> QED
  BY <1>1, <1>2, <1>3, PTL DEF Spec
----------------------------------------------------------------------------
(* The clock votes.  Every resume and suspend the queue holds is counted   *)
(* against the state it was queued for, so the argument is about how the   *)
(* operations change those counts.                                         *)

\* The works of kind k for consumer c in a queue s, and their number.
Marks(s, k, c) == {i \in DOMAIN s : s[i].kind = k /\ s[i].res = c}
Marked(s, k, c) == Cardinality(Marks(s, k, c))
One(b) == IF b THEN 1 ELSE 0

\* They are finitely many.
LEMMA MarksFinite ==
  ASSUME NEW s \in Seq(Work), NEW k, NEW c
  PROVE  IsFiniteSet(Marks(s, k, c)) /\ Marked(s, k, c) \in Nat
<1>1. Marks(s, k, c) \subseteq 1 .. Len(s)
  BY DEF Marks
<1>2. IsFiniteSet(1 .. Len(s))
  BY FS_Interval
<1> QED
  BY <1>1, <1>2, FS_Subset, FS_CardinalityType DEF Marked

\* Queueing t behind s adds the two counts up.
LEMMA MarkedConcat ==
  ASSUME NEW s \in Seq(Work), NEW t \in Seq(Work), NEW k, NEW c
  PROVE  Marked(s \o t, k, c) = Marked(s, k, c) + Marked(t, k, c)
<1> DEFINE A == Marks(s, k, c)
           M == Marks(t, k, c)
           B == {i \in Len(s) + 1 .. Len(s) + Len(t) : i - Len(s) \in M}
           f == [i \in M |-> i + Len(s)]
<1>1. Len(s) \in Nat /\ Len(t) \in Nat /\ A \subseteq 1 .. Len(s) /\ M \subseteq 1 .. Len(t)
  BY DEF Marks
<1>2. f \in Bijection(M, B)
  <2>1. f \in [M -> B]
    BY <1>1
  <2>2. \A i, j \in M : f[i] = f[j] => i = j
    BY <1>1
  <2>3. \A j \in B : \E i \in M : f[i] = j
    <3> TAKE j \in B
    <3>1. j - Len(s) \in M /\ f[j - Len(s)] = j
      BY <1>1
    <3> QED
      BY <3>1
  <2> HIDE DEF f, M, B
  <2> QED
    BY <2>1, <2>2, <2>3 DEF Bijection, Injection, Surjection, IsInjective
<1>3. IsFiniteSet(A) /\ IsFiniteSet(M)
  BY MarksFinite
<1>4. IsFiniteSet(B) /\ Cardinality(B) = Cardinality(M)
  <2> HIDE DEF f, M, B
  <2> QED
    BY <1>2, <1>3, FS_Bijection DEF ExistsBijection
<1>5. A \cap B = {}
  BY <1>1
<1>6. Marks(s \o t, k, c) = A \cup B
  <2>1. DOMAIN (s \o t) = 1 .. Len(s) + Len(t)
    OBVIOUS
  <2>2. \A i \in 1 .. Len(s) : (s \o t)[i] = s[i] /\ i \in DOMAIN s
    OBVIOUS
  <2>3. \A i \in Len(s) + 1 .. Len(s) + Len(t) :
          (s \o t)[i] = t[i - Len(s)] /\ i - Len(s) \in DOMAIN t
    BY <1>1
  <2>4. \A i : i \in Marks(s \o t, k, c) <=> i \in A \cup B
    <3> TAKE i
    <3>1. CASE i \in 1 .. Len(s)
      BY <1>1, <2>1, <2>2, <3>1 DEF Marks
    <3>2. CASE i \in Len(s) + 1 .. Len(s) + Len(t)
      BY <1>1, <2>1, <2>3, <3>2 DEF Marks
    <3>3. CASE i \notin 1 .. Len(s) + Len(t)
      BY <1>1, <2>1, <3>3 DEF Marks
    <3> QED
      BY <1>1, <3>1, <3>2, <3>3
  <2> QED
    BY <2>4
<1>7. Cardinality(A \cup B) = Cardinality(A) + Cardinality(B) - Cardinality({})
  <2> HIDE DEF A, B, M, f
  <2> QED
    BY <1>3, <1>4, <1>5, FS_Union
<1>8. Cardinality(A) \in Nat /\ Cardinality(M) \in Nat /\ Cardinality({}) = 0
  BY <1>3, FS_CardinalityType, FS_EmptySet
<1> HIDE DEF A, B, M, f
<1>9. Cardinality(A \cup B) = Cardinality(A) + Cardinality(M)
  BY <1>4, <1>7, <1>8
<1> QED
  BY <1>6, <1>9 DEF Marked, A, M

\* Queueing twice.
LEMMA QueueTwice ==
  ASSUME NEW s \in Seq(Work), NEW t \in Seq(Work), NEW u \in Seq(Work)
  PROVE  t \o u \in Seq(Work) /\ s \o t \o u = s \o (t \o u)
<1>1. t \o u \in Seq(Work)
  OBVIOUS
<1>2. s \o t \o u = s \o (t \o u)
  BY ConcatAssociative
<1> QED
  BY <1>1, <1>2

\* No work.
LEMMA MarkedNone == \A k, c : Marked(<<>>, k, c) = 0
BY FS_EmptySet DEF Marked, Marks

\* One work.
LEMMA MarkedOne ==
  ASSUME NEW w, NEW k, NEW c
  PROVE  Marked(<<w>>, k, c) = One(w.kind = k /\ w.res = c)
<1>1. Marks(<<w>>, k, c) = IF w.kind = k /\ w.res = c THEN {1} ELSE {}
  BY DEF Marks
<1> QED
  BY <1>1, FS_Singleton, FS_EmptySet DEF Marked, One

\* Taking the first work off a queue.
LEMMA MarkedTail ==
  ASSUME NEW s \in Seq(Work), s # <<>>, NEW k, NEW c
  PROVE  Marked(s, k, c) = One(Head(s).kind = k /\ Head(s).res = c) + Marked(Tail(s), k, c)
<1> DEFINE h == <<Head(s)>>
           t == Tail(s)
<1>1. h \in Seq(Work) /\ t \in Seq(Work)
  OBVIOUS
<1>2. s = h \o t
  OBVIOUS
<1>3. Marked(h \o t, k, c) = Marked(h, k, c) + Marked(t, k, c)
  <2> HIDE DEF h, t
  <2> QED
    BY <1>1, MarkedConcat
<1>4. Marked(h, k, c) = One(Head(s).kind = k /\ Head(s).res = c)
  BY MarkedOne
<1> QED
  BY <1>2, <1>3, <1>4

\* A loop over a peers list meets every consumer of S once.
LEMMA OrderedOnce ==
  ASSUME NEW S \in SUBSET Consumers, NEW order \in Ordered(S), NEW c
  PROVE  Cardinality({i \in DOMAIN order : order[i] = c}) = One(c \in S)
<1> DEFINE n == Cardinality(S)
<1>1. IsFiniteSet(S) /\ n \in Nat
  BY IpaRmAssumption, FS_Subset, FS_CardinalityType
<1>2. order \in [1 .. n -> S] /\ \A i, j \in 1 .. n : i < j => order[i] < order[j]
  BY DEF Ordered
<1> HIDE DEF n
<1>3. \A i, j \in 1 .. n : order[i] = order[j] => i = j
  <2> TAKE i, j \in 1 .. n
  <2>1. order[i] \in Nat /\ order[j] \in Nat
    BY <1>2, IpaRmAssumption
  <2>2. CASE i < j
    BY <1>2, <2>1, <2>2
  <2>3. CASE j < i
    BY <1>2, <2>1, <2>3
  <2> QED
    BY <1>1, <2>2, <2>3
<1>4. order \in Injection(1 .. n, S)
  BY <1>2, <1>3 DEF Injection, IsInjective
<1>5. Cardinality(1 .. n) = n
  BY <1>1, FS_Interval
<1>6. order \in Surjection(1 .. n, S)
  BY <1>1, <1>4, <1>5, FS_Injection DEF n
<1>7. CASE c \in S
  <2>1. PICK i \in 1 .. n : order[i] = c
    BY <1>6, <1>7 DEF Surjection
  <2>2. {j \in DOMAIN order : order[j] = c} = {i}
    BY <1>2, <1>3, <2>1
  <2> QED
    BY <1>7, <2>2, FS_Singleton DEF One
<1>8. CASE c \notin S
  <2>1. {j \in DOMAIN order : order[j] = c} = {}
    BY <1>2, <1>8
  <2> QED
    BY <1>8, <2>1, FS_EmptySet DEF One
<1> QED
  BY <1>7, <1>8

\* So it queues one work for each of them.
LEMMA MarkedWorks ==
  ASSUME NEW S \in SUBSET Consumers, NEW order \in Ordered(S), NEW bw, NEW inc, NEW c
  PROVE  /\ Marked(ResumeWorks(order, bw, inc), "resume", c) = One(c \in S)
         /\ Marked(ResumeWorks(order, bw, inc), "suspend", c) = 0
         /\ Marked(SuspendWorks(order), "suspend", c) = One(c \in S)
         /\ Marked(SuspendWorks(order), "resume", c) = 0
<1>1. /\ Marks(ResumeWorks(order, bw, inc), "resume", c) = {i \in DOMAIN order : order[i] = c}
      /\ Marks(ResumeWorks(order, bw, inc), "suspend", c) = {}
  BY DEF Marks, ResumeWorks
<1>2. /\ Marks(SuspendWorks(order), "suspend", c) = {i \in DOMAIN order : order[i] = c}
      /\ Marks(SuspendWorks(order), "resume", c) = {}
  BY DEF Marks, SuspendWorks
<1> QED
  BY <1>1, <1>2, OrderedOnce, FS_EmptySet DEF Marked

\* The single calls queue a work for one consumer or none.
LEMMA OrderedSmall ==
  ASSUME NEW c \in Consumers
  PROVE  <<c>> \in Ordered({c}) /\ <<>> \in Ordered({})
<1>1. Cardinality({c}) = 1 /\ Cardinality({}) = 0
  BY FS_Singleton, FS_EmptySet
<1>2. <<c>> \in [1 .. 1 -> {c}] /\ <<>> \in [1 .. 0 -> {}]
  OBVIOUS
<1>3. \A i, j \in DOMAIN <<c>> : ~(i < j)
  OBVIOUS
<1>4. DOMAIN <<>> = {}
  OBVIOUS
<1> QED
  BY <1>1, <1>2, <1>3, <1>4 DEF Ordered

\* No resume is queued or started for a consumer that is gone, and a consumer that is
\* gone is not in use: without DeleteWhileBusy only an idle consumer is deleted.
ResumesExist ==
  /\ \A i \in DOMAIN wq : wq[i].kind = "resume" => wq[i].res \in exists
  /\ worker.kind = "resume" => worker.res \in exists
  /\ \A c \in Consumers \ exists : consState[c] \notin Busy

\* The inductive invariant behind ClockVotesBalance.
ClockInv == TypeOK /\ UsageInv /\ ResumesExist /\ ClockVotesBalance

\* The counts of ClockVotesBalance are marks of the queue.
LEMMA QueuedMarks ==
  ASSUME TypeOK, NEW k, NEW c
  PROVE  Queued(k, c) = Marked(wq, k, c) /\ Queued(k, c) \in Nat
<1>1. wq \in Seq(Work)
  BY DEF TypeOK
<1>2. Queued(k, c) = Marked(wq, k, c)
  BY DEF Queued, Marked, Marks
<1> QED
  BY <1>1, <1>2, MarksFinite

\* And after a step.
LEMMA QueuedMarksNext ==
  ASSUME TypeOK', NEW k, NEW c
  PROVE  Queued(k, c)' = Marked(wq', k, c) /\ Queued(k, c)' \in Nat
<1>1. wq' \in Seq(Work)
  BY DEF TypeOK
<1>2. Queued(k, c)' = Marked(wq', k, c)
  BY DEF Queued, Marked, Marks
<1> QED
  BY <1>1, <1>2, MarksFinite

\* A step that moves no consumer into or out of use and changes neither its votes nor
\* what is queued for it.
LEMMA BalanceFrame ==
  ASSUME ClockVotesBalance, UNCHANGED votes,
         \A c \in Consumers : /\ Queued("resume", c)' = Queued("resume", c)
                              /\ Queued("suspend", c)' = Queued("suspend", c)
                              /\ consState'[c] \in Busy <=> consState[c] \in Busy
  PROVE  ClockVotesBalance'
BY DEF ClockVotesBalance

\* ipa_rm_resource_consumer_request(): a consumer that is woken gets its vote at once
\* or with the resume queued for it.
LEMMA BalanceRequest ==
  ASSUME "ERROR" \notin DriverResults, TypeOK, UsageInv, ClockVotesBalance,
         NEW C \in SUBSET Consumers, NEW fast \in SUBSET MayVoteNow(C),
         NEW res \in Answers(fast), NEW inc, RequestConsumers(C, fast, res, inc),
         \A c \in Consumers :
            /\ Queued("resume", c)' = Queued("resume", c) + One(c \in Asleep(C) \ fast)
            /\ Queued("suspend", c)' = Queued("suspend", c)
  PROVE  ClockVotesBalance'
<1> SUFFICES ASSUME NEW c \in Consumers
             PROVE  votes'[c] + Queued("resume", c)' - Queued("suspend", c)'
                      = IF consState'[c] \in Busy THEN 1 ELSE 0
  BY DEF ClockVotesBalance
<1>1. votes[c] \in Int /\ Queued("resume", c) \in Nat /\ Queued("suspend", c) \in Nat
  BY QueuedMarks DEF TypeOK
<1>2. votes[c] + Queued("resume", c) - Queued("suspend", c)
        = IF consState[c] \in Busy THEN 1 ELSE 0
  BY DEF ClockVotesBalance
<1>3. /\ votes'[c] = IF c \in fast THEN votes[c] + 1 ELSE votes[c]
      /\ consState'[c] = IF c \in C THEN RequestedState(c, fast, res) ELSE consState[c]
  BY DEF RequestConsumers
<1>4. RequestedState(c, fast, res) \in Busy
  BY RequestedBusy DEF UsageInv
<1>5. CASE c \in fast
  <2>1. c \in C /\ consState[c] \notin Busy
    BY <1>5 DEF MayVoteNow, Busy
  <2> QED
    BY <1>1, <1>2, <1>3, <1>4, <1>5, <2>1 DEF One
<1>6. CASE c \in Asleep(C) \ fast
  <2>1. c \in C /\ consState[c] \notin Busy
    BY <1>6 DEF Asleep
  <2> QED
    BY <1>1, <1>2, <1>3, <1>4, <1>6, <2>1 DEF One
<1>7. CASE c \notin Asleep(C) /\ c \notin fast
  <2>1. consState'[c] = consState[c]
    BY <1>3, <1>7 DEF Asleep, RequestedState
  <2> QED
    BY <1>1, <1>2, <1>3, <1>7, <2>1 DEF One
<1> QED
  BY <1>5, <1>6, <1>7

\* ipa_rm_resource_consumer_release(): a consumer nobody uses any more loses its vote at
\* once or with the suspend queued for it.
LEMMA BalanceRelease ==
  ASSUME "ERROR" \notin DriverResults, TypeOK, ClockVotesBalance,
         NEW C \in SUBSET Consumers, NEW dec, NEW fast \in SUBSET MaySuspendNow(C, dec),
         NEW res \in Answers(fast), ReleaseConsumers(C, dec, fast, res),
         \A c \in Consumers :
            /\ Queued("resume", c)' = Queued("resume", c)
            /\ Queued("suspend", c)' = Queued("suspend", c) + One(c \in Unused(C, dec) \ fast)
  PROVE  ClockVotesBalance'
<1> SUFFICES ASSUME NEW c \in Consumers
             PROVE  votes'[c] + Queued("resume", c)' - Queued("suspend", c)'
                      = IF consState'[c] \in Busy THEN 1 ELSE 0
  BY DEF ClockVotesBalance
<1>1. votes[c] \in Int /\ Queued("resume", c) \in Nat /\ Queued("suspend", c) \in Nat
  BY QueuedMarks DEF TypeOK
<1>2. votes[c] + Queued("resume", c) - Queued("suspend", c)
        = IF consState[c] \in Busy THEN 1 ELSE 0
  BY DEF ClockVotesBalance
<1>3. /\ votes'[c] = IF c \in fast THEN votes[c] - 1 ELSE votes[c]
      /\ consState'[c] = ReleasedState(c, C, dec, fast, res)
  BY DEF ReleaseConsumers
<1>4. CASE c \in Unused(C, dec)
  <2>1. consState[c] \in Busy
    BY <1>4 DEF Unused
  <2>2. c \in fast => res[c] # "ERROR"
    BY DEF Answers
  <2>3. consState'[c] \notin Busy
    BY <1>3, <1>4, <2>2 DEF ReleasedState, Busy
  <2> QED
    BY <1>1, <1>2, <1>3, <1>4, <2>1, <2>3 DEF One
<1>5. CASE c \notin Unused(C, dec)
  <2>1. c \notin fast /\ consState'[c] = consState[c]
    BY <1>3, <1>5 DEF MaySuspendNow, ReleasedState
  <2> QED
    BY <1>1, <1>2, <1>3, <1>5, <2>1 DEF One
<1> QED
  BY <1>4, <1>5

\* ipa_rm_wq_resume_handler() and ipa_rm_wq_suspend_handler() up to the lock: what was
\* queued is now voted.
LEMMA BalanceVote ==
  ASSUME TypeOK, TypeOK', ClockVotesBalance, ResumeVote \/ SuspendVote
  PROVE  ClockVotesBalance'
<1> SUFFICES ASSUME NEW c \in Consumers
             PROVE  votes'[c] + Queued("resume", c)' - Queued("suspend", c)'
                      = IF consState'[c] \in Busy THEN 1 ELSE 0
  BY DEF ClockVotesBalance
<1> DEFINE w == Head(wq)
<1>1. /\ votes \in [Consumers -> Int] /\ wq \in Seq(Work) /\ wq # <<>> /\ wq' = Tail(wq)
      /\ consState' = consState
  BY DEF TypeOK, ResumeVote, SuspendVote, TakeWork, consVars
<1>2. \A k : Queued(k, c) = One(w.kind = k /\ w.res = c) + Queued(k, c)'
             /\ Queued(k, c) \in Nat /\ Queued(k, c)' \in Nat
  BY <1>1, QueuedMarks, QueuedMarksNext, MarkedTail
<1>3. votes[c] + Queued("resume", c) - Queued("suspend", c)
        = IF consState[c] \in Busy THEN 1 ELSE 0
  BY DEF ClockVotesBalance
<1>4. CASE ResumeVote
  <2>1. w.kind = "resume" /\ votes' = [votes EXCEPT ![w.res] = votes[w.res] + 1]
    BY <1>4 DEF ResumeVote, TakeWork
  <2>2. votes'[c] = votes[c] + One(w.res = c)
    BY <1>1, <2>1 DEF One
  <2>3. /\ Queued("resume", c) = One(w.res = c) + Queued("resume", c)'
        /\ Queued("suspend", c) = Queued("suspend", c)'
    BY <1>2, <2>1 DEF One
  <2> HIDE DEF w
  <2> QED
    BY <1>1, <1>2, <1>3, <2>2, <2>3 DEF One
<1>5. CASE SuspendVote
  <2>1. w.kind = "suspend" /\ votes' = [votes EXCEPT ![w.res] = votes[w.res] - 1]
    BY <1>5 DEF SuspendVote, TakeWork
  <2>2. votes'[c] = votes[c] - One(w.res = c)
    BY <1>1, <2>1 DEF One
  <2>3. /\ Queued("suspend", c) = One(w.res = c) + Queued("suspend", c)'
        /\ Queued("resume", c) = Queued("resume", c)'
    BY <1>2, <2>1 DEF One
  <2> HIDE DEF w
  <2> QED
    BY <1>1, <1>2, <1>3, <2>2, <2>3 DEF One
<1> QED
  BY <1>4, <1>5

\* What queueing s adds to the counts.
LEMMA QueuedBehind ==
  ASSUME TypeOK, TypeOK', NEW s \in Seq(Work), wq' = wq \o s, NEW k, NEW c
  PROVE  Queued(k, c)' = Queued(k, c) + Marked(s, k, c)
<1>1. wq \in Seq(Work)
  BY DEF TypeOK
<1>2. Marked(wq \o s, k, c) = Marked(wq, k, c) + Marked(s, k, c)
  BY <1>1, MarkedConcat
<1>3. Queued(k, c) = Marked(wq, k, c)
  BY QueuedMarks
<1>4. Queued(k, c)' = Marked(wq', k, c)
  BY QueuedMarksNext
<1> QED
  BY <1>2, <1>3, <1>4

\* What may be queued with them: a notification to a producer's listeners, or nothing.
Notices == {<<>>} \cup {<<w>> : w \in NotifyWork}

\* That is no clock work.
LEMMA NoticeMarks ==
  ASSUME NEW t \in Notices
  PROVE  /\ t \in Seq(Work) /\ \A i \in DOMAIN t : t[i].kind = "notify"
         /\ \A c, k : k # "notify" => Marked(t, k, c) = 0
<1>1. CASE t = <<>>
  BY <1>1, MarkedNone
<1>2. CASE t # <<>>
  <2>1. PICK w \in NotifyWork : t = <<w>>
    BY <1>2 DEF Notices
  <2>2. w \in Work /\ w.kind = "notify"
    BY DEF Work, NotifyWork
  <2>3. \A k, c : k # "notify" => Marked(<<w>>, k, c) = 0
    BY <2>2, MarkedOne DEF One
  <2>4. <<w>> \in Seq(Work) /\ \A i \in DOMAIN <<w>> : <<w>>[i].kind = "notify"
    BY <2>2
  <2> QED
    BY <2>1, <2>3, <2>4
<1> QED
  BY <1>1, <1>2

\* Queueing a resume per consumer of S and a notification.
LEMMA QueuedResumes ==
  ASSUME TypeOK, TypeOK', NEW S \in SUBSET Consumers, NEW order \in Ordered(S),
         NEW bw, NEW inc, ResumeWorks(order, bw, inc) \in Seq(Work),
         NEW t \in Notices, NEW c, wq' = wq \o ResumeWorks(order, bw, inc) \o t
  PROVE  /\ Queued("resume", c)' = Queued("resume", c) + One(c \in S)
         /\ Queued("suspend", c)' = Queued("suspend", c)
<1> DEFINE r == ResumeWorks(order, bw, inc)
<1>1. wq \in Seq(Work)
  BY DEF TypeOK
<1>2. r \in Seq(Work)
  OBVIOUS
<1>3. t \in Seq(Work) /\ Marked(t, "resume", c) = 0 /\ Marked(t, "suspend", c) = 0
  BY NoticeMarks
<1>4. Marked(r, "resume", c) = One(c \in S) /\ Marked(r, "suspend", c) = 0
  BY MarkedWorks
<1>5. wq' = wq \o r \o t
  OBVIOUS
<1> HIDE DEF r
<1>6. r \o t \in Seq(Work) /\ wq' = wq \o (r \o t)
  BY <1>1, <1>2, <1>3, <1>5, QueueTwice
<1>7. \A k : Marked(r \o t, k, c) = Marked(r, k, c) + Marked(t, k, c)
  BY <1>2, <1>3, MarkedConcat
<1>8. \A k : Queued(k, c)' = Queued(k, c) + Marked(r \o t, k, c)
  BY <1>6, QueuedBehind
<1>9. One(c \in S) \in Nat /\ Queued("resume", c) \in Nat /\ Queued("suspend", c) \in Nat
  BY QueuedMarks DEF One
<1> QED
  BY <1>3, <1>4, <1>7, <1>8, <1>9

\* Queueing a suspend per consumer of S and a notification, in either order.
LEMMA QueuedSuspends ==
  ASSUME TypeOK, TypeOK', NEW S \in SUBSET Consumers, NEW order \in Ordered(S),
         NEW t \in Notices, NEW c,
         wq' = wq \o SuspendWorks(order) \o t \/ wq' = wq \o t \o SuspendWorks(order)
  PROVE  /\ Queued("resume", c)' = Queued("resume", c)
         /\ Queued("suspend", c)' = Queued("suspend", c) + One(c \in S)
<1> DEFINE u == SuspendWorks(order)
<1>1. ConsType /\ wq \in Seq(Work) /\ 0 \in Bw
  BY TypeParts, BwClosed DEF TypeOK
<1>2. u \in Seq(Work)
  BY <1>1, OrderedWorksType
<1>3. t \in Seq(Work) /\ Marked(t, "resume", c) = 0 /\ Marked(t, "suspend", c) = 0
  BY NoticeMarks
<1>4. Marked(u, "suspend", c) = One(c \in S) /\ Marked(u, "resume", c) = 0
  BY MarkedWorks
<1>5. wq' = wq \o u \o t \/ wq' = wq \o t \o u
  OBVIOUS
<1> HIDE DEF u
<1>6. /\ u \o t \in Seq(Work) /\ t \o u \in Seq(Work)
      /\ wq' = wq \o (u \o t) \/ wq' = wq \o (t \o u)
  BY <1>1, <1>2, <1>3, <1>5, QueueTwice
<1>7. \A k : /\ Marked(u \o t, k, c) = Marked(u, k, c) + Marked(t, k, c)
             /\ Marked(t \o u, k, c) = Marked(t, k, c) + Marked(u, k, c)
  BY <1>2, <1>3, MarkedConcat
<1>8. \/ \A k : Queued(k, c)' = Queued(k, c) + Marked(u \o t, k, c)
      \/ \A k : Queued(k, c)' = Queued(k, c) + Marked(t \o u, k, c)
  BY <1>6, QueuedBehind
<1>9. One(c \in S) \in Nat /\ Queued("resume", c) \in Nat /\ Queued("suspend", c) \in Nat
  BY QueuedMarks DEF One
<1> QED
  BY <1>3, <1>4, <1>7, <1>8, <1>9

\* A step that leaves the queue alone.
LEMMA BalanceQuiet ==
  ASSUME ClockVotesBalance, UNCHANGED <<votes, wq>>,
         \A c \in Consumers : consState'[c] \in Busy <=> consState[c] \in Busy
  PROVE  ClockVotesBalance'
BY DEF ClockVotesBalance, Queued

\* A step that queues a work which is no clock work.
LEMMA BalanceAppend ==
  ASSUME TypeOK, TypeOK', ClockVotesBalance, UNCHANGED <<votes, consState>>,
         NEW w \in Work, w.kind \notin {"resume", "suspend"}, wq' = Append(wq, w)
  PROVE  ClockVotesBalance'
<1>1. wq \in Seq(Work) /\ <<w>> \in Seq(Work) /\ wq' = wq \o <<w>>
  BY DEF TypeOK
<1>2. \A c \in Consumers : /\ Marked(<<w>>, "resume", c) = 0
                           /\ Marked(<<w>>, "suspend", c) = 0
  BY MarkedOne DEF One
<1>3. \A c \in Consumers : /\ Queued("resume", c)' = Queued("resume", c) + 0
                           /\ Queued("suspend", c)' = Queued("suspend", c) + 0
  <2> SUFFICES ASSUME NEW c \in Consumers
               PROVE  /\ Queued("resume", c)' = Queued("resume", c) + 0
                      /\ Queued("suspend", c)' = Queued("suspend", c) + 0
    OBVIOUS
  <2>1. \A k : Queued(k, c)' = Queued(k, c) + Marked(<<w>>, k, c)
    BY <1>1, QueuedBehind
  <2> QED
    BY <1>2, <2>1
<1>4. \A c \in Consumers : Queued("resume", c) \in Nat /\ Queued("suspend", c) \in Nat
  BY QueuedMarks
<1> QED
  BY <1>3, <1>4, BalanceFrame

\* A step in which the queue thread takes a work that is no clock work.
LEMMA BalanceTake ==
  ASSUME TypeOK, TypeOK', ClockVotesBalance, UNCHANGED votes,
         NEW kind, kind \notin {"resume", "suspend"}, TakeWork(kind),
         \A c \in Consumers : consState'[c] \in Busy <=> consState[c] \in Busy
  PROVE  ClockVotesBalance'
<1>1. wq \in Seq(Work) /\ wq # <<>> /\ wq' = Tail(wq) /\ Head(wq).kind = kind
  BY DEF TypeOK, TakeWork
<1>2. \A c \in Consumers, k \in {"resume", "suspend"} :
        Marked(wq, k, c) = 0 + Marked(Tail(wq), k, c)
  BY <1>1, MarkedTail DEF One
<1>3. \A c \in Consumers, k \in {"resume", "suspend"} :
        /\ Queued(k, c) = Marked(wq, k, c) /\ Queued(k, c)' = Marked(wq', k, c)
        /\ Queued(k, c)' \in Nat
  BY QueuedMarks, QueuedMarksNext
<1> QED
  BY <1>1, <1>2, <1>3, BalanceFrame

\* The resumes of a queue s are for consumers that exist.
Backed(s) == \A i \in DOMAIN s : s[i].kind = "resume" => s[i].res \in exists

\* Queueing such works, or none, keeps that.
LEMMA BackedConcat ==
  ASSUME NEW s \in Seq(Work), NEW t \in Seq(Work), Backed(s), Backed(t)
  PROVE  Backed(s \o t)
<1> SUFFICES ASSUME NEW i \in DOMAIN (s \o t), (s \o t)[i].kind = "resume"
             PROVE  (s \o t)[i].res \in exists
  BY DEF Backed
<1>1. i \in 1 .. Len(s) + Len(t) /\ Len(s) \in Nat /\ Len(t) \in Nat
  OBVIOUS
<1>2. CASE i \in 1 .. Len(s)
  <2>1. (s \o t)[i] = s[i] /\ i \in DOMAIN s
    BY <1>2
  <2> QED
    BY <2>1 DEF Backed
<1>3. CASE i \notin 1 .. Len(s)
  <2>1. (s \o t)[i] = t[i - Len(s)] /\ i - Len(s) \in DOMAIN t
    BY <1>1, <1>3
  <2> QED
    BY <2>1 DEF Backed
<1> QED
  BY <1>2, <1>3

\* The works of a request or a release concern consumers that exist.
LEMMA BackedWorks ==
  ASSUME NEW S \in SUBSET (Consumers \cap exists), NEW order \in Ordered(S), NEW bw, NEW inc,
         NEW t \in Notices
  PROVE  /\ Backed(ResumeWorks(order, bw, inc)) /\ Backed(SuspendWorks(order)) /\ Backed(t)
<1>1. \A i \in DOMAIN order : order[i] \in S
  BY DEF Ordered
<1>2. Backed(ResumeWorks(order, bw, inc))
  BY <1>1 DEF Backed, ResumeWorks
<1>3. Backed(SuspendWorks(order))
  BY DEF Backed, SuspendWorks
<1>4. Backed(t)
  BY NoticeMarks DEF Backed
<1> QED
  BY <1>2, <1>3, <1>4

\* A request of consumers that exist, on whatever occasion.
LEMMA ClockRequest ==
  ASSUME "ERROR" \notin DriverResults, ClockInv, TypeOK', UNCHANGED <<exists, worker>>,
         NEW C \in SUBSET (Consumers \cap exists), NEW fast \in SUBSET MayVoteNow(C),
         NEW res \in Answers(fast), NEW bw \in Bw, NEW inc \in {0, 1},
         RequestConsumers(C, fast, res, inc), NEW order \in Ordered(Asleep(C) \ fast),
         NEW t \in Notices, wq' = wq \o ResumeWorks(order, bw, inc) \o t
  PROVE  ResumesExist' /\ ClockVotesBalance'
<1> DEFINE S == Asleep(C) \ fast
           r == ResumeWorks(order, bw, inc)
<1>1. TypeOK /\ UsageInv /\ ResumesExist /\ ClockVotesBalance
  BY DEF ClockInv
<1>2. S \in SUBSET (Consumers \cap exists) /\ S \in SUBSET Consumers
  BY DEF Asleep
<1>3. wq \in Seq(Work) /\ r \in Seq(Work) /\ t \in Seq(Work)
  <2>1. ConsType /\ wq \in Seq(Work)
    BY <1>1, TypeParts DEF TypeOK
  <2> QED
    BY <1>2, <2>1, OrderedWorksType, NoticeMarks
<1>4. \A c \in Consumers : /\ Queued("resume", c)' = Queued("resume", c) + One(c \in S)
                           /\ Queued("suspend", c)' = Queued("suspend", c)
  <2>1. order \in Ordered(S)
    OBVIOUS
  <2>2. ResumeWorks(order, bw, inc) \in Seq(Work)
    BY <1>3
  <2>3. S \in SUBSET Consumers
    BY <1>2
  <2>4. wq' = wq \o ResumeWorks(order, bw, inc) \o t
    OBVIOUS
  <2> HIDE DEF S, r
  <2> SUFFICES ASSUME NEW c \in Consumers
               PROVE  /\ Queued("resume", c)' = Queued("resume", c) + One(c \in S)
                      /\ Queued("suspend", c)' = Queued("suspend", c)
    OBVIOUS
  <2> QED
    BY <1>1, <2>1, <2>2, <2>3, <2>4, QueuedResumes, SMTT(20)
<1>5. ClockVotesBalance'
  BY <1>1, <1>4, BalanceRequest
<1>6. Backed(wq) /\ Backed(r) /\ Backed(t)
  <2>1. Backed(wq)
    BY <1>1 DEF ResumesExist, Backed
  <2>2. Backed(r) /\ Backed(t)
    BY <1>2, BackedWorks
  <2> QED
    BY <2>1, <2>2
<1>7. Backed(wq \o r \o t)
  <2> HIDE DEF r
  <2>1. wq \o r \in Seq(Work) /\ Backed(wq \o r)
    BY <1>3, <1>6, BackedConcat
  <2> QED
    BY <1>3, <1>6, <2>1, BackedConcat
<1>8. \A c \in Consumers \ exists : consState'[c] = consState[c]
  BY DEF RequestConsumers
<1> QED
  BY <1>1, <1>5, <1>7, <1>8 DEF ResumesExist, Backed

\* A release of consumers that exist.
LEMMA ClockRelease ==
  ASSUME "ERROR" \notin DriverResults, ClockInv, TypeOK', UNCHANGED <<exists, worker>>,
         NEW C \in SUBSET (Consumers \cap exists), NEW dec,
         NEW fast \in SUBSET MaySuspendNow(C, dec), NEW res \in Answers(fast),
         ReleaseConsumers(C, dec, fast, res), NEW order \in Ordered(Unused(C, dec) \ fast),
         NEW t \in Notices,
         wq' = wq \o SuspendWorks(order) \o t \/ wq' = wq \o t \o SuspendWorks(order)
  PROVE  ResumesExist' /\ ClockVotesBalance'
<1> DEFINE S == Unused(C, dec) \ fast
           u == SuspendWorks(order)
<1>1. TypeOK /\ ResumesExist /\ ClockVotesBalance /\ 0 \in Bw
  BY BwClosed DEF ClockInv
<1>2. S \in SUBSET (Consumers \cap exists) /\ S \in SUBSET Consumers
  BY DEF Unused
<1>3. \A c \in Consumers : /\ Queued("resume", c)' = Queued("resume", c)
                           /\ Queued("suspend", c)' = Queued("suspend", c) + One(c \in S)
  <2>1. order \in Ordered(S)
    OBVIOUS
  <2> HIDE DEF S, u
  <2> QED
    BY <1>1, <1>2, <2>1, QueuedSuspends DEF u
<1>4. ClockVotesBalance'
  BY <1>1, <1>3, BalanceRelease
<1>5. wq \in Seq(Work) /\ u \in Seq(Work) /\ t \in Seq(Work)
  <2>1. ConsType /\ wq \in Seq(Work)
    BY <1>1, TypeParts DEF TypeOK
  <2> QED
    BY <1>1, <1>2, <2>1, OrderedWorksType, NoticeMarks
<1>6. Backed(wq) /\ Backed(u) /\ Backed(t)
  <2>1. Backed(wq)
    BY <1>1 DEF ResumesExist, Backed
  <2>2. Backed(u) /\ Backed(t)
    BY <1>2, BackedWorks
  <2> QED
    BY <2>1, <2>2
<1>7. Backed(wq \o u \o t) /\ Backed(wq \o t \o u)
  <2> HIDE DEF u
  <2>1. wq \o u \in Seq(Work) /\ Backed(wq \o u) /\ wq \o t \in Seq(Work) /\ Backed(wq \o t)
    BY <1>5, <1>6, BackedConcat
  <2> QED
    BY <1>5, <1>6, <2>1, BackedConcat
<1>8. \A c \in Consumers \ exists : consState'[c] = consState[c]
  BY DEF ReleaseConsumers, ReleasedState, Unused
<1> QED
  BY <1>1, <1>4, <1>7, <1>8 DEF ResumesExist, Backed

\* The notifications the calls queue.
LEMMA NoticesThere ==
  /\ <<>> \in Notices
  /\ \A p \in Producers, event \in Events, only \in BOOLEAN :
       <<Notify(p, event, only)>> \in Notices
<1>1. \A p \in Producers, event \in Events, only \in BOOLEAN :
        Notify(p, event, only) \in NotifyWork
  BY DEF Notify, NotifyWork
<1> QED
  BY <1>1 DEF Notices

\* The consumers a producer depends on exist.
LEMMA PeersExist ==
  ASSUME UsageInv, NEW p \in Producers
  PROVE  Peers(p) \subseteq Consumers \cap exists
BY DEF UsageInv, DepsExist, Peers

\* ipa_rm_request_resource()
LEMMA ClockRequestResource ==
  ASSUME "ERROR" \notin DriverResults, ClockInv, TypeOK', NEW p \in Producers,
         RequestResource(p)
  PROVE  ResumesExist' /\ ClockVotesBalance'
<1>1. PICK fast \in SUBSET MayVoteNow(Peers(p)) : \E res \in Answers(fast) :
        LET C == Reached(p, fast, res) IN
        /\ fast \subseteq C /\ RequestConsumers(C, fast, res, 1)
        /\ \E order \in Ordered(Asleep(C) \ fast), t \in {RequestNotice(p), <<>>} :
             wq' = wq \o ResumeWorks(order, maxBw[p], 1) \o t
  BY ZenonT(60) DEF RequestResource
<1>2. PICK res \in Answers(fast) :
        LET C == Reached(p, fast, res) IN
        /\ fast \subseteq C /\ RequestConsumers(C, fast, res, 1)
        /\ \E order \in Ordered(Asleep(C) \ fast), t \in {RequestNotice(p), <<>>} :
             wq' = wq \o ResumeWorks(order, maxBw[p], 1) \o t
  BY <1>1
<1> DEFINE C == Reached(p, fast, res)
<1>3. PICK order \in Ordered(Asleep(C) \ fast), t \in {RequestNotice(p), <<>>} :
        wq' = wq \o ResumeWorks(order, maxBw[p], 1) \o t
  BY <1>2
<1>4. UNCHANGED <<exists, worker>>
  BY DEF RequestResource, graphVars
<1>5. maxBw[p] \in Bw /\ t \in Notices
  <2>1. maxBw[p] \in Bw
    BY DEF ClockInv, TypeOK, Resources
  <2>2. t \in Notices
    BY NoticesThere DEF RequestNotice, Events
  <2> QED
    BY <2>1, <2>2
<1>6. C \in SUBSET (Consumers \cap exists) /\ fast \in SUBSET MayVoteNow(C)
  BY <1>2, PeersExist DEF ClockInv, Reached, MayVoteNow
<1> HIDE DEF C
<1>7. RequestConsumers(C, fast, res, 1)
  BY <1>2 DEF C
<1> QED
  BY <1>3, <1>4, <1>5, <1>6, <1>7, ClockRequest

\* ipa_rm_release_resource()
LEMMA ClockReleaseResource ==
  ASSUME "ERROR" \notin DriverResults, ClockInv, TypeOK', NEW p \in Producers,
         ReleaseResource(p)
  PROVE  ResumesExist' /\ ClockVotesBalance'
<1> DEFINE C == Peers(p)
           t == <<Notify(p, "RELEASED", TRUE)>>
<1>1. PICK fast, res :
        /\ fast \in SUBSET MaySuspendNow(C, 1) /\ res \in Answers(fast) /\ ReleaseConsumers(C, 1, fast, res)
        /\ \E order \in Ordered(Unused(C, 1) \ fast) : wq' = wq \o SuspendWorks(order) \o t
  BY DEF ReleaseResource
<1>2. PICK order \in Ordered(Unused(C, 1) \ fast) : wq' = wq \o SuspendWorks(order) \o t
  BY <1>1
<1>3. UNCHANGED <<exists, worker>>
  BY DEF ReleaseResource, graphVars
<1>4. C \in SUBSET (Consumers \cap exists) /\ t \in Notices
  BY PeersExist, NoticesThere DEF ClockInv, Events
<1> HIDE DEF C, t
<1> QED
  BY <1>1, <1>2, <1>3, <1>4, ClockRelease

\* A request of one consumer by a call of its own.
LEMMA ClockRequestOne ==
  ASSUME "ERROR" \notin DriverResults, ClockInv, TypeOK', UNCHANGED <<exists, worker>>,
         NEW c \in Consumers, c \in exists, NEW fast \in SUBSET MayVoteNow({c}),
         NEW res \in Answers(fast), NEW bw \in Bw, NEW inc \in {0, 1},
         RequestConsumers({c}, fast, res, inc),
         wq' = wq \o ResumeWorks(IF c \in Asleep({c}) \ fast THEN <<c>> ELSE <<>>, bw, inc)
  PROVE  ResumesExist' /\ ClockVotesBalance'
<1> DEFINE order == IF c \in Asleep({c}) \ fast THEN <<c>> ELSE <<>>
           r == ResumeWorks(order, bw, inc)
<1>1. order \in Ordered(Asleep({c}) \ fast)
  <2>1. Asleep({c}) \ fast = IF c \in Asleep({c}) \ fast THEN {c} ELSE {}
    BY DEF Asleep
  <2> QED
    BY <2>1, OrderedSmall
<1>2. <<>> \in Notices /\ {c} \in SUBSET (Consumers \cap exists)
  BY DEF Notices
<1>3. wq \in Seq(Work) /\ r \in Seq(Work)
  <2>1. ConsType /\ wq \in Seq(Work) /\ Asleep({c}) \ fast \in SUBSET Consumers
    BY TypeParts DEF ClockInv, TypeOK, Asleep
  <2> HIDE DEF order
  <2> QED
    BY <1>1, <2>1, OrderedWorksType
<1>4. wq' = wq \o r \o <<>>
  <2>1. wq' = wq \o r
    OBVIOUS
  <2> HIDE DEF r
  <2>2. wq \o r \in Seq(Work)
    BY <1>3
  <2> QED
    BY <2>1, <2>2, ConcatEmptySeq
<1> HIDE DEF order
<1> QED
  BY <1>1, <1>2, <1>4, ClockRequest

\* A release of one consumer, behind a notification or not.
LEMMA ClockReleaseOne ==
  ASSUME "ERROR" \notin DriverResults, ClockInv, TypeOK', UNCHANGED <<exists, worker>>,
         NEW c \in Consumers, NEW C \in SUBSET ({c} \cap exists), NEW dec,
         NEW fast \in SUBSET MaySuspendNow(C, dec), NEW res \in Answers(fast),
         ReleaseConsumers(C, dec, fast, res), NEW t \in Notices,
         wq' = wq \o t \o SuspendWorks(IF c \in Unused(C, dec) \ fast THEN <<c>> ELSE <<>>)
  PROVE  ResumesExist' /\ ClockVotesBalance'
<1> DEFINE order == IF c \in Unused(C, dec) \ fast THEN <<c>> ELSE <<>>
<1>1. order \in Ordered(Unused(C, dec) \ fast)
  <2>1. Unused(C, dec) \ fast = IF c \in Unused(C, dec) \ fast THEN {c} ELSE {}
    BY DEF Unused
  <2> QED
    BY <2>1, OrderedSmall
<1>2. C \in SUBSET (Consumers \cap exists)
  OBVIOUS
<1> HIDE DEF order
<1>3. wq' = wq \o t \o SuspendWorks(order)
  BY DEF order
<1> QED
  BY <1>1, <1>2, <1>3, ClockRelease

\* A step that leaves votes and queue alone, and moves no consumer into or out of use.
LEMMA ClockQuiet ==
  ASSUME ClockInv, UNCHANGED <<votes, wq>>, exists \subseteq exists',
         worker' = worker \/ worker' = Idle,
         \A c \in Consumers : consState'[c] \in Busy <=> consState[c] \in Busy
  PROVE  ResumesExist' /\ ClockVotesBalance'
<1>1. ResumesExist /\ ClockVotesBalance
  BY DEF ClockInv
<1>2. ClockVotesBalance'
  BY <1>1, BalanceQuiet
<1>3. ResumesExist'
  BY <1>1 DEF ResumesExist, Idle
<1> QED
  BY <1>2, <1>3

\* ipa_rm_resource_consumer_handle_cb() for GRANTED moves no consumer into or out of use.
LEMMA GrantedBusy ==
  ASSUME TypeOK, NEW c, HandleGranted(c)
  PROVE  \A d \in Consumers : consState'[d] \in Busy <=> consState[d] \in Busy
BY DEF TypeOK, HandleGranted, Busy

\* Neither does the one for RELEASED.
LEMMA ReleasedIdle ==
  ASSUME TypeOK, NEW c, consState' = [consState EXCEPT ![c] = ReleasedByCb(c)]
  PROVE  \A d \in Consumers : consState'[d] \in Busy <=> consState[d] \in Busy
BY DEF TypeOK, ReleasedByCb, Busy

\* ipa_rm_add_dependency() and ipa_rm_delete_dependency()
LEMMA ClockDependency ==
  ASSUME "ERROR" \notin DriverResults, ClockInv, TypeOK', NEW p \in Producers,
         NEW c \in Consumers, NEW owner, NEW sync,
         AddDependency(p, c, owner, sync) \/ DeleteDependency(p, c)
  PROVE  ResumesExist' /\ ClockVotesBalance'
<1>1. UNCHANGED <<exists, worker>> /\ c \in exists
  BY DEF AddDependency, DeleteDependency
<1>2. maxBw[p] \in Bw
  BY DEF ClockInv, TypeOK, Resources
<1>3. CASE UNCHANGED <<votes, wq, consState>>
  BY <1>1, <1>3, ClockQuiet
<1>4. CASE AddDependency(p, c, owner, sync)
  <2>1. CASE prodState[p] = "RELEASED"
    BY <1>3, <1>4, <2>1 DEF AddDependency, Busy, consVars, clockVars
  <2>2. CASE prodState[p] # "RELEASED"
    <3>1. PICK fast, res :
            /\ fast \in SUBSET MayVoteNow({c}) /\ res \in Answers(fast)
            /\ RequestConsumers({c}, fast, res, 1)
            /\ wq' = wq \o ResumeWorks(IF c \in Asleep({c}) \ fast THEN <<c>> ELSE <<>>,
                                       maxBw[p], 1)
      BY <1>4, <2>2, ZenonT(60) DEF AddDependency
    <3> QED
      BY <1>1, <1>2, <3>1, ClockRequestOne
  <2> QED
    BY <2>1, <2>2
<1>5. CASE DeleteDependency(p, c)
  <2>1. CASE prodState[p] = "RELEASED"
    BY <1>3, <1>5, <2>1 DEF DeleteDependency, Busy, consVars, clockVars
  <2>2. CASE prodState[p] # "RELEASED"
    <3>1. PICK fast, res :
            /\ fast \in SUBSET MaySuspendNow({c}, 1) /\ res \in Answers(fast)
            /\ ReleaseConsumers({c}, 1, fast, res)
            /\ wq' = wq \o (IF GrantedByDelete(p, c) THEN DeleteNotice(p) ELSE <<>>)
                        \o SuspendWorks(IF c \in Unused({c}, 1) \ fast THEN <<c>> ELSE <<>>)
      BY <1>5, <2>2, ZenonT(60) DEF DeleteDependency
    <3> DEFINE t == IF GrantedByDelete(p, c) THEN DeleteNotice(p) ELSE <<>>
    <3>2. t \in Notices /\ {c} \in SUBSET ({c} \cap exists)
      BY <1>1, NoticesThere DEF DeleteNotice, Events
    <3> HIDE DEF t
    <3>3. wq' = wq \o t \o SuspendWorks(IF c \in Unused({c}, 1) \ fast THEN <<c>> ELSE <<>>)
      BY <3>1 DEF t
    <3> QED
      BY <1>1, <3>1, <3>2, <3>3, ClockReleaseOne
  <2> QED
    BY <2>1, <2>2
<1> QED
  BY <1>4, <1>5

\* ipa_rm_request_resource_with_timer()
LEMMA ClockRequestWithTimer ==
  ASSUME "ERROR" \notin DriverResults, ClockInv, TypeOK', NEW c \in Consumers,
         RequestWithTimer(c)
  PROVE  ResumesExist' /\ ClockVotesBalance'
<1>1. UNCHANGED <<exists, worker>> /\ c \in exists
  BY DEF RequestWithTimer, graphVars
<1>2. CASE consState[c] = "GRANTED"
  <2>1. UNCHANGED <<votes, wq, consState>>
    BY <1>2 DEF RequestWithTimer, consVars
  <2> QED
    BY <1>1, <2>1, ClockQuiet
<1>3. CASE consState[c] # "GRANTED"
  <2>1. PICK fast, res :
          /\ fast \in SUBSET MayVoteNow({c}) /\ res \in Answers(fast)
          /\ RequestConsumers({c}, fast, res, 0)
          /\ wq' = wq \o ResumeWorks(IF c \in Asleep({c}) \ fast THEN <<c>> ELSE <<>>, 0, 0)
    BY <1>3, ZenonT(60) DEF RequestWithTimer
  <2> QED
    BY <1>1, <2>1, BwClosed, ClockRequestOne
<1> QED
  BY <1>2, <1>3

\* delayed_release_work_func()
LEMMA ClockDelayedRelease ==
  ASSUME "ERROR" \notin DriverResults, ClockInv, TypeOK', NEW c \in Consumers,
         DelayedRelease(c)
  PROVE  ResumesExist' /\ ClockVotesBalance'
<1> DEFINE C == {c} \cap exists
<1>1. UNCHANGED <<exists, worker>>
  BY DEF DelayedRelease, graphVars
<1>2. PICK fast, res :
        /\ fast \in SUBSET MaySuspendNow(C, 0) /\ res \in Answers(fast)
        /\ ReleaseConsumers(C, 0, fast, res)
        /\ wq' = wq \o SuspendWorks(IF c \in Unused(C, 0) \ fast THEN <<c>> ELSE <<>>)
  BY ZenonT(60) DEF DelayedRelease
<1>3. wq \o <<>> = wq
  BY ConcatEmptySeq DEF ClockInv, TypeOK
<1>4. <<>> \in Notices /\ C \in SUBSET ({c} \cap exists)
  BY NoticesThere
<1> HIDE DEF C
<1>5. wq' = wq \o <<>> \o SuspendWorks(IF c \in Unused(C, 0) \ fast THEN <<c>> ELSE <<>>)
  BY <1>2, <1>3
<1> QED
  BY <1>1, <1>2, <1>4, <1>5, ClockReleaseOne

\* Taking the first work leaves the rest.
LEMMA BackedTail ==
  ASSUME NEW s \in Seq(Work), s # <<>>, Backed(s)
  PROVE  Backed(Tail(s)) /\ (Head(s).kind = "resume" => Head(s).res \in exists)
<1>1. 1 \in DOMAIN s /\ Head(s) = s[1]
  OBVIOUS
<1>2. \A i \in DOMAIN Tail(s) : i + 1 \in DOMAIN s /\ Tail(s)[i] = s[i + 1]
  OBVIOUS
<1> QED
  BY <1>1, <1>2 DEF Backed

\* ipa_rm_create_resource() and ipa_rm_delete_resource()
LEMMA ClockLifetime ==
  ASSUME ~DeleteWhileBusy, ClockInv, TypeOK',
         \/ \E r \in Resources : CreateResource(r)
         \/ \E p \in Producers : DeleteProducer(p)
         \/ \E c \in Consumers : DeleteConsumer(c)
  PROVE  ResumesExist' /\ ClockVotesBalance'
<1>1. TypeOK /\ ResumesExist /\ ClockVotesBalance
  BY DEF ClockInv
<1>2. ASSUME NEW r \in Resources, CreateResource(r) PROVE ResumesExist' /\ ClockVotesBalance'
  <2>1. UNCHANGED <<votes, wq, worker>> /\ exists \subseteq exists' /\ r \notin exists
    BY <1>2 DEF CreateResource, clockVars
  <2>2. \A c \in Consumers : consState'[c] \in Busy <=> consState[c] \in Busy
    <3>1. consState' = consState \/ consState' = [consState EXCEPT ![r] = "RELEASED"]
      BY <1>2 DEF CreateResource, consVars
    <3>2. /\ consState \in [Consumers -> ConsStates]
          /\ r \in Consumers => consState[r] \notin Busy
      BY <1>1, <2>1 DEF TypeOK, ResumesExist
    <3>3. "RELEASED" \notin Busy
      BY DEF Busy
    <3> QED
      BY <3>1, <3>2, <3>3
  <2> QED
    BY <2>1, <2>2, ClockQuiet
<1>3. ASSUME NEW p \in Producers, DeleteProducer(p) PROVE ResumesExist' /\ ClockVotesBalance'
  <2> DEFINE w == Notify(p, "RELEASED", TRUE)
  <2>1. /\ exists' = exists \ {p} /\ UNCHANGED <<votes, consState, worker>>
        /\ wq' = wq \/ wq' = Append(wq, w)
    BY <1>3 DEF DeleteProducer, consVars, clockVars
  <2>2. w \in Work /\ w.kind = "notify"
    BY NotifyType DEF Notify, Events
  <2> HIDE DEF w
  <2>3. ClockVotesBalance'
    BY <1>1, <2>1, <2>2, BalanceQuiet, BalanceAppend
  <2>4. p \notin Consumers
    BY IpaRmAssumption
  <2>5. \A v \in Work : v.kind = "resume" => v.res \in Consumers
    BY DEF Work, ResumeWork, SuspendWork, NotifyWork, CbWork
  <2>6. wq \in Seq(Work) /\ wq' \in Seq(Work) /\ worker \in ResumeWork \cup SuspendWork \cup {Idle}
    BY <1>1 DEF TypeOK
  <2>7. Backed(wq')
    <3>1. Backed(wq) /\ Backed(<<w>>) /\ <<w>> \in Seq(Work)
      BY <1>1, <2>2 DEF ResumesExist, Backed
    <3>2. CASE wq' = wq
      BY <3>1, <3>2
    <3>3. CASE wq' = Append(wq, w)
      <4>1. wq' = wq \o <<w>>
        BY <2>2, <2>6, <3>3
      <4> QED
        BY <2>6, <3>1, <4>1, BackedConcat
    <3> QED
      BY <2>1, <3>2, <3>3
  <2>8. \A i \in DOMAIN wq' : wq'[i].kind = "resume" => wq'[i].res \in exists'
    BY <2>1, <2>4, <2>5, <2>6, <2>7 DEF Backed
  <2>9. worker'.kind = "resume" => worker'.res \in exists'
    BY <1>1, <2>1, <2>4, <2>6 DEF ResumesExist, ResumeWork, SuspendWork, Idle
  <2> QED
    BY <1>1, <2>1, <2>3, <2>4, <2>8, <2>9 DEF ResumesExist
<1>4. ASSUME NEW c \in Consumers, DeleteConsumer(c) PROVE ResumesExist' /\ ClockVotesBalance'
  <2>1. /\ exists' = exists \ {c} /\ UNCHANGED <<votes, wq, worker, consState>> /\ Quiet(c)
    BY <1>4 DEF DeleteConsumer, clockVars, consVars
  <2>2. ClockVotesBalance'
    BY <1>1, <2>1, BalanceQuiet
  <2>3. ResumesExist'
    BY <1>1, <2>1 DEF ResumesExist, Quiet, Busy, Idle
  <2> QED
    BY <2>2, <2>3
<1> QED
  BY <1>2, <1>3, <1>4

\* The queue thread: no step of it changes what a consumer will end up with.
LEMMA ClockWorker ==
  ASSUME "ERROR" \notin DriverResults, ClockInv, TypeOK', Worker
  PROVE  ResumesExist' /\ ClockVotesBalance'
<1>1. /\ TypeOK /\ ResumesExist /\ ClockVotesBalance
      /\ wq \in Seq(Work) /\ consState \in [Consumers -> ConsStates]
  BY DEF ClockInv, TypeOK
<1>2. Backed(wq)
  BY <1>1 DEF ResumesExist, Backed
<1>3. CASE ResumeVote \/ SuspendVote
  <2>1. ClockVotesBalance'
    BY <1>1, <1>3, BalanceVote
  <2>2. wq # <<>> /\ wq' = Tail(wq) /\ worker' = Head(wq) /\ UNCHANGED <<exists, consState>>
    BY <1>3 DEF ResumeVote, SuspendVote, TakeWork, graphVars, consVars
  <2>3. Backed(Tail(wq)) /\ (Head(wq).kind = "resume" => Head(wq).res \in exists)
    BY <1>1, <1>2, <2>2, BackedTail
  <2> QED
    BY <1>1, <2>1, <2>2, <2>3 DEF ResumesExist, Backed
<1>4. CASE ResumeLocked
  <2>1. worker.res \in exists /\ worker' = Idle /\ UNCHANGED <<exists, wq>>
    BY <1>1, <1>4 DEF ResumeLocked, ResumesExist, graphVars
  <2>2. UNCHANGED votes /\ (HandleGranted(worker.res) \/ UNCHANGED consState)
    BY <1>4, <2>1 DEF ResumeLocked, clockVars, consVars
  <2> QED
    BY <1>1, <2>1, <2>2, GrantedBusy, ClockQuiet
<1>5. CASE SuspendLocked
  <2>1. worker' = Idle /\ UNCHANGED <<exists, wq, votes>>
    BY <1>5 DEF SuspendLocked, graphVars, clockVars
  <2>2. \/ consState' = consState
        \/ consState' = [consState EXCEPT ![worker.res] = ReleasedByCb(worker.res)]
    BY <1>5 DEF SuspendLocked
  <2> QED
    BY <1>1, <2>1, <2>2, ReleasedIdle, ClockQuiet
<1>6. CASE NotifyProducer \/ ResourceCb
  <2>1. TakeWork("notify") \/ TakeWork("cb")
    BY <1>6 DEF NotifyProducer, ResourceCb
  <2>2. UNCHANGED <<exists, votes, worker>>
    BY <1>6 DEF NotifyProducer, ResourceCb, graphVars, clockVars
  <2>3. \A c \in Consumers : consState'[c] \in Busy <=> consState[c] \in Busy
    <3> DEFINE d == Head(wq).res
    <3>1. \/ consState' = consState
          \/ consState' = [consState EXCEPT ![d] = consState[d]]
          \/ consState' = [consState EXCEPT ![d] = ReleasedByCb(d)]
          \/ HandleGranted(d)
      BY <1>6 DEF NotifyProducer, ResourceCb, consVars
    <3>2. [consState EXCEPT ![d] = consState[d]] = consState
      BY <1>1
    <3> HIDE DEF d
    <3> QED
      BY <1>1, <3>1, <3>2, ReleasedIdle, GrantedBusy
  <2>4. ClockVotesBalance'
    BY <1>1, <2>1, <2>2, <2>3, BalanceTake
  <2>5. Backed(Tail(wq)) /\ wq' = Tail(wq)
    BY <1>1, <1>2, <2>1, BackedTail DEF TakeWork
  <2> QED
    BY <1>1, <2>2, <2>3, <2>4, <2>5 DEF ResumesExist, Backed
<1>7. CASE PerfWork
  <2>1. UNCHANGED <<votes, wq, exists, worker, consState>>
    BY <1>7 DEF PerfWork, graphVars, clockVars, consVars
  <2> QED
    BY <2>1, ClockQuiet
<1> QED
  BY <1>3, <1>4, <1>5, <1>6, <1>7 DEF Worker

\* A driver reports: a callback is queued, no clock work.
LEMMA ClockCompletion ==
  ASSUME ClockInv, TypeOK', NEW c \in Consumers, NEW event \in Events, NotifyCompletion(c, event)
  PROVE  ResumesExist' /\ ClockVotesBalance'
<1> DEFINE w == [kind |-> "cb", res |-> c, event |-> event]
<1>1. TypeOK /\ ResumesExist /\ ClockVotesBalance /\ wq \in Seq(Work)
  BY DEF ClockInv, TypeOK
<1>2. w \in Work /\ w.kind = "cb"
  BY DEF Work, CbWork
<1>3. wq' = Append(wq, w) /\ UNCHANGED <<votes, exists, worker, consState>>
  BY DEF NotifyCompletion, graphVars, clockVars, consVars
<1> HIDE DEF w
<1>4. ClockVotesBalance'
  BY <1>1, <1>2, <1>3, BalanceAppend
<1>5. Backed(wq')
  <2>1. Backed(wq) /\ Backed(<<w>>) /\ <<w>> \in Seq(Work) /\ wq' = wq \o <<w>>
    BY <1>1, <1>2, <1>3 DEF ResumesExist, Backed
  <2> QED
    BY <1>1, <2>1, BackedConcat
<1> QED
  BY <1>1, <1>3, <1>4, <1>5 DEF ResumesExist, Backed

\* Every step of the resource manager keeps the balance.
LEMMA ClockNext ==
  ASSUME "ERROR" \notin DriverResults, ~DeleteWhileBusy, ClockInv, [Next]_vars
  PROVE  ClockInv'
<1> USE DEF Client, Timer, Driver
<1>1. TypeOK' /\ UsageInv'
  BY NextType, UsageNext DEF ClockInv
<1> DEFINE Goal == ResumesExist' /\ ClockVotesBalance'
<1>2. ASSUME NEW r \in Resources, CreateResource(r) PROVE Goal
  BY <1>1, <1>2, ClockLifetime
<1>3. ASSUME NEW p \in Producers, DeleteProducer(p) PROVE Goal
  BY <1>1, <1>3, ClockLifetime
<1>4. ASSUME NEW c \in Consumers, DeleteConsumer(c) PROVE Goal
  BY <1>1, <1>4, ClockLifetime
<1>5. ASSUME NEW p \in Producers, RequestResource(p) \/ ReleaseResource(p) PROVE Goal
  BY <1>1, <1>5, ClockRequestResource, ClockReleaseResource
<1>6. ASSUME NEW d \in Dependencies, NEW owner, NEW sync,
             AddDependency(d[1], d[2], owner, sync) \/ DeleteDependency(d[1], d[2])
      PROVE  Goal
  <2>1. d[1] \in Producers /\ d[2] \in Consumers
    BY IpaRmAssumption
  <2> QED
    BY <1>1, <1>6, <2>1, ClockDependency
<1>7. ASSUME NEW c \in Consumers, RequestWithTimer(c) \/ DelayedRelease(c) PROVE Goal
  BY <1>1, <1>7, ClockRequestWithTimer, ClockDelayedRelease
<1>8. ASSUME Worker PROVE Goal
  BY <1>1, <1>8, ClockWorker
<1>9. ASSUME NEW c \in Consumers, NEW event \in Events, NotifyCompletion(c, event) PROVE Goal
  BY <1>1, <1>9, ClockCompletion
<1>10. ASSUME NEW p, Register(p) \/ Deregister(p) PROVE Goal
  BY <1>10, ClockQuiet DEF Register, Deregister, graphVars, clockVars, consVars
<1>11. ASSUME NEW c, SyncReturn(c) PROVE Goal
  BY <1>11, ClockQuiet DEF SyncReturn, graphVars, clockVars, consVars
<1>12. ASSUME NEW r, NEW bw, SetPerfProfile(r, bw) PROVE Goal
  BY <1>12, ClockQuiet DEF SetPerfProfile, graphVars, clockVars, consVars
<1>13. ASSUME NEW n, OtherVote(n) PROVE Goal
  BY <1>13, ClockQuiet DEF OtherVote, graphVars, clockVars, consVars
<1>14. ASSUME UNCHANGED vars PROVE Goal
  BY <1>14, ClockQuiet DEF vars, graphVars, clockVars, consVars
<1>15. Goal
  <2> HIDE DEF Goal
  <2> QED
    BY <1>2, <1>3, <1>4, <1>5, <1>6, <1>7, <1>8, <1>9, <1>10, <1>11, <1>12, <1>13, <1>14,
       IpaRmAssumption DEF Next
<1> QED
  BY <1>1, <1>15 DEF ClockInv

\* As long as no driver fails and no consumer is deleted while it is busy, the resource
\* manager's clock votes balance: once the queued resumes and suspends have run, a consumer
\* holds one vote on the IPA clocks if it is in use and none otherwise.  A resume that a
\* release overtakes, a vote taken at once and one taken by the queue thread count the same
\* (ipa_rm_resource_consumer_request, ipa_rm_resource_consumer_release, ipa_rm_wq_resume_handler).
THEOREM ClocksBalance ==
  ASSUME "ERROR" \notin DriverResults, ~DeleteWhileBusy
  PROVE  Spec => []ClockVotesBalance
<1>1. Init => ClockInv
  <2> SUFFICES ASSUME Init PROVE ClockInv
    OBVIOUS
  <2>1. TypeOK /\ UsageInv
    BY InitType, UsageInit
  <2>2. ResumesExist
    BY DEF Init, ResumesExist, Idle, Busy
  <2>3. wq = <<>> /\ \A c \in Consumers : votes[c] = 0 /\ consState[c] \notin Busy
    BY DEF Init, Busy
  <2>4. \A c \in Consumers : Queued("resume", c) = 0 /\ Queued("suspend", c) = 0
    BY <2>1, <2>3, QueuedMarks, MarkedNone
  <2>5. ClockVotesBalance
    BY <2>3, <2>4 DEF ClockVotesBalance
  <2> QED
    BY <2>1, <2>2, <2>5 DEF ClockInv
<1>2. ClockInv /\ [Next]_vars => ClockInv'
  BY ClockNext
<1>3. ClockInv => ClockVotesBalance
  BY DEF ClockInv
<1> QED
  BY <1>1, <1>2, <1>3, PTL DEF Spec

----------------------------------------------------------------------------
(* What is left of the counts when drivers fail and dependencies go while  *)
(* a request is under way: pending_request may then disagree with the      *)
(* consumers waited for, but not exceed the number of dependencies.  No    *)
(* assumption on the drivers or the callers is needed.                     *)

\* One producer's bound; a granted producer waits for nothing.
Bounded(p) == /\ prodState[p] = "REQUEST_IN_PROGRESS" => pending[p] <= Cardinality(Peers(p))
              /\ prodState[p] = "GRANTED" => pending[p] = 0
BoundInv == TypeOK /\ \A p \in Producers : Bounded(p)

\* The peers of a producer are finitely many.
LEMMA PeersFinite ==
  \A p : IsFiniteSet(Peers(p)) /\ Cardinality(Peers(p)) \in Nat
BY IpaRmAssumption, FS_Subset, FS_CardinalityType DEF Peers

\* A step that leaves a producer's dependencies alone, and its count or lowers it.
LEMMA BoundedSame ==
  ASSUME NEW p \in Producers, TypeOK, Bounded(p), Peers(p)' = Peers(p),
         \/ prodState'[p] = prodState[p] /\ pending'[p] = pending[p]
         \/ prodState'[p] = "REQUEST_IN_PROGRESS" /\ prodState[p] = prodState'[p]
              /\ pending'[p] = pending[p] - 1
         \/ prodState'[p] = "GRANTED" /\ pending'[p] = 0
         \/ prodState'[p] = "RELEASED"
  PROVE  Bounded(p)'
<1>1. pending[p] \in Nat /\ Cardinality(Peers(p)) \in Nat
  BY PeersFinite DEF TypeOK
<1> QED
  BY <1>1 DEF Bounded

\* ipa_rm_request_resource(): p waits for some of its peers at most.
LEMMA BoundRequest ==
  ASSUME TypeOK, NEW p \in Producers, NEW q \in Producers, Bounded(q), RequestResource(p)
  PROVE  Bounded(q)'
<1>1. Peers(q)' = Peers(q)
  BY DEF RequestResource, graphVars, Peers
<1>2. PICK fast, res :
        LET C == Reached(p, fast, res)
            pend == Cardinality(Waiting(C, fast, res))
        IN /\ prodState' = [prodState EXCEPT ![p] =
                IF pend = 0 /\ Failed(fast, res) = {} THEN "GRANTED" ELSE "REQUEST_IN_PROGRESS"]
           /\ pending' = [pending EXCEPT ![p] = pend]
  BY DEF RequestResource
<1> DEFINE W == Waiting(Reached(p, fast, res), fast, res)
<1>3. W \subseteq Peers(p)
  BY DEF Waiting, Reached
<1>4. Cardinality(W) <= Cardinality(Peers(p))
  BY <1>3, PeersFinite, FS_Subset
<1>5. prodState \in [Producers -> ProdStates] /\ pending \in [Producers -> Nat]
  BY DEF TypeOK
<1>6. CASE q = p
  <2>1. /\ pending'[p] = Cardinality(W)
        /\ prodState'[p] = "GRANTED" => Cardinality(W) = 0
    BY <1>2, <1>5
  <2> QED
    BY <1>1, <1>4, <1>6, <2>1 DEF Bounded
<1>7. CASE q # p
  BY <1>1, <1>2, <1>5, <1>7, BoundedSame
<1> QED
  BY <1>6, <1>7

\* ipa_rm_add_dependency(): one dependency more, and one to wait for at most.
LEMMA BoundAdd ==
  ASSUME TypeOK, NEW p \in Producers, NEW c \in Consumers, NEW owner \in {"kernel", "user"},
         NEW sync, NEW q \in Producers, Bounded(q), AddDependency(p, c, owner, sync)
  PROVE  Bounded(q)'
<1>1. /\ prodState \in [Producers -> ProdStates] /\ pending \in [Producers -> Nat]
      /\ dep \in [Producers \X Consumers -> {"none", "kernel", "user"}]
  BY DEF TypeOK
<1>2. dep' = [dep EXCEPT ![<<p, c>>] = owner] /\ dep[<<p, c>>] = "none"
  BY DEF AddDependency
<1>3. Peers(q)' = IF q = p THEN Peers(q) \cup {c} ELSE Peers(q)
  BY <1>1, <1>2 DEF Peers
<1>4. \/ UNCHANGED <<prodState, pending>>
      \/ /\ prodState[p] \in Busy
         /\ prodState' = [prodState EXCEPT ![p] = "REQUEST_IN_PROGRESS"]
         /\ pending' = [pending EXCEPT ![p] = pending[p] + 1]
  <2>1. CASE prodState[p] = "RELEASED"
    BY <2>1 DEF AddDependency, Busy, prodVars
  <2>2. CASE prodState[p] # "RELEASED"
    <3>1. PICK inProgress \in BOOLEAN :
            /\ prodState[p] \in Busy
            /\ prodState' = [prodState EXCEPT ![p] =
                               IF inProgress THEN "REQUEST_IN_PROGRESS" ELSE prodState[p]]
            /\ pending' = [pending EXCEPT ![p] = IF inProgress THEN pending[p] + 1 ELSE pending[p]]
      BY <2>2, ZenonT(60) DEF AddDependency
    <3> QED
      BY <1>1, <3>1
  <2> QED
    BY <2>1, <2>2
<1>5. CASE q # p
  BY <1>1, <1>3, <1>4, <1>5, BoundedSame
<1>6. CASE q = p
  <2>1. c \notin Peers(p) /\ IsFiniteSet(Peers(p)) /\ Cardinality(Peers(p)) \in Nat
    BY <1>2, PeersFinite DEF Peers
  <2>2. Cardinality(Peers(p)') = Cardinality(Peers(p)) + 1
    BY <1>3, <1>6, <2>1, CountChange
  <2>3. pending[p] \in Nat
    BY <1>1
  <2>4. CASE UNCHANGED <<prodState, pending>>
    BY <1>6, <2>1, <2>2, <2>3, <2>4 DEF Bounded
  <2>5. CASE /\ prodState[p] \in Busy
             /\ prodState' = [prodState EXCEPT ![p] = "REQUEST_IN_PROGRESS"]
             /\ pending' = [pending EXCEPT ![p] = pending[p] + 1]
    <3>1. prodState'[p] = "REQUEST_IN_PROGRESS" /\ pending'[p] = pending[p] + 1
      BY <1>1, <2>5
    <3> QED
      BY <1>6, <2>1, <2>2, <2>3, <2>5, <3>1 DEF Bounded, Busy
  <2> QED
    BY <1>4, <2>4, <2>5
<1> QED
  BY <1>5, <1>6

\* ipa_rm_delete_dependency(): one dependency less, and one to wait for less, if any.
LEMMA BoundDelete ==
  ASSUME TypeOK, NEW p \in Producers, NEW c \in Consumers,
         NEW q \in Producers, Bounded(q), DeleteDependency(p, c)
  PROVE  Bounded(q)'
<1>1. /\ prodState \in [Producers -> ProdStates] /\ pending \in [Producers -> Nat]
      /\ dep \in [Producers \X Consumers -> {"none", "kernel", "user"}]
  BY DEF TypeOK
<1>2. dep' = [dep EXCEPT ![<<p, c>>] = "none"] /\ dep[<<p, c>>] # "none"
  BY DEF DeleteDependency
<1>3. Peers(q)' = IF q = p THEN Peers(q) \ {c} ELSE Peers(q)
  BY <1>1, <1>2 DEF Peers
<1>4. \/ prodState[p] = "RELEASED" /\ UNCHANGED <<prodState, pending>>
      \/ /\ prodState' = [prodState EXCEPT ![p] =
                            IF GrantedByDelete(p, c) THEN "GRANTED" ELSE prodState[p]]
         /\ pending' = [pending EXCEPT ![p] = PendingAfterDelete(p)]
  BY ZenonT(60) DEF DeleteDependency, prodVars
<1>5. CASE q # p
  BY <1>1, <1>3, <1>4, <1>5, BoundedSame
<1>6. CASE q = p
  <2>1. c \in Peers(p) /\ IsFiniteSet(Peers(p)) /\ Cardinality(Peers(p)) \in Nat
    BY <1>2, PeersFinite DEF Peers
  <2>2. Cardinality(Peers(p)') = Cardinality(Peers(p)) - 1 /\ Cardinality(Peers(p)') \in Nat
    <3>1. Cardinality(Peers(p) \ {c}) = Cardinality(Peers(p)) - 1
      BY <2>1, CountChange
    <3>2. IsFiniteSet(Peers(p) \ {c})
      BY <2>1, FS_Subset
    <3> QED
      BY <1>3, <1>6, <3>1, <3>2, FS_CardinalityType
  <2>3. pending[p] \in Nat
    BY <1>1
  <2>4. CASE prodState[p] = "RELEASED" /\ UNCHANGED <<prodState, pending>>
    BY <1>6, <2>4 DEF Bounded
  <2>5. CASE /\ prodState' = [prodState EXCEPT ![p] =
                               IF GrantedByDelete(p, c) THEN "GRANTED" ELSE prodState[p]]
             /\ pending' = [pending EXCEPT ![p] = PendingAfterDelete(p)]
    <3>1. /\ prodState'[p] = IF GrantedByDelete(p, c) THEN "GRANTED" ELSE prodState[p]
          /\ pending'[p] = PendingAfterDelete(p)
      BY <1>1, <2>5
    <3> QED
      BY <1>6, <2>1, <2>2, <2>3, <3>1 DEF Bounded, PendingAfterDelete, GrantedByDelete
  <2> QED
    BY <1>4, <2>4, <2>5
<1> QED
  BY <1>5, <1>6

\* The other steps that touch a producer's state or count.
LEMMA BoundOthers ==
  ASSUME TypeOK, NEW q \in Producers, Bounded(q), UNCHANGED dep,
         \/ UNCHANGED prodVars
         \/ \E c : HandleGranted(c)
         \/ \E p : /\ prodState' = [prodState EXCEPT ![p] = "RELEASED"]
                   /\ pending' = pending \/ pending' = [pending EXCEPT ![p] = 0]
  PROVE  Bounded(q)'
<1>1. /\ prodState \in [Producers -> ProdStates] /\ pending \in [Producers -> Nat]
      /\ Peers(q)' = Peers(q)
  BY DEF TypeOK, Peers
<1>2. CASE UNCHANGED prodVars
  BY <1>1, <1>2, BoundedSame DEF prodVars
<1>3. ASSUME NEW c, HandleGranted(c) PROVE Bounded(q)'
  <2>1. CASE consState[c] = "REQUEST_IN_PROGRESS"
    <3>1. /\ pending'[q] = IF q \in WaitingFor(c) THEN pending[q] - 1 ELSE pending[q]
          /\ prodState'[q] = IF q \in LastPending(c) THEN "GRANTED" ELSE prodState[q]
      BY <1>3, <2>1 DEF HandleGranted
    <3>2. /\ q \in WaitingFor(c) => prodState[q] = "REQUEST_IN_PROGRESS"
          /\ q \in LastPending(c) <=> q \in WaitingFor(c) /\ pending[q] = 1
      BY DEF WaitingFor, LastPending
    <3>3. pending[q] \in Nat
      BY <1>1
    <3> QED
      BY <1>1, <3>1, <3>2, <3>3, BoundedSame
  <2>2. CASE consState[c] # "REQUEST_IN_PROGRESS"
    BY <1>2, <1>3, <2>2 DEF HandleGranted
  <2> QED
    BY <2>1, <2>2
<1>4. ASSUME NEW p, prodState' = [prodState EXCEPT ![p] = "RELEASED"],
             pending' = pending \/ pending' = [pending EXCEPT ![p] = 0]
      PROVE  Bounded(q)'
  <2>1. CASE q = p
    BY <1>1, <1>4, <2>1, BoundedSame
  <2>2. CASE q # p
    BY <1>1, <1>4, <2>2, BoundedSame
  <2> QED
    BY <2>1, <2>2
<1> QED
  BY <1>2, <1>3, <1>4

\* Every step keeps the bound.
LEMMA BoundNext ==
  ASSUME BoundInv, [Next]_vars
  PROVE  BoundInv'
<1>1. TypeOK /\ TypeOK' /\ \A p \in Producers : Bounded(p)
  BY NextType DEF BoundInv
<1> SUFFICES ASSUME NEW q \in Producers PROVE Bounded(q)'
  BY <1>1 DEF BoundInv
<1>2. Bounded(q)
  BY <1>1
<1>3. ASSUME NEW p \in Producers, RequestResource(p) PROVE Bounded(q)'
  BY <1>1, <1>2, <1>3, BoundRequest
<1>4. ASSUME NEW d \in Dependencies, NEW owner \in DepOwners, NEW sync,
             AddDependency(d[1], d[2], owner, sync)
      PROVE  Bounded(q)'
  <2>1. d[1] \in Producers /\ d[2] \in Consumers /\ owner \in {"kernel", "user"}
    BY IpaRmAssumption
  <2> QED
    BY <1>1, <1>2, <1>4, <2>1, BoundAdd
<1>5. ASSUME NEW d \in Dependencies, DeleteDependency(d[1], d[2]) PROVE Bounded(q)'
  <2>1. d[1] \in Producers /\ d[2] \in Consumers
    BY IpaRmAssumption
  <2> QED
    BY <1>1, <1>2, <1>5, <2>1, BoundDelete
<1>6. ASSUME NEW r, CreateResource(r) \/ DeleteProducer(r) \/ DeleteConsumer(r) PROVE Bounded(q)'
  <2>1. UNCHANGED dep
    BY <1>6 DEF CreateResource, DeleteProducer, DeleteConsumer
  <2>2. \/ UNCHANGED prodVars
        \/ /\ prodState' = [prodState EXCEPT ![r] = "RELEASED"]
           /\ pending' = pending \/ pending' = [pending EXCEPT ![r] = 0]
    BY <1>6 DEF CreateResource, DeleteProducer, DeleteConsumer
  <2> QED
    BY <1>1, <1>2, <2>1, <2>2, BoundOthers
<1>7. ASSUME NEW p, ReleaseResource(p) PROVE Bounded(q)'
  <2>1. /\ UNCHANGED <<dep, pending>>
        /\ prodState' = [prodState EXCEPT ![p] = "RELEASED"]
    BY <1>7 DEF ReleaseResource, graphVars
  <2> QED
    BY <1>1, <1>2, <2>1, BoundOthers
<1>8. CASE ResumeLocked \/ ResourceCb
  <2>1. UNCHANGED dep
    BY <1>8 DEF ResumeLocked, ResourceCb, graphVars
  <2>2. UNCHANGED prodVars \/ \E c : HandleGranted(c)
    BY <1>8 DEF ResumeLocked, ResourceCb
  <2> QED
    BY <1>1, <1>2, <2>1, <2>2, BoundOthers
<1>9. ASSUME NEW p, Register(p) \/ Deregister(p) \/ RequestWithTimer(p) \/ SyncReturn(p)
                    \/ DelayedRelease(p)
      PROVE  Bounded(q)'
  <2>1. UNCHANGED <<dep, prodVars>>
    BY <1>9 DEF Register, Deregister, RequestWithTimer, SyncReturn, DelayedRelease, graphVars
  <2> QED
    BY <1>1, <1>2, <2>1, BoundOthers
<1>10. ASSUME NEW r, NEW bw, SetPerfProfile(r, bw) \/ OtherVote(r) \/ NotifyCompletion(r, bw)
       PROVE  Bounded(q)'
  <2>1. UNCHANGED <<dep, prodVars>>
    BY <1>10 DEF SetPerfProfile, OtherVote, NotifyCompletion, graphVars
  <2> QED
    BY <1>1, <1>2, <2>1, BoundOthers
<1>11. CASE ResumeVote \/ SuspendVote \/ SuspendLocked \/ NotifyProducer \/ PerfWork
            \/ UNCHANGED vars
  <2>1. UNCHANGED <<dep, prodVars>>
    BY <1>11 DEF ResumeVote, SuspendVote, SuspendLocked, NotifyProducer, PerfWork, graphVars, vars
  <2> QED
    BY <1>1, <1>2, <2>1, BoundOthers
<1>12. CASE Client
  BY <1>3, <1>4, <1>5, <1>6, <1>7, <1>9, <1>10, <1>12 DEF Client
<1>13. CASE Worker
  BY <1>8, <1>11, <1>13 DEF Worker
<1>14. CASE Timer \/ Driver
  BY <1>9, <1>10, <1>14 DEF Timer, Driver
<1> QED
  BY <1>11, <1>12, <1>13, <1>14 DEF Next

\* Whatever the drivers answer and whenever dependencies go, a producer being requested
\* never waits for more consumers than it depends on, and a granted one has nothing pending:
\* pending_request is decremented only where ipa_rm_resource_delete_dependency() and
\* ipa_rm_resource_producer_handle_cb() find it positive.
THEOREM PendingBounded == Spec => []PendingWithinPeers
<1>1. Init => BoundInv
  BY InitType DEF Init, BoundInv, Bounded
<1>2. BoundInv /\ [Next]_vars => BoundInv'
  BY BoundNext
<1>3. BoundInv => PendingWithinPeers
  BY DEF BoundInv, Bounded, PendingWithinPeers
<1> QED
  BY <1>1, <1>2, <1>3, PTL DEF Spec

----------------------------------------------------------------------------
(* The performance votes.  While works are queued a released consumer may  *)
(* keep an old bandwidth and voltage vote, but then a suspend is under way *)
(* whose handler recomputes it; every other settled resource has the vote  *)
(* its state calls for at any time.                                        *)

\* The votes of a resource are those its state and bandwidths call for.
Fresh(r) == perfVote[r] = PerfOf(r) /\ (r \in perfOn <=> State(r) \in Busy)

\* A suspend for c waits in queue q or has been started by thread w.
SuspendDue(c, q, w) == \/ \E i \in DOMAIN q : q[i].kind = "suspend" /\ q[i].res = c
                       \/ w.kind = "suspend" /\ w.res = c

ProducersFresh ==
  /\ \A p \in Producers : prodState[p] \in {"GRANTED", "RELEASED"} => Fresh(p)
  /\ \A p \in Producers \ exists : prodState[p] = "RELEASED"
ConsumersFresh ==
  /\ \A c \in Consumers :
       /\ consState[c] = "GRANTED" => Fresh(c)
       /\ consState[c] \notin Busy => Fresh(c) \/ SuspendDue(c, wq, worker)
  /\ \A c \in Consumers \ exists : consState[c] \notin Busy /\ Fresh(c)
\* The IPA clock is, or will be, set to the level of the votes.
LevelQueued == Level(perfOn, perfVote) = IF perfQ = <<>> THEN perfSet ELSE perfQ[Len(perfQ)]

\* The inductive invariant behind PerfVotesSettle.
PerfInv == TypeOK /\ UsageInv /\ ProducersFresh /\ ConsumersFresh /\ LevelQueued

\* Without a change the votes are recomputed for nobody.
LEMMA NoPerfChange ==
  ASSUME TypeOK, UNCHANGED perfVars
  PROVE  PerfChange({})
<1>1. /\ perfVote \in [Resources -> Bw] /\ perfOn \subseteq Resources
      /\ UNCHANGED <<perfVote, perfOn, perfQ, perfSet>>
  BY DEF TypeOK, perfVars
<1>2. perfVote' = [r \in Resources |-> IF r \in {} THEN PerfOf(r)' ELSE perfVote[r]]
  BY <1>1
<1>3. perfOn' = {r \in Resources : IF r \in {} THEN State(r)' \in Busy ELSE r \in perfOn}
  BY <1>1
<1> QED
  BY <1>1, <1>2, <1>3 DEF PerfChange

\* What ipa_rm_perf_profile_change() leaves behind.
LEMMA PerfChangeFresh ==
  ASSUME TypeOK, NEW S, PerfChange(S), NEW r \in Resources,
         \/ r \in S
         \/ /\ Fresh(r)
            /\ State(r)' \in Busy <=> State(r) \in Busy
            /\ State(r) \in Busy => maxBw'[r] = maxBw[r] /\ neededBw'[r] = neededBw[r]
  PROVE  Fresh(r)'
<1>1. /\ perfVote'[r] = IF r \in S THEN PerfOf(r)' ELSE perfVote[r]
      /\ r \in perfOn' <=> IF r \in S THEN State(r)' \in Busy ELSE r \in perfOn
  BY DEF PerfChange
<1>2. CASE r \in S
  BY <1>1, <1>2 DEF Fresh
<1>3. CASE r \notin S
  <2>1. PerfOf(r)' = PerfOf(r)
    BY <1>3 DEF PerfOf
  <2> QED
    BY <1>1, <1>3, <2>1 DEF Fresh
<1> QED
  BY <1>2, <1>3

\* It queues the new level when that is another one.
LEMMA PerfChangeLevel ==
  ASSUME TypeOK, LevelQueued, NEW S, PerfChange(S)
  PROVE  LevelQueued'
<1>1. perfQ \in Seq(Levels)
  BY DEF TypeOK
<1> DEFINE L == Level(perfOn', perfVote')
<1>2. CASE L = Level(perfOn, perfVote)
  <2>1. perfQ' = perfQ /\ perfSet' = perfSet
    BY <1>2 DEF PerfChange
  <2> QED
    BY <1>2, <2>1 DEF LevelQueued, Level
<1>3. CASE L # Level(perfOn, perfVote)
  <2>1. perfQ' = Append(perfQ, L)
    BY <1>3 DEF PerfChange
  <2> HIDE DEF L
  <2>2. perfQ' # <<>> /\ perfQ'[Len(perfQ')] = L
    BY <1>1, <2>1
  <2> QED
    BY <2>2 DEF LevelQueued, Level, L
<1> QED
  BY <1>2, <1>3

\* Bandwidths of resource r stay.
SameBw(r) == maxBw'[r] = maxBw[r] /\ neededBw'[r] = neededBw[r]

\* A step recomputes at least the votes S: those of the producers it grants, releases or
\* changes while they are granted,
ProdStep(S) ==
  \A p \in Producers :
    /\ p \notin exists => prodState'[p] = prodState[p]
    /\ prodState'[p] \in {"GRANTED", "RELEASED"} =>
         \/ p \in S
         \/ prodState'[p] = prodState[p] /\ (prodState[p] = "GRANTED" => SameBw(p))
\* and those of the consumers, whose suspends stay due until they have run.
ConsStep(S) ==
  \A c \in Consumers :
    /\ c \notin exists => consState'[c] \notin Busy
    /\ consState'[c] = "GRANTED" => c \in S \/ (consState[c] = "GRANTED" /\ SameBw(c))
    /\ consState'[c] \notin Busy =>
         \/ c \in S \/ SuspendDue(c, wq', worker')
         \/ consState[c] \notin Busy /\ (SuspendDue(c, wq, worker) => c \notin exists)

\* Such a step keeps the producers' votes fresh.
LEMMA ProducersKept ==
  ASSUME PerfInv, NEW S, PerfChange(S), exists \cap Producers \subseteq exists', ProdStep(S)
  PROVE  ProducersFresh'
<1>0. \A p \in Producers :
        /\ p \notin exists => prodState'[p] = prodState[p]
        /\ prodState'[p] \in {"GRANTED", "RELEASED"} =>
             \/ p \in S
             \/ prodState'[p] = prodState[p] /\ (prodState[p] = "GRANTED" => SameBw(p))
  BY DEF ProdStep
<1>1. TypeOK /\ ProducersFresh
  BY DEF PerfInv
<1>2. ASSUME NEW p \in Producers, prodState'[p] \in {"GRANTED", "RELEASED"} PROVE Fresh(p)'
  <2>1. p \in Resources /\ State(p) = prodState[p] /\ State(p)' = prodState'[p]
    BY DEF Resources, State
  <2>2. CASE p \in S
    BY <1>1, <2>1, <2>2, PerfChangeFresh
  <2>3. CASE prodState'[p] = prodState[p] /\ (prodState[p] = "GRANTED" => SameBw(p))
    <3>1. Fresh(p) /\ (State(p) \in Busy => SameBw(p))
      BY <1>1, <1>2, <2>1, <2>3 DEF ProducersFresh, Busy
    <3> QED
      BY <1>1, <2>1, <2>3, <3>1, PerfChangeFresh DEF SameBw
  <2> QED
    BY <1>0, <1>2, <2>2, <2>3
<1>3. \A p \in Producers \ exists' : prodState'[p] = "RELEASED"
  BY <1>0, <1>1 DEF ProducersFresh
<1> QED
  BY <1>2, <1>3 DEF ProducersFresh

\* And the consumers'.
LEMMA ConsumersKept ==
  ASSUME PerfInv, NEW S, PerfChange(S), exists \cap Consumers \subseteq exists', ConsStep(S)
  PROVE  ConsumersFresh'
<1>0. \A c \in Consumers :
        /\ c \notin exists => consState'[c] \notin Busy
        /\ consState'[c] = "GRANTED" => c \in S \/ (consState[c] = "GRANTED" /\ SameBw(c))
        /\ consState'[c] \notin Busy =>
             \/ c \in S \/ SuspendDue(c, wq', worker')
             \/ consState[c] \notin Busy /\ (SuspendDue(c, wq, worker) => c \notin exists)
  BY DEF ConsStep
<1>1. TypeOK /\ ConsumersFresh
  BY DEF PerfInv
<1>2. ASSUME NEW c \in Consumers
      PROVE  c \in Resources /\ State(c) = consState[c] /\ State(c)' = consState'[c]
  BY IpaRmAssumption DEF Resources, State
<1>3. ASSUME NEW c \in Consumers, c \in S PROVE Fresh(c)'
  BY <1>1, <1>2, <1>3, PerfChangeFresh
<1>4. ASSUME NEW c \in Consumers, consState[c] \notin Busy, consState'[c] \notin Busy, Fresh(c)
      PROVE  Fresh(c)'
  BY <1>1, <1>2, <1>4, PerfChangeFresh
<1>5. ASSUME NEW c \in Consumers, consState'[c] = "GRANTED" PROVE Fresh(c)'
  <2>1. CASE c \in S
    BY <1>3, <2>1
  <2>2. CASE consState[c] = "GRANTED" /\ SameBw(c)
    BY <1>1, <1>2, <1>5, <2>2, PerfChangeFresh DEF ConsumersFresh, SameBw, Busy
  <2> QED
    BY <1>0, <1>5, <2>1, <2>2
<1>6. ASSUME NEW c \in Consumers, consState'[c] \notin Busy
      PROVE  Fresh(c)' \/ SuspendDue(c, wq', worker')
  <2>1. CASE consState[c] \notin Busy /\ (SuspendDue(c, wq, worker) => c \notin exists)
    <3>1. Fresh(c)
      BY <1>1, <2>1 DEF ConsumersFresh
    <3> QED
      BY <1>4, <1>6, <2>1, <3>1
  <2> QED
    BY <1>0, <1>3, <1>6, <2>1
<1>7. ASSUME NEW c \in Consumers, c \notin exists'
      PROVE  consState'[c] \notin Busy /\ Fresh(c)'
  <2>1. c \notin exists /\ consState[c] \notin Busy /\ Fresh(c) /\ consState'[c] \notin Busy
    BY <1>0, <1>1, <1>7 DEF ConsumersFresh
  <2> QED
    BY <1>4, <2>1
<1> QED
  BY <1>5, <1>6, <1>7 DEF ConsumersFresh, SuspendDue

\* A step that recomputes the votes it has to keeps the whole invariant.
LEMMA PerfStep ==
  ASSUME PerfInv, TypeOK', UsageInv', NEW S, PerfChange(S), exists \subseteq exists',
         ProdStep(S), ConsStep(S)
  PROVE  PerfInv'
<1>1. ProducersFresh' /\ ConsumersFresh'
  BY ProducersKept, ConsumersKept
<1>2. LevelQueued'
  BY PerfChangeLevel DEF PerfInv
<1> QED
  BY <1>1, <1>2 DEF PerfInv

\* A queue has a suspend due if either part has.
LEMMA DueEither ==
  ASSUME NEW s \in Seq(Work), NEW t \in Seq(Work), NEW c, NEW w,
         SuspendDue(c, s, w) \/ SuspendDue(c, t, w)
  PROVE  SuspendDue(c, s \o t, w)
<1>1. CASE w.kind = "suspend" /\ w.res = c
  BY <1>1 DEF SuspendDue
<1>2. ASSUME NEW i \in DOMAIN s, s[i].kind = "suspend", s[i].res = c
      PROVE  SuspendDue(c, s \o t, w)
  <2>1. i \in DOMAIN (s \o t) /\ (s \o t)[i] = s[i]
    OBVIOUS
  <2> QED
    BY <1>2, <2>1 DEF SuspendDue
<1>3. ASSUME NEW i \in DOMAIN t, t[i].kind = "suspend", t[i].res = c
      PROVE  SuspendDue(c, s \o t, w)
  <2>1. Len(s) + i \in DOMAIN (s \o t) /\ (s \o t)[Len(s) + i] = t[i]
    OBVIOUS
  <2> QED
    BY <1>3, <2>1 DEF SuspendDue
<1> QED
  BY <1>1, <1>2, <1>3 DEF SuspendDue

\* The suspends a release queues are due.
LEMMA DueQueued ==
  ASSUME NEW S \in SUBSET Consumers, NEW order \in Ordered(S), NEW c \in S, NEW w
  PROVE  SuspendDue(c, SuspendWorks(order), w)
<1>1. Marked(SuspendWorks(order), "suspend", c) = 1
  BY MarkedWorks DEF One
<1>2. Marks(SuspendWorks(order), "suspend", c) # {}
  BY <1>1, FS_EmptySet DEF Marked
<1> QED
  BY <1>2 DEF Marks, SuspendDue

\* No suspend is lost.
DueStays == \A c \in Consumers : SuspendDue(c, wq, worker) => SuspendDue(c, wq', worker')

\* Queueing loses none.
LEMMA DueQueueing ==
  ASSUME TypeOK, UNCHANGED worker, NEW s \in Seq(Work), NEW t \in Seq(Work),
         wq' = wq \/ wq' = wq \o s \/ wq' = wq \o s \o t
  PROVE  DueStays
<1> SUFFICES ASSUME NEW c \in Consumers, SuspendDue(c, wq, worker)
             PROVE  SuspendDue(c, wq', worker)
  BY DEF DueStays
<1>1. wq \in Seq(Work) /\ wq \o s \in Seq(Work)
  BY DEF TypeOK
<1>2. SuspendDue(c, wq \o s, worker)
  BY <1>1, DueEither
<1>3. SuspendDue(c, wq \o s \o t, worker)
  BY <1>1, <1>2, DueEither
<1> QED
  BY <1>2, <1>3

\* ipa_rm_resource_consumer_request() with the votes it recomputes.
LEMMA PerfRequest ==
  ASSUME "ERROR" \notin DriverResults, PerfInv, DueStays,
         NEW C \in SUBSET (Consumers \cap exists), NEW fast, NEW res \in Answers(fast),
         NEW inc, RequestConsumers(C, fast, res, inc),
         NEW S, RequestedPerf(C, fast, res) \subseteq S,
         \A c \in Consumers \ C : SameBw(c)
  PROVE  ConsStep(S)
<1>1. UsageInv /\ ConsumersFresh
  BY DEF PerfInv
<1> SUFFICES ASSUME NEW c \in Consumers
             PROVE  /\ c \notin exists => consState'[c] \notin Busy
                    /\ consState'[c] = "GRANTED" =>
                         c \in S \/ (consState[c] = "GRANTED" /\ SameBw(c))
                    /\ consState'[c] \notin Busy =>
                         \/ c \in S \/ SuspendDue(c, wq', worker')
                         \/ /\ consState[c] \notin Busy
                            /\ SuspendDue(c, wq, worker) => c \notin exists
  BY DEF ConsStep
<1>2. CASE c \in C
  <2>1. consState'[c] = RequestedState(c, fast, res) /\ RequestedState(c, fast, res) \in Busy
    BY <1>1, <1>2, RequestedBusy DEF RequestConsumers, UsageInv
  <2>2. RequestedState(c, fast, res) = "GRANTED" => c \in S
    BY <1>2 DEF RequestedPerf
  <2> QED
    BY <1>2, <2>1, <2>2
<1>3. CASE c \notin C
  <2>1. consState'[c] = consState[c] /\ SameBw(c)
    BY <1>3 DEF RequestConsumers
  <2> QED
    BY <1>1, <2>1 DEF DueStays, ConsumersFresh
<1> QED
  BY <1>2, <1>3

\* ipa_rm_resource_consumer_release() with the votes it recomputes.
LEMMA PerfRelease ==
  ASSUME "ERROR" \notin DriverResults, PerfInv, DueStays,
         NEW C \in SUBSET (Consumers \cap exists), NEW dec, NEW fast, NEW res \in Answers(fast),
         ReleaseConsumers(C, dec, fast, res),
         \A c \in Unused(C, dec) \ fast : SuspendDue(c, wq', worker'),
         NEW S, ReleasedPerf(C, dec, fast, res) \subseteq S,
         \A c \in Consumers \ C : SameBw(c)
  PROVE  ConsStep(S)
<1>1. ConsumersFresh
  BY DEF PerfInv
<1> SUFFICES ASSUME NEW c \in Consumers
             PROVE  /\ c \notin exists => consState'[c] \notin Busy
                    /\ consState'[c] = "GRANTED" =>
                         c \in S \/ (consState[c] = "GRANTED" /\ SameBw(c))
                    /\ consState'[c] \notin Busy =>
                         \/ c \in S \/ SuspendDue(c, wq', worker')
                         \/ /\ consState[c] \notin Busy
                            /\ SuspendDue(c, wq, worker) => c \notin exists
  BY DEF ConsStep
<1>2. consState'[c] = ReleasedState(c, C, dec, fast, res)
  BY DEF ReleaseConsumers
<1>3. Failed(fast, res) = {} /\ (c \in fast => res[c] # "ERROR")
  BY DEF Answers, Failed
<1>4. CASE c \in Unused(C, dec)
  <2>1. consState'[c] \notin Busy /\ consState'[c] # "GRANTED"
    BY <1>2, <1>3, <1>4 DEF ReleasedState, Busy
  <2>2. c \in fast => c \in S
    BY <1>3 DEF ReleasedPerf
  <2> QED
    BY <1>4, <2>1, <2>2
<1>5. CASE c \notin Unused(C, dec)
  <2>1. consState'[c] = consState[c]
    BY <1>2, <1>5 DEF ReleasedState
  <2>2. consState[c] = "GRANTED" => c \in S \/ SameBw(c)
    BY <1>5 DEF ReleasedPerf
  <2> QED
    BY <1>1, <2>1, <2>2 DEF DueStays, ConsumersFresh
<1> QED
  BY <1>4, <1>5

\* A step that leaves the consumers' states and bandwidths alone.
LEMMA ConsQuiet ==
  ASSUME PerfInv, DueStays, UNCHANGED consState, \A c \in Consumers : SameBw(c), NEW S
  PROVE  ConsStep(S)
BY DEF ConsStep, DueStays, PerfInv, ConsumersFresh

\* A step that leaves the states and bandwidths of the resources alone.
LEMMA PerfQuiet ==
  ASSUME PerfInv, TypeOK', UsageInv', UNCHANGED <<exists, prodState, consState, bwVars>>,
         NEW S, PerfChange(S), DueStays
  PROVE  PerfInv'
<1>1. \A r \in Resources : SameBw(r)
  BY DEF SameBw, bwVars
<1>2. ProdStep(S)
  BY <1>1 DEF ProdStep, Resources
<1>3. ConsStep(S)
  BY <1>1, ConsQuiet DEF Resources
<1> QED
  BY <1>2, <1>3, PerfStep

\* The works that calls queue are works.
LEMMA CallWorks ==
  ASSUME TypeOK, NEW S \in SUBSET Consumers, NEW order \in Ordered(S), NEW bw \in Bw,
         NEW t \in Notices
  PROVE  /\ ResumeWorks(order, bw, 0) \in Seq(Work) /\ ResumeWorks(order, bw, 1) \in Seq(Work)
         /\ SuspendWorks(order) \in Seq(Work) /\ t \in Seq(Work) /\ wq \in Seq(Work)
<1>1. ConsType /\ wq \in Seq(Work)
  BY TypeParts DEF TypeOK
<1> QED
  BY <1>1, OrderedWorksType, NoticeMarks

\* ipa_rm_request_resource()
LEMMA PerfRequestResource ==
  ASSUME "ERROR" \notin DriverResults, PerfInv, TypeOK', UsageInv', NEW p \in Producers,
         RequestResource(p)
  PROVE  PerfInv'
<1>1. TypeOK /\ UsageInv
  BY DEF PerfInv
<1>2. PICK fast, res :
        LET C == Reached(p, fast, res)
            granted == Cardinality(Waiting(C, fast, res)) = 0 /\ Failed(fast, res) = {}
        IN
        /\ res \in Answers(fast) /\ RequestConsumers(C, fast, res, 1)
        /\ neededBw' = RequestedBw(C, fast, res, maxBw[p])
        /\ prodState' = [prodState EXCEPT ![p] = IF granted THEN "GRANTED"
                                                 ELSE "REQUEST_IN_PROGRESS"]
        /\ \E order \in Ordered(Asleep(C) \ fast) :
             wq' = wq \o ResumeWorks(order, maxBw[p], 1)
                      \o (IF granted THEN RequestNotice(p) ELSE <<>>)
        /\ PerfChange(RequestedPerf(C, fast, res) \cup (IF granted THEN {p} ELSE {}))
  BY DEF RequestResource
<1> DEFINE C == Reached(p, fast, res)
           granted == Cardinality(Waiting(C, fast, res)) = 0 /\ Failed(fast, res) = {}
           S == RequestedPerf(C, fast, res) \cup (IF granted THEN {p} ELSE {})
           t == IF granted THEN RequestNotice(p) ELSE <<>>
<1>3. UNCHANGED <<exists, worker, maxBw>> /\ p \in exists
  BY DEF RequestResource, graphVars
<1>4. C \in SUBSET (Consumers \cap exists)
  BY <1>1, PeersExist DEF Reached
<1>5. /\ prodState' = [prodState EXCEPT ![p] = IF granted THEN "GRANTED"
                                               ELSE "REQUEST_IN_PROGRESS"]
      /\ neededBw' = RequestedBw(C, fast, res, maxBw[p])
      /\ res \in Answers(fast) /\ RequestConsumers(C, fast, res, 1) /\ PerfChange(S)
  BY <1>2
<1>6. PICK order \in Ordered(Asleep(C) \ fast) : wq' = wq \o ResumeWorks(order, maxBw[p], 1) \o t
  BY <1>2
<1>7. maxBw[p] \in Bw /\ t \in Notices /\ Asleep(C) \ fast \in SUBSET Consumers
  <2>1. maxBw[p] \in Bw
    BY <1>1 DEF TypeOK, Resources
  <2>2. t \in Notices
    BY NoticesThere DEF RequestNotice, Events
  <2>3. Asleep(C) \ fast \in SUBSET Consumers
    BY <1>4 DEF Asleep
  <2> QED
    BY <2>1, <2>2, <2>3
<1>8. RequestedPerf(C, fast, res) \subseteq S /\ (granted => p \in S)
  OBVIOUS
<1> HIDE DEF C, granted, S, t
<1>9. DueStays
  <2>1. ResumeWorks(order, maxBw[p], 1) \in Seq(Work) /\ t \in Seq(Work)
    BY <1>1, <1>6, <1>7, CallWorks
  <2> QED
    BY <1>1, <1>3, <1>6, <2>1, DueQueueing
<1>10. \A r \in Resources \ C : SameBw(r)
  BY <1>3, <1>5 DEF SameBw, RequestedBw
<1>11. ConsStep(S)
  <2>1. \A c \in Consumers \ C : SameBw(c)
    BY <1>10 DEF Resources
  <2> QED
    BY <1>4, <1>5, <1>8, <1>9, <2>1, PerfRequest
<1>12. ProdStep(S)
  <2>1. prodState \in [Producers -> ProdStates] /\ \A q \in Producers : q \in Resources \ C
    BY <1>1, <1>4, IpaRmAssumption DEF TypeOK, Resources
  <2> QED
    BY <1>3, <1>5, <1>8, <1>10, <2>1 DEF ProdStep
<1> QED
  BY <1>3, <1>5, <1>11, <1>12, PerfStep

\* ipa_rm_release_resource()
LEMMA PerfReleaseResource ==
  ASSUME "ERROR" \notin DriverResults, PerfInv, TypeOK', UsageInv', NEW p \in Producers,
         ReleaseResource(p)
  PROVE  PerfInv'
<1>1. TypeOK /\ UsageInv
  BY DEF PerfInv
<1> DEFINE C == Peers(p)
           t == <<Notify(p, "RELEASED", TRUE)>>
<1>2. PICK fast, res :
        /\ res \in Answers(fast) /\ ReleaseConsumers(C, 1, fast, res)
        /\ neededBw' = ReleasedBw(C, maxBw[p])
        /\ \E order \in Ordered(Unused(C, 1) \ fast) : wq' = wq \o SuspendWorks(order) \o t
        /\ PerfChange(ReleasedPerf(C, 1, fast, res) \cup {p})
  BY DEF ReleaseResource
<1> DEFINE S == ReleasedPerf(C, 1, fast, res) \cup {p}
<1>3. PICK order \in Ordered(Unused(C, 1) \ fast) : wq' = wq \o SuspendWorks(order) \o t
  BY <1>2
<1>4. /\ UNCHANGED <<exists, worker, maxBw>> /\ p \in exists
      /\ prodState' = [prodState EXCEPT ![p] = "RELEASED"]
  BY DEF ReleaseResource, graphVars
<1>5. /\ C \in SUBSET (Consumers \cap exists) /\ t \in Notices
      /\ Unused(C, 1) \ fast \in SUBSET Consumers
  BY <1>1, PeersExist, NoticesThere DEF Events, Unused
<1>6. ReleasedPerf(C, 1, fast, res) \subseteq S /\ p \in S
  OBVIOUS
<1> HIDE DEF C, S, t
<1>7. SuspendWorks(order) \in Seq(Work) /\ t \in Seq(Work) /\ wq \in Seq(Work)
  BY <1>1, <1>3, <1>5, BwClosed, CallWorks
<1>8. DueStays
  BY <1>1, <1>3, <1>4, <1>7, DueQueueing
<1>9. \A c \in Unused(C, 1) \ fast : SuspendDue(c, wq', worker')
  <2> TAKE c \in Unused(C, 1) \ fast
  <2>1. SuspendDue(c, SuspendWorks(order), worker)
    BY <1>3, <1>5, DueQueued
  <2>2. wq \o SuspendWorks(order) \in Seq(Work) /\ SuspendDue(c, wq \o SuspendWorks(order), worker)
    BY <1>7, <2>1, DueEither
  <2> QED
    BY <1>3, <1>4, <1>7, <2>2, DueEither
<1>10. \A r \in Resources \ C : SameBw(r)
  BY <1>2, <1>4 DEF SameBw, ReleasedBw
<1>11. ConsStep(S)
  <2>1. \A c \in Consumers \ C : SameBw(c)
    BY <1>10 DEF Resources
  <2> QED
    BY <1>2, <1>5, <1>6, <1>8, <1>9, <2>1, PerfRelease
<1>12. ProdStep(S)
  <2>1. prodState \in [Producers -> ProdStates] /\ \A q \in Producers : q \in Resources \ C
    BY <1>1, <1>5, IpaRmAssumption DEF TypeOK, Resources
  <2> QED
    BY <1>4, <1>6, <1>10, <2>1 DEF ProdStep
<1>13. PerfChange(S)
  BY <1>2 DEF S
<1> QED
  BY <1>4, <1>11, <1>12, <1>13, PerfStep

\* Queueing for one consumer or none.
LEMMA OneOrder ==
  ASSUME NEW c \in Consumers, NEW S \in SUBSET {c}
  PROVE  (IF c \in S THEN <<c>> ELSE <<>>) \in Ordered(S)
<1>1. S = IF c \in S THEN {c} ELSE {}
  OBVIOUS
<1> QED
  BY <1>1, OrderedSmall

\* ipa_rm_add_dependency()
LEMMA PerfAddDependency ==
  ASSUME "ERROR" \notin DriverResults, PerfInv, TypeOK', UsageInv', NEW p \in Producers,
         NEW c \in Consumers, NEW owner, NEW sync, AddDependency(p, c, owner, sync)
  PROVE  PerfInv'
<1>1. /\ TypeOK /\ UsageInv /\ prodState \in [Producers -> ProdStates]
      /\ neededBw \in [Resources -> Bw]
  BY DEF PerfInv, TypeOK
<1>2. UNCHANGED <<exists, worker, maxBw>> /\ p \in exists /\ c \in exists
  BY DEF AddDependency
<1>3. \A r \in Producers : r \in Resources /\ r # c
  BY IpaRmAssumption DEF Resources
<1>4. CASE prodState[p] = "RELEASED"
  <2>1. /\ UNCHANGED <<prodState, consState, wq, perfVars>>
        /\ neededBw' = [neededBw EXCEPT ![p] = AddBw(neededBw[p], maxBw[c])]
    BY <1>4 DEF AddDependency, Busy, prodVars, consVars
  <2>2. PerfChange({}) /\ \A r \in Resources \ {p} : SameBw(r)
    BY <1>1, <1>2, <2>1, NoPerfChange DEF SameBw
  <2>3. ProdStep({})
    BY <1>3, <1>4, <2>1, <2>2 DEF ProdStep
  <2>4. ConsStep({})
    <3>1. DueStays /\ UNCHANGED consState
      BY <1>2, <2>1 DEF DueStays
    <3>2. \A d \in Consumers : SameBw(d)
      BY <2>2, IpaRmAssumption DEF Resources
    <3> QED
      BY <3>1, <3>2, ConsQuiet
  <2> QED
    BY <1>2, <2>2, <2>3, <2>4, PerfStep
<1>5. CASE prodState[p] # "RELEASED"
  <2>1. PICK fast, res :
          LET inProgress == Waiting({c}, fast, res) # {} IN
          /\ res \in Answers(fast) /\ RequestConsumers({c}, fast, res, 1)
          /\ neededBw' = [RequestedBw({c}, fast, res, maxBw[p])
                            EXCEPT ![p] = AddBw(@, maxBw[c])]
          /\ prodState' = [prodState EXCEPT ![p] =
                             IF inProgress THEN "REQUEST_IN_PROGRESS" ELSE @]
          /\ wq' = wq \o ResumeWorks(IF c \in Asleep({c}) \ fast THEN <<c>> ELSE <<>>,
                                     maxBw[p], 1)
          /\ PerfChange(RequestedPerf({c}, fast, res) \cup (IF inProgress THEN {} ELSE {p}))
    BY <1>5 DEF AddDependency
  <2> DEFINE inProgress == Waiting({c}, fast, res) # {}
             S == RequestedPerf({c}, fast, res) \cup (IF inProgress THEN {} ELSE {p})
             order == IF c \in Asleep({c}) \ fast THEN <<c>> ELSE <<>>
  <2>2. /\ prodState' = [prodState EXCEPT ![p] =
                           IF inProgress THEN "REQUEST_IN_PROGRESS" ELSE prodState[p]]
        /\ wq' = wq \o ResumeWorks(order, maxBw[p], 1) /\ PerfChange(S)
    BY <2>1
  <2>3. RequestedPerf({c}, fast, res) \subseteq S /\ (~inProgress => p \in S)
    OBVIOUS
  <2>4. order \in Ordered(Asleep({c}) \ fast) /\ Asleep({c}) \ fast \in SUBSET Consumers
    <3>1. Asleep({c}) \ fast \in SUBSET {c}
      BY DEF Asleep
    <3> QED
      BY <3>1, OneOrder
  <2> HIDE DEF inProgress, S, order
  <2>5. DueStays
    <3>1. maxBw[p] \in Bw /\ <<>> \in Notices
      BY <1>1, NoticesThere DEF TypeOK, Resources
    <3>2. ResumeWorks(order, maxBw[p], 1) \in Seq(Work) /\ <<>> \in Seq(Work)
      BY <1>1, <2>4, <3>1, CallWorks
    <3> QED
      BY <1>1, <1>2, <2>2, <3>2, DueQueueing
  <2>6. \A r \in Resources \ {c, p} : SameBw(r)
    BY <1>2, <2>1 DEF SameBw, RequestedBw
  <2>7. ConsStep(S)
    <3>1. \A d \in Consumers \ {c} : SameBw(d)
      BY <1>3, <2>6, IpaRmAssumption DEF Resources
    <3>2. {c} \in SUBSET (Consumers \cap exists)
      BY <1>2
    <3> QED
      BY <2>1, <2>3, <2>5, <3>1, <3>2, PerfRequest
  <2>8. ProdStep(S)
    <3>1. \A q \in Producers : q # p => SameBw(q) /\ prodState'[q] = prodState[q]
      BY <1>1, <1>3, <2>2, <2>6
    <3>2. prodState'[p] = IF inProgress THEN "REQUEST_IN_PROGRESS" ELSE prodState[p]
      BY <1>1, <2>2
    <3> QED
      BY <1>2, <2>3, <3>1, <3>2 DEF ProdStep
  <2> QED
    BY <1>2, <2>2, <2>7, <2>8, PerfStep
<1> QED
  BY <1>4, <1>5

\* ipa_rm_delete_dependency()
LEMMA PerfDeleteDependency ==
  ASSUME "ERROR" \notin DriverResults, PerfInv, TypeOK', UsageInv', NEW p \in Producers,
         NEW c \in Consumers, DeleteDependency(p, c)
  PROVE  PerfInv'
<1>1. /\ TypeOK /\ UsageInv /\ prodState \in [Producers -> ProdStates]
      /\ neededBw \in [Resources -> Bw]
  BY DEF PerfInv, TypeOK
<1>2. UNCHANGED <<exists, worker, maxBw>> /\ p \in exists /\ c \in exists
  BY DEF DeleteDependency
<1>3. \A r \in Producers : r \in Resources /\ r # c
  BY IpaRmAssumption DEF Resources
<1>4. CASE prodState[p] = "RELEASED"
  <2>1. /\ UNCHANGED <<prodState, consState, wq, perfVars>>
        /\ neededBw' = [neededBw EXCEPT ![p] = SubBw(neededBw[p], maxBw[c])]
    BY <1>4 DEF DeleteDependency, Busy, prodVars, consVars
  <2>2. PerfChange({}) /\ \A r \in Resources \ {p} : SameBw(r)
    BY <1>1, <1>2, <2>1, NoPerfChange DEF SameBw
  <2>3. ProdStep({})
    BY <1>3, <1>4, <2>1, <2>2 DEF ProdStep
  <2>4. ConsStep({})
    <3>1. DueStays /\ UNCHANGED consState
      BY <1>2, <2>1 DEF DueStays
    <3>2. \A d \in Consumers : SameBw(d)
      BY <2>2, IpaRmAssumption DEF Resources
    <3> QED
      BY <3>1, <3>2, ConsQuiet
  <2> QED
    BY <1>2, <2>2, <2>3, <2>4, PerfStep
<1>5. CASE prodState[p] # "RELEASED"
  <2> DEFINE granted == GrantedByDelete(p, c)
             t == IF granted THEN DeleteNotice(p) ELSE <<>>
  <2>1. PICK fast, res :
          /\ res \in Answers(fast) /\ ReleaseConsumers({c}, 1, fast, res)
          /\ neededBw' = [ReleasedBw({c}, maxBw[p]) EXCEPT ![p] = SubBw(@, maxBw[c])]
          /\ prodState' = [prodState EXCEPT ![p] = IF granted THEN "GRANTED" ELSE @]
          /\ wq' = wq \o t
                      \o SuspendWorks(IF c \in Unused({c}, 1) \ fast THEN <<c>> ELSE <<>>)
          /\ PerfChange(ReleasedPerf({c}, 1, fast, res)
                          \cup (IF granted \/ prodState[p] = "GRANTED" THEN {p} ELSE {}))
    BY <1>5 DEF DeleteDependency
  <2> DEFINE S == ReleasedPerf({c}, 1, fast, res)
                    \cup (IF granted \/ prodState[p] = "GRANTED" THEN {p} ELSE {})
             order == IF c \in Unused({c}, 1) \ fast THEN <<c>> ELSE <<>>
  <2>2. wq' = wq \o t \o SuspendWorks(order) /\ PerfChange(S)
    BY <2>1
  <2>3. /\ ReleasedPerf({c}, 1, fast, res) \subseteq S
        /\ granted \/ prodState[p] = "GRANTED" => p \in S
    OBVIOUS
  <2>4. order \in Ordered(Unused({c}, 1) \ fast) /\ Unused({c}, 1) \ fast \in SUBSET Consumers
    <3>1. Unused({c}, 1) \ fast \in SUBSET {c}
      BY DEF Unused
    <3> QED
      BY <3>1, OneOrder
  <2>5. t \in Notices
    BY NoticesThere DEF DeleteNotice, Events
  <2> HIDE DEF granted, S, order, t
  <2>6. SuspendWorks(order) \in Seq(Work) /\ t \in Seq(Work) /\ wq \in Seq(Work)
    BY <1>1, <2>4, <2>5, BwClosed, CallWorks
  <2>7. DueStays
    BY <1>1, <1>2, <2>2, <2>6, DueQueueing
  <2>8. \A d \in Unused({c}, 1) \ fast : SuspendDue(d, wq', worker')
    <3> TAKE d \in Unused({c}, 1) \ fast
    <3>1. SuspendDue(d, SuspendWorks(order), worker)
      BY <2>4, DueQueued
    <3>2. wq \o t \in Seq(Work)
      BY <2>6
    <3> QED
      BY <1>2, <2>2, <2>6, <3>1, <3>2, DueEither
  <2>9. \A r \in Resources \ {c, p} : SameBw(r)
    BY <1>2, <2>1 DEF SameBw, ReleasedBw
  <2>10. ConsStep(S)
    <3>1. \A d \in Consumers \ {c} : SameBw(d)
      BY <1>3, <2>9, IpaRmAssumption DEF Resources
    <3>2. {c} \in SUBSET (Consumers \cap exists)
      BY <1>2
    <3> QED
      BY <2>1, <2>3, <2>7, <2>8, <3>1, <3>2, PerfRelease
  <2>11. ProdStep(S)
    <3>1. \A q \in Producers : q # p => SameBw(q) /\ prodState'[q] = prodState[q]
      BY <1>1, <1>3, <2>1, <2>9
    <3>2. prodState'[p] = IF granted THEN "GRANTED" ELSE prodState[p]
      BY <1>1, <2>1
    <3> QED
      BY <1>2, <1>5, <2>3, <3>1, <3>2 DEF ProdStep
  <2> QED
    BY <1>2, <2>2, <2>10, <2>11, PerfStep
<1> QED
  BY <1>4, <1>5

\* ipa_rm_request_resource_with_timer()
LEMMA PerfRequestWithTimer ==
  ASSUME "ERROR" \notin DriverResults, PerfInv, TypeOK', UsageInv', NEW c \in Consumers,
         RequestWithTimer(c)
  PROVE  PerfInv'
<1>1. TypeOK /\ 0 \in Bw
  BY BwClosed DEF PerfInv
<1>2. UNCHANGED <<exists, worker, bwVars, prodState>> /\ c \in exists
  BY DEF RequestWithTimer, graphVars, prodVars
<1>3. CASE consState[c] = "GRANTED"
  <2>1. UNCHANGED <<consState, wq>> /\ \E S : PerfChange(S)
    BY <1>3 DEF RequestWithTimer, consVars
  <2> QED
    BY <1>2, <2>1, PerfQuiet DEF DueStays
<1>4. CASE consState[c] # "GRANTED"
  <2>1. PICK fast, res :
          /\ res \in Answers(fast) /\ RequestConsumers({c}, fast, res, 0)
          /\ wq' = wq \o ResumeWorks(IF c \in Asleep({c}) \ fast THEN <<c>> ELSE <<>>, 0, 0)
          /\ PerfChange(RequestedPerf({c}, fast, res))
    BY <1>4 DEF RequestWithTimer
  <2> DEFINE order == IF c \in Asleep({c}) \ fast THEN <<c>> ELSE <<>>
             S == RequestedPerf({c}, fast, res)
  <2>2. order \in Ordered(Asleep({c}) \ fast) /\ Asleep({c}) \ fast \in SUBSET Consumers
    <3>1. Asleep({c}) \ fast \in SUBSET {c}
      BY DEF Asleep
    <3> QED
      BY <3>1, OneOrder
  <2>3. wq' = wq \o ResumeWorks(order, 0, 0)
    BY <2>1
  <2> HIDE DEF order
  <2>4. DueStays
    <3>1. ResumeWorks(order, 0, 0) \in Seq(Work) /\ <<>> \in Seq(Work)
      BY <1>1, <2>2, NoticesThere, CallWorks
    <3> QED
      BY <1>1, <1>2, <2>3, <3>1, DueQueueing
  <2>5. \A r \in Resources : SameBw(r)
    BY <1>2 DEF SameBw, bwVars
  <2>6. ConsStep(S)
    <3>1. {c} \in SUBSET (Consumers \cap exists) /\ \A d \in Consumers \ {c} : SameBw(d)
      BY <1>2, <2>5 DEF Resources
    <3> QED
      BY <2>1, <2>4, <3>1, PerfRequest
  <2>7. ProdStep(S)
    BY <1>2, <2>5 DEF ProdStep, Resources
  <2> QED
    BY <1>2, <2>1, <2>6, <2>7, PerfStep
<1> QED
  BY <1>3, <1>4

\* delayed_release_work_func()
LEMMA PerfDelayedRelease ==
  ASSUME "ERROR" \notin DriverResults, PerfInv, TypeOK', UsageInv', NEW c \in Consumers,
         DelayedRelease(c)
  PROVE  PerfInv'
<1> DEFINE C == {c} \cap exists
<1>1. TypeOK /\ 0 \in Bw
  BY BwClosed DEF PerfInv
<1>2. UNCHANGED <<exists, worker, bwVars, prodState>>
  BY DEF DelayedRelease, graphVars, prodVars
<1>3. PICK fast, res :
        /\ res \in Answers(fast) /\ ReleaseConsumers(C, 0, fast, res)
        /\ wq' = wq \o SuspendWorks(IF c \in Unused(C, 0) \ fast THEN <<c>> ELSE <<>>)
        /\ PerfChange(ReleasedPerf(C, 0, fast, res))
  BY DEF DelayedRelease
<1> DEFINE order == IF c \in Unused(C, 0) \ fast THEN <<c>> ELSE <<>>
           S == ReleasedPerf(C, 0, fast, res)
<1>4. order \in Ordered(Unused(C, 0) \ fast) /\ Unused(C, 0) \ fast \in SUBSET Consumers
  <2>1. Unused(C, 0) \ fast \in SUBSET {c}
    BY DEF Unused
  <2> QED
    BY <2>1, OneOrder
<1>5. wq' = wq \o SuspendWorks(order) /\ C \in SUBSET (Consumers \cap exists)
  BY <1>3
<1> HIDE DEF order, C
<1>6. SuspendWorks(order) \in Seq(Work) /\ <<>> \in Seq(Work) /\ wq \in Seq(Work)
  BY <1>1, <1>4, NoticesThere, CallWorks
<1>7. DueStays
  BY <1>1, <1>2, <1>5, <1>6, DueQueueing
<1>8. \A d \in Unused(C, 0) \ fast : SuspendDue(d, wq', worker')
  <2> TAKE d \in Unused(C, 0) \ fast
  <2>1. SuspendDue(d, SuspendWorks(order), worker)
    BY <1>4, DueQueued
  <2> QED
    BY <1>2, <1>5, <1>6, <2>1, DueEither
<1>9. \A r \in Resources : SameBw(r)
  BY <1>2 DEF SameBw, bwVars
<1>10. ConsStep(S)
  <2>1. \A d \in Consumers \ C : SameBw(d)
    BY <1>9 DEF Resources
  <2> QED
    BY <1>3, <1>5, <1>7, <1>8, <2>1, PerfRelease
<1>11. ProdStep(S)
  BY <1>2, <1>9 DEF ProdStep, Resources
<1> QED
  BY <1>2, <1>3, <1>10, <1>11, PerfStep

\* ipa_rm_set_perf_profile(): a granted resource whose needs change is recomputed.
LEMMA PerfSetProfile ==
  ASSUME PerfInv, TypeOK', UsageInv', NEW r \in Resources, NEW bw, SetPerfProfile(r, bw)
  PROVE  PerfInv'
<1> DEFINE S == {s \in ProfilePeers(r) \cup {r} : State(s) = "GRANTED"}
<1>1. /\ UNCHANGED <<exists, prodState, consState, wq, worker>> /\ PerfChange(S)
      /\ maxBw' = [maxBw EXCEPT ![r] = bw]
      /\ neededBw' = [s \in Resources |-> IF s \in ProfilePeers(r)
                        THEN AddBw(SubBw(neededBw[s], maxBw[r]), bw) ELSE neededBw[s]]
  BY DEF SetPerfProfile, graphVars, prodVars, consVars
<1>2. maxBw \in [Resources -> Bw] /\ neededBw \in [Resources -> Bw]
  BY DEF PerfInv, TypeOK
<1>3. \A s \in Resources : SameBw(s) \/ s \in ProfilePeers(r) \cup {r}
  BY <1>1, <1>2 DEF SameBw
<1>4. ProdStep(S)
  BY <1>1, <1>3 DEF ProdStep, Resources, State
<1>5. ConsStep(S)
  <2>1. \A c \in Consumers : c \in Resources /\ State(c) = consState[c]
    BY IpaRmAssumption DEF Resources, State
  <2> QED
    BY <1>1, <1>3, <2>1 DEF ConsStep, PerfInv, ConsumersFresh
<1> QED
  BY <1>1, <1>4, <1>5, PerfStep

\* ipa_rm_resource_consumer_handle_cb() for GRANTED recomputes what it grants.
LEMMA PerfGranted ==
  ASSUME PerfInv, TypeOK', UsageInv', NEW c \in exists, HandleGranted(c), DueStays,
         UNCHANGED exists
  PROVE  PerfInv'
<1>1. TypeOK /\ consState \in [Consumers -> ConsStates]
  BY DEF PerfInv, TypeOK
<1>2. CASE consState[c] = "REQUEST_IN_PROGRESS"
  <2> DEFINE S == LastPending(c) \cup {c}
  <2>1. /\ consState' = [consState EXCEPT ![c] = "GRANTED"] /\ UNCHANGED bwVars /\ PerfChange(S)
        /\ prodState' = [p \in Producers |-> IF p \in LastPending(c) THEN "GRANTED"
                                                                    ELSE prodState[p]]
    BY <1>2 DEF HandleGranted
  <2>2. \A r \in Resources : SameBw(r)
    BY <2>1 DEF SameBw, bwVars
  <2>3. ProdStep(S)
    <3>1. \A p \in LastPending(c) : p \in exists
      BY DEF LastPending, WaitingFor, Owners, PerfInv, UsageInv, DepsExist, ProducersFresh
    <3> QED
      BY <2>1, <2>2, <3>1 DEF ProdStep, Resources
  <2>4. ConsStep(S)
    BY <1>1, <2>1, <2>2 DEF ConsStep, Resources, DueStays, PerfInv, ConsumersFresh, Busy
  <2> QED
    BY <2>1, <2>3, <2>4, PerfStep
<1>3. CASE consState[c] # "REQUEST_IN_PROGRESS"
  <2>1. UNCHANGED <<prodState, consState, bwVars, perfVars>>
    BY <1>3 DEF HandleGranted, prodVars
  <2> QED
    BY <1>1, <2>1, NoPerfChange, PerfQuiet
<1> QED
  BY <1>2, <1>3

\* ipa_rm_create_resource() and ipa_rm_delete_resource()
LEMMA PerfLifetime ==
  ASSUME ~DeleteWhileBusy, PerfInv, TypeOK', UsageInv',
         \/ \E r \in Resources : CreateResource(r)
         \/ \E p \in Producers : DeleteProducer(p)
         \/ \E c \in Consumers : DeleteConsumer(c)
  PROVE  PerfInv'
<1>1. /\ TypeOK /\ UsageInv /\ ProducersFresh /\ ConsumersFresh /\ LevelQueued
      /\ Producers \cap Consumers = {} /\ Producers \subseteq Resources
      /\ Consumers \subseteq Resources
  BY IpaRmAssumption DEF PerfInv, Resources
<1>2. /\ prodState \in [Producers -> ProdStates] /\ consState \in [Consumers -> ConsStates]
      /\ maxBw \in [Resources -> Bw] /\ neededBw \in [Resources -> Bw] /\ wq \in Seq(Work)
  BY <1>1 DEF TypeOK
<1>3. ASSUME NEW r \in Resources, CreateResource(r) PROVE PerfInv'
  <2>1. /\ r \notin exists /\ exists' = exists \cup {r}
        /\ UNCHANGED <<wq, worker, perfVars>>
        /\ maxBw' = [maxBw EXCEPT ![r] = 0] /\ neededBw' = [neededBw EXCEPT ![r] = 0]
    BY <1>3 DEF CreateResource
  <2>2. \A s \in Resources \ {r} : SameBw(s)
    BY <1>2, <2>1 DEF SameBw
  <2>3. PerfChange({})
    BY <1>1, <2>1, NoPerfChange
  <2>4. \/ /\ r \in Producers /\ prodState' = [prodState EXCEPT ![r] = "RELEASED"]
           /\ UNCHANGED consState
        \/ /\ r \in Consumers /\ consState' = [consState EXCEPT ![r] = "RELEASED"]
           /\ UNCHANGED prodState
    BY <1>3 DEF CreateResource, prodVars, consVars, Resources
  <2>5. ProdStep({})
    <3>1. r \in Producers => prodState[r] = "RELEASED"
      BY <1>1, <2>1 DEF ProducersFresh
    <3>2. \A p \in Producers : prodState'[p] = prodState[p]
      BY <1>2, <2>4, <3>1
    <3> QED
      BY <1>1, <2>2, <3>1, <3>2 DEF ProdStep
  <2>6. ConsStep({})
    <3> SUFFICES ASSUME NEW c \in Consumers
                 PROVE  /\ c \notin exists => consState'[c] \notin Busy
                        /\ consState'[c] = "GRANTED" =>
                             c \in {} \/ (consState[c] = "GRANTED" /\ SameBw(c))
                        /\ consState'[c] \notin Busy =>
                             \/ c \in {} \/ SuspendDue(c, wq', worker')
                             \/ /\ consState[c] \notin Busy
                                /\ SuspendDue(c, wq, worker) => c \notin exists
      BY DEF ConsStep
    <3>1. CASE c = r
      <4>1. consState'[c] = "RELEASED" /\ c \notin exists
        BY <1>1, <1>2, <2>1, <2>4, <3>1
      <4> QED
        BY <1>1, <4>1 DEF ConsumersFresh, Busy
    <3>2. CASE c # r
      <4>1. consState'[c] = consState[c] /\ SameBw(c)
        BY <1>1, <1>2, <2>2, <2>4, <3>2
      <4> QED
        BY <1>1, <2>1, <4>1 DEF ConsumersFresh
    <3> QED
      BY <3>1, <3>2
  <2> QED
    BY <2>1, <2>3, <2>5, <2>6, PerfStep
<1>4. ASSUME NEW p \in Producers, DeleteProducer(p) PROVE PerfInv'
  <2> DEFINE S == IF prodState[p] = "RELEASED" THEN {} ELSE {p}
             w == Notify(p, "RELEASED", TRUE)
  <2>1. /\ exists' = exists \ {p} /\ prodState' = [prodState EXCEPT ![p] = "RELEASED"]
        /\ UNCHANGED <<consState, bwVars, worker>> /\ PerfChange(S)
        /\ wq' = wq \/ wq' = Append(wq, w)
    BY <1>4 DEF DeleteProducer, consVars
  <2>2. \A r \in Resources : SameBw(r)
    BY <2>1 DEF SameBw, bwVars
  <2>3. DueStays
    <3>1. w \in Work
      BY NotifyType DEF Events
    <3> HIDE DEF w
    <3>2. <<w>> \in Seq(Work) /\ Append(wq, w) = wq \o <<w>>
      BY <1>2, <3>1
    <3> QED
      BY <1>1, <2>1, <3>2, DueQueueing
  <2>4. ConsumersFresh'
    <3>1. ConsStep(S)
      BY <1>1, <2>1, <2>2, <2>3, ConsQuiet
    <3> QED
      BY <1>1, <2>1, <3>1, ConsumersKept
  <2>5. ProducersFresh'
    <3>1. ASSUME NEW q \in Producers, prodState'[q] \in {"GRANTED", "RELEASED"}
          PROVE  Fresh(q)'
      <4>1. State(q) = prodState[q] /\ State(q)' = prodState'[q] /\ q \in Resources
        BY <1>1 DEF State
      <4>2. \/ q \in S
            \/ prodState'[q] = prodState[q]
        BY <1>2, <2>1
      <4>3. CASE q \in S
        BY <1>1, <2>1, <4>1, <4>3, PerfChangeFresh
      <4>4. CASE prodState'[q] = prodState[q]
        <5>1. Fresh(q)
          BY <1>1, <3>1, <4>4 DEF ProducersFresh
        <5> QED
          BY <1>1, <2>1, <2>2, <4>1, <4>4, <5>1, PerfChangeFresh DEF SameBw
      <4> QED
        BY <4>2, <4>3, <4>4
    <3>2. \A q \in Producers \ exists' : prodState'[q] = "RELEASED"
      BY <1>1, <1>2, <2>1 DEF ProducersFresh
    <3> QED
      BY <3>1, <3>2 DEF ProducersFresh
  <2>6. LevelQueued'
    BY <1>1, <2>1, PerfChangeLevel
  <2> QED
    BY <2>4, <2>5, <2>6 DEF PerfInv
<1>5. ASSUME NEW c \in Consumers, DeleteConsumer(c) PROVE PerfInv'
  <2>1. /\ exists' = exists \ {c} /\ Quiet(c)
        /\ UNCHANGED <<prodState, consState, bwVars, wq, worker, perfVars>>
    BY <1>5 DEF DeleteConsumer, prodVars, consVars
  <2>2. \A r : Fresh(r)' <=> Fresh(r)
    BY <2>1 DEF Fresh, PerfOf, State, perfVars, bwVars
  <2>3. consState[c] \notin Busy /\ Fresh(c)
    <3>1. consState[c] = "RELEASED" /\ ~SuspendDue(c, wq, worker)
      BY <2>1 DEF Quiet, SuspendDue, Idle
    <3> QED
      BY <1>1, <3>1 DEF ConsumersFresh, Busy
  <2>4. ProducersFresh'
    BY <1>1, <2>1, <2>2 DEF ProducersFresh
  <2>5. ConsumersFresh'
    BY <1>1, <2>1, <2>2, <2>3 DEF ConsumersFresh, SuspendDue
  <2>6. LevelQueued'
    BY <1>1, <2>1 DEF LevelQueued, perfVars, Level
  <2> QED
    BY <2>4, <2>5, <2>6 DEF PerfInv
<1> QED
  BY <1>3, <1>4, <1>5

\* The thread takes a work over from the queue,
LEMMA DueTaken ==
  ASSUME wq \in Seq(Work), wq # <<>>, wq' = Tail(wq), worker = Idle, worker' = Head(wq)
  PROVE  DueStays
<1> SUFFICES ASSUME NEW c \in Consumers, NEW i \in DOMAIN wq,
                    wq[i].kind = "suspend", wq[i].res = c
             PROVE  SuspendDue(c, wq', worker')
  BY DEF DueStays, SuspendDue, Idle
<1>1. CASE i = 1
  BY <1>1 DEF SuspendDue
<1>2. CASE i # 1
  <2>1. i - 1 \in DOMAIN Tail(wq) /\ Tail(wq)[i - 1] = wq[i]
    BY <1>2
  <2> QED
    BY <2>1 DEF SuspendDue
<1> QED
  BY <1>1, <1>2

\* or runs one that is no suspend.
LEMMA DueDropped ==
  ASSUME wq \in Seq(Work), wq # <<>>, wq' = Tail(wq), UNCHANGED worker,
         Head(wq).kind # "suspend"
  PROVE  DueStays
<1> SUFFICES ASSUME NEW c \in Consumers, NEW i \in DOMAIN wq,
                    wq[i].kind = "suspend", wq[i].res = c
             PROVE  SuspendDue(c, wq', worker')
  BY DEF DueStays, SuspendDue
<1>1. i # 1
  OBVIOUS
<1>2. i - 1 \in DOMAIN Tail(wq) /\ Tail(wq)[i - 1] = wq[i]
  BY <1>1
<1> QED
  BY <1>2 DEF SuspendDue

\* Removing the first of several elements keeps the last one.
LEMMA LastOfTail ==
  ASSUME NEW T, NEW s \in Seq(T), s # <<>>, Len(s) # 1
  PROVE  Tail(s) # <<>> /\ Tail(s)[Len(Tail(s))] = s[Len(s)]
<1>1. Len(s) \in Nat /\ Len(s) # 0
  OBVIOUS
<1>2. Tail(s) \in Seq(T) /\ Len(Tail(s)) = Len(s) - 1
  OBVIOUS
<1>3. \A i \in 1 .. Len(s) - 1 : Tail(s)[i] = s[i + 1]
  OBVIOUS
<1>4. \A n \in Nat : n # 0 /\ n # 1 => n - 1 \in 1 .. n - 1 /\ n - 1 + 1 = n /\ n - 1 # 0
  OBVIOUS
<1>5. \A t \in Seq(T) : Len(t) # 0 => t # <<>>
  OBVIOUS
<1>6. Len(s) - 1 \in 1 .. Len(s) - 1 /\ Len(s) - 1 + 1 = Len(s) /\ Len(s) - 1 # 0
  BY <1>1, <1>4, Zenon
<1>7. Tail(s)[Len(s) - 1] = s[Len(s)]
  BY <1>3, <1>6
<1>8. Tail(s) # <<>>
  BY <1>2, <1>5, <1>6, Zenon
<1> QED
  BY <1>2, <1>7, <1>8, Zenon

\* The queue thread: a suspend stays due until its handler has recomputed the vote.
LEMMA PerfWorker ==
  ASSUME "ERROR" \notin DriverResults, PerfInv, TypeOK', UsageInv', Worker
  PROVE  PerfInv'
<1>1. /\ TypeOK /\ ProducersFresh /\ ConsumersFresh /\ LevelQueued
      /\ wq \in Seq(Work) /\ consState \in [Consumers -> ConsStates]
  BY DEF PerfInv, TypeOK
<1>2. \A c \in Consumers : c \in Resources /\ c \notin Producers
  BY IpaRmAssumption DEF Resources
<1>3. CASE ResumeVote \/ SuspendVote
  <2>1. /\ UNCHANGED <<exists, prodState, consState, bwVars, perfVars>>
        /\ worker = Idle /\ wq # <<>> /\ wq' = Tail(wq) /\ worker' = Head(wq)
    BY <1>3 DEF ResumeVote, SuspendVote, TakeWork, graphVars, prodVars, consVars
  <2>2. DueStays
    BY <1>1, <2>1, DueTaken
  <2> QED
    BY <1>1, <2>1, <2>2, NoPerfChange, PerfQuiet
<1>4. CASE ResumeLocked
  <2>1. UNCHANGED <<exists, wq>> /\ worker.kind = "resume"
    BY <1>4 DEF ResumeLocked, graphVars
  <2>2. DueStays
    BY <2>1 DEF DueStays, SuspendDue
  <2>3. CASE worker.res \in exists /\ HandleGranted(worker.res)
    BY <2>1, <2>2, <2>3, PerfGranted
  <2>4. CASE UNCHANGED <<prodState, consState, bwVars, perfVars>>
    BY <1>1, <2>1, <2>2, <2>4, NoPerfChange, PerfQuiet
  <2> QED
    BY <1>4, <2>3, <2>4 DEF ResumeLocked, prodVars, consVars
<1>5. CASE SuspendLocked
  <2> DEFINE c == worker.res
  <2>1. /\ UNCHANGED <<exists, wq, bwVars, prodState>> /\ worker.kind = "suspend"
        /\ worker' = Idle
    BY <1>5 DEF SuspendLocked, graphVars, prodVars
  <2>2. \A r \in Resources : SameBw(r)
    BY <2>1 DEF SameBw, bwVars
  <2>3. \A d \in Consumers \ {c} : SuspendDue(d, wq, worker) => SuspendDue(d, wq', worker')
    BY <2>1 DEF SuspendDue
  <2>4. PICK S : /\ PerfChange(S) /\ (c \in exists => c \in S)
                 /\ \A d \in Consumers \ {c} : consState'[d] = consState[d]
                 /\ \A d \in Consumers : consState'[d] \in Busy <=> consState[d] \in Busy
                 /\ consState'[c] = "GRANTED" => consState[c] = "GRANTED"
    <3>1. CASE c \notin exists
      <4>1. UNCHANGED <<consState, perfVars>>
        BY <1>5, <3>1 DEF SuspendLocked
      <4> QED
        BY <1>1, <3>1, <4>1, NoPerfChange
    <3>2. CASE c \in exists
      <4>1. consState' = [consState EXCEPT ![c] = ReleasedByCb(c)] /\ PerfChange({c})
        BY <1>5, <3>2 DEF SuspendLocked
      <4>2. consState'[c] = "GRANTED" => consState[c] = "GRANTED"
        BY <1>1, <4>1 DEF ReleasedByCb
      <4> QED
        BY <1>1, <4>1, <4>2, ReleasedIdle
    <3> QED
      BY <3>1, <3>2
  <2>5. ProdStep(S)
    BY <2>1, <2>2 DEF ProdStep, Resources
  <2>6. ConsStep(S)
    <3> HIDE DEF c
    <3> QED
      BY <1>1, <1>2, <2>2, <2>3, <2>4 DEF ConsStep, ConsumersFresh
  <2> QED
    BY <2>1, <2>4, <2>5, <2>6, PerfStep
<1>6. CASE NotifyProducer \/ ResourceCb
  <2> DEFINE d == Head(wq).res
  <2>1. /\ UNCHANGED <<exists, worker>> /\ wq # <<>> /\ wq' = Tail(wq)
        /\ Head(wq).kind \in {"notify", "cb"}
    BY <1>6 DEF NotifyProducer, ResourceCb, TakeWork, graphVars
  <2>2. DueStays
    BY <1>1, <2>1, DueDropped
  <2>3. CASE d \in exists /\ HandleGranted(d)
    BY <2>1, <2>2, <2>3, PerfGranted
  <2>4. ASSUME UNCHANGED <<prodState, bwVars, perfVars>>,
               \/ UNCHANGED consState
               \/ consState' = [consState EXCEPT ![d] = consState[d]]
               \/ consState' = [consState EXCEPT ![d] = ReleasedByCb(d)]
        PROVE  PerfInv'
    <3>1. \A r \in Resources : SameBw(r)
      BY <2>4 DEF SameBw, bwVars
    <3>2. ProdStep({})
      BY <2>4, <3>1 DEF ProdStep, Resources
    <3>3. /\ \A e \in Consumers : consState'[e] \in Busy <=> consState[e] \in Busy
          /\ \A e \in Consumers : consState'[e] = "GRANTED" => consState[e] = "GRANTED"
      <4>1. CASE UNCHANGED consState
        BY <4>1
      <4>2. CASE consState' = [consState EXCEPT ![d] = consState[d]]
        <5>1. consState' = consState
          BY <1>1, <4>2
        <5> QED
          BY <5>1
      <4>3. CASE consState' = [consState EXCEPT ![d] = ReleasedByCb(d)]
        <5>1. \A e \in Consumers : consState'[e] = "GRANTED" => consState[e] = "GRANTED"
          BY <1>1, <4>3 DEF ReleasedByCb
        <5> QED
          BY <1>1, <4>3, <5>1, ReleasedIdle
      <4> QED
        BY <2>4, <4>1, <4>2, <4>3
    <3>4. ConsStep({})
      BY <1>1, <1>2, <2>2, <3>1, <3>3 DEF ConsStep, ConsumersFresh, DueStays
    <3> QED
      BY <1>1, <2>1, <2>4, <3>2, <3>4, NoPerfChange, PerfStep
  <2>5. \/ d \in exists /\ HandleGranted(d)
        \/ /\ UNCHANGED <<prodState, bwVars, perfVars>>
           /\ \/ UNCHANGED consState
              \/ consState' = [consState EXCEPT ![d] = consState[d]]
              \/ consState' = [consState EXCEPT ![d] = ReleasedByCb(d)]
    BY <1>6 DEF NotifyProducer, ResourceCb, prodVars, consVars
  <2> HIDE DEF d
  <2> QED
    BY <2>3, <2>4, <2>5
<1>7. CASE PerfWork
  <2>1. /\ UNCHANGED <<exists, prodState, consState, bwVars, wq, worker, perfVote, perfOn>>
        /\ perfQ # <<>> /\ perfSet' = Head(perfQ) /\ perfQ' = Tail(perfQ)
    BY <1>7 DEF PerfWork, graphVars, prodVars, consVars
  <2>2. \A r : Fresh(r)' <=> Fresh(r)
    BY <2>1 DEF Fresh, PerfOf, State, bwVars
  <2>3. ProducersFresh' /\ ConsumersFresh'
    BY <1>1, <2>1, <2>2 DEF ProducersFresh, ConsumersFresh, SuspendDue
  <2>4. perfQ \in Seq(Levels)
    BY <1>1 DEF TypeOK
  <2>5. CASE Len(perfQ) = 1
    <3>1. perfQ' = <<>> /\ perfSet' = perfQ[Len(perfQ)]
      BY <2>1, <2>4, <2>5
    <3>2. LevelQueued'
      BY <1>1, <2>1, <3>1 DEF LevelQueued, Level
    <3> QED
      BY <2>3, <3>2 DEF PerfInv
  <2>6. CASE Len(perfQ) # 1
    <3>1. perfQ' # <<>> /\ perfQ'[Len(perfQ')] = perfQ[Len(perfQ)]
      BY <2>1, <2>4, <2>6, LastOfTail
    <3>2. LevelQueued'
      BY <1>1, <2>1, <3>1 DEF LevelQueued, Level
    <3> QED
      BY <2>3, <3>2 DEF PerfInv
  <2> QED
    BY <2>5, <2>6
<1> QED
  BY <1>3, <1>4, <1>5, <1>6, <1>7 DEF Worker

\* Every step of the resource manager keeps the performance votes.
LEMMA PerfNext ==
  ASSUME "ERROR" \notin DriverResults, ~DeleteWhileBusy, PerfInv, [Next]_vars
  PROVE  PerfInv'
<1> USE DEF Client, Timer, Driver
<1>1. TypeOK' /\ UsageInv' /\ TypeOK
  BY NextType, UsageNext DEF PerfInv
<1>2. ASSUME NEW r \in Resources, CreateResource(r) PROVE PerfInv'
  BY <1>1, <1>2, PerfLifetime
<1>3. ASSUME NEW p \in Producers, DeleteProducer(p) PROVE PerfInv'
  BY <1>1, <1>3, PerfLifetime
<1>4. ASSUME NEW c \in Consumers, DeleteConsumer(c) PROVE PerfInv'
  BY <1>1, <1>4, PerfLifetime
<1>5. ASSUME NEW p \in Producers, RequestResource(p) \/ ReleaseResource(p) PROVE PerfInv'
  BY <1>1, <1>5, PerfRequestResource, PerfReleaseResource
<1>6. ASSUME NEW d \in Dependencies, NEW owner, NEW sync,
             AddDependency(d[1], d[2], owner, sync) \/ DeleteDependency(d[1], d[2])
      PROVE  PerfInv'
  <2>1. d[1] \in Producers /\ d[2] \in Consumers
    BY IpaRmAssumption
  <2> QED
    BY <1>1, <1>6, <2>1, PerfAddDependency, PerfDeleteDependency
<1>7. ASSUME NEW c \in Consumers, RequestWithTimer(c) \/ DelayedRelease(c) PROVE PerfInv'
  BY <1>1, <1>7, PerfRequestWithTimer, PerfDelayedRelease
<1>8. ASSUME Worker PROVE PerfInv'
  BY <1>1, <1>8, PerfWorker
<1>9. ASSUME NEW r \in Resources, NEW bw, SetPerfProfile(r, bw) PROVE PerfInv'
  BY <1>1, <1>9, PerfSetProfile
<1>10. ASSUME NEW c \in Consumers, NEW event \in Events, NotifyCompletion(c, event)
       PROVE  PerfInv'
  <2> DEFINE w == [kind |-> "cb", res |-> c, event |-> event]
  <2>1. /\ wq' = Append(wq, w)
        /\ UNCHANGED <<exists, prodState, consState, bwVars, worker, perfVars>>
    BY <1>10 DEF NotifyCompletion, graphVars, prodVars, consVars
  <2>2. w \in Work /\ wq \in Seq(Work)
    BY <1>1 DEF Work, CbWork, TypeOK
  <2> HIDE DEF w
  <2>3. <<w>> \in Seq(Work) /\ wq' = wq \o <<w>>
    BY <2>1, <2>2
  <2>4. DueStays
    BY <1>1, <2>1, <2>3, DueQueueing
  <2> QED
    BY <1>1, <2>1, <2>4, NoPerfChange, PerfQuiet
<1>11. ASSUME UNCHANGED <<exists, prodState, consState, bwVars, wq, worker, perfVars>>
       PROVE  PerfInv'
  <2>1. DueStays
    BY <1>11 DEF DueStays
  <2> QED
    BY <1>1, <1>11, <2>1, NoPerfChange, PerfQuiet
<1>12. ASSUME NEW p, Register(p) \/ Deregister(p) PROVE PerfInv'
  BY <1>11, <1>12 DEF Register, Deregister, graphVars, prodVars, consVars
<1>13. ASSUME NEW c, SyncReturn(c) PROVE PerfInv'
  BY <1>11, <1>13 DEF SyncReturn, graphVars, prodVars, consVars
<1>14. ASSUME NEW n, OtherVote(n) PROVE PerfInv'
  BY <1>11, <1>14 DEF OtherVote, graphVars, prodVars, consVars
<1>15. ASSUME UNCHANGED vars PROVE PerfInv'
  BY <1>11, <1>15 DEF vars, graphVars, prodVars, consVars
<1> QED
  BY <1>2, <1>3, <1>4, <1>5, <1>6, <1>7, <1>8, <1>9, <1>10, <1>12, <1>13, <1>14, <1>15,
     IpaRmAssumption DEF Next

\* As long as no driver fails and no consumer is deleted while it is busy, the performance
\* votes settle: when the queue has drained, every granted or released resource has the
\* bandwidth and voltage vote its state calls for, and the last level given to the IPA clock
\* is the one of the current votes.  No release, late grant or change of profile that
\* overtakes a queued work leaves an old vote behind (ipa_rm_perf_profile_change).
THEOREM PerfSettles ==
  ASSUME "ERROR" \notin DriverResults, ~DeleteWhileBusy
  PROVE  Spec => []PerfVotesSettle
<1>1. Init => PerfInv
  <2> SUFFICES ASSUME Init PROVE PerfInv
    OBVIOUS
  <2>1. TypeOK /\ UsageInv
    BY InitType, UsageInit
  <2>2. /\ \A p \in Producers : State(p) = "RELEASED" /\ prodState[p] = "RELEASED"
        /\ \A c \in Consumers : State(c) = "RELEASED" /\ consState[c] = "RELEASED"
    BY IpaRmAssumption DEF Init, State
  <2>3. /\ \A r \in Resources : State(r) = "RELEASED"
        /\ perfVote = [r \in Resources |-> 0] /\ perfOn = {} /\ perfQ = <<>>
        /\ perfSet = Level(perfOn, perfVote)
    BY <2>2 DEF Init, Resources
  <2>4. \A r \in Resources : Fresh(r)
    BY <2>3 DEF Fresh, PerfOf, Busy
  <2>5. ProducersFresh /\ ConsumersFresh
    BY <2>2, <2>4 DEF ProducersFresh, ConsumersFresh, Resources, Busy
  <2>6. LevelQueued
    BY <2>3 DEF LevelQueued
  <2> QED
    BY <2>1, <2>5, <2>6 DEF PerfInv
<1>2. PerfInv /\ [Next]_vars => PerfInv'
  BY PerfNext
<1>3. PerfInv => PerfVotesSettle
  <2> SUFFICES ASSUME PerfInv, Quiescent PROVE PerfVotesSettle
    BY DEF PerfVotesSettle
  <2>1. TypeOK /\ ProducersFresh /\ ConsumersFresh /\ LevelQueued
    BY DEF PerfInv
  <2>2. \A c \in Consumers : ~SuspendDue(c, wq, worker)
    BY DEF Quiescent, SuspendDue, Idle
  <2>3. ASSUME NEW r \in exists, State(r) \in {"GRANTED", "RELEASED"} PROVE Fresh(r)
    <3>1. CASE r \in Producers
      BY <2>1, <2>3, <3>1 DEF ProducersFresh, State
    <3>2. CASE r \notin Producers
      <4>1. r \in Consumers /\ State(r) = consState[r]
        BY <2>1, <3>2 DEF TypeOK, Resources, State
      <4> QED
        BY <2>1, <2>2, <2>3, <4>1 DEF ConsumersFresh, Busy
    <3> QED
      BY <3>1, <3>2
  <2>4. perfQ = <<>> => perfSet = Level(perfOn, perfVote)
    BY <2>1 DEF LevelQueued
  <2> QED
    BY <2>3, <2>4 DEF PerfVotesSettle, Fresh
<1> QED
  BY <1>1, <1>2, <1>3, PTL DEF Spec
----------------------------------------------------------------------------
(* Sums over finite sets.  SumFunctionOnSet is a recursive function whose  *)
(* steps choose an arbitrary element: the function exists, its values do   *)
(* not depend on the set it was defined for, nor on the order of choice.   *)

AnyOf(s) == CHOOSE x \in s : TRUE
SumStep(f, h, s) == IF s = {} THEN 0 ELSE f[AnyOf(s)] + h[s \ {AnyOf(s)}]
SumTable(f, S, h) == h = [s \in SUBSET S |-> SumStep(f, h, s)]

\* What the library's definition says.
LEMMA SumDefinition ==
  \A f, S : SumFunctionOnSet(f, S) = (CHOOSE h : SumTable(f, S, h))[S]
BY DEF SumFunctionOnSet, FoldFunctionOnSet, MapThenFoldSet, SumTable, SumStep, AnyOf

\* Some natural numbers have a smallest one: every induction below is the least
\* counterexample argument.
LEMMA LeastNatural ==
  ASSUME NEW A, A \subseteq Nat, A # {}
  PROVE  \E m \in A : \A n \in A : m <= n
<1>1. PICK rel : rel = OpToRel(<, Nat)
  BY Zenon
<1>2. IsWellFoundedOn(rel, Nat)
  BY <1>1, NatLessThanWellFounded, Zenon
<1>3. PICK x \in A : \A y \in A : ~(<<y, x>> \in rel)
  BY <1>2, WFMin
<1>4. \A y \in A : x <= y
  <2> TAKE y \in A
  <2>1. <<y, x>> \in rel <=> y < x
    BY <1>1 DEF OpToRel
  <2> QED
    BY <1>3, <2>1
<1> QED
  BY <1>4

\* A finite set without an element of it.
LEMMA OneLess ==
  ASSUME NEW S, IsFiniteSet(S), NEW s \in SUBSET S
  PROVE  /\ IsFiniteSet(s) /\ Cardinality(s) \in Nat /\ (Cardinality(s) = 0 <=> s = {})
         /\ \A x \in s : s \ {x} \in SUBSET S /\ Cardinality(s \ {x}) = Cardinality(s) - 1
         /\ s # {} => AnyOf(s) \in s
<1>1. IsFiniteSet(s)
  BY FS_Subset
<1>2. s # {} => AnyOf(s) \in s
  BY DEF AnyOf
<1> QED
  BY <1>1, <1>2, FS_CardinalityType, FS_EmptySet, FS_RemoveElement

\* The function exists.
LEMMA SumTableExists ==
  ASSUME NEW S, IsFiniteSet(S), NEW f
  PROVE  \E h : SumTable(f, S, h)
<1> DEFINE Small(n) == {s \in SUBSET S : Cardinality(s) <= n}
           Upto(n, h) == h = [s \in Small(n) |-> SumStep(f, h, s)]
           Bad == {n \in Nat : ~ \E h : Upto(n, h)}
<1>1. \E h : Upto(0, h)
  <2> DEFINE h == [s \in Small(0) |-> 0]
  <2>1. \A s \in Small(0) : SumStep(f, h, s) = 0
    BY OneLess DEF SumStep
  <2>2. Upto(0, h)
    BY <2>1
  <2> QED
    BY <2>2
<1>2. ASSUME NEW n \in Nat, NEW h, Upto(n, h) PROVE \E k : Upto(n + 1, k)
  <2> DEFINE k == [s \in Small(n + 1) |-> IF s \in Small(n) THEN h[s] ELSE SumStep(f, h, s)]
  <2>1. \A s \in Small(n + 1) : s # {} => s \ {AnyOf(s)} \in Small(n)
    BY OneLess
  <2>2. Small(n) \subseteq Small(n + 1)
    BY OneLess
  <2>3. \A s \in Small(n) : k[s] = h[s] /\ h[s] = SumStep(f, h, s)
    BY <1>2, <2>2
  <2>4. \A s \in Small(n + 1) : SumStep(f, k, s) = SumStep(f, h, s)
    <3> HIDE DEF k, Small
    <3> QED
      BY <2>1, <2>3 DEF SumStep
  <2>5. \A s \in Small(n + 1) : k[s] = SumStep(f, h, s)
    BY <2>3
  <2>6. k = [s \in Small(n + 1) |-> SumStep(f, k, s)]
    <3>1. \A s \in Small(n + 1) : k[s] = SumStep(f, k, s)
      BY <2>4, <2>5
    <3>2. k = [s \in Small(n + 1) |-> k[s]]
      OBVIOUS
    <3> HIDE DEF k, Small
    <3> QED
      BY <3>1, <3>2
  <2> HIDE DEF k
  <2> QED
    BY <2>6
<1>3. Bad = {}
  <2> SUFFICES ASSUME Bad # {} PROVE FALSE
    OBVIOUS
  <2>1. PICK m \in Bad : \A n \in Bad : m <= n
    <3> HIDE DEF Bad
    <3>1. Bad \subseteq Nat
      BY DEF Bad
    <3> QED
      BY <3>1, LeastNatural
  <2> HIDE DEF Upto
  <2>2. m # 0 /\ m \in Nat
    BY <1>1
  <2>3. m - 1 \in Nat /\ m - 1 \notin Bad /\ m - 1 + 1 = m
    BY <2>1, <2>2
  <2>4. PICK h : Upto(m - 1, h)
    BY <2>3
  <2> QED
    BY <1>2, <2>3, <2>4
<1>4. Cardinality(S) \in Nat /\ Small(Cardinality(S)) = SUBSET S
  <2>1. \A s \in SUBSET S : Cardinality(s) <= Cardinality(S)
    BY FS_Subset
  <2> QED
    BY <2>1, FS_CardinalityType
<1>5. PICK h : Upto(Cardinality(S), h)
  <2> HIDE DEF Upto
  <2> QED
    BY <1>3, <1>4
<1> QED
  BY <1>4, <1>5 DEF SumTable

\* Tables for different sets and functions agree where these do.
LEMMA SumTablesAgree ==
  ASSUME NEW S, IsFiniteSet(S), NEW T, IsFiniteSet(T), NEW f, NEW g, NEW h, NEW k,
         SumTable(f, S, h), SumTable(g, T, k), NEW s \in SUBSET (S \cap T),
         \A x \in s : f[x] = g[x]
  PROVE  h[s] = k[s]
<1> DEFINE Bad == {n \in Nat : \E r \in SUBSET s : Cardinality(r) = n /\ h[r] # k[r]}
<1>1. \A r \in SUBSET s : h[r] = SumStep(f, h, r) /\ k[r] = SumStep(g, k, r)
  BY DEF SumTable
<1>2. Bad = {}
  <2> SUFFICES ASSUME Bad # {} PROVE FALSE
    OBVIOUS
  <2>1. PICK m \in Bad : \A n \in Bad : m <= n
    <3> HIDE DEF Bad
    <3>1. Bad \subseteq Nat
      BY DEF Bad
    <3> QED
      BY <3>1, LeastNatural
  <2>2. PICK r \in SUBSET s : Cardinality(r) = m /\ h[r] # k[r]
    OBVIOUS
  <2>3. r # {}
    BY <1>1, <2>2 DEF SumStep
  <2> DEFINE x == AnyOf(r)
  <2>4. /\ x \in r /\ r \ {x} \in SUBSET s /\ Cardinality(r \ {x}) = m - 1 /\ m \in Nat
        /\ m # 0
    BY <2>2, <2>3, OneLess
  <2>5. h[r \ {x}] = k[r \ {x}]
    BY <2>1, <2>4
  <2>6. f[x] = g[x]
    BY <2>4
  <2> QED
    BY <1>1, <2>2, <2>3, <2>5, <2>6 DEF SumStep
<1> QED
  BY <1>2, OneLess

\* The sums over the subsets of S are the values of one table.
LEMMA SumsInTable ==
  ASSUME NEW S, IsFiniteSet(S), NEW f
  PROVE  \E h : SumTable(f, S, h) /\ \A T \in SUBSET S : SumFunctionOnSet(f, T) = h[T]
<1>1. PICK h : SumTable(f, S, h)
  BY SumTableExists
<1>2. ASSUME NEW T \in SUBSET S PROVE SumFunctionOnSet(f, T) = h[T]
  <2> DEFINE k == CHOOSE k : SumTable(f, T, k)
  <2>1. IsFiniteSet(T)
    BY FS_Subset
  <2>2. SumTable(f, T, k)
    BY <2>1, SumTableExists
  <2>3. SumFunctionOnSet(f, T) = k[T]
    BY SumDefinition
  <2> HIDE DEF k
  <2>4. h[T] = k[T]
    BY <1>1, <2>1, <2>2, SumTablesAgree
  <2> QED
    BY <2>3, <2>4
<1> QED
  BY <1>1, <1>2

\* Functions that agree on a set have the same sum over it.
LEMMA SumSame ==
  ASSUME NEW S, IsFiniteSet(S), NEW f, NEW g, \A x \in S : f[x] = g[x]
  PROVE  SumFunctionOnSet(f, S) = SumFunctionOnSet(g, S)
<1>1. PICK h : SumTable(f, S, h) /\ SumFunctionOnSet(f, S) = h[S]
  BY SumsInTable
<1>2. PICK k : SumTable(g, S, k) /\ SumFunctionOnSet(g, S) = k[S]
  BY SumsInTable
<1>3. h[S] = k[S]
  BY <1>1, <1>2, SumTablesAgree
<1> QED
  BY <1>1, <1>2, <1>3

\* A sum of integers is an integer, zero for the empty set, and any element can be
\* split off.
LEMMA SumRules ==
  ASSUME NEW S, IsFiniteSet(S), NEW f, \A x \in S : f[x] \in Int
  PROVE  /\ SumFunctionOnSet(f, {}) = 0
         /\ \A T \in SUBSET S :
              /\ SumFunctionOnSet(f, T) \in Int
              /\ \A x \in T : SumFunctionOnSet(f, T) = f[x] + SumFunctionOnSet(f, T \ {x})
<1>1. PICK h : /\ SumTable(f, S, h)
               /\ \A T \in SUBSET S : SumFunctionOnSet(f, T) = h[T]
  BY SumsInTable
<1>2. /\ h[{}] = 0
      /\ \A T \in SUBSET S : T # {} => h[T] = f[AnyOf(T)] + h[T \ {AnyOf(T)}]
  BY <1>1 DEF SumTable, SumStep
<1>3. \A T \in SUBSET S : h[T] \in Int
  <2> DEFINE Bad == {n \in Nat : \E T \in SUBSET S : Cardinality(T) = n /\ h[T] \notin Int}
  <2>1. Bad = {}
    <3> SUFFICES ASSUME Bad # {} PROVE FALSE
      OBVIOUS
    <3>1. PICK m \in Bad : \A n \in Bad : m <= n
      <4> HIDE DEF Bad
      <4>1. Bad \subseteq Nat
        BY DEF Bad
      <4> QED
        BY <4>1, LeastNatural
    <3>2. PICK T \in SUBSET S : Cardinality(T) = m /\ h[T] \notin Int
      OBVIOUS
    <3>3. T # {}
      <4>1. h[{}] \in Int
        BY <1>2
      <4> QED
        BY <3>2, <4>1, Zenon
    <3>4. /\ AnyOf(T) \in T /\ T \ {AnyOf(T)} \in SUBSET S /\ m \in Nat /\ m # 0
          /\ Cardinality(T \ {AnyOf(T)}) = m - 1
      BY <3>2, <3>3, OneLess
    <3>5. h[T \ {AnyOf(T)}] \in Int
      BY <3>1, <3>4
    <3> QED
      BY <1>2, <3>2, <3>3, <3>4, <3>5
  <2> QED
    BY <2>1, OneLess
<1>4. \A T \in SUBSET S : \A x \in T : h[T] = f[x] + h[T \ {x}]
  <2> DEFINE Bad == {n \in Nat : \E T \in SUBSET S : /\ Cardinality(T) = n
                                  /\ \E x \in T : h[T] # f[x] + h[T \ {x}]}
  <2>1. Bad = {}
    <3> SUFFICES ASSUME Bad # {} PROVE FALSE
      OBVIOUS
    <3>1. PICK m \in Bad : \A n \in Bad : m <= n
      <4> HIDE DEF Bad
      <4>1. Bad \subseteq Nat
        BY DEF Bad
      <4> QED
        BY <4>1, LeastNatural
    <3>2. PICK T \in SUBSET S : /\ Cardinality(T) = m
                                /\ \E x \in T : h[T] # f[x] + h[T \ {x}]
      OBVIOUS
    <3>3. PICK x \in T : h[T] # f[x] + h[T \ {x}]
      BY <3>2
    <3> DEFINE y == AnyOf(T)
    <3>4. y \in T /\ h[T] = f[y] + h[T \ {y}]
      BY <1>2, OneLess
    <3> HIDE DEF y
    <3>5. x # y
      BY <3>3, <3>4
    <3>6. /\ T \ {x} \in SUBSET S /\ T \ {y} \in SUBSET S /\ m \in Nat /\ m # 0
          /\ Cardinality(T \ {x}) = m - 1 /\ Cardinality(T \ {y}) = m - 1
      BY <3>2, <3>4, OneLess
    <3>7. m - 1 \notin Bad /\ m - 1 \in Nat
      BY <3>1, <3>6
    <3>8. \A R \in SUBSET S : Cardinality(R) = m - 1 => \A z \in R : h[R] = f[z] + h[R \ {z}]
      BY <3>7
    <3>9. h[T \ {y}] = f[x] + h[(T \ {y}) \ {x}] /\ h[T \ {x}] = f[y] + h[(T \ {x}) \ {y}]
      BY <3>4, <3>5, <3>6, <3>8
    <3>10. (T \ {y}) \ {x} = (T \ {x}) \ {y} /\ (T \ {y}) \ {x} \in SUBSET S
      OBVIOUS
    <3>11. PICK a \in Int, b \in Int, c \in Int :
             a = f[x] /\ b = f[y] /\ c = h[(T \ {y}) \ {x}]
      BY <1>3, <3>4, <3>10
    <3>12. h[T] = b + (a + c) /\ h[T \ {x}] = b + c
      BY <3>4, <3>9, <3>10, <3>11
    <3> QED
      BY <3>3, <3>11, <3>12
  <2> TAKE T \in SUBSET S
  <2>2. Cardinality(T) \in Nat /\ Cardinality(T) \notin Bad
    BY <2>1, OneLess
  <2> QED
    BY <2>2
<1> QED
  BY <1>1, <1>2, <1>3, <1>4

\* Division with remainder.
LEMMA DivideBw ==
  ASSUME NEW M \in Nat \ {0}, NEW a \in Int
  PROVE  \E q \in Int : a = M * q + (a % M) /\ a % M \in 0 .. M - 1
<1>1. a = M * (a \div M) + (a % M) /\ a % M \in 0 .. M - 1 /\ a \div M \in Int
  OBVIOUS
<1> QED
  BY <1>1

\* The remainder is the only one.
LEMMA RemainderUnique ==
  ASSUME NEW M \in Nat \ {0}, NEW q \in Int, NEW t \in Int, NEW r \in 0 .. M - 1,
         NEW s \in 0 .. M - 1, M * q + r = M * t + s
  PROVE  r = s
<1>1. M * (q - t) = s - r
  OBVIOUS
<1>2. (q - t >= 1 => M * (q - t) >= M) /\ (q - t <= -1 => M * (q - t) <= -M)
  OBVIOUS
<1>3. q - t = 0
  BY <1>1, <1>2
<1> QED
  BY <1>1, <1>3

\* Reducing an operand does not change a sum modulo M.
LEMMA ModAdd ==
  ASSUME NEW M \in Nat \ {0}, NEW a \in Int, NEW b \in Int
  PROVE  ((a % M) + b) % M = (a + b) % M
<1>1. PICK q \in Int : a = M * q + (a % M) /\ a % M \in 0 .. M - 1
  BY DivideBw
<1>2. PICK c \in Int : c = (a % M) + b
  BY <1>1
<1>3. PICK d \in Int : d = a + b
  OBVIOUS
<1>4. PICK t \in Int : c = M * t + (c % M) /\ c % M \in 0 .. M - 1
  BY DivideBw
<1>5. PICK u \in Int : d = M * u + (d % M) /\ d % M \in 0 .. M - 1
  BY DivideBw
<1>6. d = M * q + c
  BY <1>1, <1>2, <1>3
<1>7. PICK v \in Int : v = q + t /\ M * v = M * q + M * t
  OBVIOUS
<1>8. PICK e \in 0 .. M - 1 : e = c % M
  BY <1>4
<1>9. PICK g \in 0 .. M - 1 : g = d % M
  BY <1>5
<1>10. M * v + e = M * u + g
  <2>1. c = M * t + e
    BY <1>4, <1>8
  <2>2. d = M * u + g
    BY <1>5, <1>9
  <2> QED
    BY <1>6, <1>7, <2>1, <2>2
<1>11. e = g
  BY <1>10, RemainderUnique
<1> QED
  BY <1>2, <1>3, <1>8, <1>9, <1>11

\* The total of bandwidths f over a set of resources, as a u32.
Total(f, S) == SumFunctionOnSet(f, S) % BwMod

\* The resources are finitely many, and so are those of any subset.
LEMMA ResourcesFinite == \A S \in SUBSET Resources : IsFiniteSet(S)
BY IpaRmAssumption, FS_Union, FS_Subset DEF Resources

\* Bandwidths that agree on S have the same total.
LEMMA TotalSame ==
  ASSUME NEW f, NEW g, NEW S \in SUBSET Resources, \A x \in S : f[x] = g[x]
  PROVE  Total(f, S) = Total(g, S)
<1>1. SumFunctionOnSet(f, S) = SumFunctionOnSet(g, S)
  BY ResourcesFinite, SumSame
<1> QED
  BY <1>1 DEF Total

\* Adding a resource to the set adds its bandwidth,
LEMMA TotalAdd ==
  ASSUME NEW f \in [Resources -> Bw], NEW S \in SUBSET Resources, NEW x \in Resources \ S
  PROVE  Total(f, S \cup {x}) = AddBw(Total(f, S), f[x])
<1>1. /\ SumFunctionOnSet(f, S) \in Int
      /\ SumFunctionOnSet(f, S \cup {x}) = f[x] + SumFunctionOnSet(f, S)
  <2>1. IsFiniteSet(Resources) /\ \A y \in Resources : f[y] \in Int
    BY ResourcesFinite DEF Bw
  <2>2. S \cup {x} \in SUBSET Resources /\ x \in S \cup {x} /\ (S \cup {x}) \ {x} = S
    OBVIOUS
  <2> QED
    BY <2>1, <2>2, SumRules
<1>2. PICK s \in Int, b \in Int : s = SumFunctionOnSet(f, S) /\ b = f[x]
  BY <1>1 DEF Bw
<1>3. BwMod \in Nat \ {0}
  BY IpaRmAssumption
<1>4. ((s % BwMod) + b) % BwMod = (s + b) % BwMod
  BY <1>3, ModAdd
<1>5. SumFunctionOnSet(f, S \cup {x}) = s + b
  BY <1>1, <1>2
<1> QED
  BY <1>2, <1>4, <1>5 DEF Total, AddBw

\* removing it subtracts it,
LEMMA TotalRemove ==
  ASSUME NEW f \in [Resources -> Bw], NEW S \in SUBSET Resources, NEW x \in S
  PROVE  Total(f, S \ {x}) = SubBw(Total(f, S), f[x])
<1>1. /\ SumFunctionOnSet(f, S) \in Int /\ SumFunctionOnSet(f, S \ {x}) \in Int
      /\ SumFunctionOnSet(f, S) = f[x] + SumFunctionOnSet(f, S \ {x})
  <2>1. IsFiniteSet(Resources) /\ \A y \in Resources : f[y] \in Int
    BY ResourcesFinite DEF Bw
  <2>2. S \ {x} \in SUBSET Resources
    OBVIOUS
  <2> QED
    BY <2>1, <2>2, SumRules
<1>2. PICK s \in Int, b \in Int : s = SumFunctionOnSet(f, S) /\ b = f[x]
  BY <1>1 DEF Bw
<1>3. BwMod \in Nat \ {0} /\ -b \in Int
  BY IpaRmAssumption
<1>4. ((s % BwMod) + (-b)) % BwMod = (s + (-b)) % BwMod
  BY <1>3, ModAdd
<1>5. (s % BwMod) + (-b) = (s % BwMod) - b /\ s + (-b) = SumFunctionOnSet(f, S \ {x})
  BY <1>1, <1>2, <1>3
<1> QED
  BY <1>2, <1>4, <1>5 DEF Total, SubBw

\* and changing it does both.
LEMMA TotalChange ==
  ASSUME NEW f \in [Resources -> Bw], NEW S \in SUBSET Resources, NEW x \in S, NEW b \in Bw
  PROVE  Total([f EXCEPT ![x] = b], S) = AddBw(SubBw(Total(f, S), f[x]), b)
<1> DEFINE g == [f EXCEPT ![x] = b]
<1>1. g \in [Resources -> Bw] /\ g[x] = b /\ \A y \in S \ {x} : g[y] = f[y]
  OBVIOUS
<1> HIDE DEF g
<1>2. S \ {x} \in SUBSET Resources /\ x \in Resources \ (S \ {x}) /\ (S \ {x}) \cup {x} = S
  OBVIOUS
<1>3. Total(g, S \ {x}) = SubBw(Total(f, S), f[x])
  <2>1. Total(g, S \ {x}) = Total(f, S \ {x})
    BY <1>1, <1>2, TotalSame
  <2> QED
    BY <2>1, TotalRemove
<1>4. Total(g, (S \ {x}) \cup {x}) = AddBw(Total(g, S \ {x}), g[x])
  BY <1>1, <1>2, TotalAdd
<1>5. Total(g, S) = AddBw(SubBw(Total(f, S), f[x]), b)
  BY <1>1, <1>2, <1>3, <1>4
<1> QED
  BY <1>5 DEF g

\* Nobody needs anything.
LEMMA TotalNone == \A f : Total(f, {}) = 0
<1> TAKE f
<1>1. SumFunctionOnSet(f, {}) = 0
  BY FS_EmptySet, SumRules
<1>2. 0 % BwMod = 0
  BY IpaRmAssumption
<1> QED
  BY <1>1, <1>2 DEF Total

----------------------------------------------------------------------------
(* The needed bandwidths.                                                  *)

\* The inductive invariant behind NeededBwAddsUp.
BwInv == TypeOK /\ UsageInv /\ NeededBwAddsUp

\* What the invariant says, with totals.
LEMMA NeededTotals ==
  /\ NeededBwAddsUp <=>
       /\ \A c \in Consumers \cap exists : neededBw[c] = Total(maxBw, Users(c))
       /\ \A p \in Producers \cap exists : neededBw[p] = Total(maxBw, Peers(p))
  /\ NeededBwAddsUp' <=>
       /\ \A c \in Consumers \cap exists' : neededBw'[c] = Total(maxBw', Users(c)')
       /\ \A p \in Producers \cap exists' : neededBw'[p] = Total(maxBw', Peers(p)')
BY DEF NeededBwAddsUp, Total

\* The neighbours of a resource are resources.
LEMMA Neighbours ==
  /\ \A c : Users(c) \in SUBSET Resources /\ Users(c)' \in SUBSET Resources
  /\ \A p : Peers(p) \in SUBSET Resources /\ Peers(p)' \in SUBSET Resources
  /\ Producers \subseteq Resources /\ Consumers \subseteq Resources
  /\ Producers \cap Consumers = {}
BY IpaRmAssumption DEF Users, Owners, Peers, Resources

\* A step that keeps the dependencies and who is in use.
LEMMA BwQuiet ==
  ASSUME NeededBwAddsUp, UNCHANGED <<dep, bwVars>>, exists' \subseteq exists,
         \A p \in Producers : Peers(p) # {} => (prodState'[p] \in Busy <=> prodState[p] \in Busy)
  PROVE  NeededBwAddsUp'
<1>1. \A p : Peers(p)' = Peers(p)
  BY DEF Peers
<1>2. \A c \in Consumers : Users(c)' = Users(c)
  BY DEF Users, Owners, Peers
<1> QED
  BY <1>1, <1>2, NeededTotals DEF bwVars

\* ipa_rm_create_resource(): nobody depends on the new resource yet.
LEMMA BwCreate ==
  ASSUME BwInv, NEW r \in Resources, CreateResource(r)
  PROVE  NeededBwAddsUp'
<1>1. TypeOK /\ DepsExist /\ NeededBwAddsUp
  BY DEF BwInv, UsageInv
<1>2. /\ r \notin exists /\ exists' = exists \cup {r} /\ UNCHANGED dep
      /\ maxBw' = [maxBw EXCEPT ![r] = 0] /\ neededBw' = [neededBw EXCEPT ![r] = 0]
      /\ \A p \in Producers \ {r} : prodState'[p] = prodState[p]
  BY <1>1 DEF CreateResource, prodVars, TypeOK
<1>3. maxBw \in [Resources -> Bw] /\ neededBw \in [Resources -> Bw]
  BY <1>1 DEF TypeOK
<1>4. \A c \in Consumers : Users(c)' = Users(c) /\ r \notin Users(c)
  BY <1>1, <1>2 DEF Users, Owners, DepsExist
<1>5. \A p \in Producers : Peers(p)' = Peers(p) /\ r \notin Peers(p)
  BY <1>1, <1>2 DEF Peers, DepsExist
<1>6. /\ r \in Consumers => Users(r) = {}
      /\ r \in Producers => Peers(r) = {}
  BY <1>1, <1>2 DEF Users, Owners, Peers, DepsExist
<1>7. ASSUME NEW c \in Consumers \cap exists' PROVE neededBw'[c] = Total(maxBw', Users(c)')
  <2>1. CASE c = r
    <3>1. neededBw'[c] = 0 /\ Users(c)' = {}
      BY <1>2, <1>3, <1>4, <1>6, <2>1
    <3> QED
      BY <3>1, TotalNone
  <2>2. CASE c # r
    <3>1. neededBw'[c] = Total(maxBw, Users(c))
      BY <1>1, <1>2, <1>3, <2>2, NeededTotals, Neighbours
    <3>2. Total(maxBw', Users(c)) = Total(maxBw, Users(c))
      <4>1. \A x \in Users(c) : maxBw'[x] = maxBw[x]
        BY <1>2, <1>3, <1>4, Neighbours
      <4>2. Users(c) \in SUBSET Resources
        BY Neighbours
      <4> QED
        BY <4>1, <4>2, TotalSame
    <3> QED
      BY <1>4, <3>1, <3>2
  <2> QED
    BY <2>1, <2>2
<1>8. ASSUME NEW p \in Producers \cap exists' PROVE neededBw'[p] = Total(maxBw', Peers(p)')
  <2>1. CASE p = r
    <3>1. neededBw'[p] = 0 /\ Peers(p)' = {}
      BY <1>2, <1>3, <1>5, <1>6, <2>1
    <3> QED
      BY <3>1, TotalNone
  <2>2. CASE p # r
    <3>1. neededBw'[p] = Total(maxBw, Peers(p))
      BY <1>1, <1>2, <1>3, <2>2, NeededTotals, Neighbours
    <3>2. Total(maxBw', Peers(p)) = Total(maxBw, Peers(p))
      <4>1. \A x \in Peers(p) : maxBw'[x] = maxBw[x]
        BY <1>2, <1>3, <1>5, Neighbours
      <4>2. Peers(p) \in SUBSET Resources
        BY Neighbours
      <4> QED
        BY <4>1, <4>2, TotalSame
    <3> QED
      BY <1>5, <3>1, <3>2
  <2> QED
    BY <2>1, <2>2
<1> QED
  BY <1>7, <1>8, NeededTotals

\* ipa_rm_request_resource() adds the producer's bandwidth to what its consumers need.
LEMMA BwRequest ==
  ASSUME "ERROR" \notin DriverResults, BwInv, NEW p \in Producers, RequestResource(p)
  PROVE  NeededBwAddsUp'
<1>1. TypeOK /\ Shape /\ NeededBwAddsUp
  BY DEF BwInv, UsageInv
<1>2. maxBw \in [Resources -> Bw] /\ prodState \in [Producers -> ProdStates]
  BY <1>1 DEF TypeOK
<1>3. PICK fast, res :
        /\ res \in Answers(fast)
        /\ neededBw' = RequestedBw(Reached(p, fast, res), fast, res, maxBw[p])
        /\ \/ prodState' = [prodState EXCEPT ![p] = "GRANTED"]
           \/ prodState' = [prodState EXCEPT ![p] = "REQUEST_IN_PROGRESS"]
  BY DEF RequestResource
<1>4. UNCHANGED <<exists, dep, maxBw>> /\ prodState[p] = "RELEASED"
  BY DEF RequestResource, graphVars
<1>5. Failed(fast, res) = {}
  BY <1>3 DEF Answers, Failed
<1>6. Reached(p, fast, res) = Peers(p)
  BY <1>5 DEF Reached
<1>7. \A r \in Resources : neededBw'[r] = IF r \in Peers(p) THEN AddBw(neededBw[r], maxBw[p])
                                                            ELSE neededBw[r]
  BY <1>3, <1>5, <1>6 DEF RequestedBw
<1>8. \A q : Peers(q)' = Peers(q)
  BY <1>4 DEF Peers
<1>9. \A q \in Producers : prodState'[q] \in Busy <=> q = p \/ prodState[q] \in Busy
  BY <1>2, <1>3 DEF Busy
<1>10. \A c \in Consumers : /\ p \notin Users(c)
                            /\ Users(c)' = IF c \in Peers(p) THEN Users(c) \cup {p} ELSE Users(c)
  <2> TAKE c \in Consumers
  <2>1. p \notin Users(c)
    BY <1>4 DEF Users, Busy
  <2>2. \A q \in Producers : q \in Users(c)' <=> q \in Users(c) \/ (q = p /\ c \in Peers(p))
    BY <1>4, <1>9 DEF Users, Owners, Peers
  <2>3. Users(c) \subseteq Producers /\ Users(c)' \subseteq Producers
    BY DEF Users, Owners
  <2> QED
    BY <2>1, <2>2, <2>3
<1>11. ASSUME NEW c \in Consumers \cap exists PROVE neededBw'[c] = Total(maxBw, Users(c)')
  <2>1. neededBw[c] = Total(maxBw, Users(c))
    BY <1>1, NeededTotals
  <2>2. CASE c \in Peers(p)
    <3>1. Total(maxBw, Users(c) \cup {p}) = AddBw(Total(maxBw, Users(c)), maxBw[p])
      BY <1>2, <1>10, Neighbours, TotalAdd
    <3> QED
      BY <1>7, <1>10, <2>1, <2>2, <3>1, Neighbours
  <2>3. CASE c \notin Peers(p)
    BY <1>7, <1>10, <2>1, <2>3, Neighbours
  <2> QED
    BY <2>2, <2>3
<1>12. ASSUME NEW q \in Producers \cap exists PROVE neededBw'[q] = Total(maxBw, Peers(q)')
  <2>1. q \notin Peers(p)
    BY Neighbours DEF Peers
  <2> QED
    BY <1>1, <1>7, <1>8, <2>1, NeededTotals, Neighbours
<1> QED
  BY <1>4, <1>11, <1>12, NeededTotals

\* ipa_rm_release_resource() takes it back.
LEMMA BwRelease ==
  ASSUME BwInv, NEW p \in Producers, ReleaseResource(p)
  PROVE  NeededBwAddsUp'
<1>1. TypeOK /\ NeededBwAddsUp
  BY DEF BwInv
<1>2. maxBw \in [Resources -> Bw] /\ prodState \in [Producers -> ProdStates]
  BY <1>1 DEF TypeOK
<1>3. /\ UNCHANGED <<exists, dep, maxBw>> /\ prodState[p] \in Busy
      /\ neededBw' = ReleasedBw(Peers(p), maxBw[p])
      /\ prodState' = [prodState EXCEPT ![p] = "RELEASED"]
  BY DEF ReleaseResource, graphVars
<1>4. \A r \in Resources : neededBw'[r] = IF r \in Peers(p) THEN SubBw(neededBw[r], maxBw[p])
                                                            ELSE neededBw[r]
  BY <1>3 DEF ReleasedBw
<1>5. \A q : Peers(q)' = Peers(q)
  BY <1>3 DEF Peers
<1>6. \A q \in Producers : prodState'[q] \in Busy <=> q # p /\ prodState[q] \in Busy
  BY <1>2, <1>3 DEF Busy
<1>7. \A c \in Consumers : /\ c \in Peers(p) <=> p \in Users(c)
                           /\ Users(c)' = Users(c) \ {p}
  BY <1>3, <1>6 DEF Users, Owners, Peers
<1>8. ASSUME NEW c \in Consumers \cap exists PROVE neededBw'[c] = Total(maxBw, Users(c)')
  <2>1. neededBw[c] = Total(maxBw, Users(c))
    BY <1>1, NeededTotals
  <2>2. CASE c \in Peers(p)
    <3>1. Total(maxBw, Users(c) \ {p}) = SubBw(Total(maxBw, Users(c)), maxBw[p])
      BY <1>2, <1>7, <2>2, Neighbours, TotalRemove
    <3> QED
      BY <1>4, <1>7, <2>1, <2>2, <3>1, Neighbours
  <2>3. CASE c \notin Peers(p)
    <3>1. Users(c)' = Users(c)
      BY <1>7, <2>3
    <3> QED
      BY <1>4, <2>1, <2>3, <3>1, Neighbours
  <2> QED
    BY <2>2, <2>3
<1>9. ASSUME NEW q \in Producers \cap exists PROVE neededBw'[q] = Total(maxBw, Peers(q)')
  <2>1. q \notin Peers(p)
    BY Neighbours DEF Peers
  <2> QED
    BY <1>1, <1>4, <1>5, <2>1, NeededTotals, Neighbours
<1> QED
  BY <1>3, <1>8, <1>9, NeededTotals

\* ipa_rm_add_dependency(): each side adds the other's bandwidth, the consumer only if the
\* producer is in use.
LEMMA BwAddDependency ==
  ASSUME "ERROR" \notin DriverResults, BwInv, NEW p \in Producers, NEW c \in Consumers,
         NEW owner \in DepOwners, NEW sync, AddDependency(p, c, owner, sync)
  PROVE  NeededBwAddsUp'
<1>1. TypeOK /\ NeededBwAddsUp
  BY DEF BwInv
<1>2. /\ maxBw \in [Resources -> Bw] /\ neededBw \in [Resources -> Bw]
      /\ prodState \in [Producers -> ProdStates]
      /\ dep \in [Producers \X Consumers -> {"none", "kernel", "user"}]
  BY <1>1 DEF TypeOK
<1>3. /\ UNCHANGED <<exists, maxBw>> /\ dep[<<p, c>>] = "none"
      /\ dep' = [dep EXCEPT ![<<p, c>>] = owner] /\ owner # "none"
  BY IpaRmAssumption DEF AddDependency
<1>4. /\ \A q \in Producers : prodState'[q] \in Busy <=> prodState[q] \in Busy
      /\ \A r \in Resources : neededBw'[r] =
           IF r = p THEN AddBw(neededBw[p], maxBw[c])
           ELSE IF r = c /\ prodState[p] \in Busy THEN AddBw(neededBw[c], maxBw[p])
           ELSE neededBw[r]
  <2>1. p \in Resources /\ c \in Resources /\ p # c
    BY Neighbours
  <2>2. CASE prodState[p] = "RELEASED"
    <3>1. UNCHANGED prodState /\ neededBw' = [neededBw EXCEPT ![p] = AddBw(neededBw[p], maxBw[c])]
      BY <2>2 DEF AddDependency, prodVars, Busy
    <3> QED
      BY <1>2, <2>1, <2>2, <3>1 DEF Busy
  <2>3. CASE prodState[p] # "RELEASED"
    <3>1. PICK fast, res :
            /\ res \in Answers(fast)
            /\ neededBw' = [RequestedBw({c}, fast, res, maxBw[p])
                              EXCEPT ![p] = AddBw(RequestedBw({c}, fast, res, maxBw[p])[p],
                                                  maxBw[c])]
            /\ \/ prodState' = [prodState EXCEPT ![p] = "REQUEST_IN_PROGRESS"]
               \/ prodState' = [prodState EXCEPT ![p] = prodState[p]]
      BY <2>3 DEF AddDependency
    <3>2. prodState[p] \in Busy
      BY <1>2, <2>3 DEF ProdStates
    <3>3. Failed(fast, res) = {}
      BY <3>1 DEF Answers, Failed
    <3> DEFINE needed == RequestedBw({c}, fast, res, maxBw[p])
    <3>4. needed = [r \in Resources |-> IF r = c THEN AddBw(neededBw[r], maxBw[p])
                                                 ELSE neededBw[r]]
      BY <3>3 DEF RequestedBw
    <3>5. neededBw' = [needed EXCEPT ![p] = AddBw(needed[p], maxBw[c])]
      BY <3>1
    <3> HIDE DEF needed
    <3>6. \A q \in Producers : prodState'[q] \in Busy <=> prodState[q] \in Busy
      BY <1>2, <3>1, <3>2 DEF Busy
    <3>7. \A r \in Resources : neededBw'[r] = IF r = p THEN AddBw(neededBw[p], maxBw[c])
                                              ELSE IF r = c THEN AddBw(neededBw[c], maxBw[p])
                                              ELSE neededBw[r]
      BY <2>1, <3>4, <3>5
    <3> QED
      BY <3>2, <3>6, <3>7
  <2> QED
    BY <2>2, <2>3
<1>5. /\ \A q \in Producers : Peers(q)' = IF q = p THEN Peers(q) \cup {c} ELSE Peers(q)
      /\ c \notin Peers(p)
  BY <1>2, <1>3 DEF Peers
<1>6. /\ \A d \in Consumers : Users(d)' = IF d = c /\ prodState[p] \in Busy
                                          THEN Users(d) \cup {p} ELSE Users(d)
      /\ p \notin Users(c)
  <2>1. \A d \in Consumers, q \in Producers :
          q \in Users(d)' <=> q \in Users(d) \/ (q = p /\ d = c /\ prodState[p] \in Busy)
    BY <1>2, <1>3, <1>4 DEF Users, Owners
  <2>2. p \notin Users(c)
    BY <1>3 DEF Users, Owners
  <2>3. \A d : Users(d) \subseteq Producers /\ Users(d)' \subseteq Producers
    BY DEF Users, Owners
  <2> QED
    BY <2>1, <2>2, <2>3
<1>7. ASSUME NEW d \in Consumers \cap exists PROVE neededBw'[d] = Total(maxBw, Users(d)')
  <2>1. neededBw[d] = Total(maxBw, Users(d)) /\ d \in Resources /\ d # p
    BY <1>1, NeededTotals, Neighbours
  <2>2. CASE d = c /\ prodState[p] \in Busy
    <3>1. Total(maxBw, Users(c) \cup {p}) = AddBw(Total(maxBw, Users(c)), maxBw[p])
      BY <1>2, <1>6, Neighbours, TotalAdd
    <3> QED
      BY <1>4, <1>6, <2>1, <2>2, <3>1
  <2>3. CASE ~(d = c /\ prodState[p] \in Busy)
    BY <1>4, <1>6, <2>1, <2>3
  <2> QED
    BY <2>2, <2>3
<1>8. ASSUME NEW q \in Producers \cap exists PROVE neededBw'[q] = Total(maxBw, Peers(q)')
  <2>1. neededBw[q] = Total(maxBw, Peers(q)) /\ q \in Resources /\ q # c
    BY <1>1, NeededTotals, Neighbours
  <2>2. CASE q = p
    <3>1. Total(maxBw, Peers(p) \cup {c}) = AddBw(Total(maxBw, Peers(p)), maxBw[c])
      BY <1>2, <1>5, Neighbours, TotalAdd
    <3> QED
      BY <1>4, <1>5, <2>1, <2>2, <3>1
  <2>3. CASE q # p
    BY <1>4, <1>5, <2>1, <2>3
  <2> QED
    BY <2>2, <2>3
<1> QED
  BY <1>3, <1>7, <1>8, NeededTotals

\* ipa_rm_delete_dependency(): each side subtracts it again.
LEMMA BwDeleteDependency ==
  ASSUME BwInv, NEW p \in Producers, NEW c \in Consumers, DeleteDependency(p, c)
  PROVE  NeededBwAddsUp'
<1>1. TypeOK /\ NeededBwAddsUp
  BY DEF BwInv
<1>2. /\ maxBw \in [Resources -> Bw] /\ neededBw \in [Resources -> Bw]
      /\ prodState \in [Producers -> ProdStates]
      /\ dep \in [Producers \X Consumers -> {"none", "kernel", "user"}]
  BY <1>1 DEF TypeOK
<1>3. /\ UNCHANGED <<exists, maxBw>> /\ dep[<<p, c>>] # "none"
      /\ dep' = [dep EXCEPT ![<<p, c>>] = "none"]
  BY DEF DeleteDependency
<1>4. /\ \A q \in Producers : prodState'[q] \in Busy <=> prodState[q] \in Busy
      /\ \A r \in Resources : neededBw'[r] =
           IF r = p THEN SubBw(neededBw[p], maxBw[c])
           ELSE IF r = c /\ prodState[p] \in Busy THEN SubBw(neededBw[c], maxBw[p])
           ELSE neededBw[r]
  <2>1. p \in Resources /\ c \in Resources /\ p # c
    BY Neighbours
  <2>2. CASE prodState[p] = "RELEASED"
    <3>1. UNCHANGED prodState /\ neededBw' = [neededBw EXCEPT ![p] = SubBw(neededBw[p], maxBw[c])]
      BY <2>2 DEF DeleteDependency, prodVars, Busy
    <3> QED
      BY <1>2, <2>1, <2>2, <3>1 DEF Busy
  <2>3. CASE prodState[p] # "RELEASED"
    <3> DEFINE needed == ReleasedBw({c}, maxBw[p])
    <3>1. /\ neededBw' = [needed EXCEPT ![p] = SubBw(needed[p], maxBw[c])]
          /\ \/ prodState' = [prodState EXCEPT ![p] = "GRANTED"]
             \/ prodState' = [prodState EXCEPT ![p] = prodState[p]]
      BY <2>3 DEF DeleteDependency
    <3>2. prodState[p] \in Busy
      BY <1>2, <2>3 DEF ProdStates
    <3>3. needed = [r \in Resources |-> IF r = c THEN SubBw(neededBw[r], maxBw[p])
                                                 ELSE neededBw[r]]
      BY DEF ReleasedBw
    <3> HIDE DEF needed
    <3>4. \A q \in Producers : prodState'[q] \in Busy <=> prodState[q] \in Busy
      BY <1>2, <3>1, <3>2 DEF Busy
    <3>5. \A r \in Resources : neededBw'[r] = IF r = p THEN SubBw(neededBw[p], maxBw[c])
                                              ELSE IF r = c THEN SubBw(neededBw[c], maxBw[p])
                                              ELSE neededBw[r]
      BY <2>1, <3>1, <3>3
    <3> QED
      BY <3>2, <3>4, <3>5
  <2> QED
    BY <2>2, <2>3
<1>5. /\ \A q \in Producers : Peers(q)' = IF q = p THEN Peers(q) \ {c} ELSE Peers(q)
      /\ c \in Peers(p)
  BY <1>2, <1>3 DEF Peers
<1>6. /\ \A d \in Consumers : Users(d)' = IF d = c THEN Users(d) \ {p} ELSE Users(d)
      /\ p \in Users(c) <=> prodState[p] \in Busy
  BY <1>2, <1>3, <1>4 DEF Users, Owners
<1>7. ASSUME NEW d \in Consumers \cap exists PROVE neededBw'[d] = Total(maxBw, Users(d)')
  <2>1. neededBw[d] = Total(maxBw, Users(d)) /\ d \in Resources /\ d # p
    BY <1>1, NeededTotals, Neighbours
  <2>2. CASE d = c /\ prodState[p] \in Busy
    <3>1. Total(maxBw, Users(c) \ {p}) = SubBw(Total(maxBw, Users(c)), maxBw[p])
      BY <1>2, <1>6, <2>2, Neighbours, TotalRemove
    <3> QED
      BY <1>4, <1>6, <2>1, <2>2, <3>1
  <2>3. CASE ~(d = c /\ prodState[p] \in Busy)
    <3>1. Users(d)' = Users(d)
      BY <1>6, <2>3
    <3> QED
      BY <1>4, <2>1, <2>3, <3>1
  <2> QED
    BY <2>2, <2>3
<1>8. ASSUME NEW q \in Producers \cap exists PROVE neededBw'[q] = Total(maxBw, Peers(q)')
  <2>1. neededBw[q] = Total(maxBw, Peers(q)) /\ q \in Resources /\ q # c
    BY <1>1, NeededTotals, Neighbours
  <2>2. CASE q = p
    <3>1. Total(maxBw, Peers(p) \ {c}) = SubBw(Total(maxBw, Peers(p)), maxBw[c])
      BY <1>2, <1>5, Neighbours, TotalRemove
    <3> QED
      BY <1>4, <1>5, <2>1, <2>2, <3>1
  <2>3. CASE q # p
    BY <1>4, <1>5, <2>1, <2>3
  <2> QED
    BY <2>2, <2>3
<1> QED
  BY <1>3, <1>7, <1>8, NeededTotals

\* ipa_rm_set_perf_profile(): the new bandwidth replaces the old one for everybody who counts
\* it.
LEMMA BwSetProfile ==
  ASSUME BwInv, NEW r \in Resources, NEW bw \in Bandwidths, SetPerfProfile(r, bw)
  PROVE  NeededBwAddsUp'
<1>1. NeededBwAddsUp /\ maxBw \in [Resources -> Bw] /\ neededBw \in [Resources -> Bw]
  BY DEF BwInv, TypeOK
<1>2. bw \in Bw
  BY IpaRmAssumption DEF Bw
<1>3. /\ UNCHANGED <<exists, dep, prodState>> /\ maxBw' = [maxBw EXCEPT ![r] = bw]
      /\ neededBw' = [s \in Resources |-> IF s \in ProfilePeers(r)
                        THEN AddBw(SubBw(neededBw[s], maxBw[r]), bw) ELSE neededBw[s]]
  BY DEF SetPerfProfile, graphVars, prodVars
<1>4. ASSUME NEW s \in Resources, NEW N \in SUBSET Resources,
             neededBw[s] = Total(maxBw, N), s \in ProfilePeers(r) <=> r \in N
      PROVE  neededBw'[s] = Total(maxBw', N)
  <2>1. CASE r \in N
    <3>1. Total([maxBw EXCEPT ![r] = bw], N) = AddBw(SubBw(Total(maxBw, N), maxBw[r]), bw)
      BY <1>1, <1>2, <2>1, TotalChange
    <3> QED
      BY <1>3, <1>4, <2>1, <3>1
  <2>2. CASE r \notin N
    <3>1. \A x \in N : maxBw'[x] = maxBw[x]
      BY <1>1, <1>3, <2>2
    <3>2. Total(maxBw', N) = Total(maxBw, N)
      BY <3>1, TotalSame
    <3> QED
      BY <1>3, <1>4, <2>2, <3>2
  <2> QED
    BY <2>1, <2>2
<1>5. ASSUME NEW c \in Consumers \cap exists PROVE neededBw'[c] = Total(maxBw', Users(c)')
  <2>1. Users(c)' = Users(c)
    BY <1>3 DEF Users, Owners
  <2>2. c \in ProfilePeers(r) <=> r \in Users(c)
    BY Neighbours DEF ProfilePeers, Users, Owners, Peers
  <2>3. c \in Resources /\ Users(c) \in SUBSET Resources /\ neededBw[c] = Total(maxBw, Users(c))
    BY <1>1, NeededTotals, Neighbours
  <2> QED
    BY <1>4, <2>1, <2>2, <2>3
<1>6. ASSUME NEW p \in Producers \cap exists PROVE neededBw'[p] = Total(maxBw', Peers(p)')
  <2>1. Peers(p)' = Peers(p)
    BY <1>3 DEF Peers
  <2>2. p \in ProfilePeers(r) <=> r \in Peers(p)
    BY Neighbours DEF ProfilePeers, Owners, Peers, Resources
  <2>3. p \in Resources /\ Peers(p) \in SUBSET Resources /\ neededBw[p] = Total(maxBw, Peers(p))
    BY <1>1, NeededTotals, Neighbours
  <2> QED
    BY <1>4, <2>1, <2>2, <2>3
<1> QED
  BY <1>3, <1>5, <1>6, NeededTotals

\* Every step of the resource manager keeps the sums.
LEMMA BwNext ==
  ASSUME "ERROR" \notin DriverResults, BwInv, [Next]_vars
  PROVE  BwInv'
<1> USE DEF Client, Timer, Driver
<1>1. TypeOK' /\ UsageInv' /\ NeededBwAddsUp
  BY NextType, UsageNext DEF BwInv
<1> DEFINE Goal == NeededBwAddsUp'
<1>2. ASSUME NEW r \in Resources, CreateResource(r) PROVE Goal
  BY <1>2, BwCreate
<1>3. ASSUME NEW p \in Producers, DeleteProducer(p) PROVE Goal
  <2>1. /\ exists' = exists \ {p} /\ UNCHANGED <<dep, bwVars>> /\ Peers(p) = {}
        /\ prodState' = [prodState EXCEPT ![p] = "RELEASED"]
    BY <1>3 DEF DeleteProducer
  <2>2. prodState \in [Producers -> ProdStates]
    BY DEF BwInv, TypeOK
  <2>3. \A q \in Producers : Peers(q) # {} => prodState'[q] = prodState[q]
    BY <2>1, <2>2
  <2> QED
    BY <1>1, <2>1, <2>3, BwQuiet
<1>4. ASSUME NEW c \in Consumers, DeleteConsumer(c) PROVE Goal
  BY <1>1, <1>4, BwQuiet DEF DeleteConsumer, prodVars
<1>5. ASSUME NEW p \in Producers, RequestResource(p) \/ ReleaseResource(p) PROVE Goal
  BY <1>5, BwRequest, BwRelease
<1>6. ASSUME NEW d \in Dependencies, NEW owner \in DepOwners, NEW sync,
             AddDependency(d[1], d[2], owner, sync)
      PROVE  Goal
  <2>1. d[1] \in Producers /\ d[2] \in Consumers
    BY IpaRmAssumption
  <2> QED
    BY <1>6, <2>1, BwAddDependency
<1>7. ASSUME NEW d \in Dependencies, DeleteDependency(d[1], d[2]) PROVE Goal
  <2>1. d[1] \in Producers /\ d[2] \in Consumers
    BY IpaRmAssumption
  <2> QED
    BY <1>7, <2>1, BwDeleteDependency
<1>8. ASSUME NEW r \in Resources, NEW bw \in Bandwidths, SetPerfProfile(r, bw) PROVE Goal
  BY <1>8, BwSetProfile
<1>9. ASSUME UNCHANGED <<exists, dep, bwVars, prodState>> PROVE Goal
  BY <1>1, <1>9, BwQuiet
<1>10. ASSUME NEW c, RequestWithTimer(c) \/ DelayedRelease(c) PROVE Goal
  BY <1>9, <1>10 DEF RequestWithTimer, DelayedRelease, graphVars, prodVars
<1>11. ASSUME NEW c, HandleGranted(c), UNCHANGED <<exists, dep>> PROVE Goal
  <2>1. CASE consState[c] = "REQUEST_IN_PROGRESS"
    <3>1. /\ UNCHANGED bwVars
          /\ prodState' = [p \in Producers |-> IF p \in LastPending(c) THEN "GRANTED"
                                                                      ELSE prodState[p]]
      BY <1>11, <2>1 DEF HandleGranted
    <3>2. \A p \in Producers : prodState'[p] \in Busy <=> prodState[p] \in Busy
      BY <3>1 DEF LastPending, WaitingFor, Busy
    <3> QED
      BY <1>1, <1>11, <3>1, <3>2, BwQuiet
  <2>2. CASE consState[c] # "REQUEST_IN_PROGRESS"
    BY <1>9, <1>11, <2>2 DEF HandleGranted, prodVars
  <2> QED
    BY <2>1, <2>2
<1>12. ASSUME ResumeVote \/ SuspendVote \/ SuspendLocked \/ NotifyProducer \/ PerfWork
       PROVE  Goal
  BY <1>9, <1>12 DEF ResumeVote, SuspendVote, SuspendLocked, NotifyProducer, PerfWork,
     graphVars, prodVars
<1>13. ASSUME ResumeLocked \/ ResourceCb PROVE Goal
  <2>1. \/ \E c : HandleGranted(c)
        \/ UNCHANGED <<bwVars, prodState>>
    BY <1>13 DEF ResumeLocked, ResourceCb, prodVars
  <2>2. UNCHANGED <<exists, dep>>
    BY <1>13 DEF ResumeLocked, ResourceCb, graphVars
  <2> QED
    BY <1>9, <1>11, <2>1, <2>2
<1>14. ASSUME NEW c, NEW event, NotifyCompletion(c, event) PROVE Goal
  BY <1>9, <1>14 DEF NotifyCompletion, graphVars, prodVars
<1>15. ASSUME NEW p, Register(p) \/ Deregister(p) PROVE Goal
  BY <1>9, <1>15 DEF Register, Deregister, graphVars, prodVars
<1>16. ASSUME NEW c, SyncReturn(c) PROVE Goal
  BY <1>9, <1>16 DEF SyncReturn, graphVars, prodVars
<1>17. ASSUME NEW n, OtherVote(n) PROVE Goal
  BY <1>9, <1>17 DEF OtherVote, graphVars, prodVars
<1>18. ASSUME UNCHANGED vars PROVE Goal
  BY <1>9, <1>18 DEF vars, graphVars, prodVars
<1>19. Goal
  <2> HIDE DEF Goal
  <2> QED
    BY <1>2, <1>3, <1>4, <1>5, <1>6, <1>7, <1>8, <1>10, <1>12, <1>13, <1>14, <1>15, <1>16,
       <1>17, <1>18, IpaRmAssumption DEF Next, Worker
<1> QED
  BY <1>1, <1>19 DEF BwInv

\* As long as no driver fails, the needed bandwidths add up, modulo 2^32 as the code adds
\* them: a consumer needs the sum of what the producers using it ask for and a producer the
\* sum of its consumers', through every request, release, change of a profile, and
\* dependency added or deleted meanwhile (ipa_rm_resource_consumer_request,
\* ipa_rm_resource_set_perf_profile).
THEOREM BandwidthsAddUp ==
  ASSUME "ERROR" \notin DriverResults
  PROVE  Spec => []NeededBwAddsUp
<1>1. Init => BwInv
  <2> SUFFICES ASSUME Init PROVE BwInv
    OBVIOUS
  <2>1. TypeOK /\ UsageInv
    BY InitType, UsageInit
  <2>2. /\ neededBw = [r \in Resources |-> 0]
        /\ \A c \in Consumers : Users(c) = {} /\ c \in Resources
        /\ \A p \in Producers : Peers(p) = {} /\ p \in Resources
    BY Neighbours DEF Init, Users, Owners, Peers
  <2>3. /\ \A c \in Consumers : neededBw[c] = Total(maxBw, Users(c))
        /\ \A p \in Producers : neededBw[p] = Total(maxBw, Peers(p))
    BY <2>2, TotalNone
  <2> QED
    BY <2>1, <2>3, NeededTotals DEF BwInv
<1>2. BwInv /\ [Next]_vars => BwInv'
  BY BwNext
<1>3. BwInv => NeededBwAddsUp
  BY DEF BwInv
<1> QED
  BY <1>1, <1>2, <1>3, PTL DEF Spec
=============================================================================
