------------------------------ MODULE SpsPipe ------------------------------
(***************************************************************************)
(* Connections of the SPS driver (sps.c, sps_rm.c, sps_mem.c, and the pipe *)
(* table of sps_bam.c).  A client connects an end point: the resource      *)
(* manager finds a half-open connection that matches or creates one (BAM   *)
(* pipes on every BAM involved, pipe memory for the FIFOs), then the pipe  *)
(* of the client's own BAM is configured.  A connection between two BAMs   *)
(* has two clients, who come and go independently.                         *)
(*                                                                         *)
(* Locks: sps_connect() holds sps->lock and the lock of its BAM from start *)
(* to end, sps_disconnect() only the lock of its BAM; connection records   *)
(* and the pipe tables change under sps_rm->lock, which is one step here.  *)
(***************************************************************************)
EXTENDS Naturals, FiniteSets, FiniteSetsExt

CONSTANTS
  Clients, Bams,
  NumPipes,         \* pipes of every BAM
  Requests,         \* the sps_connect parameters clients use
  PipeMem,          \* FIFOs that fit into the pipe memory
  ConnectMayFail,   \* may the hardware refuse to set a pipe up?
  MEM, NONE         \* SPS_DEV_HANDLE_MEM, NULL

Idx  == 1 .. NumPipes
CLEAR == 0          \* SPSRM_CLEAR: the driver chooses the pipe
Maps == 1 .. Cardinality(Clients)
INVALID == 0         \* SPS_BAM_PIPE_INVALID: the pipe was freed
Ends == (Bams \X (Idx \cup {INVALID})) \cup {NONE}

VARIABLES
  bams,    \* sps->bams_q
  bamOn,   \* the BAMs with BAM_STATE_ENABLED
  ep,      \* client_state of each end point, or "none" before it is allocated
  phase,   \* where a connect or a disconnect of the client is
  req,     \* pipe->connect
  mapOf,   \* pipe->map: the connection's number, 0 for NULL
  conn,    \* connections_q; an entry with refs = 0 is not in it
  pipes,   \* bam->pipes[]: NONE, "UNASSIGNED" or the client
  mem      \* FIFOs free in the pipe memory

vars == <<bams, bamOn, ep, phase, req, mapOf, conn, pipes, mem>>

NoConn == [refs |-> 0, src |-> NONE, dst |-> NONE, csrc |-> NONE, cdst |-> NONE,
           mem |-> 0]
Linked == {m \in Maps : conn[m].refs > 0}

\* The BAM whose lock a call of the client takes.
DevOf(r) == IF r.mode = "SRC" THEN r.src ELSE r.dst
OwnEnd(r, m) == IF r.mode = "SRC" THEN conn[m].src ELSE conn[m].dst
Owner(r, m)  == IF r.mode = "SRC" THEN conn[m].csrc ELSE conn[m].cdst
Locked(b) == \E c \in Clients : phase[c] # "idle" /\ DevOf(req[c]) = b
Connecting == \E c \in Clients : phase[c] = "connecting"

-----------------------------------------------------------------------------
(* sps_rm.c *)
Dev(e) == IF e = NONE THEN MEM ELSE e[1]
Fits(want, e) == want = CLEAR \/ (e # NONE /\ want = e[2])

\* sps_rm_map_match()
Matches(r, m) == /\ r.src = Dev(conn[m].src) /\ r.dst = Dev(conn[m].dst)
                 /\ Fits(r.srcIdx, conn[m].src) /\ Fits(r.dstIdx, conn[m].dst)

\* find_unconnected(): an open connection whose end on the client's side has
\* no client.
HalfOpen(r) == {m \in Linked : Matches(r, m) /\ Owner(r, m) = NONE}

\* sps_bam_pipe_alloc(): the pipe asked for, or the first free one.
Allocatable(b, i) ==
  {k \in Idx : pipes[<<b, k>>] = NONE /\ (i = CLEAR \/ i = k)}
EndFor(b, i) == IF b = MEM THEN NONE ELSE <<b, Min(Allocatable(b, i))>>
CanAlloc(b, i) == b = MEM \/ (b \in bams /\ Allocatable(b, i) # {})

\* The FIFOs sps_rm_create() needs: descriptors, and data between two BAMs.
Fifos(r) == IF r.src = MEM \/ r.dst = MEM THEN 1 ELSE 2

\* sps_rm_create() and sps_rm_init_map(): all or nothing.
Creatable(r) == /\ CanAlloc(r.src, r.srcIdx) /\ CanAlloc(r.dst, r.dstIdx)
                /\ Fifos(r) <= mem
NewConn(r) == [NoConn EXCEPT !.src = EndFor(r.src, r.srcIdx),
                             !.dst = EndFor(r.dst, r.dstIdx),
                             !.mem = Fifos(r)]

\* sps_rm_assign()
Assigned(x, c, r) == IF r.mode = "SRC" THEN [x EXCEPT !.csrc = c, !.refs = @ + 1]
                                       ELSE [x EXCEPT !.cdst = c, !.refs = @ + 1]

\* sps_rm_free_map_rsrc(): the pipes and FIFOs go when no client is left.
NoClient(x) == x.csrc = NONE /\ x.cdst = NONE
FreedPipesOneEnd(x) == IF NoClient(x) /\ x.src # NONE
                       THEN [pipes EXCEPT ![x.src] = NONE] ELSE pipes   \* mutant
FreedPipes(x) == IF NoClient(x)
                 THEN [e \in Bams \X Idx |->
                         IF e \in {x.src, x.dst} THEN NONE ELSE pipes[e]]
                 ELSE pipes
FreedMem(x) == IF NoClient(x) THEN mem + x.mem ELSE mem

Emptied(e) == IF e = NONE THEN NONE ELSE <<e[1], INVALID>>
FreedRsrc(x) == IF NoClient(x)
                THEN [x EXCEPT !.src = Emptied(@), !.dst = Emptied(@), !.mem = 0]
                ELSE x

Vacated(x, r) == IF r.mode = "SRC" THEN [x EXCEPT !.csrc = NONE]
                                   ELSE [x EXCEPT !.cdst = NONE]

\* sps_rm_remove_ref(): the last reference deletes the connection.
Unref(x) == IF x.refs = 1 THEN NoConn ELSE [x EXCEPT !.refs = @ - 1]

-----------------------------------------------------------------------------
(* The API. *)
\* sps_alloc_endpoint(), sps_client_init()
AllocEndpoint(c) ==
  /\ ep[c] = "none" /\ ep' = [ep EXCEPT ![c] = "DISCONNECT"]
  /\ UNCHANGED <<bams, bamOn, phase, req, mapOf, conn, pipes, mem>>

\* sps_free_endpoint(): refused in any other state.
FreeEndpoint(c) ==
  /\ ep[c] = "DISCONNECT" /\ phase[c] = "idle"
  /\ ep' = [ep EXCEPT ![c] = "none"]
  /\ UNCHANGED <<bams, bamOn, phase, req, mapOf, conn, pipes, mem>>

\* sps_register_bam_device(), sps_bam_device_init()
RegisterBam(b) ==
  /\ b \notin bams /\ ~Connecting
  /\ bams' = bams \cup {b}
  /\ UNCHANGED <<bamOn, ep, phase, req, mapOf, conn, pipes, mem>>

\* sps_deregister_bam_device(), by an owner who has closed its pipes.
DeregisterBam(b) ==
  /\ b \in bams /\ ~Connecting /\ ~Locked(b)
  /\ \A i \in Idx : pipes[<<b, i>>] = NONE
  /\ bams' = bams \ {b} /\ bamOn' = bamOn \ {b}
  /\ UNCHANGED <<ep, phase, req, mapOf, conn, pipes, mem>>

\* sps_device_reset(), sps_bam_reset(): refused while a client has a pipe.
DeviceReset(b) ==
  /\ b \in bams /\ ~Connecting /\ ~Locked(b)
  /\ \A i \in Idx : pipes[<<b, i>>] \notin Clients
  /\ bamOn' = bamOn \cup {b}
  /\ UNCHANGED <<bams, ep, phase, req, mapOf, conn, pipes, mem>>

\* sps_connect() up to SPS_STATE_ALLOCATE: join a half-open connection, create
\* one, or fail with nothing changed.
StartConnect(c, r) ==
  /\ ep[c] = "DISCONNECT" /\ phase[c] = "idle" /\ ~Connecting
  /\ DevOf(r) \in bams /\ ~Locked(DevOf(r))
  /\ req' = [req EXCEPT ![c] = r]
  /\ UNCHANGED <<bams, bamOn>>

ConnectJoin(c, r) ==
  /\ StartConnect(c, r)
  /\ HalfOpen(r) # {}
  /\ LET m == Min(HalfOpen(r)) IN
       /\ conn' = [conn EXCEPT ![m] = Assigned(@, c, r)]
       /\ mapOf' = [mapOf EXCEPT ![c] = m]
  /\ ep' = [ep EXCEPT ![c] = "ALLOCATE"]
  /\ phase' = [phase EXCEPT ![c] = "connecting"]
  /\ UNCHANGED <<pipes, mem>>

ConnectCreate(c, r) ==
  /\ StartConnect(c, r)
  /\ HalfOpen(r) = {} /\ Creatable(r)
  /\ LET m == Min(Maps \ Linked)
         x == NewConn(r) IN
       /\ conn' = [conn EXCEPT ![m] = Assigned(x, c, r)]
       /\ mapOf' = [mapOf EXCEPT ![c] = m]
       /\ pipes' = [e \in Bams \X Idx |->
                      IF e \in {x.src, x.dst} THEN "UNASSIGNED" ELSE pipes[e]]
       /\ mem' = mem - x.mem
  /\ ep' = [ep EXCEPT ![c] = "ALLOCATE"]
  /\ phase' = [phase EXCEPT ![c] = "connecting"]

\* sps_bam_enable(): on first use of the BAM.
Enabled(b) == bamOn \cup {b}
\* sps_bam_pipe_connect(): the pipe must be allocated and without a client, who
\* then gets it; sps_bam_pipe_disconnect() takes it back.
Connectable(e) == e[2] # INVALID /\ pipes[e] = "UNASSIGNED"
TakenBy(e, c) == [pipes EXCEPT ![e] = c]
TakenBack(e)  == [pipes EXCEPT ![e] = "UNASSIGNED"]

\* sps_connect() from SPS_STATE_CONNECT: sps_bam_pipe_connect() turns the BAM
\* on, takes the pipe, and the pipe is enabled.
ConnectPipe(c) ==
  /\ phase[c] = "connecting"
  /\ LET e == OwnEnd(req[c], mapOf[c]) IN
       /\ Connectable(e)
       /\ pipes' = TakenBy(e, c)
       /\ bamOn' = Enabled(e[1])
  /\ ep' = [ep EXCEPT ![c] = "ENABLE"]
  /\ phase' = [phase EXCEPT ![c] = "idle"]
  /\ UNCHANGED <<bams, req, mapOf, conn, mem>>

\* ... or fails; the sps_disconnect() that follows finds SPS_STATE_ALLOCATE, for
\* which sps_rm_state_change() has no transition, and reports success.
ConnectFails(c) ==
  /\ phase[c] = "connecting"
  /\ ConnectMayFail \/ ~Connectable(OwnEnd(req[c], mapOf[c]))
  /\ phase' = [phase EXCEPT ![c] = "idle"]
  /\ UNCHANGED <<bams, bamOn, ep, req, mapOf, conn, pipes, mem>>

\* sps_disconnect(): the pipe is disabled and taken back, and the end vacated,
\* all without sps_rm->lock ...
DisconnectPipe(c) ==
  /\ ep[c] = "ENABLE" /\ phase[c] = "idle"
  /\ ~Locked(DevOf(req[c]))
  /\ Owner(req[c], mapOf[c]) = c
  /\ pipes' = TakenBack(OwnEnd(req[c], mapOf[c]))
  /\ ep' = [ep EXCEPT ![c] = "CONNECT"]
  /\ phase' = [phase EXCEPT ![c] = "disconnecting"]
  /\ conn' = [conn EXCEPT ![mapOf[c]] = Vacated(@, req[c])]
  /\ UNCHANGED <<bams, bamOn, req, mapOf, mem>>

\* ... and sps_rm_free(): the client leaves the connection.
DisconnectFree(c) ==
  /\ phase[c] = "disconnecting"
  /\ LET x == Vacated(conn[mapOf[c]], req[c]) IN
        /\ pipes' = FreedPipes(x) /\ mem' = FreedMem(x)
        /\ conn' = [conn EXCEPT ![mapOf[c]] = Unref(FreedRsrc(x))]
  /\ mapOf' = [mapOf EXCEPT ![c] = 0]
  /\ ep' = [ep EXCEPT ![c] = "DISCONNECT"]
  /\ phase' = [phase EXCEPT ![c] = "idle"]
  /\ UNCHANGED <<bams, bamOn, req>>

-----------------------------------------------------------------------------
Init ==
  /\ bams = Bams /\ bamOn = {}
  /\ ep = [c \in Clients |-> "none"] /\ phase = [c \in Clients |-> "idle"]
  /\ req \in [Clients -> {CHOOSE r \in Requests : TRUE}]
  /\ mapOf = [c \in Clients |-> 0]
  /\ conn = [m \in Maps |-> NoConn]
  /\ pipes = [e \in Bams \X Idx |-> NONE]
  /\ mem = PipeMem

Next ==
  \/ \E c \in Clients :
       \/ AllocEndpoint(c) \/ FreeEndpoint(c) \/ ConnectPipe(c) \/ ConnectFails(c)
       \/ DisconnectPipe(c) \/ DisconnectFree(c)
       \/ \E r \in Requests : ConnectJoin(c, r) \/ ConnectCreate(c, r)
  \/ \E b \in Bams : RegisterBam(b) \/ DeregisterBam(b) \/ DeviceReset(b)

Spec == Init /\ [][Next]_vars
-----------------------------------------------------------------------------
States == {"none", "DISCONNECT", "ALLOCATE", "CONNECT", "ENABLE"}
TypeOK ==
  /\ bams \subseteq Bams /\ bamOn \subseteq bams
  /\ ep \in [Clients -> States]
  /\ phase \in [Clients -> {"idle", "connecting", "disconnecting"}]
  /\ req \in [Clients -> Requests]
  /\ mapOf \in [Clients -> Maps \cup {0}]
  /\ conn \in [Maps -> [refs : 0 .. Cardinality(Clients), src : Ends, dst : Ends,
                        csrc : Clients \cup {NONE}, cdst : Clients \cup {NONE},
                        mem : 0 .. 2]]
  /\ pipes \in [Bams \X Idx -> Clients \cup {NONE, "UNASSIGNED"}]
  /\ mem \in 0 .. PipeMem

\* A client with an enabled pipe is the owner of that pipe, both in the BAM's
\* table (what sps_bam_lock() checks on every call) and in the connection, and
\* no pipe is owned by anyone else.
PipesOwned ==
  /\ \A c \in Clients : ep[c] = "ENABLE" =>
       /\ mapOf[c] # 0 /\ Owner(req[c], mapOf[c]) = c
       /\ pipes[OwnEnd(req[c], mapOf[c])] = c
       /\ OwnEnd(req[c], mapOf[c])[1] \in bamOn
  /\ \A e \in Bams \X Idx : pipes[e] \in Clients => ep[pipes[e]] = "ENABLE"

\* A connection lives exactly as long as clients refer to it: refs counts them.
RefsCountClients ==
  \A m \in Maps : conn[m].refs = Cardinality({c \in Clients : mapOf[c] = m})

\* The FIFOs in the pipe memory: number f[2] of connection f[1].
FifosInUse == {f \in Linked \X (1 .. 2) : f[2] <= conn[f[1]].mem}

\* Every pipe that is not free, and all pipe memory in use, belongs to exactly
\* one open connection: nothing is leaked or freed under a client, whichever
\* side of a BAM-to-BAM connection closes first.
ResourcesAccounted ==
  /\ \A e \in Bams \X Idx :
       Cardinality({m \in Linked : e \in {conn[m].src, conn[m].dst}})
         = IF pipes[e] = NONE THEN 0 ELSE 1
  /\ mem + Cardinality(FifosInUse) = PipeMem
=============================================================================
