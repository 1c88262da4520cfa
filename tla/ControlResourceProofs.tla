----------------------- MODULE ControlResourceProofs -----------------------
(***************************************************************************)
(* Proofs about what the control side hands out: the memory of the         *)
(* hardware tables (the hardware never reads a freed buffer, and no buffer *)
(* is lost unless a commit failed half way), and the pipes and connections *)
(* of the SPS driver, for any number of tables, buffers, clients, BAMs and *)
(* pipes; and what ipa_init() takes and its goto chain gives back.         *)
(***************************************************************************)
EXTENDS MCControl, FiniteSetTheorems, SequenceTheorems, WellFoundedInduction, TLAPS

Ptr == Bufs \cup {NONE}

Types ==
  /\ kind \in {"rt", "flt"}
  /\ live \subseteq Tables /\ full \subseteq live
  /\ curr \in [Tables -> Ptr] /\ prev \in [Tables -> Ptr] /\ hw \in [Tables -> Ptr]
  /\ reap \subseteq Bufs /\ mem \subseteq Bufs
  /\ hdrMem \in Ptr /\ failed \in BOOLEAN

\* Every pointer the driver or the hardware holds is NULL or allocated, but for the
\* header words a commit left alone.
PointersLive ==
  /\ \A t \in Tables : /\ curr[t] \in mem \cup {NONE}
                       /\ prev[t] \in mem \cup {NONE}
                       /\ t \notin left => hw[t] \in mem \cup {NONE}
  /\ reap \subseteq mem
  /\ hdrMem \in mem \cup {NONE}

\* The header buffer is no table's, so that freeing one never frees the other.
HdrApart ==
  /\ hwHdr = hdrMem
  /\ hdrMem # NONE =>
       /\ hdrMem \notin reap
       /\ \A t \in Tables : /\ curr[t] # hdrMem /\ prev[t] # hdrMem
                            /\ t \notin left => hw[t] # hdrMem

\* The header words every filter commit leaves alone stay empty.
SkippedEmpty == kind = "flt" => \A t \in Tables \cap Skipped : hw[t] = NONE

\* Which tables can have memory, and that only a failed commit leaves a
\* previous buffer behind.
Tidy ==
  /\ kind = "flt" => live = Tables
  /\ \A t \in Tables \ live : curr[t] = NONE
  /\ ~failed => \A t \in Tables : prev[t] = NONE

IInv == Types /\ PointersLive /\ HdrApart /\ SkippedEmpty /\ Tidy /\ BuffersAccounted

\* Nothing is allocated before the first commit.
LEMMA InitIInv ==
  ASSUME NONE \notin Bufs, Init
  PROVE  IInv
BY DEF Init, IInv, Types, Ptr, PointersLive, HdrApart, SkippedEmpty, Tidy, BuffersAccounted

\* The buffers a commit takes were free, one for each table.
LEMMA NewBuffersFresh ==
  ASSUME NEW s, Room(s)
  PROVE  NewBuffers(s) \in [s -> Bufs \ mem]
<1>1. NewBuffers(s) \in FreshFor(s)
  BY DEF Room, NewBuffers
<1>2. QED
  BY <1>1 DEF FreshFor

\* A commit that fails half way gives tables new buffers and frees none.
LEMMA CommitFailsIInv ==
  ASSUME NONE \notin Bufs, IInv, NEW s \in SUBSET Generated, CommitFails(s)
  PROVE  IInv'
<1> DEFINE f == NewBuffers(s)
<1>1. f \in [s -> Bufs \ mem]
  BY NewBuffersFresh DEF CommitFails
<1>2. s \subseteq Tables
  BY DEF IInv, Types, Generated
<1>3. /\ curr' = [t \in Tables |-> IF t \in s THEN f[t] ELSE curr[t]]
      /\ prev' = [t \in Tables |-> IF t \in s /\ curr[t] # NONE THEN curr[t] ELSE prev[t]]
      /\ mem' = mem \cup {f[t] : t \in s}
      /\ failed' = TRUE
      /\ UNCHANGED <<kind, live, full, reap, hw, shadow, left, hdrMem, hwHdr>>
  BY DEF CommitFails, CurrAfter, PrevAfter
<1> HIDE DEF f
<1>4. Types'
  BY <1>1, <1>2, <1>3 DEF IInv, Types, Ptr
<1>5. PointersLive'
  BY <1>1, <1>2, <1>3 DEF IInv, Types, Ptr, PointersLive
<1>6. HdrApart'
  BY <1>1, <1>2, <1>3 DEF IInv, Types, Ptr, PointersLive, HdrApart
<1>7. SkippedEmpty'
  BY <1>3 DEF IInv, SkippedEmpty
<1>8. Tidy'
  <2>1. s \subseteq live
    BY DEF IInv, Types, Generated
  <2>2. QED
    BY <1>3, <2>1 DEF IInv, Tidy
<1>9. BuffersAccounted'
  BY <1>3 DEF BuffersAccounted
<1>10. QED
  BY <1>4, <1>5, <1>6, <1>7, <1>8, <1>9 DEF IInv

\* A commit that works points the hardware at new buffers and frees the others.
LEMMA CommitWorksIInv ==
  ASSUME NONE \notin Bufs, IInv, CommitWorks
  PROVE  IInv'
<1> DEFINE g == Generated
           f == NewBuffers(Generated)
           old == PrevAfter(Generated)
           gone == Reaped(Generated)
<1>1. f \in [g -> Bufs \ mem]
  BY NewBuffersFresh DEF CommitWorks
<1>2. g \subseteq live /\ live \subseteq Tables /\ full \subseteq Tables
  BY DEF IInv, Types, Generated
<1>3. gone \subseteq mem \cup {NONE}
  BY DEF IInv, PointersLive, Types, Reaped, PrevAfter, Emptied
<1>4. hdrMem # NONE => hdrMem \notin gone
  BY DEF IInv, HdrApart, Types, Reaped, PrevAfter, Emptied
<1>5. /\ hw' = [t \in Tables |->
                  IF t \in LeftAlone THEN hw[t]
                  ELSE IF t \in g THEN f[t] ELSE NONE]
      /\ left' = {t \in Tables \cap LeftAlone : hw[t] # NONE}
      /\ curr' = [t \in Tables |-> IF t \in Emptied THEN NONE
                                   ELSE IF t \in g THEN f[t] ELSE curr[t]]
      /\ prev' = [t \in Tables |-> NONE]
      /\ reap' = {}
      /\ mem' = (mem \cup {f[t] : t \in g}) \ gone
      /\ UNCHANGED <<kind, live, full, shadow, hdrMem, hwHdr, failed>>
  BY DEF CommitWorks, HwAfter, CurrAfter
\* What a table keeps of its own is nothing: every table with memory is
\* generated anew or emptied.
<1>6. \A t \in Tables : t \notin g /\ t \notin Emptied => curr[t] = NONE
  BY DEF IInv, Tidy, Types, Generated, Emptied
<1>7. Emptied \cap g = {}
  BY DEF IInv, Types, Emptied, Generated
<1>8. \A t \in Tables : \/ hw'[t] = NONE \/ (t \in g /\ hw'[t] = f[t])
                         \/ (t \in left' /\ hw'[t] = hw[t])
  BY <1>5
<1>9. \A t \in Tables : curr'[t] = IF t \in g THEN f[t] ELSE NONE
  BY <1>5, <1>6, <1>7
<1>10. \A t \in g : f[t] \in mem' /\ f[t] # hdrMem /\ f[t] # NONE
  BY <1>1, <1>3, <1>5 DEF IInv, Types, Ptr, PointersLive
<1>11. hdrMem \in mem' \cup {NONE}
  BY <1>4, <1>5 DEF IInv, PointersLive
<1>12. {f[t] : t \in g} \subseteq Bufs
  BY <1>1
<1>13. BuffersAccounted'
  <2> SUFFICES ASSUME ~failed
               PROVE  mem' = (({curr'[t] : t \in Tables} \cup {prev'[t] : t \in Tables}
                                 \cup reap' \cup {hdrMem'}) \ {NONE})
    BY <1>5 DEF BuffersAccounted
  <2>1. mem = (({curr[t] : t \in Tables} \cup reap \cup {hdrMem}) \ {NONE})
    BY DEF IInv, BuffersAccounted, Tidy
  <2>2. \A t \in Tables : curr[t] # NONE => curr[t] \in gone
    <3> SUFFICES ASSUME NEW t \in Tables, curr[t] # NONE
                 PROVE  curr[t] \in gone
      OBVIOUS
    <3>1. CASE t \in Emptied
      BY <3>1 DEF Reaped
    <3>2. CASE t \in g
      <4>1. old[t] = curr[t]
        BY <3>2 DEF PrevAfter
      <4>2. QED
        BY <4>1, <3>2, <1>2 DEF Reaped
    <3>3. QED
      BY <1>6, <3>1, <3>2
  <2>3. reap \subseteq gone
    BY DEF Reaped
  <2>4. mem' = ({f[t] : t \in g} \cup {hdrMem}) \ {NONE}
    <3> HIDE DEF f, g, gone
    <3>1. \A b : b \in mem \ gone <=> b = hdrMem /\ b # NONE
      BY <1>4, <2>1, <2>2, <2>3
    <3>2. \A t \in g : f[t] \notin gone
      BY <1>1, <1>3 DEF IInv, Types
    <3>3. \A t \in g : f[t] # NONE
      BY <1>10
    <3>4. mem' = (mem \ gone) \cup {f[t] : t \in g}
      BY <1>5, <3>2
    <3>5. QED
      BY <3>1, <3>3, <3>4
  <2>5. {curr'[t] : t \in Tables} \ {NONE} = {f[t] : t \in g}
    <3> HIDE DEF f, g
    <3>1. QED
      BY <1>2, <1>9, <1>10
  <2>6. {prev'[t] : t \in Tables} \ {NONE} = {} /\ reap' = {} /\ hdrMem' = hdrMem
    BY <1>5
  <2>7. QED
    BY <2>4, <2>5, <2>6
<1> HIDE DEF f, g, gone
<1>14. Types'
  <2>1. mem' \subseteq Bufs
    BY <1>5, <1>12 DEF IInv, Types
  <2>2. curr' \in [Tables -> Ptr] /\ prev' \in [Tables -> Ptr] /\ hw' \in [Tables -> Ptr]
    <3>1. curr' \in [Tables -> Ptr]
      <4>1. \A t \in Tables : curr'[t] \in Ptr
        BY <1>1, <1>9 DEF Ptr
      <4>2. QED
        BY <1>5, <4>1
    <3>2. hw' \in [Tables -> Ptr]
      <4>1. \A t \in Tables : hw'[t] \in Ptr
        BY <1>1, <1>8 DEF IInv, Types, Ptr
      <4>2. QED
        BY <1>5, <4>1
    <3>3. QED
      BY <1>5, <3>1, <3>2 DEF Ptr
  <2>3. QED
    BY <1>5, <2>1, <2>2 DEF IInv, Types
<1>15. PointersLive'
  BY <1>5, <1>8, <1>9, <1>10, <1>11 DEF PointersLive
<1>16. HdrApart'
  BY <1>5, <1>8, <1>9, <1>10 DEF IInv, HdrApart
<1>17. SkippedEmpty'
  <2>1. \A t \in Tables : kind = "flt" /\ t \in Skipped => hw'[t] = hw[t]
    BY <1>5 DEF LeftAlone
  <2>2. QED
    BY <1>5, <2>1 DEF IInv, SkippedEmpty
<1>18. Tidy'
  BY <1>2, <1>5, <1>9 DEF IInv, Tidy
<1>19. QED
  BY <1>13, <1>14, <1>15, <1>16, <1>17, <1>18 DEF IInv

\* Exchanging the header buffer leaves the tables' buffers alone.
LEMMA CommitHdrIInv ==
  ASSUME NONE \notin Bufs, IInv, NEW sent \in BOOLEAN, CommitHdr(sent)
  PROVE  IInv'
<1>1. CASE ~sent
  BY <1>1 DEF CommitHdr, IInv, Types, Ptr, PointersLive, HdrApart, SkippedEmpty, Tidy,
              BuffersAccounted
<1>2. CASE sent
  <2>1. PICK b \in {CHOOSE c \in Bufs \ mem : TRUE} :
          /\ mem' = (mem \cup {b}) \ {hdrMem}
          /\ hdrMem' = b
          /\ hwHdr' = b
    BY <1>2 DEF CommitHdr
  <2>2. b \in Bufs \ mem
    BY <2>1 DEF CommitHdr
  <2>3. UNCHANGED <<kind, live, full, curr, prev, reap, hw, shadow, left, failed>>
    BY DEF CommitHdr
  <2>4. b # hdrMem /\ b # NONE
    BY <2>2 DEF IInv, PointersLive
  <2>5. Types'
    BY <2>1, <2>2, <2>3 DEF IInv, Types, Ptr
  <2>6. PointersLive'
    <3>1. \A p \in mem \cup {NONE} : p # hdrMem \/ hdrMem = NONE => p \in mem' \cup {NONE}
      BY <2>1
    <3>2. \A t \in Tables : /\ curr[t] \in mem' \cup {NONE}
                            /\ prev[t] \in mem' \cup {NONE}
                            /\ t \notin left => hw[t] \in mem' \cup {NONE}
      BY <3>1 DEF IInv, PointersLive, HdrApart
    <3>3. reap \subseteq mem'
      BY <2>1 DEF IInv, PointersLive, HdrApart, Types
    <3>4. hdrMem' \in mem'
      BY <2>1, <2>4
    <3>5. QED
      BY <2>3, <3>2, <3>3, <3>4 DEF PointersLive
  <2>7. HdrApart'
    BY <2>1, <2>2, <2>3, <2>4 DEF IInv, PointersLive, HdrApart
  <2>8. SkippedEmpty' /\ Tidy'
    BY <2>3 DEF IInv, SkippedEmpty, Tidy
  <2>9. BuffersAccounted'
    BY <2>1, <2>2, <2>3, <2>4 DEF IInv, BuffersAccounted, HdrApart, PointersLive
  <2>10. QED
    BY <2>5, <2>6, <2>7, <2>8, <2>9 DEF IInv
<1>3. QED
  BY <1>1, <1>2

\* Rules and tables come and go without any memory being freed.
LEMMA EditIInv ==
  ASSUME NONE \notin Bufs, IInv, NEW t \in Tables,
         AddRule(t) \/ DelRules(t) \/ DelTable(t)
  PROVE  IInv'
<1> USE DEF IInv, Types, Ptr, PointersLive, HdrApart, SkippedEmpty, Tidy
<1>1. CASE AddRule(t)
  BY <1>1 DEF AddRule, BuffersAccounted
<1>2. CASE DelRules(t)
  BY <1>2 DEF DelRules, BuffersAccounted
<1>3. CASE DelTable(t)
  <2>1. Types' /\ PointersLive' /\ HdrApart' /\ SkippedEmpty' /\ Tidy'
    BY <1>3 DEF DelTable
  <2>2. BuffersAccounted'
    <3> SUFFICES ASSUME ~failed
                 PROVE  mem' = (({curr'[u] : u \in Tables} \cup {prev'[u] : u \in Tables}
                                   \cup reap' \cup {hdrMem'}) \ {NONE})
      BY <1>3 DEF DelTable, BuffersAccounted
    <3>1. mem = (({curr[u] : u \in Tables} \cup reap \cup {hdrMem}) \ {NONE})
      BY DEF BuffersAccounted
    <3>2. \A u \in Tables : prev'[u] = NONE
      BY <1>3 DEF DelTable
    <3>3. \A b : (\E u \in Tables : curr[u] = b) /\ b # NONE
                 <=> ((\E u \in Tables : curr'[u] = b) \/ b = curr[t]) /\ b # NONE
      BY <1>3 DEF DelTable
    <3>4. QED
      BY <1>3, <3>1, <3>2, <3>3 DEF DelTable
  <2>3. QED
    BY <2>1, <2>2
<1>4. QED
  BY <1>1, <1>2, <1>3

\* Connecting a pipe changes what later commits write, and no memory.
LEMMA ConnectIInv ==
  ASSUME IInv, NEW t \in Tables, NEW skip \in BOOLEAN, ConnectPipe(t, skip)
  PROVE  IInv'
BY DEF ConnectPipe, IInv, Types, PointersLive, HdrApart, SkippedEmpty, Tidy,
       BuffersAccounted

\* The invariant holds throughout.
LEMMA MemoryInvariant ==
  ASSUME NONE \notin Bufs
  PROVE  Spec => []IInv
<1>1. Init => IInv
  BY InitIInv
<1>2. IInv /\ [Next]_vars => IInv'
  <2> SUFFICES ASSUME IInv, [Next]_vars
               PROVE  IInv'
    OBVIOUS
  <2>1. CASE UNCHANGED vars
    BY <2>1 DEF vars, IInv, Types, PointersLive, HdrApart, SkippedEmpty, Tidy,
                BuffersAccounted
  <2>2. CASE Next
    BY <2>2, EditIInv, ConnectIInv, CommitFailsIInv, CommitWorksIInv, CommitHdrIInv DEF Next
  <2>3. QED
    BY <2>1, <2>2
<1>3. QED
  BY <1>1, <1>2, PTL DEF Spec

\* The hardware never reads a freed buffer: __ipa_commit_rt_v2() and
\* __ipa_commit_flt_v2() free the buffers of before only after the hardware has
\* the new ones, deleted tables wait on the reap list, and the header table's
\* buffer is exchanged before the old one goes.  The one way it can: a commit
\* leaves the header word of a pipe alone that has become the modem's.
THEOREM HardwareReadsAllocated ==
  ASSUME NONE \notin Bufs
  PROVE  Spec => []HwReadsAllocated
<1>1. IInv => HwReadsAllocated
  BY DEF IInv, PointersLive, HdrApart, HwReadsAllocated
<1>2. QED
  BY MemoryInvariant, <1>1, PTL

\* Unless a commit fails half way, no buffer is lost: the reap functions find
\* every one that is no longer needed.
THEOREM NoBufferLost ==
  ASSUME NONE \notin Bufs
  PROVE  Spec => []BuffersAccounted
<1>1. IInv => BuffersAccounted
  BY DEF IInv
<1>2. QED
  BY MemoryInvariant, <1>1, PTL

-----------------------------------------------------------------------------
(* Connections of the SPS driver.  A connection's owner on either side is a  *)
(* client mapped to it that is not on its way out; a client on its way out   *)
(* still holds its BAM's lock, so nobody takes its side before it has left.  *)
(* A pipe that is not free is an end of one connection, and a client's if    *)
(* that client's pipe is enabled.                                            *)
SpsPipes == Bams \X S!Idx
SpsConns == [refs : Nat, src : S!Ends, dst : S!Ends, csrc : SpsClients \cup {NONE},
             cdst : SpsClients \cup {NONE}, mem : 0 .. 2]
SpsEnd(m, e) == e = sConn[m].src \/ e = sConn[m].dst
SpsMine(c) == S!OwnEnd(sReq[c], sMapOf[c])

SpsType ==
  /\ sBams \subseteq Bams /\ sBamOn \subseteq sBams
  /\ sEp \in [SpsClients -> S!States]
  /\ sPhase \in [SpsClients -> {"idle", "connecting", "disconnecting"}]
  /\ sReq \in [SpsClients -> SomeRequests]
  /\ sMapOf \in [SpsClients -> S!Maps \cup {0}]
  /\ sConn \in [S!Maps -> SpsConns]
  /\ sPipes \in [SpsPipes -> SpsClients \cup {NONE, "UNASSIGNED"}]
  /\ sMem \in Nat
SpsWhere == \A c \in SpsClients :
  /\ sPhase[c] = "connecting" => sEp[c] = "ALLOCATE" /\ S!DevOf(sReq[c]) \in sBams
  /\ sPhase[c] = "disconnecting" <=> sEp[c] = "CONNECT"
  /\ sMapOf[c] # 0 <=> sEp[c] \in {"ALLOCATE", "CONNECT", "ENABLE"}
SpsMapped == \A c \in SpsClients : sMapOf[c] # 0 =>
  /\ SpsMine(c) # NONE /\ SpsMine(c)[1] = S!DevOf(sReq[c])
  /\ S!Owner(sReq[c], sMapOf[c]) = IF sEp[c] = "CONNECT" THEN NONE ELSE c
SpsOwners == \A m \in S!Maps :
  /\ sConn[m].csrc # NONE => /\ sMapOf[sConn[m].csrc] = m /\ sEp[sConn[m].csrc] # "CONNECT"
                             /\ sReq[sConn[m].csrc].mode = "SRC"
  /\ sConn[m].cdst # NONE => /\ sMapOf[sConn[m].cdst] = m /\ sEp[sConn[m].cdst] # "CONNECT"
                             /\ sReq[sConn[m].cdst].mode # "SRC"
SpsEnds ==
  /\ \A m \in S!Maps : sConn[m].refs = 0 => sConn[m] = S!NoConn
  /\ \A m \in S!Maps, e \in SpsPipes : SpsEnd(m, e) => sPipes[e] # NONE
  /\ \A m, n \in S!Maps, e \in SpsPipes : SpsEnd(m, e) /\ SpsEnd(n, e) => m = n
  /\ \A e \in SpsPipes : sPipes[e] # NONE => \E m \in S!Maps : SpsEnd(m, e)
SpsTaken ==
  /\ \A e \in SpsPipes, c \in SpsClients : sPipes[e] = c => sEp[c] = "ENABLE" /\ e = SpsMine(c)
  /\ \A c \in SpsClients : sEp[c] = "ENABLE" =>
       SpsMine(c) \in SpsPipes /\ sPipes[SpsMine(c)] = c /\ SpsMine(c)[1] \in sBamOn
SpsUsers(f, m) == {c \in SpsClients : f[c] = m}
SpsCounts == \A m \in S!Maps : sConn[m].refs = Cardinality(SpsUsers(sMapOf, m))
SpsMemory == sMem + Cardinality(S!FifosInUse) = PipeMem
SpsInv == SpsType /\ SpsWhere /\ SpsMapped /\ SpsOwners /\ SpsEnds /\ SpsTaken /\ SpsCounts /\ SpsMemory

\* The requests, and the constants of the instance.
LEMMA SpsFacts ==
  /\ \A r \in SomeRequests :
       /\ r.mode \in {"SRC", "DEST"} /\ r.src \in Bams \cup {MEM} /\ r.dst \in Bams \cup {MEM}
       /\ r.srcIdx = 0 /\ r.dstIdx = 0 /\ S!DevOf(r) \in Bams
  /\ S!Idx \subseteq Nat \ {0} /\ Cardinality(SpsClients) \in Nat
  /\ S!Maps = 1 .. Cardinality(SpsClients) /\ S!Maps \subseteq Nat \ {0}
  /\ NONE \notin SpsPipes /\ \A b \in Bams : <<b, 0>> # NONE
<1>1. PICK p, q : p = (CHOOSE b \in Bams : TRUE) /\ q = (CHOOSE b \in Bams : b # p)
  OBVIOUS
<1>2. p \in Bams /\ q \in Bams
  <2>1. \E a, b \in Bams : a # b
    BY SpsAssumption
  <2>2. p \in Bams
    BY <1>1, <2>1
  <2>3. \E b \in Bams : b # p
    BY <2>1
  <2> QED BY <1>1, <2>2, <2>3
<1>3. SomeRequests = {Connect("DEST", MEM, q), Connect("SRC", p, q), Connect("DEST", p, q)}
  BY <1>1 DEF SomeRequests
<1>4. ASSUME NEW r \in SomeRequests
      PROVE  /\ r.mode \in {"SRC", "DEST"} /\ r.src \in Bams \cup {MEM} /\ r.dst \in Bams \cup {MEM}
             /\ r.srcIdx = 0 /\ r.dstIdx = 0 /\ S!DevOf(r) \in Bams
  BY <1>2, <1>3 DEF Connect, S!DevOf
<1>5. Cardinality(SpsClients) \in Nat /\ S!Cardinality(SpsClients) = Cardinality(SpsClients)
  BY SpsAssumption, FS_CardinalityType DEF S!Cardinality, Cardinality
<1>6. S!Maps = 1 .. Cardinality(SpsClients)
  BY <1>5 DEF S!Maps
<1>7. S!Idx \subseteq Nat \ {0} /\ S!Maps \subseteq Nat \ {0}
  BY <1>5, <1>6, SpsAssumption DEF S!Idx
<1>8. NONE \notin SpsPipes /\ \A b \in Bams : <<b, 0>> # NONE
  <2>1. NONE \notin Bams \X Nat
    BY SpsAssumption
  <2>2. SpsPipes \subseteq Bams \X Nat
    BY <1>7 DEF SpsPipes
  <2>3. \A b \in Bams : <<b, 0>> \in Bams \X Nat
    OBVIOUS
  <2> QED BY <2>1, <2>2, <2>3
<1> QED BY <1>4, <1>5, <1>6, <1>7, <1>8

\* SpsPipe's instances of the library's operators.
LEMMA SpsLibrary ==
  /\ \A x : S!Cardinality(x) = Cardinality(x)
  /\ \A x \in SUBSET Nat : x # {} => S!Min(x) \in x
<1>1. \A x : S!Cardinality(x) = Cardinality(x)
  BY DEF S!Cardinality, Cardinality
<1>2. ASSUME NEW x \in SUBSET Nat, x # {} PROVE S!Min(x) \in x
  <2>1. IsWellFoundedOn(OpToRel(<, Nat), Nat)
    BY NatLessThanWellFounded, Zenon
  <2>2. PICK a \in x : \A y \in x : ~(<<y, a>> \in OpToRel(<, Nat))
    BY <1>2, <2>1, WFMin
  <2>3. \A y \in x : ~(y < a)
    BY <2>2 DEF OpToRel
  <2>4. \A y \in x : a <= y
    BY <2>3
  <2> QED BY <2>4 DEF S!Min
<1> QED BY <1>1, <1>2

\* An end of a connection is NULL, a pipe, or a pipe that was freed.
LEMMA SpsEndType ==
  ASSUME NEW e \in S!Ends, e # NONE
  PROVE  e[1] \in Bams /\ e = <<e[1], e[2]>> /\ (e[2] # 0 <=> e \in SpsPipes) /\ S!Dev(e) = e[1]
<1>1. PICK b \in Bams, i \in S!Idx \cup {0} : e = <<b, i>>
  BY DEF S!Ends, S!INVALID
<1>2. 0 \notin S!Idx
  BY SpsFacts
<1>3. e[1] = b /\ e[2] = i
  BY <1>1
<1>4. i # 0 <=> e \in SpsPipes
  BY <1>1, <1>2 DEF SpsPipes
<1> QED BY <1>1, <1>3, <1>4 DEF S!Dev

\* The fields of a connection.
LEMMA SpsFields ==
  ASSUME SpsType, NEW m \in S!Maps
  PROVE  /\ sConn[m] \in SpsConns /\ sConn[m].refs \in Nat /\ sConn[m].mem \in 0 .. 2
         /\ sConn[m].src \in S!Ends /\ sConn[m].dst \in S!Ends
         /\ sConn[m].csrc \in SpsClients \cup {NONE} /\ sConn[m].cdst \in SpsClients \cup {NONE}
<1>1. sConn[m] \in SpsConns
  BY DEF SpsType
<1> QED BY <1>1 DEF SpsConns

\* A client's own end, and an end of its connection.
LEMMA SpsMineType ==
  ASSUME SpsType, NEW c \in SpsClients, sMapOf[c] # 0
  PROVE  sMapOf[c] \in S!Maps /\ SpsMine(c) \in S!Ends /\ SpsEnd(sMapOf[c], SpsMine(c))
<1>1. sMapOf[c] \in S!Maps
  BY DEF SpsType
<1> QED BY <1>1, SpsFields DEF SpsMine, S!OwnEnd, SpsEnd

\* One more client of a connection, and one fewer.
LEMMA SpsOneMore ==
  ASSUME NEW f \in [SpsClients -> S!Maps \cup {0}], NEW c \in SpsClients, NEW m \in S!Maps,
         NEW g \in [SpsClients -> S!Maps \cup {0}], f[c] = 0, g[c] = m,
         \A d \in SpsClients : d # c => g[d] = f[d]
  PROVE  /\ \A n \in S!Maps : Cardinality(SpsUsers(f, n)) \in Nat
         /\ Cardinality(SpsUsers(g, m)) = Cardinality(SpsUsers(f, m)) + 1
         /\ \A n \in S!Maps : n # m => SpsUsers(g, n) = SpsUsers(f, n)
<1>1. 0 \notin S!Maps
  BY SpsFacts
<1>2. IsFiniteSet(SpsClients)
  BY SpsAssumption
<1>3. ASSUME NEW n \in S!Maps
      PROVE  IsFiniteSet(SpsUsers(f, n)) /\ Cardinality(SpsUsers(f, n)) \in Nat
  <2>1. SpsUsers(f, n) \subseteq SpsClients
    BY DEF SpsUsers
  <2>2. IsFiniteSet(SpsUsers(f, n))
    BY <1>2, <2>1, FS_Subset
  <2> QED BY <2>2, FS_CardinalityType
<1>4. PICK a : a = SpsUsers(f, m)
  OBVIOUS
<1>5. SpsUsers(g, m) = a \cup {c} /\ c \notin a
  BY <1>1, <1>4 DEF SpsUsers
<1>6. IsFiniteSet(a)
  BY <1>3, <1>4
<1>7. Cardinality(a \cup {c}) = Cardinality(a) + 1
  BY <1>5, <1>6, FS_AddElement
<1>8. \A n \in S!Maps : n # m => SpsUsers(g, n) = SpsUsers(f, n)
  BY <1>1 DEF SpsUsers
<1> QED BY <1>3, <1>4, <1>5, <1>7, <1>8


LEMMA SpsOneFewer ==
  ASSUME NEW f \in [SpsClients -> S!Maps \cup {0}], NEW c \in SpsClients, NEW m \in S!Maps,
         NEW g \in [SpsClients -> S!Maps \cup {0}], f[c] = m, g[c] = 0,
         \A d \in SpsClients : d # c => g[d] = f[d]
  PROVE  /\ Cardinality(SpsUsers(g, m)) \in Nat
         /\ Cardinality(SpsUsers(f, m)) = Cardinality(SpsUsers(g, m)) + 1
         /\ Cardinality(SpsUsers(g, m)) = 0 => \A d \in SpsClients : g[d] # m
         /\ \A n \in S!Maps : n # m => SpsUsers(g, n) = SpsUsers(f, n)
<1>1. 0 \notin S!Maps
  BY SpsFacts
<1>2. \A d \in SpsClients : d # c => f[d] = g[d]
  OBVIOUS
<1>3. /\ \A n \in S!Maps : Cardinality(SpsUsers(g, n)) \in Nat
      /\ Cardinality(SpsUsers(f, m)) = Cardinality(SpsUsers(g, m)) + 1
      /\ \A n \in S!Maps : n # m => SpsUsers(f, n) = SpsUsers(g, n)
  BY <1>2, SpsOneMore
<1>4. PICK a : a = SpsUsers(g, m)
  OBVIOUS
<1>5. IsFiniteSet(a)
  BY <1>4, SpsAssumption, FS_Subset DEF SpsUsers
<1>6. Cardinality(a) = 0 => a = {}
  BY <1>5, FS_EmptySet
<1> QED BY <1>3, <1>4, <1>6 DEF SpsUsers

\* The FIFOs in the pipe memory, when one connection changes.
SpsFifos(cn) == {f \in {m \in S!Maps : cn[m].refs > 0} \X (1 .. 2) : f[2] <= cn[f[1]].mem}
SpsHeld(x) == IF x.refs > 0 THEN x.mem ELSE 0
SpsFifosOf(m, k) == {f \in {m} \X (1 .. 2) : f[2] <= k}

\* A connection that holds k FIFOs holds k.
LEMMA SpsFifoCount ==
  ASSUME NEW m, NEW k \in 0 .. 2
  PROVE  IsFiniteSet(SpsFifosOf(m, k)) /\ Cardinality(SpsFifosOf(m, k)) = k
<1>1. CASE k = 0
  <2>1. SpsFifosOf(m, k) = {}
    BY <1>1 DEF SpsFifosOf
  <2> QED BY <1>1, <2>1, FS_EmptySet
<1>2. CASE k = 1
  <2>1. PICK x : x = <<m, 1>>
    OBVIOUS
  <2>2. SpsFifosOf(m, k) = {x}
    BY <1>2, <2>1 DEF SpsFifosOf
  <2>3. IsFiniteSet({x}) /\ Cardinality({x}) = 1
    BY FS_Singleton
  <2> QED BY <1>2, <2>2, <2>3
<1>3. CASE k = 2
  <2>0. <<m, 2>> # <<m, 1>>
    OBVIOUS
  <2>1. PICK x, y : x = <<m, 1>> /\ y = <<m, 2>> /\ y # x
    BY <2>0
  <2>2. SpsFifosOf(m, k) = {x} \cup {y}
    BY <1>3, <2>1 DEF SpsFifosOf
  <2>3. IsFiniteSet({x}) /\ Cardinality({x}) = 1 /\ y \notin {x}
    BY <2>1, FS_Singleton
  <2>4. IsFiniteSet({x} \cup {y}) /\ Cardinality({x} \cup {y}) = Cardinality({x}) + 1
    BY <2>3, FS_AddElement
  <2> QED BY <1>3, <2>2, <2>3, <2>4
<1> QED BY <1>1, <1>2, <1>3

\* What one connection holds more is in use more.
LEMMA SpsFifosChange ==
  ASSUME NEW a \in [S!Maps -> SpsConns], NEW b \in [S!Maps -> SpsConns], NEW m \in S!Maps,
         \A n \in S!Maps : n # m => SpsHeld(a[n]) = SpsHeld(b[n])
  PROVE  /\ Cardinality(SpsFifos(a)) \in Nat /\ Cardinality(SpsFifos(b)) \in Nat
         /\ SpsHeld(a[m]) \in 0 .. 2 /\ SpsHeld(b[m]) \in 0 .. 2
         /\ Cardinality(SpsFifos(a)) + SpsHeld(b[m]) = Cardinality(SpsFifos(b)) + SpsHeld(a[m])
<1>1. ASSUME NEW g \in [S!Maps -> SpsConns], NEW n \in S!Maps, NEW k \in 1 .. 2
      PROVE  SpsHeld(g[n]) \in 0 .. 2 /\ (<<n, k>> \in SpsFifos(g) <=> k <= SpsHeld(g[n]))
  <2>1. g[n].refs \in Nat /\ g[n].mem \in 0 .. 2
    BY DEF SpsConns
  <2>2. <<n, k>> \in SpsFifos(g) <=> g[n].refs > 0 /\ k <= g[n].mem
    BY DEF SpsFifos
  <2> QED BY <2>1, <2>2 DEF SpsHeld
<1>2. PICK rest : rest = {f \in SpsFifos(a) : f[1] # m}
  OBVIOUS
<1>3. \A g \in [S!Maps -> SpsConns] : \A f \in SpsFifos(g) :
        \E n \in S!Maps, k \in 1 .. 2 : f = <<n, k>> /\ f[1] = n /\ f[2] = k
  BY DEF SpsFifos
<1>4. IsFiniteSet(rest)
  <2>1. IsFiniteSet(S!Maps)
    <3>1. PICK l \in Int, h \in Int : l = 1 /\ h = Cardinality(SpsClients)
      BY SpsFacts
    <3>2. IsFiniteSet(l .. h)
      BY FS_Interval
    <3> QED BY <3>1, <3>2, SpsFacts
  <2>2. IsFiniteSet(1 .. 2)
    <3>1. 1 .. 2 = {1} \cup {2}
      OBVIOUS
    <3>2. IsFiniteSet({1})
      BY FS_Singleton
    <3> QED BY <3>1, <3>2, FS_AddElement
  <2>3. IsFiniteSet(S!Maps \X (1 .. 2))
    BY <2>1, <2>2, FS_Product
  <2>4. rest \subseteq S!Maps \X (1 .. 2)
    BY <1>2, <1>3
  <2> QED BY <2>3, <2>4, FS_Subset
<1>5. ASSUME NEW g \in [S!Maps -> SpsConns], NEW h \in 0 .. 2, h = SpsHeld(g[m]),
             \A n \in S!Maps : n # m => SpsHeld(a[n]) = SpsHeld(g[n])
      PROVE  Cardinality(SpsFifos(g)) \in Nat /\ Cardinality(SpsFifos(g)) = Cardinality(rest) + h
  <2>1. PICK own : own = SpsFifosOf(m, h)
    OBVIOUS
  <2>2. IsFiniteSet(own) /\ Cardinality(own) = h
    BY <2>1, SpsFifoCount
  <2>3. \A f \in own : \E k \in 1 .. 2 : f = <<m, k>> /\ f[1] = m /\ k <= h
    BY <2>1 DEF SpsFifosOf
  <2>4. own \cap rest = {}
    BY <1>2, <2>3
  <2>5. ASSUME NEW f \in SpsFifos(g) PROVE f \in own \cup rest
    <3>1. PICK n \in S!Maps, k \in 1 .. 2 : f = <<n, k>> /\ f[1] = n
      BY <1>3
    <3>2. k <= SpsHeld(g[n])
      BY <1>1, <3>1
    <3>3. CASE n = m
      BY <1>5, <2>1, <3>1, <3>2, <3>3 DEF SpsFifosOf
    <3>4. CASE n # m
      <4>1. k <= SpsHeld(a[n])
        BY <1>5, <3>2, <3>4
      <4>2. <<n, k>> \in SpsFifos(a)
        BY <1>1, <4>1
      <4> QED BY <1>2, <3>1, <3>4, <4>2
    <3> QED BY <3>3, <3>4
  <2>6. ASSUME NEW f \in own PROVE f \in SpsFifos(g)
    <3>1. PICK k \in 1 .. 2 : f = <<m, k>> /\ k <= h
      BY <2>3
    <3> QED BY <1>1, <1>5, <3>1
  <2>7. ASSUME NEW f \in rest PROVE f \in SpsFifos(g)
    <3>1. PICK n \in S!Maps, k \in 1 .. 2 : f = <<n, k>> /\ f[1] = n /\ f \in SpsFifos(a) /\ n # m
      BY <1>2, <1>3
    <3>2. k <= SpsHeld(a[n])
      BY <1>1, <3>1
    <3>3. k <= SpsHeld(g[n])
      BY <1>5, <3>1, <3>2
    <3> QED BY <1>1, <3>1, <3>3
  <2>8. SpsFifos(g) = own \cup rest
    BY <2>5, <2>6, <2>7
  <2>9. Cardinality(own \cup rest) = Cardinality(own) + Cardinality(rest) - Cardinality(own \cap rest)
    BY <1>4, <2>2, FS_Union
  <2>10. Cardinality(own \cap rest) = 0 /\ Cardinality(rest) \in Nat
    BY <1>4, <2>4, FS_EmptySet, FS_CardinalityType
  <2>11. PICK z \in Nat : z = Cardinality(rest)
    BY <2>10
  <2>12. Cardinality(SpsFifos(g)) = h + z - 0
    BY <2>2, <2>8, <2>9, <2>10, <2>11
  <2> QED BY <2>11, <2>12
<1>6. PICK i \in 0 .. 2, j \in 0 .. 2 : i = SpsHeld(a[m]) /\ j = SpsHeld(b[m])
  <2>1. PICK k \in 1 .. 2 : k = 1
    OBVIOUS
  <2>2. SpsHeld(a[m]) \in 0 .. 2 /\ SpsHeld(b[m]) \in 0 .. 2
    BY <1>1
  <2> QED BY <2>2
<1>7. Cardinality(SpsFifos(a)) \in Nat /\ Cardinality(SpsFifos(a)) = Cardinality(rest) + i
  BY <1>5, <1>6
<1>8. Cardinality(SpsFifos(b)) \in Nat /\ Cardinality(SpsFifos(b)) = Cardinality(rest) + j
  BY <1>5, <1>6
<1>9. PICK z \in Nat : z = Cardinality(rest)
  BY <1>4, FS_CardinalityType
<1> QED BY <1>6, <1>7, <1>8, <1>9

\* sps_alloc_endpoint(), sps_free_endpoint(): only of end points without a connection.
LEMMA SpsEndpointStep ==
  ASSUME SpsInv, NEW c \in SpsClients, S!AllocEndpoint(c) \/ S!FreeEndpoint(c)
  PROVE  SpsInv'
<1>1. PICK v \in {"none", "DISCONNECT"} : sEp' = [sEp EXCEPT ![c] = v]
  BY DEF S!AllocEndpoint, S!FreeEndpoint
<1>2. UNCHANGED <<sBams, sBamOn, sPhase, sReq, sMapOf, sConn, sPipes, sMem>>
  BY DEF S!AllocEndpoint, S!FreeEndpoint
<1>3. sEp[c] \in {"none", "DISCONNECT"} /\ sMapOf[c] = 0 /\ sEp \in [SpsClients -> S!States]
  BY DEF S!AllocEndpoint, S!FreeEndpoint, SpsInv, SpsWhere, SpsType
<1>4. sEp'[c] = v /\ \A d \in SpsClients : d # c => sEp'[d] = sEp[d]
  BY <1>1, <1>3
<1>5. SpsType'
  <2>1. sEp' \in [SpsClients -> S!States]
    BY <1>1, <1>3 DEF S!States
  <2> QED BY <1>2, <2>1 DEF SpsInv, SpsType
<1>6. SpsWhere'
  <2>1. sPhase[c] # "connecting" /\ sPhase[c] # "disconnecting"
    BY <1>3 DEF SpsInv, SpsWhere
  <2> QED BY <1>2, <1>3, <1>4, <2>1 DEF SpsInv, SpsWhere
<1>7. \A d \in SpsClients : SpsMine(d)' = SpsMine(d)
  BY <1>2 DEF SpsMine, S!OwnEnd
<1>8. SpsMapped'
  BY <1>2, <1>3, <1>4, <1>7 DEF SpsInv, SpsMapped, S!Owner
<1>9. SpsOwners'
  <2>1. ASSUME NEW m \in S!Maps, NEW d \in SpsClients, sMapOf[d] = m PROVE d # c
    BY <1>3, <2>1, SpsFacts
  <2>2. \A m \in S!Maps : sConn[m].csrc \in SpsClients \cup {NONE} /\ sConn[m].cdst \in SpsClients \cup {NONE}
    BY SpsFields DEF SpsInv
  <2> QED BY <1>2, <1>4, <2>1, <2>2 DEF SpsInv, SpsOwners
<1>10. SpsTaken'
  <2>1. \A d \in SpsClients : sEp[d] = "ENABLE" <=> sEp'[d] = "ENABLE"
    BY <1>3, <1>4
  <2> QED BY <1>2, <1>7, <2>1 DEF SpsInv, SpsTaken
<1>11. SpsEnds' /\ SpsCounts' /\ SpsMemory'
  BY <1>2 DEF SpsInv, SpsEnds, SpsEnd, SpsCounts, SpsMemory, S!FifosInUse, S!Linked
<1> QED BY <1>5, <1>6, <1>8, <1>9, <1>10, <1>11 DEF SpsInv

\* sps_connect() that fails in the hardware.
LEMMA SpsFailStep ==
  ASSUME SpsInv, NEW c \in SpsClients, S!ConnectFails(c)
  PROVE  SpsInv'
<1>1. /\ sPhase[c] = "connecting" /\ sPhase' = [sPhase EXCEPT ![c] = "idle"]
      /\ UNCHANGED <<sBams, sBamOn, sEp, sReq, sMapOf, sConn, sPipes, sMem>>
  BY DEF S!ConnectFails
<1>2. SpsType'
  BY <1>1 DEF SpsInv, SpsType
<1>3. sPhase'[c] = "idle" /\ \A d \in SpsClients : d # c => sPhase'[d] = sPhase[d]
  BY <1>1 DEF SpsInv, SpsType
<1>4. SpsWhere'
  BY <1>1, <1>3 DEF SpsInv, SpsWhere
<1>5. SpsMapped' /\ SpsOwners' /\ SpsTaken'
  BY <1>1 DEF SpsInv, SpsMapped, SpsOwners, SpsTaken, SpsMine, S!OwnEnd, S!Owner
<1>6. SpsEnds' /\ SpsCounts' /\ SpsMemory'
  BY <1>1 DEF SpsInv, SpsEnds, SpsEnd, SpsCounts, SpsMemory, S!FifosInUse, S!Linked
<1> QED BY <1>2, <1>4, <1>5, <1>6 DEF SpsInv

\* BAMs come, go and are reset.
LEMMA SpsBamStep ==
  ASSUME SpsInv, NEW b \in Bams, S!RegisterBam(b) \/ S!DeregisterBam(b) \/ S!DeviceReset(b)
  PROVE  SpsInv'
<1>1. UNCHANGED <<sEp, sPhase, sReq, sMapOf, sConn, sPipes, sMem>>
  BY DEF S!RegisterBam, S!DeregisterBam, S!DeviceReset
<1>2. sBams \subseteq Bams /\ sBamOn \subseteq sBams
  BY DEF SpsInv, SpsType
<1>3. sBams' \subseteq Bams /\ sBamOn' \subseteq sBams'
  BY <1>2 DEF S!RegisterBam, S!DeregisterBam, S!DeviceReset
<1>4. SpsType'
  BY <1>1, <1>3 DEF SpsInv, SpsType
<1>5. ASSUME NEW c \in SpsClients, sPhase[c] = "connecting" PROVE FALSE
  BY <1>5 DEF S!RegisterBam, S!DeregisterBam, S!DeviceReset, S!Connecting
<1>6. SpsWhere'
  BY <1>1, <1>5 DEF SpsInv, SpsWhere
<1>7. \A c \in SpsClients : SpsMine(c)' = SpsMine(c)
  BY <1>1 DEF SpsMine, S!OwnEnd
<1>8. ASSUME NEW c \in SpsClients, sEp[c] = "ENABLE" PROVE SpsMine(c)[1] \in sBamOn'
  <2>1. SpsMine(c) \in SpsPipes /\ sPipes[SpsMine(c)] = c /\ SpsMine(c)[1] \in sBamOn
    BY <1>8 DEF SpsInv, SpsTaken
  <2>2. PICK a \in Bams, i \in S!Idx : SpsMine(c) = <<a, i>> /\ SpsMine(c)[1] = a
    BY <2>1 DEF SpsPipes
  <2>3. c # NONE
    BY SpsAssumption
  <2>4. S!DeregisterBam(b) => a # b
    BY <2>1, <2>2, <2>3 DEF S!DeregisterBam
  <2> QED BY <2>1, <2>2, <2>4 DEF S!RegisterBam, S!DeregisterBam, S!DeviceReset
<1>9. SpsTaken'
  BY <1>1, <1>7, <1>8 DEF SpsInv, SpsTaken
<1>10. SpsMapped' /\ SpsOwners'
  BY <1>1, <1>7 DEF SpsInv, SpsMapped, SpsOwners, S!Owner
<1>11. SpsEnds' /\ SpsCounts' /\ SpsMemory'
  BY <1>1 DEF SpsInv, SpsEnds, SpsEnd, SpsCounts, SpsMemory, S!FifosInUse, S!Linked
<1> QED BY <1>4, <1>6, <1>9, <1>10, <1>11 DEF SpsInv

\* sps_connect() joins a half-open connection.
LEMMA SpsJoinStep ==
  ASSUME SpsInv, NEW c \in SpsClients, NEW r \in SomeRequests, S!ConnectJoin(c, r)
  PROVE  SpsInv'
<1>1. PICK m \in S!Maps :
        /\ m \in S!HalfOpen(r)
        /\ sConn' = [sConn EXCEPT ![m] = S!Assigned(sConn[m], c, r)]
        /\ sMapOf' = [sMapOf EXCEPT ![c] = m]
  <2>1. S!HalfOpen(r) # {} /\ S!HalfOpen(r) \subseteq S!Maps
    BY DEF S!ConnectJoin, S!HalfOpen, S!Linked
  <2>2. S!HalfOpen(r) \in SUBSET Nat
    BY <2>1, SpsFacts
  <2>3. PICK m : m = S!Min(S!HalfOpen(r))
    OBVIOUS
  <2>4. m \in S!HalfOpen(r)
    BY <2>1, <2>2, <2>3, SpsLibrary
  <2>5. sConn' = [sConn EXCEPT ![m] = S!Assigned(sConn[m], c, r)] /\ sMapOf' = [sMapOf EXCEPT ![c] = m]
    BY <2>3 DEF S!ConnectJoin
  <2> QED BY <2>1, <2>4, <2>5
<1>2. /\ sEp[c] = "DISCONNECT" /\ sPhase[c] = "idle" /\ S!DevOf(r) \in sBams
      /\ \A d \in SpsClients : sPhase[d] # "idle" => S!DevOf(sReq[d]) # S!DevOf(r)
      /\ sReq' = [sReq EXCEPT ![c] = r] /\ sEp' = [sEp EXCEPT ![c] = "ALLOCATE"]
      /\ sPhase' = [sPhase EXCEPT ![c] = "connecting"]
      /\ UNCHANGED <<sBams, sBamOn, sPipes, sMem>>
  BY DEF S!ConnectJoin, S!StartConnect, S!Locked
<1>3. sConn[m].refs > 0 /\ S!Matches(r, m) /\ S!Owner(r, m) = NONE
  BY <1>1 DEF S!HalfOpen, S!Linked
<1>4. /\ sEp \in [SpsClients -> S!States] /\ sReq \in [SpsClients -> SomeRequests]
      /\ sPhase \in [SpsClients -> {"idle", "connecting", "disconnecting"}]
      /\ sMapOf \in [SpsClients -> S!Maps \cup {0}] /\ sConn \in [S!Maps -> SpsConns] /\ SpsType
  BY DEF SpsInv, SpsType
<1>5. /\ sConn[m] \in SpsConns /\ sConn[m].refs \in Nat /\ sConn[m].mem \in 0 .. 2
      /\ sConn[m].src \in S!Ends /\ sConn[m].dst \in S!Ends
      /\ sConn[m].csrc \in SpsClients \cup {NONE} /\ sConn[m].cdst \in SpsClients \cup {NONE}
  BY <1>4, SpsFields
<1>6. sMapOf[c] = 0 /\ 0 \notin S!Maps
  BY <1>2, SpsFacts DEF SpsInv, SpsWhere
<1>7. PICK x \in SpsConns :
        /\ x = sConn'[m] /\ x.refs = sConn[m].refs + 1 /\ x.mem = sConn[m].mem
        /\ x.src = sConn[m].src /\ x.dst = sConn[m].dst
        /\ x.csrc = (IF r.mode = "SRC" THEN c ELSE sConn[m].csrc)
        /\ x.cdst = (IF r.mode = "SRC" THEN sConn[m].cdst ELSE c)
  <2>1. PICK x : x = S!Assigned(sConn[m], c, r)
    OBVIOUS
  <2>2. sConn'[m] = x
    BY <1>1, <1>4, <2>1
  <2>3. x = IF r.mode = "SRC" THEN [sConn[m] EXCEPT !.csrc = c, !.refs = sConn[m].refs + 1]
                              ELSE [sConn[m] EXCEPT !.cdst = c, !.refs = sConn[m].refs + 1]
    BY <2>1 DEF S!Assigned
  <2>4. x \in SpsConns
    <3>1. PICK k \in Nat : k = sConn[m].refs + 1
      BY <1>5
    <3>2. CASE r.mode = "SRC"
      BY <1>5, <2>3, <3>1, <3>2 DEF SpsConns
    <3>3. CASE r.mode # "SRC"
      BY <1>5, <2>3, <3>1, <3>3 DEF SpsConns
    <3> QED BY <3>2, <3>3
  <2>5. /\ x.refs = sConn[m].refs + 1 /\ x.mem = sConn[m].mem
        /\ x.src = sConn[m].src /\ x.dst = sConn[m].dst
        /\ x.csrc = (IF r.mode = "SRC" THEN c ELSE sConn[m].csrc)
        /\ x.cdst = (IF r.mode = "SRC" THEN sConn[m].cdst ELSE c)
    BY <1>5, <2>3 DEF SpsConns
  <2> QED BY <2>2, <2>4, <2>5
<1>8. \A n \in S!Maps : n # m => sConn'[n] = sConn[n]
  BY <1>1, <1>4
<1>9. \A n \in S!Maps : sConn'[n].src = sConn[n].src /\ sConn'[n].dst = sConn[n].dst
  BY <1>7, <1>8
<1>10. /\ sEp'[c] = "ALLOCATE" /\ sPhase'[c] = "connecting" /\ sReq'[c] = r /\ sMapOf'[c] = m
       /\ \A d \in SpsClients : d # c => /\ sEp'[d] = sEp[d] /\ sPhase'[d] = sPhase[d]
                                         /\ sReq'[d] = sReq[d] /\ sMapOf'[d] = sMapOf[d]
  BY <1>1, <1>2, <1>4
<1>11. SpsType'
  <2>1. sConn' \in [S!Maps -> SpsConns]
    BY <1>1, <1>4, <1>7, <1>8
  <2>2. sEp' \in [SpsClients -> S!States] /\ sReq' \in [SpsClients -> SomeRequests]
        /\ sPhase' \in [SpsClients -> {"idle", "connecting", "disconnecting"}]
        /\ sMapOf' \in [SpsClients -> S!Maps \cup {0}]
    BY <1>1, <1>2, <1>4 DEF S!States
  <2> QED BY <1>2, <2>1, <2>2 DEF SpsInv, SpsType
<1>12. SpsWhere'
  BY <1>2, <1>6, <1>10 DEF SpsInv, SpsWhere
<1>13. S!OwnEnd(r, m) # NONE /\ S!OwnEnd(r, m)[1] = S!DevOf(r) /\ S!DevOf(r) = S!Dev(S!OwnEnd(r, m))
  <2>1. S!DevOf(r) = S!Dev(S!OwnEnd(r, m))
    BY <1>3 DEF S!Matches, S!DevOf, S!OwnEnd
  <2>2. S!DevOf(r) \in Bams
    BY SpsFacts
  <2>3. S!OwnEnd(r, m) # NONE
    BY <2>1, <2>2, SpsAssumption DEF S!Dev
  <2> QED BY <2>1, <2>3 DEF S!Dev
<1>14. \A d \in SpsClients : d # c /\ sMapOf[d] # 0 => SpsMine(d)' = SpsMine(d)
  <2>1. \A d \in SpsClients : sMapOf[d] # 0 => sMapOf[d] \in S!Maps
    BY <1>4
  <2> QED BY <1>9, <1>10, <2>1 DEF SpsMine, S!OwnEnd
<1>15. SpsMine(c)' = S!OwnEnd(r, m)
  BY <1>9, <1>10 DEF SpsMine, S!OwnEnd
<1>16. ASSUME NEW d \in SpsClients, d # c, sMapOf[d] = m, sReq[d].mode = "SRC" <=> r.mode = "SRC"
       PROVE  FALSE
  <2>1. S!Owner(sReq[d], m) = NONE /\ SpsMine(d) = S!OwnEnd(r, m)
    BY <1>3, <1>16 DEF S!Owner, SpsMine, S!OwnEnd
  <2>2. d # NONE
    BY SpsAssumption
  <2>3. sEp[d] = "CONNECT" /\ SpsMine(d)[1] = S!DevOf(sReq[d])
    BY <1>6, <1>16, <2>1, <2>2 DEF SpsInv, SpsMapped
  <2>4. sPhase[d] = "disconnecting"
    BY <2>3 DEF SpsInv, SpsWhere
  <2>5. S!DevOf(sReq[d]) # S!DevOf(r)
    BY <1>2, <2>4
  <2> QED BY <1>13, <2>1, <2>3, <2>5
<1>17. SpsMapped'
  <2>1. ASSUME NEW d \in SpsClients, d # c, sMapOf[d] # 0
        PROVE  S!Owner(sReq[d], sMapOf[d])' = S!Owner(sReq[d], sMapOf[d])
    <3>1. CASE sMapOf[d] = m
      <4>1. ~(sReq[d].mode = "SRC" <=> r.mode = "SRC")
        BY <1>16, <2>1, <3>1
      <4> QED BY <1>7, <1>10, <2>1, <3>1, <4>1 DEF S!Owner
    <3>2. CASE sMapOf[d] # m
      <4>1. sMapOf[d] \in S!Maps
        BY <1>4, <2>1
      <4> QED BY <1>8, <1>10, <2>1, <3>2, <4>1 DEF S!Owner
    <3> QED BY <3>1, <3>2
  <2>2. S!Owner(sReq[c], sMapOf[c])' = c
    BY <1>7, <1>10 DEF S!Owner
  <2>3. ASSUME NEW d \in SpsClients, sMapOf'[d] # 0
        PROVE  /\ SpsMine(d)' # NONE /\ SpsMine(d)'[1] = S!DevOf(sReq'[d])
               /\ S!Owner(sReq[d], sMapOf[d])' = IF sEp'[d] = "CONNECT" THEN NONE ELSE d
    <3>1. CASE d = c
      BY <1>10, <1>13, <1>15, <2>2, <3>1
    <3>2. CASE d # c
      BY <1>10, <1>14, <2>1, <2>3, <3>2 DEF SpsInv, SpsMapped
    <3> QED BY <3>1, <3>2
  <2> QED BY <2>3 DEF SpsMapped, S!DevOf
<1>18. SpsOwners'
  <2>1. \A n \in S!Maps, d \in SpsClients : sMapOf[d] = n => d # c
    BY <1>6
  <2>2. ASSUME NEW n \in S!Maps, sConn[n].csrc # NONE
        PROVE  /\ sMapOf'[sConn[n].csrc] = n /\ sEp'[sConn[n].csrc] # "CONNECT"
               /\ sReq'[sConn[n].csrc].mode = "SRC"
    <3>1. sConn[n].csrc \in SpsClients
      BY <1>4, <2>2, SpsFields
    <3> QED BY <1>10, <2>1, <2>2, <3>1 DEF SpsInv, SpsOwners
  <2>3. ASSUME NEW n \in S!Maps, sConn[n].cdst # NONE
        PROVE  /\ sMapOf'[sConn[n].cdst] = n /\ sEp'[sConn[n].cdst] # "CONNECT"
               /\ sReq'[sConn[n].cdst].mode # "SRC"
    <3>1. sConn[n].cdst \in SpsClients
      BY <1>4, <2>3, SpsFields
    <3> QED BY <1>10, <2>1, <2>3, <3>1 DEF SpsInv, SpsOwners
  <2>4. sMapOf'[c] = m /\ sEp'[c] # "CONNECT" /\ sReq'[c].mode = r.mode
    BY <1>10
  <2> QED BY <1>7, <1>8, <2>2, <2>3, <2>4 DEF SpsOwners
<1>19. SpsEnds'
  <2>1. \A n \in S!Maps, e \in SpsPipes : SpsEnd(n, e)' <=> SpsEnd(n, e)
    BY <1>9 DEF SpsEnd
  <2>2. \A n \in S!Maps : sConn'[n].refs = 0 => sConn'[n] = S!NoConn
    BY <1>5, <1>7, <1>8 DEF SpsInv, SpsEnds
  <2> QED BY <1>2, <2>1, <2>2 DEF SpsInv, SpsEnds, S!NoConn
<1>20. SpsTaken'
  <2>1. \A d \in SpsClients : sEp[d] = "ENABLE" => d # c /\ sMapOf[d] # 0
    BY <1>2 DEF SpsInv, SpsWhere
  <2>2. \A d \in SpsClients : sEp[d] = "ENABLE" => SpsMine(d)' = SpsMine(d) /\ sEp'[d] = "ENABLE"
    BY <1>10, <1>14, <2>1
  <2>3. \A d \in SpsClients : sEp'[d] = "ENABLE" => sEp[d] = "ENABLE"
    BY <1>10
  <2> QED BY <1>2, <2>2, <2>3 DEF SpsInv, SpsTaken
<1>21. SpsCounts'
  <2>1. /\ Cardinality(SpsUsers(sMapOf', m)) = Cardinality(SpsUsers(sMapOf, m)) + 1
        /\ \A n \in S!Maps : n # m => SpsUsers(sMapOf', n) = SpsUsers(sMapOf, n)
    <3>1. sMapOf' \in [SpsClients -> S!Maps \cup {0}]
      BY <1>11 DEF SpsType
    <3> QED BY <1>4, <1>6, <1>10, <3>1, SpsOneMore
  <2>2. sConn'[m].refs = Cardinality(SpsUsers(sMapOf', m))
    BY <1>7, <2>1 DEF SpsInv, SpsCounts
  <2>3. \A n \in S!Maps : n # m => sConn'[n].refs = Cardinality(SpsUsers(sMapOf', n))
    BY <1>8, <2>1 DEF SpsInv, SpsCounts
  <2> QED BY <2>2, <2>3 DEF SpsCounts
<1>22. SpsMemory'
  <2>1. S!FifosInUse' = S!FifosInUse
    <3>1. \A n \in S!Maps : (sConn'[n].refs > 0 <=> sConn[n].refs > 0) /\ sConn'[n].mem = sConn[n].mem
      BY <1>3, <1>5, <1>7, <1>8
    <3> QED BY <3>1 DEF S!FifosInUse, S!Linked
  <2> QED BY <1>2, <2>1 DEF SpsInv, SpsMemory
<1> QED BY <1>11, <1>12, <1>17, <1>18, <1>19, <1>20, <1>21, <1>22 DEF SpsInv

\* sps_connect() goes on: the pipe becomes the client's.
LEMMA SpsConnectPipeStep ==
  ASSUME SpsInv, NEW c \in SpsClients, S!ConnectPipe(c)
  PROVE  SpsInv'
<1>1. PICK e : e = SpsMine(c)
  OBVIOUS
<1>2. /\ sPhase[c] = "connecting" /\ e[2] # 0 /\ sPipes[e] = "UNASSIGNED"
      /\ sPipes' = [sPipes EXCEPT ![e] = c] /\ sBamOn' = sBamOn \cup {e[1]}
      /\ sEp' = [sEp EXCEPT ![c] = "ENABLE"] /\ sPhase' = [sPhase EXCEPT ![c] = "idle"]
      /\ UNCHANGED <<sBams, sReq, sMapOf, sConn, sMem>>
  BY <1>1 DEF S!ConnectPipe, S!Connectable, S!TakenBy, S!Enabled, S!INVALID, SpsMine
<1>3. SpsType /\ sEp[c] = "ALLOCATE" /\ S!DevOf(sReq[c]) \in sBams /\ sMapOf[c] # 0
  BY <1>2 DEF SpsInv, SpsWhere
<1>4. sMapOf[c] \in S!Maps /\ e \in S!Ends /\ e # NONE /\ e[1] = S!DevOf(sReq[c])
  BY <1>1, <1>3, SpsMineType DEF SpsInv, SpsMapped
<1>5. e \in SpsPipes
  BY <1>2, <1>4, SpsEndType
<1>6. /\ sEp'[c] = "ENABLE" /\ sPhase'[c] = "idle" /\ sPipes'[e] = c
      /\ \A d \in SpsClients : d # c => sEp'[d] = sEp[d] /\ sPhase'[d] = sPhase[d]
      /\ \A f \in SpsPipes : f # e => sPipes'[f] = sPipes[f]
  BY <1>2, <1>3, <1>5 DEF SpsType
<1>7. SpsType'
  <2>1. sEp' \in [SpsClients -> S!States] /\ sPhase' \in [SpsClients -> {"idle", "connecting", "disconnecting"}]
    BY <1>2, <1>3 DEF SpsType, S!States
  <2>2. sPipes' \in [SpsPipes -> SpsClients \cup {NONE, "UNASSIGNED"}]
    BY <1>2, <1>3 DEF SpsType
  <2>3. sBamOn' \subseteq sBams
    BY <1>2, <1>3, <1>4 DEF SpsType
  <2> QED BY <1>2, <1>3, <2>1, <2>2, <2>3 DEF SpsType
<1>8. SpsWhere'
  BY <1>2, <1>3, <1>6 DEF SpsInv, SpsWhere
<1>9. \A d \in SpsClients : SpsMine(d)' = SpsMine(d)
  BY <1>2 DEF SpsMine, S!OwnEnd
<1>10. \A d \in SpsClients : sEp'[d] = "CONNECT" <=> sEp[d] = "CONNECT"
  BY <1>3, <1>6
<1>11. SpsMapped'
  BY <1>2, <1>9, <1>10 DEF SpsInv, SpsMapped, S!Owner
<1>12. SpsOwners'
  <2>1. \A m \in S!Maps : sConn[m].csrc \in SpsClients \cup {NONE} /\ sConn[m].cdst \in SpsClients \cup {NONE}
    BY <1>3, SpsFields
  <2> QED BY <1>2, <1>10, <2>1 DEF SpsInv, SpsOwners
<1>13. SpsEnds'
  <2>1. \A f \in SpsPipes : sPipes'[f] = NONE <=> sPipes[f] = NONE
    BY <1>2, <1>6, SpsAssumption
  <2>2. \A m \in S!Maps, f \in SpsPipes : SpsEnd(m, f)' <=> SpsEnd(m, f)
    BY <1>2 DEF SpsEnd
  <2> QED BY <1>2, <2>1, <2>2 DEF SpsInv, SpsEnds, S!NoConn
<1>14. SpsTaken'
  <2>1. ASSUME NEW f \in SpsPipes, NEW d \in SpsClients, sPipes'[f] = d
        PROVE  sEp'[d] = "ENABLE" /\ f = SpsMine(d)'
    <3>1. CASE f = e
      BY <1>1, <1>6, <1>9, <2>1, <3>1
    <3>2. CASE f # e
      BY <1>3, <1>6, <1>9, <2>1, <3>2 DEF SpsInv, SpsTaken
    <3> QED BY <3>1, <3>2
  <2>2. ASSUME NEW d \in SpsClients, sEp'[d] = "ENABLE"
        PROVE  SpsMine(d)' \in SpsPipes /\ sPipes'[SpsMine(d)'] = d /\ SpsMine(d)'[1] \in sBamOn'
    <3>1. CASE d = c
      BY <1>1, <1>2, <1>5, <1>6, <1>9, <3>1
    <3>2. CASE d # c
      <4>1. SpsMine(d) \in SpsPipes /\ sPipes[SpsMine(d)] = d /\ SpsMine(d)[1] \in sBamOn
        BY <1>6, <2>2, <3>2 DEF SpsInv, SpsTaken
      <4>2. SpsMine(d) # e
        BY <1>2, <4>1, SpsAssumption
      <4> QED BY <1>2, <1>6, <1>9, <4>1, <4>2
    <3> QED BY <3>1, <3>2
  <2> QED BY <2>1, <2>2 DEF SpsTaken
<1>15. SpsCounts' /\ SpsMemory'
  BY <1>2 DEF SpsInv, SpsCounts, SpsMemory, S!FifosInUse, S!Linked
<1> QED BY <1>7, <1>8, <1>11, <1>12, <1>13, <1>14, <1>15 DEF SpsInv

\* sps_disconnect() gives the pipe and the end of the connection up.
LEMMA SpsDisconnectPipeStep ==
  ASSUME SpsInv, NEW c \in SpsClients, S!DisconnectPipe(c)
  PROVE  SpsInv'
<1>1. PICK e, m, r : e = SpsMine(c) /\ m = sMapOf[c] /\ r = sReq[c]
  OBVIOUS
<1>2. /\ sEp[c] = "ENABLE" /\ sPhase[c] = "idle" /\ S!Owner(r, m) = c
      /\ sPipes' = [sPipes EXCEPT ![e] = "UNASSIGNED"]
      /\ sEp' = [sEp EXCEPT ![c] = "CONNECT"] /\ sPhase' = [sPhase EXCEPT ![c] = "disconnecting"]
      /\ sConn' = [sConn EXCEPT ![m] = S!Vacated(sConn[m], r)]
      /\ UNCHANGED <<sBams, sBamOn, sReq, sMapOf, sMem>>
  BY <1>1 DEF S!DisconnectPipe, S!TakenBack, SpsMine
<1>3. SpsType /\ m # 0 /\ m \in S!Maps /\ r \in SomeRequests /\ sConn \in [S!Maps -> SpsConns]
  BY <1>1, <1>2, SpsMineType DEF SpsInv, SpsWhere, SpsType
<1>4. e \in SpsPipes /\ sPipes[e] = c
  BY <1>1, <1>2 DEF SpsInv, SpsTaken
<1>5. /\ sEp'[c] = "CONNECT" /\ sPhase'[c] = "disconnecting" /\ sPipes'[e] = "UNASSIGNED"
      /\ \A d \in SpsClients : d # c => sEp'[d] = sEp[d] /\ sPhase'[d] = sPhase[d]
      /\ \A f \in SpsPipes : f # e => sPipes'[f] = sPipes[f]
  BY <1>2, <1>3, <1>4 DEF SpsType
<1>6. /\ sConn[m] \in SpsConns /\ sConn[m].refs \in Nat /\ sConn[m].mem \in 0 .. 2
      /\ sConn[m].src \in S!Ends /\ sConn[m].dst \in S!Ends
      /\ sConn[m].csrc \in SpsClients \cup {NONE} /\ sConn[m].cdst \in SpsClients \cup {NONE}
  BY <1>3, SpsFields
<1>7. PICK x \in SpsConns :
        /\ x = sConn'[m] /\ x.refs = sConn[m].refs /\ x.mem = sConn[m].mem
        /\ x.src = sConn[m].src /\ x.dst = sConn[m].dst
        /\ x.csrc = (IF r.mode = "SRC" THEN NONE ELSE sConn[m].csrc)
        /\ x.cdst = (IF r.mode = "SRC" THEN sConn[m].cdst ELSE NONE)
  <2>1. PICK x : x = S!Vacated(sConn[m], r)
    OBVIOUS
  <2>2. sConn'[m] = x
    BY <1>2, <1>3, <2>1
  <2>3. x = IF r.mode = "SRC" THEN [sConn[m] EXCEPT !.csrc = NONE] ELSE [sConn[m] EXCEPT !.cdst = NONE]
    BY <2>1 DEF S!Vacated
  <2>4. x \in SpsConns
    BY <1>6, <2>3 DEF SpsConns
  <2>5. /\ x.refs = sConn[m].refs /\ x.mem = sConn[m].mem
        /\ x.src = sConn[m].src /\ x.dst = sConn[m].dst
        /\ x.csrc = (IF r.mode = "SRC" THEN NONE ELSE sConn[m].csrc)
        /\ x.cdst = (IF r.mode = "SRC" THEN sConn[m].cdst ELSE NONE)
    BY <1>6, <2>3 DEF SpsConns
  <2> QED BY <2>2, <2>4, <2>5
<1>8. \A n \in S!Maps : n # m => sConn'[n] = sConn[n]
  BY <1>2, <1>3
<1>9. \A n \in S!Maps : /\ sConn'[n].src = sConn[n].src /\ sConn'[n].dst = sConn[n].dst
                        /\ sConn'[n].refs = sConn[n].refs /\ sConn'[n].mem = sConn[n].mem
  BY <1>7, <1>8
<1>10. SpsType'
  <2>1. sEp' \in [SpsClients -> S!States] /\ sPhase' \in [SpsClients -> {"idle", "connecting", "disconnecting"}]
    BY <1>2, <1>3 DEF SpsType, S!States
  <2>2. sPipes' \in [SpsPipes -> SpsClients \cup {NONE, "UNASSIGNED"}]
    BY <1>2, <1>3 DEF SpsType
  <2>3. sConn' \in [S!Maps -> SpsConns]
    BY <1>2, <1>3, <1>7, <1>8
  <2> QED BY <1>2, <1>3, <2>1, <2>2, <2>3 DEF SpsType
<1>11. SpsWhere'
  BY <1>1, <1>2, <1>3, <1>5 DEF SpsInv, SpsWhere
<1>12. \A d \in SpsClients : sMapOf[d] # 0 => sMapOf[d] \in S!Maps /\ SpsMine(d)' = SpsMine(d)
  <2>1. \A d \in SpsClients : sMapOf[d] # 0 => sMapOf[d] \in S!Maps
    BY <1>3 DEF SpsType
  <2> QED BY <1>2, <1>9, <2>1 DEF SpsMine, S!OwnEnd
<1>13. SpsMapped'
  <2>1. S!Owner(sReq[c], sMapOf[c])' = NONE
    BY <1>1, <1>2, <1>7 DEF S!Owner
  <2>2. ASSUME NEW d \in SpsClients, d # c, sMapOf[d] # 0
        PROVE  S!Owner(sReq[d], sMapOf[d])' = S!Owner(sReq[d], sMapOf[d])
    <3>1. CASE sMapOf[d] # m
      BY <1>2, <1>8, <1>12, <2>2, <3>1 DEF S!Owner
    <3>2. CASE sMapOf[d] = m /\ ~(sReq[d].mode = "SRC" <=> r.mode = "SRC")
      BY <1>2, <1>7, <3>2 DEF S!Owner
    <3>3. CASE sMapOf[d] = m /\ (sReq[d].mode = "SRC" <=> r.mode = "SRC")
      <4>1. S!Owner(sReq[d], sMapOf[d]) = c
        BY <1>2, <3>3 DEF S!Owner
      <4>2. c # NONE
        BY SpsAssumption
      <4> QED BY <2>2, <4>1, <4>2 DEF SpsInv, SpsMapped
    <3> QED BY <3>1, <3>2, <3>3
  <2>3. ASSUME NEW d \in SpsClients, sMapOf'[d] # 0
        PROVE  /\ SpsMine(d)' # NONE /\ SpsMine(d)'[1] = S!DevOf(sReq'[d])
               /\ S!Owner(sReq[d], sMapOf[d])' = IF sEp'[d] = "CONNECT" THEN NONE ELSE d
    <3>1. sMapOf[d] # 0 /\ SpsMine(d)' = SpsMine(d) /\ sReq'[d] = sReq[d]
      BY <1>2, <1>12, <2>3
    <3>2. CASE d = c
      BY <1>5, <2>1, <3>1, <3>2 DEF SpsInv, SpsMapped
    <3>3. CASE d # c
      BY <1>5, <2>2, <3>1, <3>3 DEF SpsInv, SpsMapped
    <3> QED BY <3>2, <3>3
  <2> QED BY <2>3 DEF SpsMapped, S!DevOf
<1>14. SpsOwners'
  <2>1. \A n \in S!Maps : sConn[n].csrc \in SpsClients \cup {NONE} /\ sConn[n].cdst \in SpsClients \cup {NONE}
    BY <1>3, SpsFields
  <2>2. \A n \in S!Maps : /\ sConn'[n].csrc # NONE => sConn'[n].csrc = sConn[n].csrc /\ sConn[n].csrc # c
                          /\ sConn'[n].cdst # NONE => sConn'[n].cdst = sConn[n].cdst /\ sConn[n].cdst # c
    <3>1. \A n \in S!Maps : n # m => sConn[n].csrc # c /\ sConn[n].cdst # c
      BY <1>1, SpsAssumption DEF SpsInv, SpsOwners
    <3>2. r.mode = "SRC" => sConn[m].cdst # c
      BY <1>1, <1>3, SpsAssumption DEF SpsInv, SpsOwners
    <3>3. r.mode # "SRC" => sConn[m].csrc # c
      BY <1>1, <1>3, SpsAssumption DEF SpsInv, SpsOwners
    <3> QED BY <1>7, <1>8, <3>1, <3>2, <3>3
  <2> QED BY <1>2, <1>5, <2>1, <2>2 DEF SpsInv, SpsOwners
<1>15. SpsEnds'
  <2>1. \A f \in SpsPipes : sPipes'[f] = NONE <=> sPipes[f] = NONE
    BY <1>4, <1>5, SpsAssumption
  <2>2. \A n \in S!Maps, f \in SpsPipes : SpsEnd(n, f)' <=> SpsEnd(n, f)
    BY <1>9 DEF SpsEnd
  <2>3. sConn[m].refs # 0
    <3>1. sConn[m].refs = 0 => sConn[m].csrc = NONE /\ sConn[m].cdst = NONE
      BY <1>3 DEF SpsInv, SpsEnds, S!NoConn
    <3> QED BY <1>2, <3>1, SpsAssumption DEF S!Owner
  <2>4. \A n \in S!Maps : sConn'[n].refs = 0 => sConn'[n] = S!NoConn
    BY <1>8, <1>9, <2>3 DEF SpsInv, SpsEnds
  <2> QED BY <2>1, <2>2, <2>4 DEF SpsInv, SpsEnds, S!NoConn
<1>16. SpsTaken'
  <2>1. ASSUME NEW f \in SpsPipes, NEW d \in SpsClients, sPipes'[f] = d
        PROVE  sEp'[d] = "ENABLE" /\ f = SpsMine(d)'
    <3>1. f # e
      BY <1>5, <2>1, SpsAssumption
    <3>2. d = sPipes[f]
      BY <1>5, <2>1, <3>1
    <3>3. sEp[d] = "ENABLE" /\ f = SpsMine(d)
      BY <3>2 DEF SpsInv, SpsTaken
    <3>4. d # c
      BY <1>1, <3>1, <3>3
    <3>5. sMapOf[d] # 0
      BY <3>3 DEF SpsInv, SpsWhere
    <3>6. SpsMine(d)' = SpsMine(d)
      BY <1>12, <3>5
    <3> QED BY <1>5, <3>3, <3>4, <3>6
  <2>2. ASSUME NEW d \in SpsClients, sEp'[d] = "ENABLE"
        PROVE  SpsMine(d)' \in SpsPipes /\ sPipes'[SpsMine(d)'] = d /\ SpsMine(d)'[1] \in sBamOn'
    <3>1. d # c /\ sEp[d] = "ENABLE"
      BY <1>5, <2>2
    <3>2. SpsMine(d) \in SpsPipes /\ sPipes[SpsMine(d)] = d /\ SpsMine(d)[1] \in sBamOn /\ sMapOf[d] # 0
      BY <3>1 DEF SpsInv, SpsTaken, SpsWhere
    <3>3. SpsMine(d) # e
      BY <1>4, <3>1, <3>2
    <3> QED BY <1>2, <1>5, <1>12, <3>2, <3>3
  <2> QED BY <2>1, <2>2 DEF SpsTaken
<1>17. SpsCounts' /\ SpsMemory'
  <2>1. S!FifosInUse' = S!FifosInUse
    BY <1>9 DEF S!FifosInUse, S!Linked
  <2>2. SpsCounts'
    BY <1>2, <1>9 DEF SpsInv, SpsCounts
  <2> QED BY <1>2, <2>1, <2>2 DEF SpsInv, SpsMemory
<1> QED BY <1>10, <1>11, <1>13, <1>14, <1>15, <1>16, <1>17 DEF SpsInv

\* sps_rm_free(): a client leaves its connection, the last one with everything.
LEMMA SpsDisconnectFreeStep ==
  ASSUME SpsInv, NEW c \in SpsClients, S!DisconnectFree(c)
  PROVE  SpsInv'
<1>1. PICK m, r, a : m = sMapOf[c] /\ r = sReq[c] /\ a = sConn[m]
  OBVIOUS
<1>2. SpsType /\ sPhase[c] = "disconnecting" /\ sEp[c] = "CONNECT" /\ m # 0 /\ m \in S!Maps
  BY <1>1, SpsMineType DEF S!DisconnectFree, SpsInv, SpsWhere
<1>3. /\ a \in SpsConns /\ a.refs \in Nat /\ a.mem \in 0 .. 2
      /\ a.src \in S!Ends /\ a.dst \in S!Ends
      /\ a.csrc \in SpsClients \cup {NONE} /\ a.cdst \in SpsClients \cup {NONE}
  BY <1>1, <1>2, SpsFields
<1>4. S!Vacated(a, r) = a
  <2>1. IF r.mode = "SRC" THEN a.csrc = NONE ELSE a.cdst = NONE
    BY <1>1, <1>2 DEF SpsInv, SpsMapped, S!Owner
  <2> QED BY <1>3, <2>1 DEF S!Vacated, SpsConns
<1>5. /\ sPipes' = S!FreedPipes(a) /\ sMem' = S!FreedMem(a)
      /\ sConn' = [sConn EXCEPT ![m] = S!Unref(S!FreedRsrc(a))]
      /\ sMapOf' = [sMapOf EXCEPT ![c] = 0] /\ sEp' = [sEp EXCEPT ![c] = "DISCONNECT"]
      /\ sPhase' = [sPhase EXCEPT ![c] = "idle"] /\ UNCHANGED <<sBams, sBamOn, sReq>>
  BY <1>1, <1>4 DEF S!DisconnectFree
<1>6. /\ sMapOf'[c] = 0 /\ sEp'[c] = "DISCONNECT" /\ sPhase'[c] = "idle"
      /\ \A d \in SpsClients : d # c => sMapOf'[d] = sMapOf[d] /\ sEp'[d] = sEp[d] /\ sPhase'[d] = sPhase[d]
      /\ \A n \in S!Maps : n # m => sConn'[n] = sConn[n]
      /\ sMapOf' \in [SpsClients -> S!Maps \cup {0}] /\ sMapOf \in [SpsClients -> S!Maps \cup {0}]
  BY <1>2, <1>5 DEF SpsType
<1>7. /\ Cardinality(SpsUsers(sMapOf', m)) \in Nat
      /\ a.refs = Cardinality(SpsUsers(sMapOf', m)) + 1
      /\ Cardinality(SpsUsers(sMapOf', m)) = 0 => \A d \in SpsClients : sMapOf'[d] # m
      /\ \A n \in S!Maps : n # m => SpsUsers(sMapOf', n) = SpsUsers(sMapOf, n)
  <2>1. a.refs = Cardinality(SpsUsers(sMapOf, m))
    BY <1>1, <1>2 DEF SpsInv, SpsCounts
  <2> QED BY <1>1, <1>2, <1>6, <2>1, SpsOneFewer
<1>8. ASSUME NEW d \in SpsClients, d = a.csrc \/ d = a.cdst
      PROVE  d # c /\ sMapOf[d] = m /\ sMapOf'[d] = m /\ a.refs # 1
  <2>1. sMapOf[d] = m /\ sEp[d] # "CONNECT"
    BY <1>1, <1>2, <1>8, SpsAssumption DEF SpsInv, SpsOwners
  <2>2. d # c /\ sMapOf'[d] = m
    BY <1>2, <1>6, <2>1
  <2> QED BY <1>7, <2>1, <2>2
<1>9. PICK free \in BOOLEAN : free <=> a.csrc = NONE /\ a.cdst = NONE
  OBVIOUS
<1>10. free <=> S!NoClient(a)
  BY <1>9 DEF S!NoClient
<1>11. a.refs = 1 => free
  BY <1>3, <1>8, <1>9
<1>12. PICK x : x = S!FreedRsrc(a)
  OBVIOUS
<1>13. /\ x \in SpsConns /\ x.refs = a.refs /\ x.csrc = a.csrc /\ x.cdst = a.cdst
       /\ free => x.mem = 0 /\ x.src = S!Emptied(a.src) /\ x.dst = S!Emptied(a.dst)
       /\ ~free => x.mem = a.mem /\ x.src = a.src /\ x.dst = a.dst
  <2>1. CASE free
    <3>1. x = [a EXCEPT !.src = S!Emptied(a.src), !.dst = S!Emptied(a.dst), !.mem = 0]
      BY <1>10, <1>12, <2>1 DEF S!FreedRsrc
    <3>2. ASSUME NEW e \in S!Ends PROVE S!Emptied(e) \in S!Ends
      BY SpsEndType DEF S!Emptied, S!Ends, S!INVALID
    <3>3. PICK s \in S!Ends, t \in S!Ends : s = S!Emptied(a.src) /\ t = S!Emptied(a.dst)
      BY <1>3, <3>2
    <3>4. x = [a EXCEPT !.src = s, !.dst = t, !.mem = 0]
      BY <3>1, <3>3
    <3>5. 0 \in 0 .. 2
      OBVIOUS
    <3>6. x \in SpsConns
      BY <1>3, <3>4, <3>5 DEF SpsConns
    <3>7. x.refs = a.refs /\ x.csrc = a.csrc /\ x.cdst = a.cdst /\ x.mem = 0 /\ x.src = s /\ x.dst = t
      BY <1>3, <3>4 DEF SpsConns
    <3> QED BY <2>1, <3>3, <3>6, <3>7
  <2>2. CASE ~free
    BY <1>3, <1>10, <1>12, <2>2 DEF S!FreedRsrc
  <2> QED BY <2>1, <2>2
<1>14. PICK z : z = S!Unref(x)
  OBVIOUS
<1>15. /\ z \in SpsConns /\ z.refs = a.refs - 1 /\ z.csrc = a.csrc /\ z.cdst = a.cdst
       /\ a.refs = 1 => z = S!NoConn /\ z.src = NONE /\ z.dst = NONE /\ z.mem = 0
       /\ a.refs # 1 => z.src = x.src /\ z.dst = x.dst /\ z.mem = x.mem
  <2>1. CASE a.refs = 1
    <3>1. z = S!NoConn
      BY <1>13, <1>14, <2>1 DEF S!Unref
    <3>2. NONE \in S!Ends /\ 0 \in 0 .. 2
      BY DEF S!Ends
    <3> QED BY <1>9, <1>11, <2>1, <3>1, <3>2 DEF S!NoConn, SpsConns
  <2>2. CASE a.refs # 1
    <3>1. PICK k \in Nat : k = a.refs - 1
      BY <1>7
    <3>2. z = [x EXCEPT !.refs = k]
      BY <1>13, <1>14, <2>2, <3>1 DEF S!Unref
    <3> QED BY <1>13, <2>2, <3>1, <3>2 DEF SpsConns
  <2> QED BY <2>1, <2>2
<1>16. sConn'[m] = z
  BY <1>2, <1>5, <1>12, <1>14 DEF SpsType
<1>17. \A e \in SpsPipes : SpsEnd(m, e) <=> e = a.src \/ e = a.dst
  BY <1>1 DEF SpsEnd
<1>18. /\ \A e \in SpsPipes : free /\ SpsEnd(m, e) => sPipes'[e] = NONE
       /\ \A e \in SpsPipes : ~(free /\ SpsEnd(m, e)) => sPipes'[e] = sPipes[e]
       /\ sPipes' \in [SpsPipes -> SpsClients \cup {NONE, "UNASSIGNED"}]
  <2>1. CASE free
    <3>1. sPipes' = [e \in SpsPipes |-> IF e \in {a.src, a.dst} THEN NONE ELSE sPipes[e]]
      BY <1>5, <1>10, <2>1 DEF S!FreedPipes, SpsPipes
    <3> QED BY <1>2, <1>17, <2>1, <3>1 DEF SpsType
  <2>2. CASE ~free
    BY <1>2, <1>5, <1>10, <2>2 DEF S!FreedPipes, SpsType
  <2> QED BY <2>1, <2>2
<1>19. \A n \in S!Maps, e \in SpsPipes : SpsEnd(n, e)' <=> SpsEnd(n, e) /\ ~(free /\ n = m)
  <2>1. ASSUME NEW e \in SpsPipes, free, e = z.src \/ e = z.dst PROVE FALSE
    <3>1. ASSUME NEW f PROVE e # S!Emptied(f)
      <4>1. e # NONE /\ e[2] # 0
        BY SpsFacts DEF SpsPipes
      <4> QED BY <4>1 DEF S!Emptied, S!INVALID
    <3> QED BY <1>13, <1>15, <2>1, <3>1, SpsFacts
  <2>2. ASSUME NEW e \in SpsPipes, ~free PROVE (e = z.src \/ e = z.dst) <=> SpsEnd(m, e)
    BY <1>11, <1>13, <1>15, <1>17, <2>2
  <2>3. ASSUME NEW e \in SpsPipes PROVE SpsEnd(m, e)' <=> e = z.src \/ e = z.dst
    BY <1>16 DEF SpsEnd
  <2>4. ASSUME NEW n \in S!Maps, NEW e \in SpsPipes, n # m PROVE SpsEnd(n, e)' <=> SpsEnd(n, e)
    BY <1>6, <2>4 DEF SpsEnd
  <2> QED BY <1>2, <2>1, <2>2, <2>3, <2>4
<1>20. SpsType'
  <2>1. sConn' \in [S!Maps -> SpsConns]
    BY <1>2, <1>5, <1>6, <1>15, <1>16 DEF SpsType
  <2>2. sEp' \in [SpsClients -> S!States] /\ sPhase' \in [SpsClients -> {"idle", "connecting", "disconnecting"}]
    BY <1>2, <1>5 DEF SpsType, S!States
  <2>3. sMem' \in Nat
    BY <1>2, <1>3, <1>5 DEF S!FreedMem, SpsType
  <2> QED BY <1>2, <1>5, <1>6, <1>18, <2>1, <2>2, <2>3 DEF SpsType
<1>21. SpsWhere'
  BY <1>2, <1>5, <1>6 DEF SpsInv, SpsWhere
<1>22. ASSUME NEW d \in SpsClients, sMapOf'[d] # 0
       PROVE  /\ d # c /\ sMapOf[d] = sMapOf'[d] /\ sMapOf[d] \in S!Maps /\ sReq'[d] = sReq[d]
              /\ SpsMine(d) \in S!Ends /\ SpsEnd(sMapOf[d], SpsMine(d))
              /\ SpsMine(d)' = IF free /\ sMapOf[d] = m THEN S!Emptied(SpsMine(d)) ELSE SpsMine(d)
              /\ S!Owner(sReq[d], sMapOf[d])' = S!Owner(sReq[d], sMapOf[d])
  <2>1. d # c /\ sMapOf[d] = sMapOf'[d] /\ sMapOf[d] \in S!Maps /\ sReq'[d] = sReq[d]
    BY <1>5, <1>6, <1>22
  <2>2. SpsMine(d) \in S!Ends /\ SpsEnd(sMapOf[d], SpsMine(d))
    BY <1>2, <1>22, <2>1, SpsMineType
  <2>3. CASE sMapOf[d] = m
    <3>1. a.refs # 1
      <4>1. PICK k \in Nat : k = Cardinality(SpsUsers(sMapOf', m)) /\ a.refs = k + 1
        BY <1>7
      <4>2. k # 0
        BY <1>7, <2>1, <2>3, <4>1
      <4> QED BY <4>1, <4>2
    <3>2. S!Owner(sReq[d], sMapOf[d])' = S!Owner(sReq[d], sMapOf[d])
      BY <1>1, <1>15, <1>16, <2>1, <2>3 DEF S!Owner
    <3>3. SpsMine(d)' = IF free THEN S!Emptied(SpsMine(d)) ELSE SpsMine(d)
      BY <1>1, <1>13, <1>15, <1>16, <2>1, <2>3, <3>1 DEF SpsMine, S!OwnEnd
    <3> QED BY <2>1, <2>2, <2>3, <3>2, <3>3
  <2>4. CASE sMapOf[d] # m
    <3>1. S!Owner(sReq[d], sMapOf[d])' = S!Owner(sReq[d], sMapOf[d])
      BY <1>6, <2>1, <2>4 DEF S!Owner
    <3>2. SpsMine(d)' = SpsMine(d)
      BY <1>6, <2>1, <2>4 DEF SpsMine, S!OwnEnd
    <3> QED BY <2>1, <2>2, <2>4, <3>1, <3>2
  <2> QED BY <2>3, <2>4
<1>23. SpsMapped'
  <2>1. ASSUME NEW d \in SpsClients, sMapOf'[d] # 0
        PROVE  /\ SpsMine(d)' # NONE /\ SpsMine(d)'[1] = S!DevOf(sReq'[d])
               /\ S!Owner(sReq[d], sMapOf[d])' = IF sEp'[d] = "CONNECT" THEN NONE ELSE d
    <3>1. /\ SpsMine(d) # NONE /\ SpsMine(d)[1] = S!DevOf(sReq[d])
          /\ S!Owner(sReq[d], sMapOf[d]) = IF sEp[d] = "CONNECT" THEN NONE ELSE d
      BY <1>22, <2>1 DEF SpsInv, SpsMapped
    <3>2. S!Emptied(SpsMine(d)) # NONE /\ S!Emptied(SpsMine(d))[1] = SpsMine(d)[1]
      <4>1. PICK b \in Bams : b = SpsMine(d)[1]
        BY <1>22, <2>1, <3>1, SpsEndType
      <4>2. S!Emptied(SpsMine(d)) = <<b, 0>>
        BY <3>1, <4>1 DEF S!Emptied, S!INVALID
      <4> QED BY <4>1, <4>2, SpsFacts
    <3> QED BY <1>6, <1>22, <2>1, <3>1, <3>2
  <2> QED BY <2>1 DEF SpsMapped, S!DevOf
<1>24. SpsOwners'
  <2>1. \A n \in S!Maps : sConn[n].csrc \in SpsClients \cup {NONE} /\ sConn[n].cdst \in SpsClients \cup {NONE}
    BY <1>2, SpsFields
  <2>2. \A n \in S!Maps : sConn'[n].csrc = sConn[n].csrc /\ sConn'[n].cdst = sConn[n].cdst
    BY <1>1, <1>6, <1>15, <1>16
  <2>3. \A n \in S!Maps : sConn[n].csrc # c /\ sConn[n].cdst # c
    BY <1>2, SpsAssumption DEF SpsInv, SpsOwners
  <2> QED BY <1>5, <1>6, <2>1, <2>2, <2>3 DEF SpsInv, SpsOwners
<1>25. SpsEnds'
  <2>1. \A n \in S!Maps : sConn'[n].refs = 0 => sConn'[n] = S!NoConn
    BY <1>3, <1>6, <1>15, <1>16 DEF SpsInv, SpsEnds
  <2>2. \A n \in S!Maps, e \in SpsPipes : SpsEnd(n, e)' => sPipes'[e] # NONE
    <3> SUFFICES ASSUME NEW n \in S!Maps, NEW e \in SpsPipes, SpsEnd(n, e)' PROVE sPipes'[e] # NONE
      OBVIOUS
    <3>1. SpsEnd(n, e) /\ ~(free /\ n = m)
      BY <1>19
    <3>2. ~(free /\ SpsEnd(m, e))
      BY <1>2, <3>1 DEF SpsInv, SpsEnds
    <3> QED BY <1>18, <3>1, <3>2 DEF SpsInv, SpsEnds
  <2>3. \A n, k \in S!Maps, e \in SpsPipes : SpsEnd(n, e)' /\ SpsEnd(k, e)' => n = k
    BY <1>19 DEF SpsInv, SpsEnds
  <2>4. \A e \in SpsPipes : sPipes'[e] # NONE => \E n \in S!Maps : SpsEnd(n, e)'
    <3> SUFFICES ASSUME NEW e \in SpsPipes, sPipes'[e] # NONE PROVE \E n \in S!Maps : SpsEnd(n, e)'
      OBVIOUS
    <3>1. ~(free /\ SpsEnd(m, e)) /\ sPipes[e] # NONE
      BY <1>18
    <3>2. PICK n \in S!Maps : SpsEnd(n, e)
      BY <3>1 DEF SpsInv, SpsEnds
    <3> QED BY <1>19, <3>1, <3>2
  <2> QED BY <2>1, <2>2, <2>3, <2>4 DEF SpsEnds, S!NoConn
<1>26. ASSUME NEW d \in SpsClients, sEp[d] = "ENABLE"
       PROVE  d # c /\ SpsMine(d)' = SpsMine(d) /\ ~(free /\ SpsEnd(m, SpsMine(d)))
  <2>1. d # c /\ sMapOf[d] # 0
    BY <1>2, <1>26 DEF SpsInv, SpsWhere
  <2>2. S!Owner(sReq[d], sMapOf[d]) = d /\ d # NONE
    BY <1>26, <2>1, SpsAssumption DEF SpsInv, SpsMapped
  <2>3. ~(free /\ sMapOf[d] = m)
    BY <1>1, <1>9, <2>2 DEF S!Owner
  <2>4. sMapOf'[d] # 0
    BY <1>6, <2>1
  <2>5. SpsMine(d) \in SpsPipes
    BY <1>26 DEF SpsInv, SpsTaken
  <2>6. SpsEnd(m, SpsMine(d)) => sMapOf[d] = m
    BY <1>2, <1>22, <2>4, <2>5 DEF SpsInv, SpsEnds
  <2> QED BY <1>22, <2>1, <2>3, <2>4, <2>6
<1>27. SpsTaken'
  <2>1. ASSUME NEW e \in SpsPipes, NEW d \in SpsClients, sPipes'[e] = d
        PROVE  sEp'[d] = "ENABLE" /\ e = SpsMine(d)'
    <3>1. sPipes[e] = d
      BY <1>18, <2>1, SpsAssumption
    <3>2. sEp[d] = "ENABLE" /\ e = SpsMine(d)
      BY <3>1 DEF SpsInv, SpsTaken
    <3> QED BY <1>6, <1>26, <3>2
  <2>2. ASSUME NEW d \in SpsClients, sEp'[d] = "ENABLE"
        PROVE  SpsMine(d)' \in SpsPipes /\ sPipes'[SpsMine(d)'] = d /\ SpsMine(d)'[1] \in sBamOn'
    <3>1. sEp[d] = "ENABLE"
      BY <1>6, <2>2
    <3>2. SpsMine(d) \in SpsPipes /\ sPipes[SpsMine(d)] = d /\ SpsMine(d)[1] \in sBamOn
      BY <3>1 DEF SpsInv, SpsTaken
    <3> QED BY <1>5, <1>18, <1>26, <3>1, <3>2
  <2> QED BY <2>1, <2>2 DEF SpsTaken
<1>28. SpsCounts'
  <2>1. \A n \in S!Maps : n # m => sConn'[n].refs = Cardinality(SpsUsers(sMapOf', n))
    BY <1>6, <1>7 DEF SpsInv, SpsCounts
  <2>2. sConn'[m].refs = Cardinality(SpsUsers(sMapOf', m))
    BY <1>7, <1>15, <1>16
  <2> QED BY <2>1, <2>2 DEF SpsCounts
<1>29. SpsMemory'
  <2>1. PICK p \in Nat, q \in Nat : p = Cardinality(SpsFifos(sConn)) /\ q = Cardinality(SpsFifos(sConn'))
                                    /\ p + SpsHeld(z) = q + SpsHeld(a)
    <3>1. \A n \in S!Maps : n # m => SpsHeld(sConn[n]) = SpsHeld(sConn'[n])
      BY <1>6 DEF SpsHeld
    <3>2. sConn \in [S!Maps -> SpsConns] /\ sConn' \in [S!Maps -> SpsConns]
      BY <1>2, <1>20 DEF SpsType
    <3> QED BY <1>1, <1>2, <1>16, <3>1, <3>2, SpsFifosChange
  <2>2. S!FifosInUse = SpsFifos(sConn) /\ S!FifosInUse' = SpsFifos(sConn')
    BY DEF S!FifosInUse, S!Linked, SpsFifos
  <2>3. SpsHeld(a) = a.mem /\ SpsHeld(z) = IF free THEN 0 ELSE a.mem
    BY <1>3, <1>7, <1>11, <1>13, <1>15 DEF SpsHeld
  <2>4. sMem' = IF free THEN sMem + a.mem ELSE sMem
    BY <1>5, <1>10 DEF S!FreedMem
  <2>5. sMem \in Nat /\ sMem + p = PipeMem
    BY <1>2, <2>1, <2>2 DEF SpsInv, SpsMemory, SpsType
  <2>6. sMem' + q = PipeMem
    BY <1>3, <2>1, <2>3, <2>4, <2>5
  <2> QED BY <2>1, <2>2, <2>6 DEF SpsMemory
<1> QED BY <1>20, <1>21, <1>23, <1>24, <1>25, <1>27, <1>28, <1>29 DEF SpsInv

\* A connection nobody refers to is not in use, and while a client has no connection
\* one is free.
LEMMA SpsSpare ==
  ASSUME SpsInv, NEW c \in SpsClients, sMapOf[c] = 0
  PROVE  /\ \A m \in S!Maps : sConn[m].refs = 0 => \A d \in SpsClients : sMapOf[d] # m
         /\ S!Maps \ S!Linked # {}
<1>1. ASSUME NEW m \in S!Maps
      PROVE  sConn[m].refs \in Nat /\ (sConn[m].refs = 0 <=> \A d \in SpsClients : sMapOf[d] # m)
  <2>1. PICK a : a = SpsUsers(sMapOf, m)
    OBVIOUS
  <2>2. IsFiniteSet(a)
    BY <2>1, SpsAssumption, FS_Subset DEF SpsUsers
  <2>3. sConn[m].refs = Cardinality(a) /\ sConn[m].refs \in Nat
    BY <2>1, SpsFields DEF SpsInv, SpsCounts
  <2>4. Cardinality(a) = 0 <=> a = {}
    BY <2>2, FS_EmptySet
  <2> QED BY <2>1, <2>3, <2>4 DEF SpsUsers
<1>2. ASSUME S!Maps \ S!Linked = {} PROVE FALSE
  <2>1. \A m \in S!Maps : \E d \in SpsClients \ {c} : sMapOf[d] = m
    <3> SUFFICES ASSUME NEW m \in S!Maps PROVE \E d \in SpsClients \ {c} : sMapOf[d] = m
      OBVIOUS
    <3>1. sConn[m].refs # 0
      BY <1>1, <1>2 DEF S!Linked
    <3>2. PICK d \in SpsClients : sMapOf[d] = m
      BY <1>1, <3>1
    <3>3. d # c
      BY <3>2, SpsFacts
    <3> QED BY <3>2, <3>3
  <2>2. PICK f : f = [m \in S!Maps |-> CHOOSE d \in SpsClients \ {c} : sMapOf[d] = m]
    OBVIOUS
  <2>3. \A m \in S!Maps : f[m] \in SpsClients \ {c} /\ sMapOf[f[m]] = m
    BY <2>1, <2>2
  <2>4. f \in [S!Maps -> SpsClients \ {c}]
    BY <2>2, <2>3
  <2>5. f \in Injection(S!Maps, SpsClients \ {c})
    BY <2>3, <2>4 DEF Injection, IsInjective
  <2>6. IsFiniteSet(SpsClients \ {c}) /\ Cardinality(SpsClients \ {c}) = Cardinality(SpsClients) - 1
    BY SpsAssumption, FS_RemoveElement
  <2>7. Cardinality(S!Maps) <= Cardinality(SpsClients \ {c})
    BY <2>5, <2>6, FS_Injection
  <2>8. PICK l \in Int, h \in Nat : l = 1 /\ h = Cardinality(SpsClients)
    BY SpsFacts
  <2>9. Cardinality(l .. h) = IF l > h THEN 0 ELSE h - l + 1
    BY FS_Interval
  <2>10. S!Maps = l .. h
    BY <2>8, SpsFacts
  <2>11. h # 0
    BY <2>8, SpsAssumption, FS_EmptySet
  <2>12. Cardinality(S!Maps) = h
    BY <2>8, <2>9, <2>10, <2>11
  <2> QED BY <2>6, <2>7, <2>8, <2>12
<1> QED BY <1>1, <1>2

\* The end sps_rm_create() makes on one side: memory, or a pipe that was free.
LEMMA SpsNewEnd ==
  ASSUME SpsInv, NEW b \in Bams \cup {MEM}, S!CanAlloc(b, 0)
  PROVE  /\ S!EndFor(b, 0) \in S!Ends
         /\ b = MEM => S!EndFor(b, 0) = NONE
         /\ b # MEM => /\ S!EndFor(b, 0) \in SpsPipes /\ S!EndFor(b, 0)[1] = b
                       /\ sPipes[S!EndFor(b, 0)] = NONE
<1>1. CASE b = MEM
  BY <1>1 DEF S!EndFor, S!Ends
<1>2. CASE b # MEM
  <2>1. S!Allocatable(b, 0) # {} /\ S!Allocatable(b, 0) \subseteq S!Idx
    BY <1>2 DEF S!CanAlloc, S!Allocatable
  <2>2. S!Allocatable(b, 0) \in SUBSET Nat
    BY <2>1, SpsFacts
  <2>3. PICK k : k = S!Min(S!Allocatable(b, 0))
    OBVIOUS
  <2>4. k \in S!Allocatable(b, 0)
    BY <2>1, <2>2, <2>3, SpsLibrary
  <2>5. k \in S!Idx /\ sPipes[<<b, k>>] = NONE
    BY <2>4 DEF S!Allocatable
  <2>6. S!EndFor(b, 0) = <<b, k>>
    BY <1>2, <2>3 DEF S!EndFor
  <2> QED BY <1>2, <2>5, <2>6 DEF SpsPipes, S!Ends
<1> QED BY <1>1, <1>2

\* sps_connect() creates a connection.
LEMMA SpsCreateStep ==
  ASSUME SpsInv, NEW c \in SpsClients, NEW r \in SomeRequests, S!ConnectCreate(c, r)
  PROVE  SpsInv'
<1>1. /\ sEp[c] = "DISCONNECT" /\ sPhase[c] = "idle" /\ S!DevOf(r) \in sBams
      /\ sReq' = [sReq EXCEPT ![c] = r] /\ sEp' = [sEp EXCEPT ![c] = "ALLOCATE"]
      /\ sPhase' = [sPhase EXCEPT ![c] = "connecting"]
      /\ UNCHANGED <<sBams, sBamOn>> /\ S!Creatable(r)
  BY DEF S!ConnectCreate, S!StartConnect
<1>2. /\ sEp \in [SpsClients -> S!States] /\ sReq \in [SpsClients -> SomeRequests]
      /\ sPhase \in [SpsClients -> {"idle", "connecting", "disconnecting"}]
      /\ sMapOf \in [SpsClients -> S!Maps \cup {0}] /\ sConn \in [S!Maps -> SpsConns] /\ SpsType
      /\ sPipes \in [SpsPipes -> SpsClients \cup {NONE, "UNASSIGNED"}] /\ sMem \in Nat
  BY DEF SpsInv, SpsType
<1>3. sMapOf[c] = 0 /\ 0 \notin S!Maps
  BY <1>1, SpsFacts DEF SpsInv, SpsWhere
<1>4. PICK m \in S!Maps :
        /\ sConn[m].refs = 0
        /\ sConn' = [sConn EXCEPT ![m] = S!Assigned(S!NewConn(r), c, r)]
        /\ sMapOf' = [sMapOf EXCEPT ![c] = m]
  <2>1. S!Maps \ S!Linked # {} /\ S!Maps \ S!Linked \in SUBSET Nat
    BY <1>3, SpsSpare, SpsFacts
  <2>2. PICK m : m = S!Min(S!Maps \ S!Linked)
    OBVIOUS
  <2>3. m \in S!Maps /\ m \notin S!Linked
    BY <2>1, <2>2, SpsLibrary
  <2>4. sConn[m].refs = 0
    BY <1>2, <2>3, SpsFields DEF S!Linked
  <2>5. sConn' = [sConn EXCEPT ![m] = S!Assigned(S!NewConn(r), c, r)] /\ sMapOf' = [sMapOf EXCEPT ![c] = m]
    BY <2>2 DEF S!ConnectCreate
  <2> QED BY <2>3, <2>4, <2>5
<1>5. PICK s, t : s = S!EndFor(r.src, 0) /\ t = S!EndFor(r.dst, 0)
  OBVIOUS
<1>6. PICK k \in 1 .. 2 : k = S!Fifos(r) /\ k <= sMem
  BY <1>1 DEF S!Fifos, S!Creatable
<1>7. r.srcIdx = 0 /\ r.dstIdx = 0 /\ r.src \in Bams \cup {MEM} /\ r.dst \in Bams \cup {MEM} /\ S!DevOf(r) \in Bams
  BY SpsFacts
<1>8. /\ s \in S!Ends /\ t \in S!Ends
      /\ r.src = MEM => s = NONE
      /\ r.src # MEM => s \in SpsPipes /\ s[1] = r.src /\ sPipes[s] = NONE
      /\ r.dst = MEM => t = NONE
      /\ r.dst # MEM => t \in SpsPipes /\ t[1] = r.dst /\ sPipes[t] = NONE
  <2>1. S!CanAlloc(r.src, 0) /\ S!CanAlloc(r.dst, 0)
    BY <1>1, <1>7 DEF S!Creatable
  <2> QED BY <1>5, <1>7, <2>1, SpsNewEnd
<1>9. PICK y \in SpsConns :
        /\ y = S!NewConn(r) /\ y.refs = 0 /\ y.src = s /\ y.dst = t /\ y.mem = k
        /\ y.csrc = NONE /\ y.cdst = NONE
  <2>1. PICK y : y = [S!NoConn EXCEPT !.src = s, !.dst = t, !.mem = k]
    OBVIOUS
  <2>2. y = S!NewConn(r)
    BY <1>5, <1>6, <1>7, <2>1 DEF S!NewConn
  <2>3. k \in 0 .. 2 /\ 0 \in 0 .. 2 /\ NONE \in S!Ends
    BY <1>6 DEF S!Ends
  <2>4. S!NoConn \in SpsConns
    BY <2>3 DEF S!NoConn, SpsConns
  <2>5. y \in SpsConns
    BY <1>8, <2>1, <2>3, <2>4 DEF SpsConns
  <2>6. y.refs = 0 /\ y.src = s /\ y.dst = t /\ y.mem = k /\ y.csrc = NONE /\ y.cdst = NONE
    BY <2>1 DEF S!NoConn
  <2> QED BY <2>2, <2>5, <2>6
<1>10. PICK x \in SpsConns :
         /\ x = sConn'[m] /\ x.refs = 1 /\ x.mem = k /\ x.src = s /\ x.dst = t
         /\ x.csrc = (IF r.mode = "SRC" THEN c ELSE NONE)
         /\ x.cdst = (IF r.mode = "SRC" THEN NONE ELSE c)
  <2>1. PICK x : x = S!Assigned(S!NewConn(r), c, r)
    OBVIOUS
  <2>2. sConn'[m] = x
    BY <1>2, <1>4, <2>1
  <2>3. x = IF r.mode = "SRC" THEN [y EXCEPT !.csrc = c, !.refs = y.refs + 1]
                              ELSE [y EXCEPT !.cdst = c, !.refs = y.refs + 1]
    BY <1>9, <2>1 DEF S!Assigned
  <2>4. x \in SpsConns
    <3>1. PICK l \in Nat : l = y.refs + 1
      BY <1>9
    <3>2. CASE r.mode = "SRC"
      BY <2>3, <3>1, <3>2 DEF SpsConns
    <3>3. CASE r.mode # "SRC"
      BY <2>3, <3>1, <3>3 DEF SpsConns
    <3> QED BY <3>2, <3>3
  <2>5. /\ x.refs = 1 /\ x.mem = k /\ x.src = s /\ x.dst = t
        /\ x.csrc = (IF r.mode = "SRC" THEN c ELSE NONE)
        /\ x.cdst = (IF r.mode = "SRC" THEN NONE ELSE c)
    BY <1>9, <2>3 DEF SpsConns
  <2> QED BY <2>2, <2>4, <2>5
<1>11. \A n \in S!Maps : n # m => sConn'[n] = sConn[n]
  BY <1>2, <1>4
<1>12. /\ sEp'[c] = "ALLOCATE" /\ sPhase'[c] = "connecting" /\ sReq'[c] = r /\ sMapOf'[c] = m
       /\ \A d \in SpsClients : d # c => /\ sEp'[d] = sEp[d] /\ sPhase'[d] = sPhase[d]
                                         /\ sReq'[d] = sReq[d] /\ sMapOf'[d] = sMapOf[d]
  BY <1>1, <1>2, <1>4
<1>13. /\ sPipes' = [e \in SpsPipes |-> IF e \in {s, t} THEN "UNASSIGNED" ELSE sPipes[e]]
       /\ sMem' = sMem - k
  BY <1>9 DEF S!ConnectCreate, SpsPipes
<1>14. /\ \A e \in SpsPipes : e = s \/ e = t => sPipes[e] = NONE /\ sPipes'[e] = "UNASSIGNED"
       /\ \A e \in SpsPipes : ~(e = s \/ e = t) => sPipes'[e] = sPipes[e]
  BY <1>8, <1>13, SpsFacts
<1>15. SpsType'
  <2>1. sConn' \in [S!Maps -> SpsConns]
    BY <1>2, <1>4, <1>10, <1>11
  <2>2. sEp' \in [SpsClients -> S!States] /\ sReq' \in [SpsClients -> SomeRequests]
        /\ sPhase' \in [SpsClients -> {"idle", "connecting", "disconnecting"}]
        /\ sMapOf' \in [SpsClients -> S!Maps \cup {0}]
    BY <1>1, <1>2, <1>4 DEF S!States
  <2>3. sPipes' \in [SpsPipes -> SpsClients \cup {NONE, "UNASSIGNED"}]
    BY <1>2, <1>13
  <2>4. sMem' \in Nat
    BY <1>2, <1>6, <1>13
  <2> QED BY <1>1, <1>2, <2>1, <2>2, <2>3, <2>4 DEF SpsType
<1>16. SpsWhere'
  BY <1>1, <1>3, <1>12 DEF SpsInv, SpsWhere
<1>17. \A d \in SpsClients : sMapOf[d] # m
  BY <1>3, <1>4, SpsSpare
<1>18. ASSUME NEW d \in SpsClients, d # c, sMapOf[d] # 0
       PROVE  SpsMine(d)' = SpsMine(d) /\ S!Owner(sReq[d], sMapOf[d])' = S!Owner(sReq[d], sMapOf[d])
  <2>1. sMapOf[d] \in S!Maps /\ sMapOf[d] # m
    BY <1>2, <1>17, <1>18
  <2> QED BY <1>11, <1>12, <1>18, <2>1 DEF SpsMine, S!OwnEnd, S!Owner
<1>19. SpsMapped'
  <2>1. S!Owner(sReq[c], sMapOf[c])' = c
    BY <1>10, <1>12 DEF S!Owner
  <2>2. SpsMine(c)' # NONE /\ SpsMine(c)'[1] = S!DevOf(r)
    <3>1. SpsMine(c)' = IF r.mode = "SRC" THEN s ELSE t
      BY <1>10, <1>12 DEF SpsMine, S!OwnEnd
    <3>2. S!DevOf(r) # MEM
      BY <1>7, SpsAssumption
    <3> QED BY <1>8, <3>1, <3>2, SpsFacts DEF S!DevOf
  <2>3. ASSUME NEW d \in SpsClients, sMapOf'[d] # 0
        PROVE  /\ SpsMine(d)' # NONE /\ SpsMine(d)'[1] = S!DevOf(sReq'[d])
               /\ S!Owner(sReq[d], sMapOf[d])' = IF sEp'[d] = "CONNECT" THEN NONE ELSE d
    <3>1. CASE d = c
      BY <1>12, <2>1, <2>2, <3>1
    <3>2. CASE d # c
      BY <1>12, <1>18, <2>3, <3>2 DEF SpsInv, SpsMapped
    <3> QED BY <3>1, <3>2
  <2> QED BY <2>3 DEF SpsMapped, S!DevOf
<1>20. SpsOwners'
  <2>1. \A n \in S!Maps, d \in SpsClients : sMapOf[d] = n => d # c
    BY <1>3
  <2>2. ASSUME NEW n \in S!Maps, sConn[n].csrc # NONE
        PROVE  /\ sMapOf'[sConn[n].csrc] = n /\ sEp'[sConn[n].csrc] # "CONNECT"
               /\ sReq'[sConn[n].csrc].mode = "SRC"
    <3>1. sConn[n].csrc \in SpsClients
      BY <1>2, <2>2, SpsFields
    <3> QED BY <1>12, <2>1, <2>2, <3>1 DEF SpsInv, SpsOwners
  <2>3. ASSUME NEW n \in S!Maps, sConn[n].cdst # NONE
        PROVE  /\ sMapOf'[sConn[n].cdst] = n /\ sEp'[sConn[n].cdst] # "CONNECT"
               /\ sReq'[sConn[n].cdst].mode # "SRC"
    <3>1. sConn[n].cdst \in SpsClients
      BY <1>2, <2>3, SpsFields
    <3> QED BY <1>12, <2>1, <2>3, <3>1 DEF SpsInv, SpsOwners
  <2>4. sMapOf'[c] = m /\ sEp'[c] # "CONNECT" /\ sReq'[c].mode = r.mode
    BY <1>12
  <2> QED BY <1>10, <1>11, <2>2, <2>3, <2>4 DEF SpsOwners
<1>21. \A n \in S!Maps, e \in SpsPipes :
         /\ SpsEnd(n, e)' <=> IF n = m THEN e = s \/ e = t ELSE SpsEnd(n, e)
         /\ SpsEnd(m, e) => FALSE
  <2>1. ASSUME NEW e \in SpsPipes PROVE ~SpsEnd(m, e)
    <3>1. sConn[m].src = NONE /\ sConn[m].dst = NONE
      BY <1>4 DEF SpsInv, SpsEnds, S!NoConn
    <3> QED BY <3>1, SpsFacts DEF SpsEnd
  <2>2. ASSUME NEW e \in SpsPipes PROVE SpsEnd(m, e)' <=> e = s \/ e = t
    BY <1>10 DEF SpsEnd
  <2>3. ASSUME NEW n \in S!Maps, NEW e \in SpsPipes, n # m PROVE SpsEnd(n, e)' <=> SpsEnd(n, e)
    BY <1>11, <2>3 DEF SpsEnd
  <2> QED BY <2>1, <2>2, <2>3
<1>22. SpsEnds'
  <2>1. \A n \in S!Maps : sConn'[n].refs = 0 => sConn'[n] = S!NoConn
    BY <1>10, <1>11 DEF SpsInv, SpsEnds
  <2>2. \A n \in S!Maps, e \in SpsPipes : SpsEnd(n, e) => sPipes[e] # NONE
    BY DEF SpsInv, SpsEnds
  <2>3. \A n \in S!Maps, e \in SpsPipes : SpsEnd(n, e)' => sPipes'[e] # NONE
    BY <1>14, <1>21, <2>2, SpsAssumption
  <2>4. \A n, l \in S!Maps, e \in SpsPipes : SpsEnd(n, e)' /\ SpsEnd(l, e)' => n = l
    <3> SUFFICES ASSUME NEW n \in S!Maps, NEW l \in S!Maps, NEW e \in SpsPipes, SpsEnd(n, e)', SpsEnd(l, e)'
                 PROVE  n = l
      OBVIOUS
    <3>1. CASE e = s \/ e = t
      BY <1>14, <1>21, <2>2, <3>1
    <3>2. CASE ~(e = s \/ e = t)
      <4>1. SpsEnd(n, e) /\ SpsEnd(l, e)
        BY <1>21, <3>2
      <4> QED BY <4>1 DEF SpsInv, SpsEnds
    <3> QED BY <3>1, <3>2
  <2>5. \A e \in SpsPipes : sPipes'[e] # NONE => \E n \in S!Maps : SpsEnd(n, e)'
    <3> SUFFICES ASSUME NEW e \in SpsPipes, sPipes'[e] # NONE PROVE \E n \in S!Maps : SpsEnd(n, e)'
      OBVIOUS
    <3>1. CASE e = s \/ e = t
      BY <1>21, <3>1
    <3>2. CASE ~(e = s \/ e = t)
      <4>1. sPipes[e] # NONE
        BY <1>14, <3>2
      <4>2. PICK n \in S!Maps : SpsEnd(n, e)
        BY <4>1 DEF SpsInv, SpsEnds
      <4> QED BY <1>21, <4>2
    <3> QED BY <3>1, <3>2
  <2> QED BY <2>1, <2>3, <2>4, <2>5 DEF SpsEnds, S!NoConn
<1>23. SpsTaken'
  <2>1. \A d \in SpsClients : sEp[d] = "ENABLE" => d # c /\ sMapOf[d] # 0
    BY <1>1 DEF SpsInv, SpsWhere
  <2>2. \A d \in SpsClients : sEp[d] = "ENABLE" => SpsMine(d)' = SpsMine(d) /\ sEp'[d] = "ENABLE"
    BY <1>12, <1>18, <2>1
  <2>3. \A d \in SpsClients : sEp'[d] = "ENABLE" => sEp[d] = "ENABLE"
    BY <1>12
  <2>4. ASSUME NEW e \in SpsPipes, NEW d \in SpsClients PROVE sPipes'[e] = d <=> sPipes[e] = d
    BY <1>14, SpsAssumption
  <2>5. \A e \in SpsPipes, d \in SpsClients : sPipes'[e] = d => sEp'[d] = "ENABLE" /\ e = SpsMine(d)'
    BY <2>2, <2>4 DEF SpsInv, SpsTaken
  <2>6. \A d \in SpsClients : sEp'[d] = "ENABLE" =>
          SpsMine(d)' \in SpsPipes /\ sPipes'[SpsMine(d)'] = d /\ SpsMine(d)'[1] \in sBamOn'
    BY <1>1, <2>2, <2>3, <2>4 DEF SpsInv, SpsTaken
  <2> QED BY <2>5, <2>6 DEF SpsTaken
<1>24. SpsCounts'
  <2>1. /\ \A n \in S!Maps : Cardinality(SpsUsers(sMapOf, n)) \in Nat
        /\ Cardinality(SpsUsers(sMapOf', m)) = Cardinality(SpsUsers(sMapOf, m)) + 1
        /\ \A n \in S!Maps : n # m => SpsUsers(sMapOf', n) = SpsUsers(sMapOf, n)
    <3>1. sMapOf' \in [SpsClients -> S!Maps \cup {0}]
      BY <1>15 DEF SpsType
    <3> QED BY <1>2, <1>3, <1>12, <3>1, SpsOneMore
  <2>2. Cardinality(SpsUsers(sMapOf, m)) = 0
    BY <1>4 DEF SpsInv, SpsCounts
  <2>3. sConn'[m].refs = Cardinality(SpsUsers(sMapOf', m))
    BY <1>10, <2>1, <2>2
  <2>4. \A n \in S!Maps : n # m => sConn'[n].refs = Cardinality(SpsUsers(sMapOf', n))
    BY <1>11, <2>1 DEF SpsInv, SpsCounts
  <2> QED BY <2>3, <2>4 DEF SpsCounts
<1>25. SpsMemory'
  <2>1. PICK p \in Nat, q \in Nat : p = Cardinality(SpsFifos(sConn)) /\ q = Cardinality(SpsFifos(sConn'))
                                    /\ p + SpsHeld(x) = q + SpsHeld(sConn[m])
    <3>1. \A n \in S!Maps : n # m => SpsHeld(sConn[n]) = SpsHeld(sConn'[n])
      BY <1>11 DEF SpsHeld
    <3>2. sConn \in [S!Maps -> SpsConns] /\ sConn' \in [S!Maps -> SpsConns]
      BY <1>2, <1>15 DEF SpsType
    <3> QED BY <1>10, <3>1, <3>2, SpsFifosChange
  <2>2. S!FifosInUse = SpsFifos(sConn) /\ S!FifosInUse' = SpsFifos(sConn')
    BY DEF S!FifosInUse, S!Linked, SpsFifos
  <2>3. SpsHeld(x) = k /\ SpsHeld(sConn[m]) = 0
    BY <1>4, <1>10 DEF SpsHeld
  <2>4. sMem + p = PipeMem
    BY <2>1, <2>2 DEF SpsInv, SpsMemory
  <2>5. sMem' + q = PipeMem
    BY <1>2, <1>6, <1>13, <2>1, <2>3, <2>4
  <2> QED BY <2>1, <2>2, <2>5 DEF SpsMemory
<1> QED BY <1>15, <1>16, <1>19, <1>20, <1>22, <1>23, <1>24, <1>25 DEF SpsInv

\* A step of the SPS driver.
LEMMA SpsStep ==
  ASSUME SpsInv, Sps \/ UNCHANGED sVars
  PROVE  SpsInv'
<1>1. CASE Sps
  <2>1. S!Next
    BY <1>1 DEF Sps
  <2>2. ASSUME NEW c \in SpsClients, NEW r \in SomeRequests, S!ConnectJoin(c, r) \/ S!ConnectCreate(c, r)
        PROVE  SpsInv'
    BY <2>2, SpsJoinStep, SpsCreateStep
  <2>3. ASSUME NEW b \in Bams, S!RegisterBam(b) \/ S!DeregisterBam(b) \/ S!DeviceReset(b)
        PROVE  SpsInv'
    BY <2>3, SpsBamStep
  <2>4. ASSUME NEW c \in SpsClients, S!AllocEndpoint(c) \/ S!FreeEndpoint(c) \/ S!ConnectFails(c)
        PROVE  SpsInv'
    BY <2>4, SpsEndpointStep, SpsFailStep
  <2>5. ASSUME NEW c \in SpsClients, S!ConnectPipe(c) \/ S!DisconnectPipe(c) \/ S!DisconnectFree(c)
        PROVE  SpsInv'
    BY <2>5, SpsConnectPipeStep, SpsDisconnectPipeStep, SpsDisconnectFreeStep
  <2> QED BY <2>1, <2>2, <2>3, <2>4, <2>5 DEF S!Next
<1>2. CASE UNCHANGED sVars
  BY <1>2 DEF sVars, SpsInv, SpsType, SpsWhere, SpsMapped, SpsOwners, SpsEnds, SpsEnd, SpsTaken, SpsMine,
              SpsCounts, SpsMemory, S!OwnEnd, S!Owner, S!FifosInUse, S!Linked
<1> QED BY <1>1, <1>2

\* At first nothing is connected.
LEMMA SpsStart ==
  ASSUME S!Init PROVE SpsInv
<1>1. /\ sBams = Bams /\ sBamOn = {} /\ sEp = [c \in SpsClients |-> "none"]
      /\ sPhase = [c \in SpsClients |-> "idle"] /\ sMapOf = [c \in SpsClients |-> 0]
      /\ sConn = [m \in S!Maps |-> S!NoConn] /\ sPipes = [e \in SpsPipes |-> NONE] /\ sMem = PipeMem
  BY DEF S!Init, SpsPipes
<1>2. sReq \in [SpsClients -> SomeRequests]
  <2>1. PICK p, q : p = (CHOOSE b \in Bams : TRUE) /\ q = (CHOOSE b \in Bams : b # p)
    OBVIOUS
  <2>2. SomeRequests = {Connect("DEST", MEM, q), Connect("SRC", p, q), Connect("DEST", p, q)}
    BY <2>1 DEF SomeRequests
  <2>3. (CHOOSE r \in SomeRequests : TRUE) \in SomeRequests
    BY <2>2
  <2> QED BY <2>3 DEF S!Init
<1>3. S!NoConn \in SpsConns
  <2>1. 0 \in 0 .. 2 /\ NONE \in S!Ends
    BY DEF S!Ends
  <2> QED BY <2>1 DEF S!NoConn, SpsConns
<1>4. SpsType
  BY <1>1, <1>2, <1>3, SpsAssumption DEF SpsType, S!States
<1>5. SpsWhere /\ SpsMapped /\ SpsTaken
  BY <1>1, SpsAssumption DEF SpsWhere, SpsMapped, SpsTaken
<1>6. \A m \in S!Maps : /\ sConn[m] = S!NoConn /\ sConn[m].refs = 0 /\ sConn[m].src = NONE /\ sConn[m].dst = NONE
                        /\ sConn[m].csrc = NONE /\ sConn[m].cdst = NONE
  BY <1>1 DEF S!NoConn
<1>7. SpsOwners
  BY <1>6 DEF SpsOwners
<1>8. SpsEnds
  BY <1>1, <1>6, SpsFacts DEF SpsEnds, SpsEnd
<1>9. SpsCounts
  <2>1. \A m \in S!Maps : SpsUsers(sMapOf, m) = {}
    BY <1>1, SpsFacts DEF SpsUsers
  <2> QED BY <1>6, <2>1, FS_EmptySet DEF SpsCounts
<1>10. SpsMemory
  <2>1. S!FifosInUse = {}
    BY <1>6 DEF S!FifosInUse, S!Linked
  <2>2. Cardinality(S!FifosInUse) = 0
    BY <2>1, FS_EmptySet
  <2> QED BY <1>1, <2>2, SpsAssumption DEF SpsMemory
<1> QED BY <1>4, <1>5, <1>7, <1>8, <1>9, <1>10 DEF SpsInv

\* What the invariant says of the driver.
LEMMA SpsPromises ==
  ASSUME SpsInv
  PROVE  S!TypeOK /\ S!PipesOwned /\ S!RefsCountClients /\ S!ResourcesAccounted
<1>1. SpsType
  BY DEF SpsInv
<1>2. ASSUME NEW m \in S!Maps
      PROVE  sConn[m].refs = Cardinality(SpsUsers(sMapOf, m)) /\ sConn[m].refs \in 0 .. Cardinality(SpsClients)
  <2>1. sConn[m].refs = Cardinality(SpsUsers(sMapOf, m)) /\ sConn[m].refs \in Nat
    BY <1>1, SpsFields DEF SpsInv, SpsCounts
  <2>2. Cardinality(SpsUsers(sMapOf, m)) <= Cardinality(SpsClients)
    BY SpsAssumption, FS_Subset DEF SpsUsers
  <2> QED BY <2>1, <2>2, SpsFacts
<1>3. sMem \in 0 .. PipeMem
  <2>1. PICK p \in Nat : p = Cardinality(S!FifosInUse)
    <3>1. S!FifosInUse = SpsFifos(sConn)
      BY DEF S!FifosInUse, S!Linked, SpsFifos
    <3>2. SpsClients = {} \/ \E m \in S!Maps : TRUE
      <4>1. ASSUME NEW c \in SpsClients PROVE 1 \in S!Maps
        <5>1. Cardinality(SpsClients) # 0
          BY SpsAssumption, FS_EmptySet
        <5> QED BY <5>1, SpsFacts
      <4> QED BY <4>1
    <3>3. CASE \E m \in S!Maps : TRUE
      BY <1>1, <3>1, <3>3, SpsFifosChange DEF SpsType
    <3>4. CASE ~\E m \in S!Maps : TRUE
      <4>1. SpsFifos(sConn) = {}
        BY <3>4 DEF SpsFifos
      <4> QED BY <3>1, <4>1, FS_EmptySet
    <3> QED BY <3>3, <3>4
  <2>2. sMem \in Nat /\ sMem + p = PipeMem
    BY <1>1, <2>1 DEF SpsInv, SpsMemory, SpsType
  <2> QED BY <2>1, <2>2
<1>4. S!TypeOK
  <2>1. ASSUME NEW m \in S!Maps
        PROVE  sConn[m] \in [refs : 0 .. Cardinality(SpsClients), src : S!Ends, dst : S!Ends,
                             csrc : SpsClients \cup {NONE}, cdst : SpsClients \cup {NONE}, mem : 0 .. 2]
    <3>1. sConn[m] \in SpsConns /\ sConn[m].refs \in 0 .. Cardinality(SpsClients)
      BY <1>1, <1>2, SpsFields
    <3> QED BY <3>1 DEF SpsConns
  <2>2. sConn \in [S!Maps -> [refs : 0 .. S!Cardinality(SpsClients), src : S!Ends, dst : S!Ends,
                              csrc : SpsClients \cup {NONE}, cdst : SpsClients \cup {NONE}, mem : 0 .. 2]]
    <3>1. S!Cardinality(SpsClients) = Cardinality(SpsClients)
      BY SpsLibrary
    <3>2. sConn \in [S!Maps -> [refs : 0 .. Cardinality(SpsClients), src : S!Ends, dst : S!Ends,
                                csrc : SpsClients \cup {NONE}, cdst : SpsClients \cup {NONE}, mem : 0 .. 2]]
      BY <1>1, <2>1 DEF SpsType
    <3> QED BY <3>1, <3>2
  <2> QED BY <1>1, <1>3, <2>2 DEF S!TypeOK, SpsType, SpsPipes
<1>5. S!PipesOwned
  <2>1. ASSUME NEW c \in SpsClients, sEp[c] = "ENABLE"
        PROVE  /\ sMapOf[c] # 0 /\ S!Owner(sReq[c], sMapOf[c]) = c
               /\ sPipes[S!OwnEnd(sReq[c], sMapOf[c])] = c
               /\ S!OwnEnd(sReq[c], sMapOf[c])[1] \in sBamOn
    <3>1. sMapOf[c] # 0
      BY <2>1 DEF SpsInv, SpsWhere
    <3>2. S!Owner(sReq[c], sMapOf[c]) = c
      BY <2>1, <3>1 DEF SpsInv, SpsMapped
    <3> QED BY <2>1, <3>1, <3>2 DEF SpsInv, SpsTaken, SpsMine
  <2>2. ASSUME NEW e \in SpsPipes, sPipes[e] \in SpsClients PROVE sEp[sPipes[e]] = "ENABLE"
    BY <2>2 DEF SpsInv, SpsTaken
  <2> QED BY <2>1, <2>2 DEF S!PipesOwned, SpsPipes
<1>6. S!RefsCountClients
  <2>1. \A m \in S!Maps : S!Cardinality(SpsUsers(sMapOf, m)) = Cardinality(SpsUsers(sMapOf, m))
    BY SpsLibrary
  <2>2. \A m \in S!Maps : sConn[m].refs = S!Cardinality(SpsUsers(sMapOf, m))
    BY <1>2, <2>1
  <2> QED BY <2>2 DEF S!RefsCountClients, SpsUsers
<1>7. S!ResourcesAccounted
  <2>1. ASSUME NEW e \in SpsPipes
        PROVE  S!Cardinality({m \in S!Linked : e \in {sConn[m].src, sConn[m].dst}})
                 = IF sPipes[e] = NONE THEN 0 ELSE 1
    <3>1. PICK u : u = {m \in S!Linked : e \in {sConn[m].src, sConn[m].dst}}
      OBVIOUS
    <3>2. \A m : m \in u <=> m \in S!Maps /\ SpsEnd(m, e)
      <4>1. \A m \in S!Maps : SpsEnd(m, e) => sConn[m].refs > 0
        <5> SUFFICES ASSUME NEW m \in S!Maps, SpsEnd(m, e) PROVE sConn[m].refs > 0
          OBVIOUS
        <5>1. sConn[m].refs = 0 => sConn[m].src = NONE /\ sConn[m].dst = NONE
          BY DEF SpsInv, SpsEnds, S!NoConn
        <5>2. sConn[m].refs # 0
          BY <5>1, SpsFacts DEF SpsEnd
        <5> QED BY <1>1, <5>2, SpsFields
      <4> QED BY <3>1, <4>1 DEF S!Linked, SpsEnd
    <3>3. CASE sPipes[e] = NONE
      <4>1. u = {}
        BY <3>2, <3>3 DEF SpsInv, SpsEnds
      <4>2. Cardinality(u) = 0
        BY <4>1, FS_EmptySet
      <4> QED BY <3>1, <3>3, <4>2, SpsLibrary
    <3>4. CASE sPipes[e] # NONE
      <4>1. PICK n \in S!Maps : SpsEnd(n, e)
        BY <3>4 DEF SpsInv, SpsEnds
      <4>2. u = {n}
        BY <3>2, <4>1 DEF SpsInv, SpsEnds
      <4>3. Cardinality(u) = 1
        BY <4>2, FS_Singleton
      <4> QED BY <3>1, <3>4, <4>3, SpsLibrary
    <3> QED BY <3>3, <3>4
  <2>2. sMem + S!Cardinality(S!FifosInUse) = PipeMem
    <3>1. S!Cardinality(S!FifosInUse) = Cardinality(S!FifosInUse)
      BY SpsLibrary
    <3> QED BY <3>1 DEF SpsInv, SpsMemory
  <2> QED BY <2>1, <2>2 DEF S!ResourcesAccounted, SpsPipes
<1> QED BY <1>4, <1>5, <1>6, <1>7

\* ConnectionsOwned, for any finite set of clients, any BAMs of any number of pipes and
\* any pipe memory: in every interleaving of the calls sps_connect() and sps_disconnect()
\* make under different locks, a connection counts its clients, an enabled pipe is its
\* client's, and every pipe and FIFO in use belongs to one connection.
THEOREM ConnectionsAreOwned == MCSpec => []ConnectionsOwned
<1>1. MCInit => SpsInv
  BY SpsStart DEF MCInit
<1>2. SpsInv /\ [MCNext]_allVars => SpsInv'
  <2> SUFFICES ASSUME SpsInv, [MCNext]_allVars PROVE SpsInv'
    OBVIOUS
  <2>1. Sps \/ UNCHANGED sVars
    BY DEF MCNext, allVars, Sps, Modem, Wwan, Qmi, Boot, Connections, TableEntries,
           TableMemory, RuleEncoding, Messages, Dma, NatIoctls, BusVotes
  <2> QED BY <2>1, SpsStep
<1>3. SpsInv => ConnectionsOwned
  BY SpsPromises DEF ConnectionsOwned
<1>4. QED
  BY <1>1, <1>2, <1>3, PTL DEF MCSpec

-----------------------------------------------------------------------------
(* Bringing the driver up.  The invariant says what ipa_init() holds at each *)
(* step and what is still to be released at each label of the goto chain.    *)

\* A step of another part leaves the state of the boot alone.
LEMMA BootParts ==
  ASSUME [MCNext]_allVars
  PROVE  Boot \/ UNCHANGED bVars
BY DEF MCNext, allVars, Sps, Modem, Wwan, Qmi, Boot, Connections, TableEntries,
       TableMemory, RuleEncoding, Messages, Dma, NatIoctls, BusVotes

\* What step k takes, what the steps before step n have taken, and what the chain
\* releases from label u on.
BootGets(k) == B!InitSteps[k].pre \cup B!InitSteps[k].get
BootTaken(n) == UNION {BootGets(k) : k \in 1 .. n - 1}
BootLater(u) == UNION {B!Unwind[j][2] : j \in u .. 31}

\* A function on 1 .. n is a sequence of length n.
LEMMA BootFunSeq ==
  ASSUME NEW E, NEW n \in Nat, NEW f \in [1 .. n -> E]
  PROVE  f \in Seq(E) /\ Len(f) = n
<1>1. f \in Seq(E)
  BY SeqDef
<1> QED
  BY <1>1, LenProperties

\* The steps of ipa_init() are those of its four parts in turn.
LEMMA BootSteps ==
  /\ Len(B!InitSteps) = 36 /\ DOMAIN B!InitSteps = 1 .. 36
  /\ \A i \in 1 .. 7 : B!InitSteps[i] = B!InitClocks[i]
  /\ \A i \in 8 .. 22 : B!InitSteps[i] = B!InitHardware[i - 7]
  /\ \A i \in 23 .. 30 : B!InitSteps[i] = B!InitPipes[i - 22]
  /\ \A i \in 31 .. 36 : B!InitSteps[i] = B!InitServices[i - 30]
<1> DEFINE c == B!InitClocks
           h == B!InitHardware
           p == B!InitPipes
           v == B!InitServices
           R == {c[i] : i \in 1 .. 7} \cup {h[i] : i \in 1 .. 15}
                  \cup {p[i] : i \in 1 .. 8} \cup {v[i] : i \in 1 .. 6}
<1>1. c = [i \in 1 .. 7 |-> c[i]] /\ h = [i \in 1 .. 15 |-> h[i]]
  BY DEF B!InitClocks, B!InitHardware
<1>2. p = [i \in 1 .. 8 |-> p[i]] /\ v = [i \in 1 .. 6 |-> v[i]]
  BY DEF B!InitPipes, B!InitServices
<1>3. B!InitSteps = ((c \o h) \o p) \o v
  BY DEF B!InitSteps
<1> HIDE DEF c, h, p, v
<1>4. /\ c \in [1 .. 7 -> R] /\ h \in [1 .. 15 -> R]
      /\ p \in [1 .. 8 -> R] /\ v \in [1 .. 6 -> R]
  BY <1>1, <1>2
<1> HIDE DEF R
<1>5. /\ c \in Seq(R) /\ Len(c) = 7 /\ h \in Seq(R) /\ Len(h) = 15
      /\ p \in Seq(R) /\ Len(p) = 8 /\ v \in Seq(R) /\ Len(v) = 6
  <2>1. c \in Seq(R) /\ Len(c) = 7
    BY <1>4, BootFunSeq
  <2>2. h \in Seq(R) /\ Len(h) = 15
    BY <1>4, BootFunSeq
  <2>3. p \in Seq(R) /\ Len(p) = 8
    BY <1>4, BootFunSeq
  <2>4. v \in Seq(R) /\ Len(v) = 6
    BY <1>4, BootFunSeq
  <2> QED
    BY <2>1, <2>2, <2>3, <2>4
<1> DEFINE a == c \o h
<1>6. /\ a \in Seq(R) /\ Len(a) = Len(c) + Len(h)
      /\ \A i \in 1 .. Len(c) + Len(h) :
           a[i] = IF i <= Len(c) THEN c[i] ELSE h[i - Len(c)]
  BY <1>5, ConcatProperties, Zenon
<1> HIDE DEF a
<1> DEFINE b == a \o p
<1>a. a \in Seq(R) /\ p \in Seq(R)
  BY <1>5, <1>6
<1>7. /\ b \in Seq(R) /\ Len(b) = Len(a) + Len(p)
      /\ \A i \in 1 .. Len(a) + Len(p) :
           b[i] = IF i <= Len(a) THEN a[i] ELSE p[i - Len(a)]
  BY <1>a, ConcatProperties, Zenon
<1> HIDE DEF b
<1> DEFINE s == b \o v
<1>b. b \in Seq(R) /\ v \in Seq(R)
  BY <1>5, <1>7
<1>8. /\ s \in Seq(R) /\ Len(s) = Len(b) + Len(v)
      /\ \A i \in 1 .. Len(b) + Len(v) :
           s[i] = IF i <= Len(b) THEN b[i] ELSE v[i - Len(b)]
  BY <1>b, ConcatProperties, Zenon
<1> HIDE DEF s
<1>9. Len(a) = 22 /\ Len(b) = 30 /\ Len(s) = 36 /\ s \in Seq(R)
  BY <1>5, <1>6, <1>7, <1>8
<1>10. \A i \in 1 .. 36 : s[i] = IF i <= 7 THEN c[i] ELSE IF i <= 22 THEN h[i - 7]
                                 ELSE IF i <= 30 THEN p[i - 22] ELSE v[i - 30]
  <2>a. /\ Len(c) = 7 /\ Len(a) = 22 /\ Len(b) = 30
        /\ Len(c) + Len(h) = 22 /\ Len(a) + Len(p) = 30 /\ Len(b) + Len(v) = 36
    BY <1>5, <1>9
  <2>1. \A i \in 1 .. 36 : s[i] = IF i <= 30 THEN b[i] ELSE v[i - 30]
    BY <1>8, <2>a, Zenon
  <2>2. \A i \in 1 .. 30 : b[i] = IF i <= 22 THEN a[i] ELSE p[i - 22]
    BY <1>7, <2>a, Zenon
  <2>3. \A i \in 1 .. 22 : a[i] = IF i <= 7 THEN c[i] ELSE h[i - 7]
    BY <1>6, <2>a, Zenon
  <2> QED
    BY <2>1, <2>2, <2>3
<1>11. DOMAIN s = 1 .. 36
  BY <1>9
<1>12. B!InitSteps = s
  BY <1>3 DEF a, b, s
<1> QED
  BY <1>9, <1>10, <1>11, <1>12 DEF c, h, p, v

\* The chain has 31 labels.
LEMMA BootLabels == Len(B!Unwind) = 31 /\ DOMAIN B!Unwind = 1 .. 31
BY DEF B!Unwind

\* No two labels have a name in common.
LEMMA BootNamesDiffer ==
  \A j, k \in 1 .. 31 : j # k => B!Unwind[j][1] # B!Unwind[k][1]
BY DEF B!Unwind

\* No two labels release the same resource.
LEMMA BootLabelsDiffer ==
  \A j, k \in 1 .. 31 : j # k => B!Unwind[j][2] \cap B!Unwind[k][2] = {}
BY SMTT(20) DEF B!Unwind

\* A goto to the name of a label lands there.
LEMMA BootLandsOn == \A j \in 1 .. 31 : B!Goto(B!Unwind[j][1]) = j
BY BootLabels, BootNamesDiffer, Zenon DEF B!Goto, B!LandsOn

\* One step more is taken.
LEMMA BootTakenNext ==
  /\ BootTaken(1) = {}
  /\ \A n \in 1 .. 36 : BootTaken(n + 1) = BootTaken(n) \cup BootGets(n)
<1>1. BootTaken(1) = {}
  BY DEF BootTaken
<1>2. ASSUME NEW n \in 1 .. 36 PROVE BootTaken(n + 1) = BootTaken(n) \cup BootGets(n)
  <2>1. 1 .. (n + 1) - 1 = (1 .. n - 1) \cup {n}
    OBVIOUS
  <2> QED
    BY <2>1 DEF BootTaken
<1> QED
  BY <1>1, <1>2

\* One label less is left to come, and none after it releases the same.
LEMMA BootLaterNext ==
  /\ BootLater(32) = {}
  /\ \A u \in 1 .. 31 : /\ BootLater(u) = B!Unwind[u][2] \cup BootLater(u + 1)
                        /\ B!Unwind[u][2] \cap BootLater(u + 1) = {}
<1>1. BootLater(32) = {}
  BY DEF BootLater
<1>2. ASSUME NEW u \in 1 .. 31
      PROVE  /\ BootLater(u) = B!Unwind[u][2] \cup BootLater(u + 1)
             /\ B!Unwind[u][2] \cap BootLater(u + 1) = {}
  <2>1. u .. 31 = (u + 1 .. 31) \cup {u}
    OBVIOUS
  <2>2. BootLater(u) = B!Unwind[u][2] \cup BootLater(u + 1)
    BY <2>1 DEF BootLater
  <2>a. \A j \in u + 1 .. 31 : B!Unwind[u][2] \cap B!Unwind[j][2] = {}
    <3>1. \A j \in u + 1 .. 31 : j \in 1 .. 31 /\ j # u
      OBVIOUS
    <3> QED
      BY <3>1, BootLabelsDiffer, Zenon
  <2>3. ASSUME NEW r \in B!Unwind[u][2], r \in BootLater(u + 1) PROVE FALSE
    <3>1. PICK j \in u + 1 .. 31 : r \in B!Unwind[j][2]
      BY <2>3 DEF BootLater
    <3> QED
      BY <2>a, <2>3, <3>1
  <2> QED
    BY <2>2, <2>3
<1> QED
  BY <1>1, <1>2

\* Step n, when it fails, jumps to label u: the chain from there on releases what was
\* taken, except for those in lost, and nothing else.
BootJump(n, u, lost) ==
  /\ B!Goto(B!InitSteps[n].goto) = u
  /\ BootLater(u) \ B!Tolerant \subseteq BootTaken(n) \cup B!InitSteps[n].pre
  /\ BootTaken(n) \cup B!InitSteps[n].pre \cup B!InitSteps[n].left
       \subseteq BootLater(u) \cup lost

\* The first 23 steps lose nothing.
LEMMA BootJumpsFirst ==
  /\ BootJump(1, 31, {})
  /\ BootJump(2, 30, {})
  /\ BootJump(3, 29, {})
  /\ BootJump(4, 28, {})
  /\ BootJump(5, 27, {})
  /\ BootJump(6, 26, {})
  /\ BootJump(7, 25, {})
  /\ BootJump(8, 24, {})
  /\ BootJump(9, 24, {})
  /\ BootJump(10, 24, {})
  /\ BootJump(11, 23, {})
  /\ BootJump(12, 22, {})
  /\ BootJump(13, 21, {})
  /\ BootJump(14, 21, {})
  /\ BootJump(15, 20, {})
  /\ BootJump(16, 19, {})
  /\ BootJump(17, 18, {})
  /\ BootJump(18, 17, {})
  /\ BootJump(19, 16, {})
  /\ BootJump(20, 15, {})
  /\ BootJump(21, 14, {})
  /\ BootJump(22, 13, {})
  /\ BootJump(23, 12, {})
<1> USE BootSteps, BootLandsOn, BootTakenNext, BootLaterNext
    DEF BootJump, BootGets, B!Take, B!Check, B!Step, B!Unwind, B!Tolerant
<1>1. BootJump(1, 31, {})
  BY DEF B!InitClocks
<1>2. BootJump(2, 30, {})
  BY <1>1 DEF B!InitClocks
<1>3. BootJump(3, 29, {})
  BY <1>2 DEF B!InitClocks
<1>4. BootJump(4, 28, {})
  BY <1>3 DEF B!InitClocks
<1>5. BootJump(5, 27, {})
  BY <1>4 DEF B!InitClocks
<1>6. BootJump(6, 26, {})
  BY <1>5 DEF B!InitClocks
<1>7. BootJump(7, 25, {})
  BY <1>6 DEF B!InitClocks
<1>8. BootJump(8, 24, {})
  BY <1>7 DEF B!InitClocks, B!InitHardware
<1>9. BootJump(9, 24, {})
  BY <1>8 DEF B!InitHardware
<1>10. BootJump(10, 24, {})
  BY <1>9 DEF B!InitHardware
<1>11. BootJump(11, 23, {})
  BY <1>10 DEF B!InitHardware
<1>12. BootJump(12, 22, {})
  BY <1>11 DEF B!InitHardware
<1>13. BootJump(13, 21, {})
  BY <1>12 DEF B!InitHardware
<1>14. BootJump(14, 21, {})
  BY <1>13 DEF B!InitHardware
<1>15. BootJump(15, 20, {})
  BY <1>14 DEF B!InitHardware
<1>16. BootJump(16, 19, {})
  BY <1>15 DEF B!InitHardware
<1>17. BootJump(17, 18, {})
  BY <1>16 DEF B!InitHardware
<1>18. BootJump(18, 17, {})
  BY <1>17 DEF B!InitHardware
<1>19. BootJump(19, 16, {})
  BY <1>18 DEF B!InitHardware
<1>20. BootJump(20, 15, {})
  BY <1>19 DEF B!InitHardware
<1>21. BootJump(21, 14, {})
  BY <1>20 DEF B!InitHardware
<1>22. BootJump(22, 13, {})
  BY <1>21 DEF B!InitHardware
<1>23. BootJump(23, 12, {})
  BY <1>22 DEF B!InitHardware, B!InitPipes
<1> QED
  BY ONLY <1>1, <1>2, <1>3, <1>4, <1>5, <1>6, <1>7, <1>8, <1>9, <1>10, <1>11, <1>12,
          <1>13, <1>14, <1>15, <1>16, <1>17, <1>18, <1>19, <1>20, <1>21, <1>22, <1>23

\* The others lose what B!Forgotten names at most.
LEMMA BootJumpsLast ==
  /\ BootJump(23, 12, B!Forgotten)
  /\ BootJump(24, 11, B!Forgotten)
  /\ BootJump(25, 10, B!Forgotten)
  /\ BootJump(26, 10, B!Forgotten)
  /\ BootJump(27, 9, B!Forgotten)
  /\ BootJump(28, 8, B!Forgotten)
  /\ BootJump(29, 7, B!Forgotten)
  /\ BootJump(30, 6, B!Forgotten)
  /\ BootJump(31, 5, B!Forgotten)
  /\ BootJump(32, 4, B!Forgotten)
  /\ BootJump(33, 3, B!Forgotten)
  /\ BootJump(34, 2, B!Forgotten)
  /\ BootJump(35, 1, B!Forgotten)
  /\ BootJump(36, 1, B!Forgotten)
<1>23. BootJump(23, 12, B!Forgotten)
  BY BootJumpsFirst DEF BootJump
<1> USE BootSteps, BootLandsOn, BootTakenNext, BootLaterNext
    DEF BootJump, BootGets, B!Take, B!Check, B!Step, B!Unwind, B!Tolerant, B!Forgotten
<1>24. BootJump(24, 11, B!Forgotten)
  BY <1>23 DEF B!InitPipes
<1>25. BootJump(25, 10, B!Forgotten)
  BY <1>24 DEF B!InitPipes
<1>26. BootJump(26, 10, B!Forgotten)
  BY <1>25 DEF B!InitPipes
<1>27. BootJump(27, 9, B!Forgotten)
  BY <1>26 DEF B!InitPipes
<1>28. BootJump(28, 8, B!Forgotten)
  BY <1>27 DEF B!InitPipes
<1>29. BootJump(29, 7, B!Forgotten)
  BY <1>28 DEF B!InitPipes
<1>30. BootJump(30, 6, B!Forgotten)
  BY <1>29 DEF B!InitPipes
<1>31. BootJump(31, 5, B!Forgotten)
  BY <1>30 DEF B!InitPipes, B!InitServices
<1>32. BootJump(32, 4, B!Forgotten)
  BY <1>31 DEF B!InitServices
<1>33. BootJump(33, 3, B!Forgotten)
  BY <1>32 DEF B!InitServices
<1>34. BootJump(34, 2, B!Forgotten)
  BY <1>33 DEF B!InitServices
<1>35. BootJump(35, 1, B!Forgotten)
  BY <1>34 DEF B!InitServices
<1>36. BootJump(36, 1, B!Forgotten)
  BY <1>35 DEF B!InitServices
<1> QED
  BY ONLY <1>23, <1>24, <1>25, <1>26, <1>27, <1>28, <1>29, <1>30, <1>31, <1>32, <1>33,
          <1>34, <1>35, <1>36

\* The device whose probe runs ipa_init().
BootDevice == IF bSmmu THEN "ap_cb" ELSE "ipa"
\* A device that is not there, or that the driver core will probe (again).
Unprobed == {"absent", "waiting", "deferred"}

\* The handle of the early registration is known exactly while the table is, and the one
\* client of the bus is registered then.
BootBus(table, regHdl, hdls) ==
  /\ regHdl \in BOOLEAN /\ (regHdl <=> table)
  /\ (table => hdls = 1) /\ (~table => hdls = 0)

BootType ==
  /\ bSmmu \in BOOLEAN /\ bCur \in {"none", "ipa", "ap_cb"}
  /\ bDev \in [B!Devices -> Unprobed \cup {"probing", "bound", "failed"}]
  /\ bTable \in BOOLEAN /\ BootBus(bTable, bRegHdl, bHdls)
  /\ bCtrl \in {"none", "allocated", "bound"}
  /\ bAt \in 0 .. 36 /\ bUndo \in 0 .. 31 /\ ~bTorn
  /\ bResult \in {"none", "ok", "error", "defer"}

\* Who is being probed, and that ipa_init() does not run twice.
BootProbing ==
  /\ bCur = "none" <=> bAt = 0 /\ bUndo = 0
  /\ bCur # "none" => bCur = BootDevice /\ bDev[bCur] = "probing" /\ bCtrl = "bound"
  /\ bDev[BootDevice] \in Unprobed => bHeld = {}
  /\ bDev["ipa"] \in Unprobed => ~bTable
  /\ ~bSmmu \/ bDev["ipa"] \in Unprobed => \A d \in B!Children : bDev[d] = "absent"
  /\ bDev["ap_cb"] # "absent" => bCtrl = "bound"
  /\ bHeld # {} => bCtrl = "bound"

\* In ipa_init(), what the steps so far have taken is held; in the goto chain, what the
\* rest of it will release, and beyond that only what it forgets.
BootHeld ==
  /\ bAt # 0 => bUndo = 0 /\ bTable /\ bHeld = BootTaken(bAt)
  /\ bUndo # 0 =>
       /\ bResult \in {"error", "defer"}
       /\ BootLater(bUndo) \ B!Tolerant \subseteq bHeld
       /\ bHeld \subseteq BootLater(bUndo) \cup B!Forgotten
       /\ bUndo <= 27 => bTable
       /\ bResult = "defer" => /\ bHeld \subseteq BootLater(bUndo)
                               /\ bUndo > 27 => ~bTable

\* The inductive invariant behind InitUnwinds.
BootInv == BootType /\ BootProbing /\ BootHeld /\ B!FailureReleasesAll

\* A step that leaves the variables of ipa_init() alone keeps the invariant.
LEMMA BootQuiet == BootInv /\ UNCHANGED bVars => BootInv'
<1> SUFFICES ASSUME BootInv, UNCHANGED bVars PROVE BootInv'
  OBVIOUS
<1> USE DEF bVars, BootInv
<1>1. BootType' /\ BootDevice' = BootDevice
  BY DEF BootType, BootBus, BootDevice
<1>2. BootProbing'
  BY <1>1 DEF BootProbing
<1>3. BootHeld'
  BY DEF BootHeld
<1>4. B!FailureReleasesAll'
  BY DEF B!FailureReleasesAll
<1> QED
  BY <1>1, <1>2, <1>3, <1>4

\* A probe that ends at once: the device gets its outcome, ipa_init() is not entered.
LEMMA BootProbeEnds ==
  ASSUME BootInv, NEW d \in B!Devices, bDev[d] \in {"waiting", "deferred"}, bCur = "none",
         NEW outcome \in {"deferred", "failed", "bound"}, B!Ends(d, outcome), bSmmu' = bSmmu,
         outcome = "bound" => d \notin {"ipa", "ap_cb"},
         \/ UNCHANGED <<bTable, bRegHdl, bHdls, bCtrl>>
         \/ /\ d = "ipa" /\ bTable' \in BOOLEAN /\ BootBus(bTable', bRegHdl', bHdls')
            /\ bCtrl' \in {"none", "allocated", "bound"}
            /\ outcome = "deferred" => ~bTable'
  PROVE  BootInv'
<1> USE DEF BootInv, B!Ends
<1>1. /\ bDev' = [bDev EXCEPT ![d] = outcome] /\ bAt = 0 /\ bUndo = 0
      /\ UNCHANGED <<bCur, bAt, bUndo, bHeld, bTorn, bResult, bSmmu>>
      /\ BootDevice' = BootDevice /\ BootDevice \in {"ipa", "ap_cb"}
  BY DEF BootProbing, BootDevice
<1>2. BootType'
  BY <1>1 DEF BootType, BootBus, B!Devices, Unprobed
<1>3. BootProbing'
  BY <1>1 DEF BootProbing, BootType, BootBus, BootDevice, B!Devices, B!Children, Unprobed
<1>4. BootHeld'
  BY <1>1 DEF BootHeld
<1>5. B!FailureReleasesAll'
  BY <1>1 DEF B!FailureReleasesAll
<1> QED
  BY <1>2, <1>3, <1>4, <1>5

\* The probe of the IPA node with a bus client.
LEMMA BootProbeIpaStep == BootInv /\ B!ProbeIpa => BootInv'
<1> SUFFICES ASSUME BootInv, B!ProbeIpa PROVE BootInv'
  OBVIOUS
<1> USE DEF BootInv, B!ProbeIpa, B!Starts
<1>1. /\ bCur = "none" /\ bAt = 0 /\ bUndo = 0 /\ ~bTable /\ bHeld = {}
      /\ bDev["ipa"] \in Unprobed /\ BootDevice' = BootDevice
  BY DEF BootProbing, BootDevice, Unprobed, B!Children, B!Devices
<1>2. CASE bSmmu
  <2>1. BootType' /\ UNCHANGED <<bAt, bUndo, bCur, bHeld, bResult, bSmmu>>
    BY <1>1, <1>2 DEF BootType, BootBus, B!Devices, Unprobed
  <2>2. bDev' = [e \in B!Devices |-> IF e = "ipa" THEN "bound" ELSE "waiting"] /\ bCtrl' = "bound"
    BY <1>2
  <2>3. BootProbing'
    BY <1>1, <1>2, <2>1, <2>2 DEF BootProbing, BootDevice,
           B!Devices, B!Children, Unprobed
  <2>4. BootHeld' /\ B!FailureReleasesAll'
    BY <1>1, <2>1 DEF BootHeld, B!FailureReleasesAll
  <2> QED
    BY <2>1, <2>3, <2>4
<1>3. CASE ~bSmmu
  <2>1. /\ bDev' = [bDev EXCEPT !["ipa"] = "probing"] /\ bCur' = "ipa" /\ bAt' = 1
        /\ UNCHANGED <<bUndo, bHeld, bResult, bSmmu>> /\ bCtrl' = "bound" /\ bTable' = TRUE
    BY <1>3 DEF B!EnterInit
  <2>2. BootType'
    BY <1>1, <1>3, <2>1 DEF BootType, BootBus, B!Devices, Unprobed
  <2>3. BootProbing'
    BY <1>1, <1>3, <2>1 DEF BootType, BootBus, BootProbing, BootDevice,
           B!Devices, B!Children, Unprobed
  <2>4. BootHeld' /\ B!FailureReleasesAll'
    BY <1>1, <2>1, BootTakenNext DEF BootHeld, B!FailureReleasesAll
  <2> QED
    BY <2>2, <2>3, <2>4
<1> QED
  BY <1>2, <1>3 DEF BootType, BootBus

\* The probe of the AP's context bank enters ipa_init().
LEMMA BootProbeApStep == BootInv /\ B!ProbeApBank => BootInv'
<1> SUFFICES ASSUME BootInv, B!ProbeApBank PROVE BootInv'
  OBVIOUS
<1> USE DEF BootInv
<1>1. /\ bCur = "none" /\ bDev["ap_cb"] \in {"waiting", "deferred"} /\ bTable
      /\ bDev' = [bDev EXCEPT !["ap_cb"] = "probing"] /\ bCur' = "ap_cb" /\ bAt' = 1
      /\ UNCHANGED <<bSmmu, bTable, bRegHdl, bHdls, bCtrl, bUndo, bHeld, bResult, bTorn>>
  BY DEF B!ProbeApBank, B!Starts, B!EnterInit
<1>2. bAt = 0 /\ bUndo = 0 /\ bSmmu /\ bHeld = {} /\ bCtrl = "bound" /\ bDev["ipa"] \notin Unprobed
  BY <1>1 DEF BootProbing, BootDevice, B!Children, B!Devices, Unprobed
<1>3. BootType'
  BY <1>1, <1>2 DEF BootType, BootBus, B!Devices, Unprobed
<1>4. BootProbing'
  BY <1>1, <1>2 DEF BootType, BootBus, BootProbing, BootDevice,
           B!Devices, B!Children, Unprobed
<1>5. BootHeld' /\ B!FailureReleasesAll'
  BY <1>1, <1>2, BootTakenNext DEF BootHeld, B!FailureReleasesAll
<1> QED
  BY <1>3, <1>4, <1>5

\* A step of ipa_init() succeeds.
LEMMA BootGetsStep == BootInv /\ B!InitGets => BootInv'
<1> SUFFICES ASSUME BootInv, B!InitGets PROVE BootInv'
  OBVIOUS
<1> USE DEF BootInv
<1>1. /\ bAt \in 1 .. 36 /\ bHeld' = bHeld \cup BootGets(bAt)
      /\ UNCHANGED <<bSmmu, bTable, bRegHdl, bCtrl, bUndo, bTorn>>
      /\ \/ /\ bAt = 36 /\ bAt' = 0 /\ bResult' = "ok" /\ bCur' = "none"
            /\ bDev' = [bDev EXCEPT ![bCur] = "bound"]
         \/ bAt # 36 /\ bAt' = bAt + 1 /\ UNCHANGED <<bResult, bDev, bCur>>
  BY BootSteps DEF B!InitGets, BootGets
<1>2. /\ bTable /\ bUndo = 0 /\ bHeld = BootTaken(bAt) /\ bCtrl = "bound"
      /\ BootDevice' = BootDevice
      /\ bCur = BootDevice /\ bDev[bCur] = "probing" /\ bCur \in {"ipa", "ap_cb"}
  BY <1>1 DEF BootHeld, BootProbing, BootDevice
<1>3. bHdls' = bHdls
  BY <1>2 DEF BootType, BootBus, B!InitGets
<1>4. BootType'
  BY <1>1, <1>2, <1>3 DEF BootType, BootBus, B!Devices, Unprobed
<1>5. BootProbing'
  BY <1>1, <1>2 DEF BootType, BootBus, BootProbing, BootDevice,
           B!Devices, B!Children, Unprobed
<1>6. BootHeld'
  BY <1>1, <1>2, BootTakenNext DEF BootHeld
<1>7. B!FailureReleasesAll'
  BY <1>1 DEF B!FailureReleasesAll
<1> QED
  BY <1>4, <1>5, <1>6, <1>7

\* Where a step of ipa_init() jumps when it fails.
LEMMA BootFails ==
  ASSUME NEW n \in 1 .. 36, B!InitSteps[n].goto # "fail_bus_reg"
  PROVE  \E u \in 1 .. 31 :
           /\ BootJump(n, u, B!Forgotten)
           /\ B!InitSteps[n].goto \in B!Deferrable => u <= 27 /\ BootJump(n, u, {})
<1>1. \A i \in 24 .. 36 : B!InitSteps[i].goto \notin B!Deferrable
  BY BootSteps DEF B!InitPipes, B!InitServices, B!Take, B!Check, B!Step, B!Deferrable
<1>2. \A i \in {1, 2, 3} : B!InitSteps[i].goto \notin B!Deferrable
  BY BootSteps DEF B!InitClocks, B!Take, B!Check, B!Step, B!Deferrable
<1>3. B!InitSteps[4].goto = "fail_bus_reg"
  BY BootSteps DEF B!InitClocks, B!Take, B!Check, B!Step
<1>4. CASE n \in 24 .. 36
  BY <1>1, <1>4, BootJumpsLast
<1>5. CASE n \in 1 .. 23
  <2>1. PICK u \in 1 .. 31 : BootJump(n, u, {}) /\ (n >= 4 => u <= 28) /\ (n >= 5 => u <= 27)
    BY <1>5, BootJumpsFirst
  <2>2. BootJump(n, u, B!Forgotten)
    BY <2>1 DEF BootJump
  <2>3. n \in {1, 2, 3} \/ n >= 5
    BY <1>3, <1>5
  <2> QED
    BY <1>2, <2>1, <2>2, <2>3
<1> QED
  BY <1>4, <1>5

\* A step of ipa_init() fails.
LEMMA BootFailsStep == BootInv /\ B!InitFails => BootInv'
<1> SUFFICES ASSUME BootInv, B!InitFails PROVE BootInv'
  OBVIOUS
<1> USE DEF BootInv
<1> DEFINE s == B!InitSteps[bAt]
<1>1. /\ bAt \in 1 .. 36 /\ bAt' = 0 /\ bUndo' = B!Goto(s.goto) /\ bResult' \in B!Outcomes(s.goto)
      /\ (bHeld' = bHeld \cup s.pre \/ bHeld' = bHeld \cup s.pre \cup s.left)
      /\ ~(s.goto = "fail_bus_reg" /\ bRegHdl)
      /\ UNCHANGED <<bSmmu, bDev, bCur, bTable, bRegHdl, bHdls, bCtrl, bTorn>>
  BY BootSteps DEF B!InitFails
<1>2. /\ bTable /\ bUndo = 0 /\ bHeld = BootTaken(bAt) /\ bCtrl = "bound"
      /\ BootDevice' = BootDevice
      /\ bCur = BootDevice /\ bDev[bCur] = "probing" /\ s.goto # "fail_bus_reg"
  BY <1>1 DEF BootType, BootBus, BootHeld, BootProbing, BootDevice
<1>3. PICK u \in 1 .. 31 : /\ BootJump(bAt, u, B!Forgotten)
                           /\ s.goto \in B!Deferrable => u <= 27 /\ BootJump(bAt, u, {})
  BY <1>1, <1>2, BootFails
<1>4. bUndo' = u /\ bResult' \in {"error", "defer"}
      /\ (bResult' = "defer" => s.goto \in B!Deferrable)
  BY <1>1, <1>3 DEF BootJump, B!Outcomes
<1>5. BootType'
  BY <1>1, <1>4 DEF BootType, BootBus
<1>6. BootProbing'
  BY <1>1, <1>2, <1>4 DEF BootProbing, Unprobed
<1>7. BootHeld'
  BY <1>1, <1>2, <1>3, <1>4 DEF BootHeld, BootJump
<1>8. B!FailureReleasesAll'
  BY <1>4 DEF B!FailureReleasesAll
<1> QED
  BY <1>5, <1>6, <1>7, <1>8

\* One label of the goto chain.
LEMMA BootUndoStep == BootInv /\ B!UndoOne => BootInv'
<1> SUFFICES ASSUME BootInv, B!UndoOne PROVE BootInv'
  OBVIOUS
<1> USE DEF BootInv
<1> DEFINE gone == B!Unwind[bUndo][2]
<1>1. /\ bUndo \in 1 .. 31 /\ bHeld' = bHeld \ gone /\ B!BusReleased(gone)
      /\ bTorn' = (bTorn \/ ~(gone \ B!Tolerant \subseteq bHeld))
      /\ UNCHANGED <<bSmmu, bCtrl, bAt, bResult>>
      /\ \/ /\ bUndo = 31 /\ bUndo' = 0 /\ bCur' = "none"
            /\ bDev' = [bDev EXCEPT ![bCur] = IF bResult = "defer" THEN "deferred" ELSE "failed"]
         \/ bUndo # 31 /\ bUndo' = bUndo + 1 /\ UNCHANGED <<bCur, bDev>>
  BY BootLabels DEF B!UndoOne
<1>2. /\ bAt = 0 /\ bCtrl = "bound" /\ BootDevice' = BootDevice
      /\ bCur = BootDevice /\ bDev[bCur] = "probing" /\ bCur \in {"ipa", "ap_cb"}
      /\ bResult \in {"error", "defer"}
  BY <1>1 DEF BootHeld, BootProbing, BootDevice
<1>3. /\ BootLater(bUndo) = gone \cup BootLater(bUndo + 1)
      /\ gone \cap BootLater(bUndo + 1) = {} /\ BootLater(32) = {}
  BY <1>1, BootLaterNext
<1>4. "bus" \in gone <=> bUndo = 27
  BY <1>1 DEF B!Unwind
<1>5. /\ bUndo = 27 => ~bTable'
      /\ bUndo # 27 => bTable' = bTable
      /\ bTable' \in BOOLEAN /\ BootBus(bTable', bRegHdl', bHdls')
  <2>1. CASE bUndo = 27
    <3>1. bTable = TRUE /\ bRegHdl = TRUE /\ bHdls = 1
      BY <2>1 DEF BootType, BootBus, BootHeld
    <3>2. "bus" \in gone
      BY <1>4, <2>1
    <3>3. bHdls' = 0
      BY <1>1, <3>1, <3>2 DEF B!BusReleased
    <3>4. bTable' = FALSE
      BY <1>1, <3>2, Zenon DEF B!BusReleased
    <3>5. bRegHdl' = FALSE
      BY <1>1, <3>1, <3>2, Zenon DEF B!BusReleased
    <3> QED
      BY <2>1, <3>3, <3>4, <3>5 DEF BootBus
  <2>2. CASE bUndo # 27
    <3>1. bTable' = bTable /\ bRegHdl' = bRegHdl /\ bHdls' = bHdls
      BY <1>1, <1>4, <2>2 DEF B!BusReleased, BootType, BootBus
    <3>2. bTable \in BOOLEAN /\ BootBus(bTable, bRegHdl, bHdls)
      BY DEF BootType
    <3>3. bTable' \in BOOLEAN /\ BootBus(bTable', bRegHdl', bHdls')
      BY <3>1, <3>2, Zenon
    <3> QED
      BY <2>2, <3>1, <3>3
  <2> QED
    BY <2>1, <2>2
<1>6. ~bTorn'
  <2>1. BootLater(bUndo) \ B!Tolerant \subseteq bHeld
    BY <1>1 DEF BootHeld
  <2>2. gone \ B!Tolerant \subseteq bHeld
    BY <1>3, <2>1
  <2> QED
    BY <1>1, <2>2 DEF BootType, BootBus
<1> HIDE DEF gone
<1>7. BootType'
  BY <1>1, <1>2, <1>5, <1>6 DEF BootType, BootBus, B!Devices, Unprobed
<1>8. BootHeld'
  <2> SUFFICES ASSUME bUndo' # 0
               PROVE  /\ BootLater(bUndo') \ B!Tolerant \subseteq bHeld'
                      /\ bHeld' \subseteq BootLater(bUndo') \cup B!Forgotten
                      /\ bUndo' <= 27 => bTable'
                      /\ bResult = "defer" => bHeld' \subseteq BootLater(bUndo')
                      /\ bResult = "defer" /\ bUndo' > 27 => ~bTable'
    BY <1>1, <1>2 DEF BootHeld
  <2>1. bUndo' = bUndo + 1 /\ bUndo \in 1 .. 31
    BY <1>1
  <2>2. /\ BootLater(bUndo) \ B!Tolerant \subseteq bHeld
        /\ bHeld \subseteq BootLater(bUndo) \cup B!Forgotten
        /\ bUndo <= 27 => bTable
        /\ bResult = "defer" => bHeld \subseteq BootLater(bUndo)
        /\ bResult = "defer" /\ bUndo > 27 => ~bTable
    BY <2>1 DEF BootHeld
  <2>3. (bUndo' <= 27 => bTable') /\ (bResult = "defer" /\ bUndo' > 27 => ~bTable')
    BY <1>5, <2>1, <2>2
  <2> QED
    BY <1>1, <1>3, <2>1, <2>2, <2>3
<1>9. B!FailureReleasesAll'
  BY <1>1, <1>3 DEF BootHeld, B!FailureReleasesAll
<1>10. BootProbing'
  <2>1. bUndo = 31 /\ bResult = "defer" => bHeld' = {} /\ ~bTable'
    <3> SUFFICES ASSUME bUndo = 31, bResult = "defer" PROVE bHeld' = {} /\ ~bTable'
      OBVIOUS
    <3>1. bHeld \subseteq BootLater(bUndo) /\ ~bTable
      BY DEF BootHeld
    <3>2. BootLater(bUndo) = gone
      BY <1>3
    <3> QED
      BY <1>1, <1>5, <3>1, <3>2
  <2> QED
    BY <1>1, <1>2, <1>5, <2>1 DEF BootType, BootBus, BootProbing, BootDevice,
           B!Devices, B!Children, Unprobed
<1> QED
  BY <1>7, <1>8, <1>9, <1>10

\* Every probe and every step of ipa_init() keeps the invariant.
LEMMA BootStep == BootInv /\ B!Next => BootInv'
<1> SUFFICES ASSUME BootInv, B!Next PROVE BootInv'
  OBVIOUS
<1>0. /\ B!Devices = {"ipa", "ap_cb", "wlan_cb", "uc_cb"}
      /\ B!Children = {"ap_cb", "wlan_cb", "uc_cb"}
  BY DEF B!Devices, B!Children
<1>a. bDev["ipa"] \in {"waiting", "deferred"} => ~bTable /\ bHdls = 0
  BY DEF BootInv, BootType, BootBus, BootProbing, Unprobed
<1>1. CASE B!ProbeWithoutController
  BY <1>0, <1>1, BootProbeEnds DEF B!ProbeWithoutController, B!Starts
<1>2. CASE B!ProbeBeforeBus
  BY <1>0, <1>a, <1>2, BootProbeEnds DEF BootInv, BootType, BootBus, B!ProbeBeforeBus, B!Starts
<1>3. CASE B!ProbeRejected
  <2>1. bTable' = TRUE /\ bRegHdl' = TRUE /\ bHdls' = 1 /\ bCtrl' \in {"none", "allocated", "bound"}
    BY <1>a, <1>3 DEF B!ProbeRejected, B!Starts
  <2>2. bTable' \in BOOLEAN /\ BootBus(bTable', bRegHdl', bHdls')
    BY <2>1 DEF BootBus
  <2> QED
    BY <1>0, <1>3, <2>1, <2>2, BootProbeEnds DEF B!ProbeRejected, B!Starts
<1>4. CASE \E d \in B!Children : B!BankDefers(d) \/ B!BankFails(d)
  BY <1>0, <1>4, BootProbeEnds DEF B!BankDefers, B!BankFails, B!Starts
<1>5. CASE B!ProbeWlanBank
  BY <1>0, <1>5, BootProbeEnds DEF B!ProbeWlanBank, B!Starts
<1>6. CASE B!ProbeUcBank
  BY <1>0, <1>6, BootProbeEnds DEF B!ProbeUcBank, B!Starts
<1> QED
  BY <1>1, <1>2, <1>3, <1>4, <1>5, <1>6, BootProbeIpaStep, BootProbeApStep, BootGetsStep,
     BootFailsStep, BootUndoStep DEF B!Next

\* The driver's own calls are bound, and what is bound is exported.
LEMMA BootApis ==
  B!OwnCalls \subseteq B!BoundApis /\ B!BoundApis \subseteq B!Exported \cup B!CheckedApis
<1>1. B!OwnCalls \subseteq B!BoundApis
  BY DEF B!OwnCalls, B!BoundApis, B!BoundFirst, B!BoundSecond
<1>2. B!BoundApis \subseteq B!Exported \cup B!CheckedApis
  BY DEF B!BoundApis, B!BoundFirst, B!BoundSecond, B!Exported, B!CheckedApis, B!PipeApis,
         B!EpConfigApis, B!EpModeApis, B!HeaderApis, B!RouteApis, B!FilterAddApis,
         B!FilterApis, B!NatApis, B!InterfaceApis, B!MessageApis, B!DataApis, B!WdiApis,
         B!SysPipeApis, B!DmaApis, B!MhiApis, B!MhiChannelApis, B!TransportApis,
         B!MappingApis, B!ProxyVoteApis, B!ClientMapApis, B!ContextApis, B!GsiApis,
         B!PowerApis, B!PerfApis, B!OffloadApis, B!WigigApis
<1> QED
  BY <1>1, <1>2

\* ipa_init() and its goto chain: whichever steps fail and however often probes are
\* deferred and retried, the chain releases what was taken and nothing else, a failure
\* leaves no more behind than B!Forgotten and a deferral nothing, one bus client is
\* registered, and a driver that is up serves its own calls, for any number of probes.
THEOREM InitUnwindsRight == MCSpec => []InitUnwinds
<1>1. MCInit => BootInv
  <2> SUFFICES ASSUME B!Init PROVE BootInv
    BY DEF MCInit
  <2>1. BootType
    <3>1. bDev \in [B!Devices -> Unprobed \cup {"probing", "bound", "failed"}]
      BY DEF B!Init, Unprobed
    <3>2. bTable = FALSE /\ bRegHdl = FALSE /\ bHdls = 0
      BY DEF B!Init
    <3>3. bTable \in BOOLEAN /\ BootBus(bTable, bRegHdl, bHdls)
      BY <3>2 DEF BootBus
    <3> QED
      BY <3>1, <3>3 DEF B!Init, BootType
  <2>2. BootProbing
    BY DEF B!Init, BootProbing, BootDevice, Unprobed, B!Devices, B!Children
  <2> QED
    BY <2>1, <2>2 DEF B!Init, BootInv, BootHeld, B!FailureReleasesAll
<1>2. BootInv /\ [MCNext]_allVars => BootInv'
  <2> SUFFICES ASSUME BootInv, [MCNext]_allVars PROVE BootInv'
    OBVIOUS
  <2>1. CASE Boot
    BY <2>1, BootStep DEF Boot
  <2>2. CASE UNCHANGED bVars
    BY <2>2, BootQuiet
  <2>3. QED
    BY <2>1, <2>2, BootParts
<1>3. BootInv => InitUnwinds
  <2> SUFFICES ASSUME BootInv PROVE B!UnwindsWhatItTook /\ B!OneBusClient /\ B!OwnCallsServed
    BY DEF BootInv, InitUnwinds
  <2>1. B!UnwindsWhatItTook /\ B!OneBusClient
    BY DEF BootInv, BootType, BootBus, B!UnwindsWhatItTook, B!OneBusClient
  <2>2. B!Up => bCtrl = "bound"
    BY DEF BootInv, BootProbing, B!Up
  <2>3. bCtrl = "bound" => \A api \in B!BoundApis : B!Dispatch(bCtrl, api) = "served"
    BY DEF B!Dispatch
  <2> QED
    BY <2>1, <2>2, <2>3, BootApis DEF B!OwnCallsServed
<1> QED
  BY <1>1, <1>2, <1>3, PTL DEF MCSpec
============================================================================
