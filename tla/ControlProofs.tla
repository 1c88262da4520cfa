---------------------------- MODULE ControlProofs ----------------------------
(***************************************************************************)
(* Proofs about the control side: the NAT table, bus votes and the copy    *)
(* service, for any number of threads, handles and sizes.                  *)
(***************************************************************************)
EXTENDS MCControl, FiniteSetTheorems, TLAPS

\* A step is one part's; what another part's proof needs of it is that it leaves that
\* part's state alone.
LEMMA PartSteps ==
  ASSUME [MCNext]_allVars
  PROVE  /\ Dma \/ UNCHANGED dVars
         /\ NatIoctls \/ UNCHANGED nVars
         /\ BusVotes \/ UNCHANGED yVars
BY DEF MCNext, allVars, Sps, Modem, Wwan, Qmi, Boot, Connections, TableEntries,
       TableMemory, RuleEncoding, Messages, Dma, NatIoctls, BusVotes

-----------------------------------------------------------------------------
(* The NAT table.  Calls overlap because nat_mem.lock is not held all the    *)
(* time; the history variables say when one went on with what it had seen    *)
(* before.  Without that, at most one call is in the middle of a change, and *)
(* the invariant says what the driver's copy and the hardware have in common *)
(* at each point of it.                                                      *)
NatRecords ==
  [init : BOOLEAN, buf : 0 .. MaxAllocs, size : Nat, mapped : BOOLEAN, base : Nat,
   expn : Nat, ip : BOOLEAN, rulesAt : 0 .. MaxAllocs, natBase : 0 .. MaxAllocs]
NatJobs == [ro : Nat, base : Nat, xo : Nat, expn : Nat, ip : BOOLEAN]
NatTables ==
  [on : N!Places, buf : 0 .. MaxAllocs, ro : Nat, base : Nat, xo : Nat, expn : Nat]
NatType ==
  /\ nNat \in NatRecords /\ nLock \in BOOLEAN
  /\ nMem \in [1 .. MaxAllocs -> Nat]
  /\ nHw \in NatTables
  /\ nPc \in [Users -> {"idle", "record", "dma", "del", "clear", "free"}]
  /\ nJob \in [Users -> NatJobs]
  /\ nTmp \in BOOLEAN /\ nStale \subseteq Users /\ nTainted \in BOOLEAN /\ nStrayed \in BOOLEAN
  /\ nAllocs \in 0 .. MaxAllocs

\* Whatever overlaps: memory is allocated and freed under the lock.
NatMemory ==
  /\ nNat.init <=> nNat.buf # 0
  /\ nNat.buf # 0 => nNat.size = nMem[nNat.buf]
  /\ \A b \in 1 .. MaxAllocs : nMem[b] > 0 <=> b = nNat.buf
  /\ nNat.buf <= nAllocs

\* A call that has not begun has seen nothing, and while one is in the middle of
\* a change every other call is stale.
Changing(u) == nPc[u] \in {"record", "clear", "free"}
NatStale ==
  /\ \A u \in nStale : nPc[u] # "idle"
  /\ \A u, v \in Users : Changing(u) /\ u \notin nStale /\ u # v /\ nPc[v] # "idle" => v \in nStale

\* The hardware is where nat_mem says ...
NatHw ==
  /\ nHw.on = "table" => /\ nHw.buf = nNat.buf /\ nHw.buf # 0
                         /\ nHw.ro + nHw.base + 1 <= nNat.size
                         /\ nHw.xo + nHw.expn <= nNat.size
  /\ nHw.on = "nothing" => nHw.base = 0 /\ nHw.expn = 0
\* ... with the tables noted there, unless a call is between the two ...
NatNoted ==
  (\A u \in Users : ~Changing(u)) => nNat.base = nHw.base /\ nNat.expn = nHw.expn
\* ... and a call that is not stale goes on with what it has seen.
NatCall(u) ==
  u \notin nStale =>
    /\ nPc[u] = "record" => nHw.base = nJob[u].base /\ nHw.expn = nJob[u].expn
    /\ nPc[u] \in {"clear", "free"} => nHw = N!Parked
    /\ nPc[u] = "free" => nNat.base = 0 /\ nNat.expn = 0
    /\ nPc[u] = "dma" => IF nJob[u].ip THEN nJob[u].ro < nHw.base + 1
                                       ELSE nJob[u].ro < nHw.expn
NatInv ==
  /\ NatType /\ NatMemory /\ NatStale
  /\ ~nTainted => NatHw /\ NatNoted /\ \A u \in Users : NatCall(u)
  /\ nStrayed => nTainted

USE NatAssumption

\* Where a deleted table leaves the hardware does not change after the start.
LEMMA ParkedStays == nTmp' = nTmp => N!Parked' = N!Parked
BY DEF N!Parked

\* A table of the hardware's, or none.
LEMMA NatTablesOf ==
  /\ \A p \in N!Places : N!Without(p) \in NatTables
  /\ N!Parked \in NatTables
  /\ N!Parked.on # "table" /\ N!Parked.on # "nothing"
  /\ N!Parked.base = 0 /\ N!Parked.expn = 0
BY DEF NatTables, N!Places, N!Without, N!Parked

\* What a record of nat_mem is made of.
LEMMA NatRecordFields ==
  ASSUME NEW i \in BOOLEAN, NEW m \in BOOLEAN, NEW p \in BOOLEAN,
         NEW b \in 0 .. MaxAllocs, NEW r \in 0 .. MaxAllocs, NEW a \in 0 .. MaxAllocs,
         NEW z \in Nat, NEW t \in Nat, NEW x \in Nat
  PROVE  [init |-> i, buf |-> b, size |-> z, mapped |-> m, base |-> t, expn |-> x,
          ip |-> p, rulesAt |-> r, natBase |-> a] \in NatRecords
BY DEF NatRecords

\* The types of the fields of nat_mem.
LEMMA NatFieldTypes ==
  ASSUME NatInv
  PROVE  /\ nNat.init \in BOOLEAN /\ nNat.mapped \in BOOLEAN /\ nNat.ip \in BOOLEAN
         /\ nNat.buf \in 0 .. MaxAllocs /\ nNat.rulesAt \in 0 .. MaxAllocs
         /\ nNat.natBase \in 0 .. MaxAllocs
         /\ nNat.size \in Nat /\ nNat.base \in Nat /\ nNat.expn \in Nat
BY DEF NatInv, NatType, NatRecords

\* Allocating and mapping.
LEMMA NatAllocStep ==
  ASSUME NatInv, NEW u \in Users, NEW n \in MemSizes, N!AllocateNatDevice(u, n)
  PROVE  NatInv'
<1> USE DEF N!AllocateNatDevice, N!Changed
<1>1. NatType'
  <2>1. nNat' \in NatRecords
    <3>0. nAllocs + 1 \in 0 .. MaxAllocs /\ n \in Nat
      BY DEF NatInv, NatType
    <3>1. nNat' = [init |-> TRUE, buf |-> nAllocs + 1, size |-> n, mapped |-> nNat.mapped,
                   base |-> nNat.base, expn |-> nNat.expn, ip |-> nNat.ip, rulesAt |-> nNat.rulesAt, natBase |-> nNat.natBase]
      BY DEF NatInv, NatType, NatRecords
    <3>2. QED
      BY ONLY ZenonT(40), <3>0, <3>1, NatInv, NatFieldTypes, NatRecordFields
  <2>2. nMem' \in [1 .. MaxAllocs -> Nat] /\ nAllocs' \in 0 .. MaxAllocs
    BY SMTT(30) DEF NatInv, NatType, NatRecords
  <2>3. nPc' \in [Users -> {"idle", "record", "dma", "del", "clear", "free"}]
    BY DEF NatInv, NatType
  <2>4. nJob' \in [Users -> NatJobs]
    BY DEF NatInv, NatType, NatJobs
  <2>5. nHw' \in NatTables
    BY DEF NatInv, NatType
  <2>6. nStale' \subseteq Users /\ nLock' \in BOOLEAN /\ nStrayed' \in BOOLEAN /\ nTainted' \in BOOLEAN /\ nTmp' \in BOOLEAN
    BY DEF NatInv, NatType
  <2>7. QED
    BY <2>1, <2>2, <2>3, <2>4, <2>5, <2>6 DEF NatType
<1>2. NatMemory'
  BY SMTT(30) DEF NatInv, NatType, NatRecords, NatMemory
<1>3. NatStale'
  BY DEF NatInv, NatType, NatStale, Changing
<1>4. ~nTainted' => NatHw' /\ NatNoted' /\ \A v \in Users : NatCall(v)'
  BY ParkedStays DEF NatInv, NatType, NatRecords, NatMemory, NatStale, NatHw, NatNoted, NatCall, Changing
<1>5. QED
  BY <1>1, <1>2, <1>3, <1>4 DEF NatInv

\* Mapping the allocated memory.
LEMMA NatMmapStep ==
  ASSUME NatInv, NEW u \in Users, N!NatMmap(u)
  PROVE  NatInv'
<1> USE DEF N!NatMmap
<1>1. NatType' /\ NatMemory' /\ NatStale'
  BY DEF NatInv, NatType, NatRecords, NatMemory, NatStale, Changing
<1>2. ~nTainted' => NatHw' /\ NatNoted' /\ \A v \in Users : NatCall(v)'
  BY ParkedStays DEF NatInv, NatType, NatRecords, NatHw, NatNoted, NatCall, Changing
<1>3. QED
  BY <1>1, <1>2 DEF NatInv

\* The two halves of ipa2_nat_init_cmd().
LEMMA NatInitSendStep ==
  ASSUME NatInv, NEW u \in Users, NEW r \in NatLayouts, N!NatInitSend(u, r)
  PROVE  NatInv'
<1> USE DEF N!NatInitSend, N!Changed, N!Go
<1>0. nHw' \in NatTables
  BY DEF NatTables, N!Places, NatInv, NatType, NatRecords
<1>1. NatType'
  BY <1>0 DEF NatInv, NatType, NatRecords, NatJobs
<1>2. NatMemory'
  BY DEF NatInv, NatMemory
<1>3. NatStale'
  BY DEF NatInv, NatType, NatStale, Changing
<1>4. NatHw'
  <2>1. nNat' = nNat /\ nNat.buf # 0
    BY DEF NatInv, NatMemory
  <2>2. nHw'.on = "table" /\ nHw'.buf = nNat.buf /\ nHw'.ro = r.ro /\ nHw'.base = r.base
        /\ nHw'.xo = r.xo /\ nHw'.expn = r.expn
    OBVIOUS
  <2>3. QED
    BY <2>1, <2>2 DEF NatHw, N!Fits
<1>5. NatNoted'
  BY DEF NatInv, NatType, NatNoted, Changing
<1>6. ~nTainted' => \A v \in Users : NatCall(v)'
  BY ParkedStays DEF NatInv, NatType, NatStale, NatCall, Changing
<1>7. QED
  BY <1>1, <1>2, <1>3, <1>4, <1>5, <1>6 DEF NatInv

\* The driver notes what the hardware was told.
LEMMA NatInitRecordStep ==
  ASSUME NatInv, NEW u \in Users, N!NatInitRecord(u)
  PROVE  NatInv'
<1> USE DEF N!NatInitRecord, N!Changed, N!Return, N!Go, N!NoJob
<1>1. NatType'
  BY DEF NatInv, NatType, NatRecords, NatJobs
<1>2. NatMemory'
  BY DEF NatInv, NatType, NatRecords, NatMemory
<1>3. NatStale'
  BY DEF NatInv, NatType, NatStale, Changing
<1>4. ~nTainted' => NatHw' /\ NatNoted'
  BY DEF NatInv, NatType, NatRecords, NatHw, NatNoted, NatCall, Changing
<1>5. ~nTainted' => \A v \in Users : NatCall(v)'
  BY ParkedStays DEF NatInv, NatType, NatStale, NatCall, Changing
<1>6. QED
  BY <1>1, <1>2, <1>3, <1>4, <1>5 DEF NatInv

\* The two halves of ipa2_nat_dma_cmd().
LEMMA NatDmaCheckStep ==
  ASSUME NatInv, NEW u \in Users, NEW t \in {"base", "expn"}, NEW o \in Offsets,
         N!NatDmaCheck(u, t, o)
  PROVE  NatInv'
<1> USE DEF N!NatDmaCheck, N!Started, N!Go, N!NoJob
<1>1. NatType'
  BY DEF NatInv, NatType, NatRecords, NatJobs
<1>2. NatMemory'
  BY DEF NatInv, NatMemory
<1>3. NatStale'
  BY DEF NatInv, NatType, NatStale, Changing
<1>4. ~nTainted' => NatHw' /\ NatNoted'
  BY DEF NatInv, NatType, NatHw, NatNoted, Changing
<1>5. ~nTainted' => \A v \in Users : NatCall(v)'
  BY ParkedStays DEF NatInv, NatType, NatRecords, NatJobs, NatStale, NatNoted, NatCall, Changing, N!InTable
<1>6. QED
  BY <1>1, <1>2, <1>3, <1>4, <1>5 DEF NatInv

\* An entry command goes to the table in use.
LEMMA NatDmaSendStep ==
  ASSUME NatInv, NEW u \in Users, N!NatDmaSend(u)
  PROVE  NatInv'
<1> USE DEF N!NatDmaSend, N!Return, N!Go, N!NoJob
<1>1. NatType'
  BY DEF NatInv, NatType, NatRecords, NatJobs
<1>2. NatMemory'
  BY DEF NatInv, NatMemory
<1>3. NatStale'
  BY DEF NatInv, NatType, NatStale, Changing
<1>4. ~nTainted' => NatHw' /\ NatNoted'
  BY DEF NatInv, NatType, NatHw, NatNoted, Changing
<1>5. ~nTainted' => \A v \in Users : NatCall(v)'
  BY ParkedStays DEF NatInv, NatType, NatCall
<1>6. nStrayed' => nTainted'
  <2>1. CASE u \in nStale \/ nTainted \/ UNCHANGED <<nStrayed, nTainted>>
    BY <2>1 DEF NatInv
  <2>2. CASE u \notin nStale /\ ~nTainted
    <3>1. NatHw /\ NatCall(u) /\ nPc[u] = "dma" /\ ~nStrayed
      BY <2>2 DEF NatInv
    <3>2. nJob[u].ro \in Nat /\ nHw.base \in Nat /\ nHw.expn \in Nat
      BY DEF NatInv, NatType, NatTables, NatJobs
    <3>3. IF nJob[u].ip THEN nJob[u].ro < nHw.base + 1 ELSE nJob[u].ro < nHw.expn
      BY <2>2, <3>1 DEF NatCall
    <3>4. N!Inside(nJob[u])
      BY ONLY <3>3 DEF N!Inside, N!InTable
    <3>5. ~N!Strays(nJob[u])
      <4>1. CASE nHw.on = "nothing"
        <5>1. nHw.base = 0 /\ nHw.expn = 0
          BY <4>1, <3>1 DEF NatHw
        <5>2. nJob[u].ip /\ nJob[u].ro = 0
          BY ONLY <5>1, <3>2, <3>3
        <5>3. QED
          BY <4>1, <5>2 DEF N!Strays, N!FirstOfNone
      <4>2. CASE nHw.on # "nothing"
        BY <4>2, <3>4 DEF N!Strays
      <4>3. QED
        BY <4>1, <4>2
    <3>6. QED
      BY <2>2, <3>1, <3>5
  <2>3. QED
    BY <2>1, <2>2
<1>7. QED
  BY <1>1, <1>2, <1>3, <1>4, <1>5, <1>6 DEF NatInv

\* The steps of ipa2_nat_del_cmd().
LEMMA NatDelCheckStep ==
  ASSUME NatInv, NEW u \in Users, N!NatDelCheck(u)
  PROVE  NatInv'
<1> USE DEF N!NatDelCheck, N!Started, N!Go
<1>1. NatType' /\ NatMemory'
  BY DEF NatInv, NatType, NatRecords, NatMemory
<1>2. NatStale'
  BY DEF NatInv, NatType, NatStale, Changing
<1>3. ~nTainted' => NatHw' /\ NatNoted' /\ \A v \in Users : NatCall(v)'
  BY ParkedStays DEF NatInv, NatType, NatStale, NatHw, NatNoted, NatCall, Changing
<1>4. QED
  BY <1>1, <1>2, <1>3 DEF NatInv

\* The hardware is told to forget the table.
LEMMA NatDelSendStep ==
  ASSUME NatInv, NEW u \in Users, N!NatDelSend(u)
  PROVE  NatInv'
<1> USE DEF N!NatDelSend, N!Changed, N!Unseen, N!Return, N!Go, N!NoJob
<1>1. NatType'
  <2>1. nNat' \in NatRecords
    BY DEF NatInv, NatType, NatRecords
  <2>2. nMem' \in [1 .. MaxAllocs -> Nat] /\ nAllocs' \in 0 .. MaxAllocs
    BY DEF NatInv, NatType, NatRecords
  <2>3. nPc' \in [Users -> {"idle", "record", "dma", "del", "clear", "free"}]
    BY DEF NatInv, NatType
  <2>4. nJob' \in [Users -> NatJobs]
    <3>1. N!NoJob \in NatJobs
      BY DEF NatJobs
    <3>2. nJob' = nJob \/ nJob' = [nJob EXCEPT ![u] = N!NoJob]
      OBVIOUS
    <3>3. QED
      BY <3>1, <3>2 DEF NatInv, NatType
  <2>5. nHw' \in NatTables
    BY NatTablesOf DEF NatInv, NatType
  <2>6. nStale' \subseteq Users /\ nLock' \in BOOLEAN /\ nStrayed' \in BOOLEAN /\ nTainted' \in BOOLEAN /\ nTmp' \in BOOLEAN
    BY DEF NatInv, NatType
  <2>7. QED
    BY <2>1, <2>2, <2>3, <2>4, <2>5, <2>6 DEF NatType
<1>2. NatMemory'
  BY DEF NatInv, NatMemory
<1>3. NatStale'
  <2>0. NatStale /\ nPc[u] = "del" /\ nPc \in [Users -> {"idle", "record", "dma", "del", "clear", "free"}]
        /\ nStale \subseteq Users
    BY DEF NatInv, NatType
  <2>1. CASE /\ nPc' = [nPc EXCEPT ![u] = "clear"]
             /\ nStale' = (nStale \cup {v \in Users \ {u} : nPc[v] # "idle"}) \ {u}
    <3>1. \A v \in Users \ {u} : nPc'[v] = nPc[v] /\ (nPc[v] # "idle" => v \in nStale')
      BY <2>0, <2>1
    <3>2. nPc'[u] = "clear" /\ u \notin nStale'
      BY <2>0, <2>1
    <3>3. \A v \in nStale' : nPc'[v] # "idle"
      BY <2>0, <2>1, <3>1, <3>2 DEF NatStale
    <3>4. QED
      BY ONLY <3>1, <3>2, <3>3 DEF NatStale, Changing
  <2>2. CASE nPc' = [nPc EXCEPT ![u] = "idle"] /\ nStale' = nStale \ {u}
    BY ONLY <2>0, <2>2 DEF NatStale, Changing
  <2>3. QED
    BY <2>1, <2>2
<1>4. ~nTainted' => NatHw' /\ NatNoted'
  <2> SUFFICES ASSUME ~nTainted' PROVE NatHw' /\ NatNoted'
    OBVIOUS
  <2>0. ~nTainted /\ NatHw /\ NatNoted /\ nNat' = nNat
    BY DEF NatInv, NatType
  <2>1. CASE nHw' = N!Parked /\ nPc' = [nPc EXCEPT ![u] = "clear"]
    <3>1. NatHw'
      BY ONLY <2>1, NatTablesOf DEF NatHw
    <3>2. nPc'[u] = "clear"
      BY <2>1 DEF NatInv, NatType
    <3>3. NatNoted'
      BY ONLY <3>2, u \in Users DEF NatNoted, Changing
    <3>4. QED
      BY <3>1, <3>3
  <2>2. CASE nHw' = nHw /\ nPc[u] = "del" /\ nPc' = [nPc EXCEPT ![u] = "idle"]
    <3>1. NatHw'
      BY ONLY <2>0, <2>2 DEF NatHw
    <3>2. \A v \in Users : Changing(v) <=> Changing(v)'
      BY <2>2 DEF NatInv, NatType, Changing
    <3>3. NatNoted'
      BY ONLY <2>0, <2>2, <3>2 DEF NatNoted
    <3>4. QED
      BY <3>1, <3>3
  <2>3. QED
    BY <2>1, <2>2
<1>5. ~nTainted' => \A v \in Users : NatCall(v)'
  BY ParkedStays DEF NatInv, NatType, NatStale, NatCall, Changing
<1>6. QED
  BY <1>1, <1>2, <1>3, <1>4, <1>5 DEF NatInv

\* The driver forgets the table.
LEMMA NatDelClearStep ==
  ASSUME NatInv, NEW u \in Users, N!NatDelClear(u)
  PROVE  NatInv'
<1> USE DEF N!NatDelClear, N!Changed, N!Go
<1>1. NatType'
  <2>1. nNat' \in NatRecords
    <3>0. 0 \in 0 .. MaxAllocs
      OBVIOUS
    <3>1. nNat' = [init |-> nNat.init, buf |-> nNat.buf, size |-> nNat.size, mapped |-> nNat.mapped,
                   base |-> 0, expn |-> 0, ip |-> FALSE, rulesAt |-> 0, natBase |-> nNat.natBase]
      BY DEF NatInv, NatType, NatRecords
    <3>2. QED
      BY ONLY <3>0, <3>1, NatInv, NatFieldTypes, NatRecordFields
  <2>2. nMem' \in [1 .. MaxAllocs -> Nat] /\ nAllocs' \in 0 .. MaxAllocs
    BY DEF NatInv, NatType, NatRecords
  <2>3. nPc' \in [Users -> {"idle", "record", "dma", "del", "clear", "free"}]
    BY DEF NatInv, NatType
  <2>4. nJob' \in [Users -> NatJobs]
    BY DEF NatInv, NatType, NatJobs
  <2>5. nHw' \in NatTables
    BY DEF NatInv, NatType
  <2>6. nStale' \subseteq Users /\ nLock' \in BOOLEAN /\ nStrayed' \in BOOLEAN /\ nTainted' \in BOOLEAN /\ nTmp' \in BOOLEAN
    BY DEF NatInv, NatType
  <2>7. QED
    BY <2>1, <2>2, <2>3, <2>4, <2>5, <2>6 DEF NatType
<1>2. NatMemory'
  BY DEF NatInv, NatType, NatRecords, NatMemory
<1>3. NatStale'
  BY DEF NatInv, NatType, NatStale, Changing
<1>4. ~nTainted' => NatHw' /\ NatNoted'
  BY DEF NatInv, NatType, NatRecords, NatHw, NatNoted, NatCall, Changing
<1>5. ~nTainted' => \A v \in Users : NatCall(v)'
  BY ParkedStays DEF NatInv, NatType, NatRecords, NatStale, NatCall, Changing
<1>6. QED
  BY <1>1, <1>2, <1>3, <1>4, <1>5 DEF NatInv

\* The memory is freed.
LEMMA NatFreeStep ==
  ASSUME NatInv, NEW u \in Users, N!NatFree(u)
  PROVE  NatInv'
<1> USE DEF N!NatFree, N!Changed, N!Return, N!Go, N!NoJob
<1>1. NatType'
  <2>1. nNat' \in NatRecords
    <3>0. 0 \in 0 .. MaxAllocs
      OBVIOUS
    <3>1. nNat' = [init |-> FALSE, buf |-> 0, size |-> 0, mapped |-> FALSE,
                   base |-> nNat.base, expn |-> nNat.expn, ip |-> nNat.ip, rulesAt |-> nNat.rulesAt, natBase |-> nNat.natBase]
      BY DEF NatInv, NatType, NatRecords
    <3>2. QED
      BY ONLY <3>0, <3>1, NatInv, NatFieldTypes, NatRecordFields
  <2>2. nMem' \in [1 .. MaxAllocs -> Nat] /\ nAllocs' \in 0 .. MaxAllocs
    BY DEF NatInv, NatType, NatRecords
  <2>3. nPc' \in [Users -> {"idle", "record", "dma", "del", "clear", "free"}]
    BY DEF NatInv, NatType
  <2>4. nJob' \in [Users -> NatJobs]
    BY DEF NatInv, NatType, NatJobs
  <2>5. nHw' \in NatTables
    BY DEF NatInv, NatType
  <2>6. nStale' \subseteq Users /\ nLock' \in BOOLEAN /\ nStrayed' \in BOOLEAN /\ nTainted' \in BOOLEAN /\ nTmp' \in BOOLEAN
    BY DEF NatInv, NatType
  <2>7. QED
    BY <2>1, <2>2, <2>3, <2>4, <2>5, <2>6 DEF NatType
<1>2. NatMemory'
  BY SMTT(30) DEF NatInv, NatType, NatRecords, NatMemory
<1>3. NatStale'
  BY SMTT(30) DEF NatInv, NatType, NatStale, Changing
<1>4. ~nTainted' => NatHw' /\ NatNoted'
  <2> SUFFICES ASSUME ~nTainted' PROVE NatHw' /\ NatNoted'
    OBVIOUS
  <2>1. u \notin nStale /\ ~nTainted
    BY DEF NatInv, NatType
  <2>2. NatCall(u)
    BY <2>1 DEF NatInv
  <2>3. nHw = N!Parked /\ nNat.base = 0 /\ nNat.expn = 0
    BY <2>1, <2>2 DEF NatCall
  <2>4. nHw' = N!Parked /\ nNat'.base = 0 /\ nNat'.expn = 0
    BY <2>3, ParkedStays DEF NatInv, NatType, NatRecords
  <2>5. QED
    BY <2>3, <2>4, NatTablesOf DEF NatHw, NatNoted
<1>5. ~nTainted' => \A v \in Users : NatCall(v)'
  BY ParkedStays DEF NatInv, NatType, NatRecords, NatStale, NatCall, Changing
<1>6. QED
  BY <1>1, <1>2, <1>3, <1>4, <1>5 DEF NatInv

\* Every step of a NAT call keeps the invariant.
LEMMA NatStep == NatInv /\ N!Next => NatInv'
<1> SUFFICES ASSUME NatInv, N!Next PROVE NatInv'
  OBVIOUS
<1>1. PICK u \in Users : N!Ioctl(u)
  BY DEF N!Next
<1>2. QED
  BY <1>1, NatAllocStep, NatMmapStep, NatInitSendStep, NatInitRecordStep, NatDmaCheckStep,
     NatDmaSendStep, NatDelCheckStep, NatDelSendStep, NatDelClearStep, NatFreeStep
  DEF N!Ioctl

\* The invariant holds before memory is allocated.
LEMMA NatStart == N!Init => NatInv
<1> SUFFICES ASSUME N!Init PROVE NatInv
  OBVIOUS
<1> USE DEF N!Init, N!NoJob
<1>1. NatType
  <2>1. nNat \in NatRecords
    BY DEF NatRecords
  <2>2. nHw \in NatTables
    BY NatTablesOf DEF N!Places
  <2>3. nJob \in [Users -> NatJobs]
    BY DEF NatJobs
  <2>4. nPc \in [Users -> {"idle", "record", "dma", "del", "clear", "free"}]
    OBVIOUS
  <2>5. nMem \in [1 .. MaxAllocs -> Nat] /\ nAllocs \in 0 .. MaxAllocs
    OBVIOUS
  <2>6. nLock \in BOOLEAN /\ nTmp \in BOOLEAN /\ nTainted \in BOOLEAN /\ nStrayed \in BOOLEAN
        /\ nStale \subseteq Users
    OBVIOUS
  <2>7. QED
    BY ONLY <2>1, <2>2, <2>3, <2>4, <2>5, <2>6 DEF NatType
<1>2. NatMemory /\ NatStale
  BY DEF NatMemory, NatStale, Changing
<1>3. NatHw /\ NatNoted /\ \A u \in Users : NatCall(u)
  BY DEF NatHw, NatNoted, NatCall, N!Without
<1>4. QED
  BY <1>1, <1>2, <1>3 DEF NatInv

\* A step of another part leaves the NAT table alone.
LEMMA NatQuiet == NatInv /\ UNCHANGED nVars => NatInv'
<1> SUFFICES ASSUME NatInv, UNCHANGED nVars PROVE NatInv'
  OBVIOUS
<1>1. NatType' /\ NatMemory'
  BY DEF nVars, NatInv, NatType, NatMemory
<1>2. NatStale'
  BY DEF nVars, NatInv, NatStale, Changing
<1>3. ~nTainted' => NatHw' /\ NatNoted'
  BY DEF nVars, NatInv, NatHw, NatNoted, Changing
<1>4. ~nTainted' => \A u \in Users : NatCall(u)'
  BY ParkedStays DEF nVars, NatInv, NatCall
<1>5. nStrayed' => nTainted'
  BY DEF nVars, NatInv
<1> QED
  BY <1>1, <1>2, <1>3, <1>4, <1>5 DEF NatInv

\* ipa_nat.c: unless calls overlapped, the tables the hardware reads lie in allocated
\* memory, an entry command writes into the table that is in use and nat_mem knows what
\* is allocated, for any number of threads, sizes and table layouts.
THEOREM NatIsSound == MCSpec => []NatSound
<1>1. MCInit => NatInv
  BY NatStart DEF MCInit
<1>2. NatInv /\ [MCNext]_allVars => NatInv'
  <2> SUFFICES ASSUME NatInv, [MCNext]_allVars PROVE NatInv'
    OBVIOUS
  <2>1. CASE NatIoctls
    BY <2>1, NatStep DEF NatIoctls
  <2>2. CASE UNCHANGED nVars
    BY <2>2, NatQuiet
  <2>3. QED
    BY <2>1, <2>2, PartSteps
<1>3. NatInv => NatSound
  BY DEF NatInv, NatType, NatRecords, NatMemory, NatHw, NatSound, N!HwTableAllocated,
         N!EntriesInTable, N!MemoryOwned, N!Without
<1>4. QED
  BY <1>1, <1>2, <1>3, PTL DEF MCSpec

-----------------------------------------------------------------------------
(* Bus votes.  A handle belongs to the one client that was given its slot,   *)
(* and what the client asked for last is a use case of its own handle.       *)
BusHandle(h) ==
  /\ h = [in_use |-> h.in_use, pdata |-> h.pdata, paths |-> h.paths, bw |-> h.bw]
  /\ h.in_use \in BOOLEAN
  /\ h.in_use => h.pdata \in Y!Pdatas
BusType ==
  /\ yHandles = [s \in Y!Slots |-> yHandles[s]]
  /\ \A s \in Y!Slots : BusHandle(yHandles[s])
  /\ yHdl \in [BusClients -> Y!Slots \cup {0}]
  /\ yRefused \in [BusClients -> BOOLEAN]
  /\ yAsked = [c \in BusClients |-> yAsked[c]]
  /\ yStuck \in BOOLEAN
BusOwners ==
  /\ \A c \in BusClients : yHdl[c] # 0 => yHandles[yHdl[c]].in_use
  /\ \A c, d \in BusClients : yHdl[c] # 0 /\ yHdl[c] = yHdl[d] => c = d
  /\ \A s \in Y!Slots : yHandles[s].in_use => \E c \in BusClients : yHdl[c] = s
\* Votes are rounded up and never lost.
BusVoted(c) ==
  LET h == yHandles[yHdl[c]]
  IN \A j \in DOMAIN yAsked[c], i \in DOMAIN h.paths :
       h.paths[i] = yAsked[c][j].pair =>
         h.bw[i] = Y!Bandwidth(Y!BpsToKbps(yAsked[c][j].ab), Y!BpsToKbps(yAsked[c][j].ib))
BusAsked(c) ==
  yHdl[c] # 0 =>
    /\ yAsked[c] = <<>> \/ \E x \in 1 .. 2 : yAsked[c] = yHandles[yHdl[c]].pdata[x]
    /\ ~yRefused[c] => BusVoted(c)
BusInv ==
  /\ BusType /\ BusOwners /\ (\A c \in BusClients : BusAsked(c)) /\ Y!NoVoteLeft

\* The pairs of a use case are distinct, and bytes are rounded up to kilobytes.
LEMMA BusPairsDistinct ==
  ASSUME NEW p \in Y!Pdatas, NEW x \in 1 .. 2
  PROVE  /\ \A j, l \in DOMAIN p[x] : p[x][j].pair = p[x][l].pair => j = l
         /\ \A j \in DOMAIN p[x] : p[x][j].ab \in Nat /\ p[x][j].ib \in Nat
                                   /\ (p[x][j].ib = 0 => p[x][j].ab = 0)
<1>1. CASE p = <<Y!V20(0, 0), Y!V20(100000000, 1300000000)>>
  BY <1>1 DEF Y!V20, Y!Vector
<1>2. CASE p = <<Y!V11(0, 0), Y!V11(50000000, 960000000)>>
  BY SMTT(30), <1>2 DEF Y!V11, Y!Vector
<1>3. QED
  BY <1>1, <1>2 DEF Y!Pdatas

\* Bytes become kilobytes, rounded up.
LEMMA BusRounding ==
  /\ \A b \in Nat : Y!BpsToKbps(b) \in Nat /\ Y!BpsToKbps(b) * 1024 >= b
  /\ Y!BpsToKbps(0) = 0
BY DEF Y!BpsToKbps

\* A client is given a free slot and its paths, or none.
LEMMA BusRegisterStep ==
  ASSUME BusInv, NEW c \in BusClients, NEW p \in Y!Pdatas, NEW lost \in SUBSET Y!IccNames,
         Y!RegisterClient(c, p, lost)
  PROVE  BusInv'
<1> DEFINE got == Y!Acquired(p, lost)
           new == [in_use |-> TRUE, pdata |-> p, paths |-> got,
                   bw |-> [i \in DOMAIN got |-> Y!NoBandwidth]]
<1>1. PICK s \in Y!Slots :
        /\ ~yHandles[s].in_use
        /\ yHandles' = [yHandles EXCEPT ![s] = new]
        /\ yHdl' = [yHdl EXCEPT ![c] = s]
  BY DEF Y!RegisterClient, Y!FirstFree, Y!FreeSlots
<1>2. /\ yHdl[c] = 0
      /\ yAsked' = [yAsked EXCEPT ![c] = <<>>]
      /\ yRefused' = [yRefused EXCEPT ![c] = FALSE]
      /\ UNCHANGED <<yDev, yOrphans, yStuck>>
  BY DEF Y!RegisterClient
<1>3. s # 0 /\ s \in Y!Slots
  BY DEF Y!Slots
<1> HIDE DEF new
<1>4. BusHandle(new) /\ new.in_use
  BY DEF new, BusHandle
<1>5. BusType'
  BY <1>1, <1>2, <1>4 DEF BusInv, BusType
<1>6. BusOwners'
  <2>1. \A t \in Y!Slots : yHandles'[t] = IF t = s THEN new ELSE yHandles[t]
    BY <1>1 DEF BusInv, BusType
  <2>2. \A d \in BusClients : yHdl'[d] = IF d = c THEN s ELSE yHdl[d]
    BY <1>1 DEF BusInv, BusType
  <2>3. \A d \in BusClients : yHdl[d] # 0 => yHdl[d] \in Y!Slots /\ yHdl[d] # s
    BY SMTT(30), <1>1 DEF BusInv, BusType, BusOwners
  <2>4. \A d \in BusClients : yHdl'[d] # 0 => yHandles'[yHdl'[d]].in_use
    BY SMTT(30), <1>3, <1>4, <2>1, <2>2, <2>3 DEF BusInv, BusOwners
  <2>5. \A d, e \in BusClients : yHdl'[d] # 0 /\ yHdl'[d] = yHdl'[e] => d = e
    BY <1>3, <2>2, <2>3 DEF BusInv, BusOwners
  <2>6. \A t \in Y!Slots : yHandles'[t].in_use => \E d \in BusClients : yHdl'[d] = t
    <3> SUFFICES ASSUME NEW t \in Y!Slots, yHandles'[t].in_use
                 PROVE  \E d \in BusClients : yHdl'[d] = t
      OBVIOUS
    <3>1. CASE t = s
      BY <2>2, <3>1
    <3>2. CASE t # s
      <4>1. PICK d \in BusClients : yHdl[d] = t
        BY <2>1, <3>2 DEF BusInv, BusOwners
      <4>2. d # c
        BY <1>2, <4>1 DEF Y!Slots
      <4>3. QED
        BY <2>2, <4>1, <4>2
    <3>3. QED
      BY <3>1, <3>2
  <2>7. QED
    BY <2>4, <2>5, <2>6 DEF BusOwners
<1>7. \A d \in BusClients : BusAsked(d)'
  <2> TAKE d \in BusClients
  <2>1. CASE d = c
    <3>1. yAsked'[d] = <<>>
      BY <1>2, <2>1 DEF BusInv, BusType
    <3>2. DOMAIN yAsked'[d] = {}
      BY <3>1
    <3>3. BusVoted(d)'
      BY <3>2 DEF BusVoted
    <3>4. QED
      BY <3>1, <3>3 DEF BusAsked
  <2>2. CASE d # c
    <3>1. yHdl'[d] = yHdl[d] /\ yAsked'[d] = yAsked[d] /\ yRefused'[d] = yRefused[d]
      BY <1>1, <1>2, <2>2 DEF BusInv, BusType
    <3>2. yHdl[d] # 0 => yHdl[d] # s
      BY <1>1 DEF BusInv, BusOwners
    <3>3. yHdl[d] # 0 => yHandles'[yHdl[d]] = yHandles[yHdl[d]]
      BY <1>1, <3>2 DEF BusInv, BusType
    <3>4. BusAsked(d)
      BY DEF BusInv
    <3>5. yHdl[d] # 0 => (BusVoted(d)' <=> BusVoted(d))
      BY <3>1, <3>3 DEF BusVoted
    <3>6. QED
      BY <3>1, <3>3, <3>4, <3>5 DEF BusAsked
  <2>3. QED
    BY <2>1, <2>2
<1>8. Y!NoVoteLeft'
  BY <1>2 DEF BusInv, Y!NoVoteLeft
<1>9. QED
  BY <1>5, <1>6, <1>7, <1>8 DEF BusInv

\* A client asks for another use case of its handle.
LEMMA BusUpdateStep ==
  ASSUME BusInv, NEW c \in BusClients, NEW x \in 1 .. 2, NEW fail \in SUBSET (1 .. MaxPaths),
         Y!UpdateRequest(c, x, fail)
  PROVE  BusInv'
<1> DEFINE s == yHdl[c]
           h == yHandles[s]
           v == h.pdata[x]
           match(i) == {j \in DOMAIN v : i \in Y!FindPath(h, v[j].pair)}
           vote(j) == Y!Bandwidth(Y!BpsToKbps(v[j].ab), Y!BpsToKbps(v[j].ib))
           bw == [i \in DOMAIN h.paths |->
                    IF i \in fail \/ match(i) = {} THEN h.bw[i]
                    ELSE vote(CHOOSE j \in match(i) : \A l \in match(i) : l <= j)]
<1>1. /\ s # 0 /\ h.in_use
      /\ yHandles' = [yHandles EXCEPT ![s].bw = bw]
      /\ yAsked' = [yAsked EXCEPT ![c] = v]
      /\ yRefused' = [yRefused EXCEPT ![c] = @ \/ fail # {}]
      /\ UNCHANGED <<yDev, yHdl, yOrphans, yStuck>>
  BY DEF Y!UpdateRequest
<1> HIDE DEF bw
<1>2. s \in Y!Slots /\ BusHandle(h) /\ h.pdata \in Y!Pdatas
  <2>1. s \in Y!Slots
    BY <1>1 DEF BusInv, BusType
  <2>2. BusHandle(h)
    BY <2>1 DEF BusInv, BusType
  <2> QED
    BY <1>1, <2>1, <2>2 DEF BusHandle
<1>3. yHandles'[s] = [h EXCEPT !.bw = bw]
  BY <1>1, <1>2 DEF BusInv, BusType
<1>4. /\ yHandles'[s].in_use = h.in_use /\ yHandles'[s].pdata = h.pdata
      /\ yHandles'[s].paths = h.paths /\ yHandles'[s].bw = bw
      /\ BusHandle(yHandles'[s])
  BY <1>2, <1>3 DEF BusHandle
<1>5. \A t \in Y!Slots : t # s => yHandles'[t] = yHandles[t]
  BY <1>1 DEF BusInv, BusType
<1>6. BusType'
  <2>1. yHandles' = [t \in Y!Slots |-> yHandles'[t]]
    BY <1>1 DEF BusInv, BusType
  <2>2. \A t \in Y!Slots : BusHandle(yHandles'[t])
    BY <1>4, <1>5 DEF BusInv, BusType
  <2>3. yRefused' \in [BusClients -> BOOLEAN]
    BY <1>1 DEF BusInv, BusType
  <2>4. yAsked' = [d \in BusClients |-> yAsked'[d]]
    BY <1>1 DEF BusInv, BusType
  <2>5. QED
    BY <1>1, <2>1, <2>2, <2>3, <2>4 DEF BusInv, BusType
<1>7. BusOwners'
  <2>1. \A t \in Y!Slots : yHandles'[t].in_use = yHandles[t].in_use
    BY <1>4, <1>5
  <2>2. \A d \in BusClients : yHdl[d] # 0 => yHdl[d] \in Y!Slots
    BY DEF BusInv, BusType
  <2>3. QED
    BY <1>1, <2>1, <2>2 DEF BusInv, BusOwners
<1>8. \A d \in BusClients : BusAsked(d)'
  <2> TAKE d \in BusClients
  <2>1. CASE d = c
    <3>1. yAsked'[d] = v /\ yHdl'[d] = s
      BY <1>1, <2>1 DEF BusInv, BusType
    <3>2. yRefused'[d] \/ fail = {}
      BY <1>1, <2>1 DEF BusInv, BusType
    <3>3. ASSUME fail = {}, NEW j \in DOMAIN v, NEW i \in DOMAIN h.paths, h.paths[i] = v[j].pair
          PROVE  bw[i] = vote(j)
      <4>1. match(i) = {j}
        BY SMTT(30), <1>2, <3>3, BusPairsDistinct DEF Y!FindPath
      <4>2. j \in Nat
        <5>1. DOMAIN v \subseteq Nat
          BY <1>2 DEF Y!Pdatas, Y!V20, Y!V11
        <5>2. QED
          BY <5>1
      <4>3. (CHOOSE k \in match(i) : \A l \in match(i) : l <= k) = j
        BY SMTT(30), <4>1, <4>2
      <4>4. bw[i] = vote(CHOOSE k \in match(i) : \A l \in match(i) : l <= k)
        BY <3>3, <4>1 DEF bw
      <4>5. QED
        BY <4>3, <4>4
    <3>4. QED
      BY SMTT(60), <1>4, <2>1, <3>1, <3>2, <3>3 DEF BusAsked, BusVoted
  <2>2. CASE d # c
    <3>1. yHdl'[d] = yHdl[d] /\ yAsked'[d] = yAsked[d] /\ yRefused'[d] = yRefused[d]
      BY <1>1, <2>2 DEF BusInv, BusType
    <3>2. yHdl[d] # 0 => yHdl[d] # s /\ yHdl[d] \in Y!Slots
      BY <1>1, <2>2 DEF BusInv, BusType, BusOwners
    <3>3. yHdl[d] # 0 => yHandles'[yHdl[d]] = yHandles[yHdl[d]]
      BY <1>5, <3>2
    <3>4. QED
      BY SMTT(30), <3>1, <3>3 DEF BusInv, BusAsked, BusVoted
  <2>3. QED
    BY <2>1, <2>2
<1>9. Y!NoVoteLeft'
  BY <1>1 DEF BusInv, Y!NoVoteLeft
<1>10. QED
  BY <1>6, <1>7, <1>8, <1>9 DEF BusInv

\* A client gives its slot back.
LEMMA BusUnregisterStep ==
  ASSUME BusInv, NEW c \in BusClients, NEW fail \in SUBSET (1 .. MaxPaths),
         Y!UnregisterClient(c, fail)
  PROVE  BusInv'
<1>1. /\ yHdl[c] # 0
      /\ yHandles' = [yHandles EXCEPT ![yHdl[c]] = Y!Free]
      /\ yHdl' = [yHdl EXCEPT ![c] = 0]
      /\ yStuck' = (yStuck \/ fail # {})
      /\ yOrphans' = yOrphans \cup (Y!Withdrawn(yHandles[yHdl[c]], fail) \ {Y!NoBandwidth})
      /\ UNCHANGED <<yDev, yAsked, yRefused>>
  BY DEF Y!UnregisterClient, Y!Released
<1>2. BusHandle(Y!Free) /\ ~Y!Free.in_use
  BY DEF BusHandle, Y!Free
<1>3. BusType'
  <2>1. yHdl' \in [BusClients -> Y!Slots \cup {0}]
    BY <1>1 DEF BusInv, BusType
  <2>2. yHandles' = [s \in Y!Slots |-> yHandles'[s]] /\ \A s \in Y!Slots : BusHandle(yHandles'[s])
    BY <1>1, <1>2 DEF BusInv, BusType
  <2>3. yStuck' \in BOOLEAN
    BY <1>1
  <2>4. QED
    BY <1>1, <2>1, <2>2, <2>3 DEF BusInv, BusType
<1>4. BusOwners'
  BY SMTT(30), <1>1, <1>2 DEF BusInv, BusType, BusOwners
<1>5. \A d \in BusClients : BusAsked(d)'
  <2> TAKE d \in BusClients
  <2>1. CASE d = c
    BY <1>1, <2>1 DEF BusInv, BusType, BusAsked
  <2>2. CASE d # c
    <3>1. yHdl'[d] = yHdl[d] /\ yAsked'[d] = yAsked[d] /\ yRefused'[d] = yRefused[d]
      BY <1>1, <2>2 DEF BusInv, BusType
    <3>2. yHdl[d] # 0 => yHandles'[yHdl[d]] = yHandles[yHdl[d]]
      BY <1>1, <2>2 DEF BusInv, BusType, BusOwners
    <3>3. QED
      BY SMTT(30), <3>1, <3>2 DEF BusInv, BusAsked, BusVoted
  <2>3. QED
    BY <2>1, <2>2
<1>6. Y!NoVoteLeft'
  BY <1>1 DEF BusInv, BusType, Y!NoVoteLeft, Y!Withdrawn
<1>7. QED
  BY <1>3, <1>4, <1>5, <1>6 DEF BusInv

\* The instance's name for a library operator.
LEMMA BusCardinality == \A X : Y!Cardinality(X) = Cardinality(X)
BY DEF Y!Cardinality, Cardinality

\* Steps of the other parts.
LEMMA BusQuiet ==
  ASSUME BusInv, UNCHANGED <<yHandles, yHdl, yAsked, yRefused, yOrphans, yStuck>>
  PROVE  BusInv'
<1>1. BusType'
  BY DEF BusInv, BusType, BusHandle
<1>2. BusOwners' /\ Y!NoVoteLeft'
  BY DEF BusInv, BusOwners, Y!NoVoteLeft
<1>3. \A c \in BusClients : BusAsked(c)'
  BY DEF BusInv, BusAsked, BusVoted
<1>4. QED
  BY <1>1, <1>2, <1>3 DEF BusInv

\* Every call of a bus client keeps the invariant.
LEMMA BusStep == BusInv /\ Y!Next => BusInv'
<1> SUFFICES ASSUME BusInv, Y!Next PROVE BusInv'
  OBVIOUS
<1>1. CASE Y!SetDevice
  BY <1>1, BusQuiet DEF Y!SetDevice
<1>2. QED
  BY <1>1, BusRegisterStep, BusUpdateStep, BusUnregisterStep DEF Y!Next

\* msm_bus_compat.c: whatever the clients register, request and give back, a path carries
\* the last request of its client, no vote stays behind and a used slot has one owner,
\* for any number of clients, slots and paths.
THEOREM BusVotesAreSound == MCSpec => []BusVotesSound
<1>1. MCInit => BusInv
  <2> SUFFICES ASSUME Y!Init PROVE BusInv
    BY DEF MCInit
  <2>1. \A s \in Y!Slots : BusHandle(yHandles[s]) /\ ~yHandles[s].in_use
    BY DEF Y!Init, Y!Free, BusHandle
  <2>2. QED
    BY <2>1 DEF Y!Init, BusInv, BusType, BusOwners, BusAsked, Y!NoVoteLeft
<1>2. BusInv /\ [MCNext]_allVars => BusInv'
  <2> SUFFICES ASSUME BusInv, [MCNext]_allVars PROVE BusInv'
    OBVIOUS
  <2>1. CASE BusVotes
    BY <2>1, BusStep DEF BusVotes
  <2>2. CASE UNCHANGED yVars
    BY <2>2, BusQuiet DEF yVars
  <2>3. QED
    BY <2>1, <2>2, PartSteps
<1>3. BusInv => BusVotesSound
  <2> SUFFICES ASSUME BusInv PROVE Y!BandwidthAsAsked /\ Y!SlotsOwned
    BY DEF BusInv, BusVotesSound
  <2>1. Y!BandwidthAsAsked
    <3> SUFFICES ASSUME NEW c \in BusClients, yHdl[c] # 0, ~yRefused[c],
                        NEW j \in DOMAIN yAsked[c], NEW i \in DOMAIN yHandles[yHdl[c]].paths,
                        yHandles[yHdl[c]].paths[i] = yAsked[c][j].pair
                 PROVE  LET b == yHandles[yHdl[c]].bw[i]
                        IN /\ b.ab * 1024 >= yAsked[c][j].ab
                           /\ b.ib * 1024 >= yAsked[c][j].ib
                           /\ yAsked[c][j].ib = 0 => b = Y!NoBandwidth
      BY DEF Y!BandwidthAsAsked
    <3> DEFINE a == yAsked[c][j]
    <3>0. yHdl[c] \in Y!Slots /\ yHandles[yHdl[c]].in_use
      BY DEF BusInv, BusType, BusOwners
    <3>1. BusAsked(c) /\ yHandles[yHdl[c]].pdata \in Y!Pdatas
      BY <3>0 DEF BusInv, BusType, BusHandle
    <3>2. a.ab \in Nat /\ a.ib \in Nat /\ (a.ib = 0 => a.ab = 0)
      BY <3>1, BusPairsDistinct DEF BusAsked
    <3>3. yHandles[yHdl[c]].bw[i] = Y!Bandwidth(Y!BpsToKbps(a.ab), Y!BpsToKbps(a.ib))
      BY <3>1 DEF BusAsked, BusVoted
    <3>4. QED
      BY <3>2, <3>3, BusRounding DEF Y!Bandwidth, Y!NoBandwidth
  <2>2. Y!SlotsOwned
    <3> SUFFICES ASSUME NEW s \in Y!Slots
                 PROVE  yHandles[s].in_use <=> Cardinality({c \in BusClients : yHdl[c] = s}) = 1
      BY BusCardinality DEF Y!SlotsOwned
    <3>1. s # 0
      BY DEF Y!Slots
    <3>2. CASE yHandles[s].in_use
      <4>1. PICK c \in BusClients : yHdl[c] = s
        BY <3>2 DEF BusInv, BusOwners
      <4>2. {d \in BusClients : yHdl[d] = s} = {c}
        BY <3>1, <4>1 DEF BusInv, BusOwners
      <4>3. QED
        BY <3>2, <4>2, FS_Singleton
    <3>3. CASE ~yHandles[s].in_use
      <4>1. {d \in BusClients : yHdl[d] = s} = {}
        BY <3>1, <3>3 DEF BusInv, BusOwners
      <4>2. QED
        BY <3>3, <4>1, FS_EmptySet
    <3>4. QED
      BY <3>2, <3>3
  <2>3. QED
    BY <2>1, <2>2
<1>4. QED
  BY <1>1, <1>2, <1>3, PTL DEF MCSpec

-----------------------------------------------------------------------------
(* The copy service.  The counters count the callers that have not left plus *)
(* the asynchronous copies in the pipe; those that passed the limit are      *)
(* fewer than it; the list of synchronous callers is the pipe's content in   *)
(* the same order, but for the caller between poll and unlink.               *)
DmaCounted == {"counted", "over", "post", "wait", "poll", "unlink", "copy", "dec"}
DmaListed == {"wait", "poll", "unlink"}
DmaAdmitted == DmaListed \cup {"post", "dec"}
DmaWorkers(k, at) == {w \in Workers : dKind[w] = k /\ dPc[w] \in at}
DmaInPipe(k) == IF k = "async" THEN dAsync ELSE 0

DmaType ==
  /\ dUp \in BOOLEAN /\ dEnabled \in BOOLEAN /\ dFlag \in BOOLEAN /\ dDone \in BOOLEAN
  /\ dVotes \in Nat /\ dForgotten \in Nat /\ dAsync \in Nat
  /\ dPend \in [D!Kinds -> Nat]
  /\ dPc \in [Workers -> DmaCounted \cup {"idle", "signal"}]
  /\ dKind \in [Workers -> D!Kinds]
  /\ dOwn = [w \in Workers |-> TRUE]
  /\ dWoken \subseteq Workers
  /\ dQueue \in Seq(Workers) /\ dFifo \in Seq(Workers)
  /\ dCb \in {"none", "signal"} /\ dDestroy \in {"none", "flag", "wait", "tear"}

\* Which calls reach which places, and what is up when.
DmaPlaces ==
  /\ \A w \in Workers : /\ dPc[w] \in DmaListed => dKind[w] = "sync"
                        /\ dPc[w] = "copy" => dKind[w] = "uc"
                        /\ dPc[w] \in {"counted", "over", "post"} => dKind[w] # "uc"
  /\ dUp \/ (~dEnabled /\ dDestroy = "none")
  /\ dDone => dFlag
  /\ dFlag => dDestroy \in {"wait", "tear"} \/ ~dUp
  /\ dDestroy = "wait" => dFlag

DmaCounts ==
  \A k \in D!Kinds : dPend[k] = Cardinality(DmaWorkers(k, DmaCounted)) + DmaInPipe(k)
DmaLimit ==
  \A k \in {"sync", "async"} :
    Cardinality(DmaWorkers(k, DmaAdmitted)) + DmaInPipe(k) < MaxPending

DmaQueue ==
  /\ \A i, j \in 1 .. Len(dQueue) : dQueue[i] = dQueue[j] => i = j
  /\ \A w \in Workers : dPc[w] \in DmaListed <=> \E i \in 1 .. Len(dQueue) : dQueue[i] = w
  /\ \A w \in dWoken : dPc[w] = "wait" /\ w = dQueue[1]
  /\ \A i \in 1 .. Len(dQueue) : i > 1 => dPc[dQueue[i]] = "wait"
  /\ dQueue # <<>> => (dPc[dQueue[1]] = "wait" => dQueue[1] \in dWoken)
  /\ dFifo = IF dQueue # <<>> /\ dPc[dQueue[1]] = "unlink" THEN Tail(dQueue) ELSE dQueue

DmaSignals ==
  dDestroy \in {"flag", "wait"} =>
    D!WorkPending \/ dCb = "signal" \/ (\E w \in Workers : dPc[w] = "signal")
                  \/ dLostRace # {} \/ dDone
DmaLate ==
  dDestroy = "tear" \/ dDone =>
    /\ \A w \in Workers : D!Busy(w) => w \in dLate
    /\ dAsync > 0 => "async" \in dLate

DmaInv ==
  /\ DmaType /\ DmaPlaces /\ DmaCounts /\ DmaLimit /\ DmaQueue /\ DmaSignals /\ DmaLate
  /\ D!CopiesAreClocked

USE DmaAssumption

\* Only w's call goes on.
DmaOnly(w) == \A v \in Workers \ {w} : dPc'[v] = dPc[v] /\ dKind'[v] = dKind[v]

\* How the number of callers at some places changes when one of them moves.
LEMMA DmaFinite ==
  ASSUME NEW k, NEW at
  PROVE  /\ IsFiniteSet(DmaWorkers(k, at)) /\ Cardinality(DmaWorkers(k, at)) \in Nat
         /\ \A w \in DmaWorkers(k, at) : Cardinality(DmaWorkers(k, at)) > 0
<1>1. IsFiniteSet(DmaWorkers(k, at)) /\ Cardinality(DmaWorkers(k, at)) \in Nat
  BY FS_Subset, FS_CardinalityType DEF DmaWorkers
<1>2. \A w \in DmaWorkers(k, at) : Cardinality(DmaWorkers(k, at)) > 0
  BY <1>1, FS_EmptySet
<1>3. QED
  BY <1>1, <1>2

\* A worker that stays in a place, or out of it, changes no count of it.
LEMMA DmaStays ==
  ASSUME NEW w \in Workers, NEW at, NEW k, DmaOnly(w),
         dKind'[w] = dKind[w] \/ k \notin {dKind[w], dKind'[w]},
         dPc[w] \in at <=> dPc'[w] \in at
  PROVE  DmaWorkers(k, at)' = DmaWorkers(k, at)
BY DEF DmaOnly, DmaWorkers

\* A worker that comes to a place adds one to its count.
LEMMA DmaEnters ==
  ASSUME NEW w \in Workers, NEW at, NEW k, DmaOnly(w), dPc[w] \notin at, dPc'[w] \in at
  PROVE  /\ k = dKind'[w] =>
              Cardinality(DmaWorkers(k, at)') = Cardinality(DmaWorkers(k, at)) + 1
         /\ k # dKind'[w] => DmaWorkers(k, at)' = DmaWorkers(k, at)
<1>1. k = dKind'[w] => DmaWorkers(k, at)' = DmaWorkers(k, at) \cup {w}
  BY DEF DmaOnly, DmaWorkers
<1>2. w \notin DmaWorkers(k, at)
  BY DEF DmaWorkers
<1>3. k # dKind'[w] => DmaWorkers(k, at)' = DmaWorkers(k, at)
  BY DEF DmaOnly, DmaWorkers
<1>4. QED
  BY <1>1, <1>2, <1>3, DmaFinite, FS_AddElement

\* A worker that leaves a place takes one from its count.
LEMMA DmaLeaves ==
  ASSUME NEW w \in Workers, NEW at, NEW k, DmaOnly(w), dPc[w] \in at, dPc'[w] \notin at
  PROVE  /\ k = dKind[w] =>
              Cardinality(DmaWorkers(k, at)') = Cardinality(DmaWorkers(k, at)) - 1
         /\ k # dKind[w] => DmaWorkers(k, at)' = DmaWorkers(k, at)
<1>1. k = dKind[w] => DmaWorkers(k, at)' = DmaWorkers(k, at) \ {w} /\ w \in DmaWorkers(k, at)
  BY DEF DmaOnly, DmaWorkers
<1>2. k # dKind[w] => DmaWorkers(k, at)' = DmaWorkers(k, at)
  BY DEF DmaOnly, DmaWorkers
<1>3. QED
  BY <1>1, <1>2, DmaFinite, FS_RemoveElement

\* While a copy is under way its counter is not zero.
LEMMA DmaBusyPends ==
  ASSUME DmaInv
  PROVE  /\ \A w \in Workers : dPc[w] \in DmaCounted => dPend[dKind[w]] > 0
         /\ dAsync > 0 => dPend["async"] > 0
         /\ \A k \in D!Kinds : dPend[k] >= Cardinality(DmaWorkers(k, DmaCounted))
<1>1. \A k \in D!Kinds : Cardinality(DmaWorkers(k, DmaCounted)) \in Nat /\ DmaInPipe(k) \in Nat
  BY DmaFinite DEF DmaInv, DmaType, DmaInPipe
<1>2. \A w \in Workers : dPc[w] \in DmaCounted => Cardinality(DmaWorkers(dKind[w], DmaCounted)) > 0
  <2> SUFFICES ASSUME NEW w \in Workers, dPc[w] \in DmaCounted
               PROVE  Cardinality(DmaWorkers(dKind[w], DmaCounted)) > 0
    OBVIOUS
  <2>1. w \in DmaWorkers(dKind[w], DmaCounted)
    BY DEF DmaWorkers
  <2>2. QED
    BY <2>1, DmaFinite
<1>3. \A k \in D!Kinds : dPend[k] = Cardinality(DmaWorkers(k, DmaCounted)) + DmaInPipe(k)
  BY DEF DmaInv, DmaCounts
<1>4. \A w \in Workers : dKind[w] \in D!Kinds
  BY DEF DmaInv, DmaType
<1>5. "async" \in D!Kinds /\ DmaInPipe("async") = dAsync
  BY DEF D!Kinds, DmaInPipe
<1>6. QED
  BY <1>1, <1>2, <1>3, <1>4, <1>5

\* Without pending work nobody copies and no asynchronous copy is in the pipe.
LEMMA DmaIdle ==
  ASSUME DmaInv, ~D!WorkPending
  PROVE  (\A w \in Workers : ~D!Busy(w)) /\ dAsync = 0
<1>1. \A w \in Workers : dPc[w] \notin DmaCounted
  BY DmaBusyPends DEF D!WorkPending, DmaInv, DmaType
<1>2. dAsync = 0
  BY DmaBusyPends DEF D!WorkPending, DmaInv, DmaType, D!Kinds
<1>3. QED
  BY <1>1, <1>2 DEF DmaInv, DmaType, D!Busy, DmaCounted

\* A busy worker is one that the counters count.
LEMMA DmaBusy ==
  ASSUME DmaInv, NEW w \in Workers
  PROVE  D!Busy(w) <=> dPc[w] \in DmaCounted
BY DEF DmaInv, DmaType, D!Busy, DmaCounted

\* A call moves on and stays counted.
LEMMA DmaMoves ==
  ASSUME DmaInv, NEW w \in Workers, NEW b \in DmaCounted, dPc[w] \in DmaCounted,
         dPc' = [dPc EXCEPT ![w] = b],
         /\ b \in DmaListed => dKind[w] = "sync"
         /\ b # "copy"
         /\ b \in {"counted", "over", "post"} => dKind[w] # "uc",
         UNCHANGED <<dInits, dUp, dEnabled, dVotes, dForgotten, dPend, dKind, dAsync, dCb,
                     dDestroy, dFlag, dDone, dLostRace, dLate>>,
         dWoken' \subseteq Workers, dQueue' \in Seq(Workers), dFifo' \in Seq(Workers),
         dOwn' = [v \in Workers |-> TRUE],
         DmaLimit', DmaQueue'
  PROVE  DmaInv'
<1>1. DmaOnly(w) /\ dPc'[w] = b
  BY DEF DmaOnly, DmaInv, DmaType
<1>2. DmaType'
  BY DEF DmaInv, DmaType
<1>3. DmaPlaces'
  BY <1>1 DEF DmaInv, DmaType, DmaPlaces, DmaOnly
<1>4. DmaCounts'
  <2>1. \A k \in D!Kinds : DmaWorkers(k, DmaCounted)' = DmaWorkers(k, DmaCounted)
    BY <1>1, DmaStays
  <2>2. QED
    BY <2>1 DEF DmaInv, DmaCounts, DmaInPipe
<1>5. DmaSignals'
  BY <1>1 DEF DmaInv, DmaSignals, D!WorkPending, DmaOnly, DmaCounted
<1>6. \A v \in Workers : D!Busy(v)' => D!Busy(v)
  BY <1>1 DEF D!Busy, DmaOnly, DmaCounted
<1>7. DmaLate' /\ D!CopiesAreClocked'
  BY <1>6 DEF DmaInv, DmaLate, D!CopiesAreClocked
<1>8. QED
  BY <1>2, <1>3, <1>4, <1>5, <1>7 DEF DmaInv

\* The list does not change when a caller who is not in it moves.
LEMMA DmaQueueKept ==
  ASSUME DmaInv, NEW w \in Workers, DmaOnly(w), dPc[w] \notin DmaListed,
         dPc'[w] \notin DmaListed, UNCHANGED <<dQueue, dFifo, dWoken>>
  PROVE  DmaQueue'
<1>1. \A i \in 1 .. Len(dQueue) : dQueue[i] \in Workers /\ dQueue[i] # w
  BY DEF DmaInv, DmaType, DmaQueue
<1>2. \A i \in 1 .. Len(dQueue) : dPc'[dQueue[i]] = dPc[dQueue[i]]
  BY <1>1 DEF DmaOnly
<1>3. dQueue # <<>> => 1 \in 1 .. Len(dQueue)
  BY DEF DmaInv, DmaType
<1>4. \A v \in Workers : dPc'[v] \in DmaListed <=> \E i \in 1 .. Len(dQueue) : dQueue[i] = v
  BY <1>1, <1>2 DEF DmaInv, DmaQueue, DmaOnly
<1>5. \A v \in dWoken : v \in Workers /\ v # w
  BY DEF DmaInv, DmaType, DmaQueue, DmaListed
<1>6. \A v \in dWoken : dPc'[v] = "wait" /\ v = dQueue[1]
  BY <1>5 DEF DmaInv, DmaQueue, DmaOnly
<1>7. QED
  BY <1>2, <1>3, <1>4, <1>6 DEF DmaInv, DmaQueue

\* The limit, and what is done without the list.
LEMMA DmaSimpleSteps ==
  ASSUME DmaInv, NEW w \in Workers
  PROVE  /\ D!AtLimit(w) => DmaInv'
         /\ D!BelowLimit(w) => DmaInv'
         /\ D!PostFails(w) => DmaInv'
         /\ D!UcMemcpy(w) => DmaInv'
<1>1. ASSUME NEW b \in {"over", "post", "dec"}, dPc' = [dPc EXCEPT ![w] = b], UNCHANGED dKind
      PROVE  DmaOnly(w) /\ dPc'[w] = b
  BY <1>1 DEF DmaOnly, DmaInv, DmaType
<1>2. ASSUME D!AtLimit(w) PROVE DmaInv'
  <2>1. /\ dPc' = [dPc EXCEPT ![w] = "over"] /\ dPc[w] = "counted"
        /\ UNCHANGED <<dInits, dUp, dEnabled, dVotes, dForgotten, dPend, dKind, dAsync, dCb,
                       dDestroy, dFlag, dDone, dLostRace, dLate, dOwn, dQueue, dFifo, dWoken>>
    BY <1>2 DEF D!AtLimit, D!Step, D!clock, D!pipes
  <2>2. DmaOnly(w) /\ dPc'[w] = "over" /\ dKind'[w] = dKind[w]
    BY <1>1, <2>1
  <2>3. DmaLimit'
    <3>1. \A k \in {"sync", "async"} : DmaWorkers(k, DmaAdmitted)' = DmaWorkers(k, DmaAdmitted)
      BY <2>1, <2>2, DmaStays DEF DmaAdmitted, DmaListed
    <3>2. QED
      BY <2>1, <3>1 DEF DmaInv, DmaLimit, DmaInPipe
  <2>4. DmaQueue'
    BY <2>1, <2>2, DmaQueueKept DEF DmaListed
  <2>5. dKind[w] # "uc"
    BY <2>1 DEF DmaInv, DmaPlaces
  <2>6. QED
    BY <2>1, <2>3, <2>4, <2>5, DmaMoves DEF DmaInv, DmaType, DmaCounted, DmaListed
<1>3. ASSUME D!BelowLimit(w) PROVE DmaInv'
  <2>1. /\ dPc' = [dPc EXCEPT ![w] = "post"] /\ dPc[w] = "counted" /\ dPend[dKind[w]] < MaxPending
        /\ UNCHANGED <<dInits, dUp, dEnabled, dVotes, dForgotten, dPend, dKind, dAsync, dCb,
                       dDestroy, dFlag, dDone, dLostRace, dLate, dOwn, dQueue, dFifo, dWoken>>
    BY <1>3 DEF D!BelowLimit, D!Step, D!clock, D!pipes
  <2>2. DmaOnly(w) /\ dPc'[w] = "post" /\ dKind'[w] = dKind[w]
    BY <1>1, <2>1
  <2>3. DmaLimit'
    <3> SUFFICES ASSUME NEW k \in {"sync", "async"}
                 PROVE  Cardinality(DmaWorkers(k, DmaAdmitted)') + DmaInPipe(k)' < MaxPending
      BY DEF DmaLimit
    <3>1. DmaInPipe(k)' = DmaInPipe(k) /\ DmaInPipe(k) \in Nat /\ k \in D!Kinds
      BY <2>1 DEF DmaInPipe, DmaInv, DmaType, D!Kinds
    <3>2. CASE k # dKind[w]
      <4>1. DmaWorkers(k, DmaAdmitted)' = DmaWorkers(k, DmaAdmitted)
        BY <2>1, <2>2, <3>2, DmaEnters DEF DmaAdmitted, DmaListed
      <4>2. QED
        BY <3>1, <4>1 DEF DmaInv, DmaLimit
    <3>3. CASE k = dKind[w]
      <4>1. DmaWorkers(k, DmaCounted)' = DmaWorkers(k, DmaCounted)
        BY <2>1, <2>2, DmaStays DEF DmaCounted
      <4>2. DmaWorkers(k, DmaAdmitted)' \subseteq DmaWorkers(k, DmaCounted)'
        BY DEF DmaWorkers, DmaAdmitted, DmaListed, DmaCounted
      <4>3. Cardinality(DmaWorkers(k, DmaAdmitted)') <= Cardinality(DmaWorkers(k, DmaCounted))
        BY <4>1, <4>2, DmaFinite, FS_Subset
      <4>4. Cardinality(DmaWorkers(k, DmaCounted)) + DmaInPipe(k) < MaxPending
        BY <2>1, <3>1, <3>3 DEF DmaInv, DmaCounts
      <4>5. Cardinality(DmaWorkers(k, DmaAdmitted)') \in Nat
            /\ Cardinality(DmaWorkers(k, DmaCounted)) \in Nat
        BY <4>1, <4>2, DmaFinite, FS_Subset, FS_CardinalityType
      <4>6. QED
        BY <3>1, <4>3, <4>4, <4>5
    <3>4. QED
      BY <3>2, <3>3
  <2>4. DmaQueue'
    BY <2>1, <2>2, DmaQueueKept DEF DmaListed
  <2>5. dKind[w] # "uc"
    BY <2>1 DEF DmaInv, DmaPlaces
  <2>6. QED
    BY <2>1, <2>3, <2>4, <2>5, DmaMoves DEF DmaInv, DmaType, DmaCounted, DmaListed
<1>4. ASSUME D!PostFails(w) \/ D!UcMemcpy(w) PROVE DmaInv'
  <2>1. /\ dPc' = [dPc EXCEPT ![w] = "dec"] /\ dPc[w] \in {"post", "copy"}
        /\ UNCHANGED <<dInits, dUp, dEnabled, dVotes, dForgotten, dPend, dKind, dAsync, dCb,
                       dDestroy, dFlag, dDone, dLostRace, dLate, dOwn, dQueue, dFifo, dWoken>>
    BY <1>4 DEF D!PostFails, D!UcMemcpy, D!Step, D!clock, D!pipes
  <2>2. DmaOnly(w) /\ dPc'[w] = "dec" /\ dKind'[w] = dKind[w]
    BY <1>1, <2>1
  <2>3. DmaLimit'
    <3>1. dPc[w] = "copy" => dKind[w] = "uc"
      BY DEF DmaInv, DmaPlaces
    <3>2. \A k \in {"sync", "async"} : DmaWorkers(k, DmaAdmitted)' = DmaWorkers(k, DmaAdmitted)
      BY <2>1, <2>2, <3>1 DEF DmaAdmitted, DmaListed, DmaWorkers, DmaOnly
    <3>3. QED
      BY <2>1, <3>2 DEF DmaInv, DmaLimit, DmaInPipe
  <2>4. DmaQueue'
    BY <2>1, <2>2, DmaQueueKept DEF DmaListed
  <2>5. QED
    BY <2>1, <2>3, <2>4, DmaMoves DEF DmaInv, DmaType, DmaCounted, DmaListed
<1>5. QED
  BY <1>2, <1>3, <1>4

\* The list of synchronous callers.
LEMMA DmaSyncPostStep ==
  ASSUME DmaInv, NEW w \in Workers, D!SyncPost(w)
  PROVE  DmaInv'
<1> DEFINE b == IF dQueue = <<>> THEN "poll" ELSE "wait"
<1>1. /\ dPc' = [dPc EXCEPT ![w] = b] /\ dPc[w] = "post" /\ dKind[w] = "sync"
      /\ dQueue' = Append(dQueue, w) /\ dFifo' = Append(dFifo, w)
      /\ UNCHANGED <<dInits, dUp, dEnabled, dVotes, dForgotten, dPend, dKind, dAsync, dCb,
                     dDestroy, dFlag, dDone, dLostRace, dLate, dOwn, dWoken>>
  BY DEF D!SyncPost, D!Step, D!clock
<1>2. DmaOnly(w) /\ dPc'[w] = b /\ dKind'[w] = dKind[w]
  BY <1>1 DEF DmaOnly, DmaInv, DmaType
<1>3. b \in DmaListed
  BY DEF DmaListed
<1>4. DmaLimit'
  <2>1. \A k \in {"sync", "async"} : DmaWorkers(k, DmaAdmitted)' = DmaWorkers(k, DmaAdmitted)
    BY <1>1, <1>2, <1>3, DmaStays DEF DmaAdmitted
  <2>2. QED
    BY <1>1, <2>1 DEF DmaInv, DmaLimit, DmaInPipe
<1>5. DmaQueue'
  <2> DEFINE n == Len(dQueue)
  <2>1. /\ dQueue \in Seq(Workers) /\ dFifo \in Seq(Workers) /\ n \in Nat
        /\ dQueue' \in Seq(Workers) /\ Len(dQueue') = n + 1
        /\ dQueue'[n + 1] = w /\ \A i \in 1 .. n : dQueue'[i] = dQueue[i] /\ dQueue[i] \in Workers
    BY <1>1 DEF DmaInv, DmaType
  <2>2. \A i \in 1 .. n : dQueue[i] # w /\ dPc'[dQueue[i]] = dPc[dQueue[i]]
    BY <1>1, <1>2, <2>1 DEF DmaInv, DmaQueue, DmaListed, DmaOnly
  <2>3. \A i, j \in 1 .. Len(dQueue') : dQueue'[i] = dQueue'[j] => i = j
    <3>1. \A i \in 1 .. n + 1 : i \in 1 .. n \/ i = n + 1
      BY <2>1
    <3>2. QED
      BY <2>1, <2>2, <3>1 DEF DmaInv, DmaQueue
  <2>4. \A v \in Workers : dPc'[v] \in DmaListed <=> \E i \in 1 .. Len(dQueue') : dQueue'[i] = v
    <3> TAKE v \in Workers
    <3>1. CASE v = w
      BY <1>2, <1>3, <2>1, <3>1
    <3>2. CASE v # w
      <4>1. dPc'[v] = dPc[v]
        BY <1>2, <3>2 DEF DmaOnly
      <4>2. (\E i \in 1 .. n : dQueue[i] = v) <=> (\E i \in 1 .. n + 1 : dQueue'[i] = v)
        <5>1. \A i \in 1 .. n : i \in 1 .. n + 1
          BY <2>1
        <5>2. \A i \in 1 .. n + 1 : i \in 1 .. n \/ i = n + 1
          BY <2>1
        <5>3. QED
          BY <2>1, <3>2, <5>1, <5>2
      <4>3. QED
        BY <2>1, <4>1, <4>2 DEF DmaInv, DmaQueue
    <3>3. QED
      BY <3>1, <3>2
  <2>5. dQueue = <<>> => dWoken = {} /\ n = 0
    BY <2>1 DEF DmaInv, DmaQueue, DmaType, DmaListed
  <2>6. dQueue # <<>> => n > 0 /\ dQueue'[1] = dQueue[1] /\ 1 \in 1 .. n
    BY <2>1
  <2>7. \A v \in dWoken' : dPc'[v] = "wait" /\ v = dQueue'[1]
    <3>1. \A v \in dWoken : v \in Workers /\ dPc[v] = "wait" /\ v = dQueue[1]
      BY DEF DmaInv, DmaType, DmaQueue
    <3>2. QED
      BY <1>1, <2>2, <2>5, <2>6, <3>1
  <2>8. \A i \in 1 .. Len(dQueue') : i > 1 => dPc'[dQueue'[i]] = "wait"
    <3> SUFFICES ASSUME NEW i \in 1 .. n + 1, i > 1 PROVE dPc'[dQueue'[i]] = "wait"
      BY <2>1
    <3>1. CASE i = n + 1
      <4>1. dQueue # <<>>
        BY <2>5, <3>1
      <4>2. QED
        BY <1>2, <2>1, <3>1, <4>1
    <3>2. CASE i \in 1 .. n
      BY <2>1, <2>2, <3>2 DEF DmaInv, DmaQueue
    <3>3. QED
      BY <2>1, <3>1, <3>2
  <2>9. dPc'[dQueue'[1]] = "wait" => dQueue'[1] \in dWoken'
    <3>1. CASE dQueue = <<>>
      BY <1>2, <2>1, <2>5, <3>1
    <3>2. CASE dQueue # <<>>
      BY <1>1, <2>2, <2>6, <3>2 DEF DmaInv, DmaQueue
    <3>3. QED
      BY <3>1, <3>2
  <2>10. dFifo' = IF dQueue' # <<>> /\ dPc'[dQueue'[1]] = "unlink" THEN Tail(dQueue') ELSE dQueue'
    <3>1. CASE dQueue = <<>>
      <4>1. dFifo = dQueue /\ dPc'[dQueue'[1]] = "poll"
        BY <1>2, <2>1, <2>5, <3>1 DEF DmaInv, DmaQueue
      <4>2. QED
        BY <1>1, <4>1
    <3>2. CASE dQueue # <<>>
      <4>1. dPc'[dQueue'[1]] = dPc[dQueue[1]] /\ dQueue' # <<>>
        BY <2>1, <2>2, <2>6, <3>2
      <4>2. Tail(dQueue') = Append(Tail(dQueue), w)
        BY <1>1, <2>1, <3>2
      <4>3. QED
        BY <1>1, <3>2, <4>1, <4>2 DEF DmaInv, DmaQueue
    <3>3. QED
      BY <3>1, <3>2
  <2>11. QED
    BY <2>3, <2>4, <2>7, <2>8, <2>9, <2>10 DEF DmaQueue
<1>6. QED
  <2>1. dQueue' \in Seq(Workers) /\ dFifo' \in Seq(Workers)
    BY <1>1 DEF DmaInv, DmaType
  <2>2. b \in DmaCounted /\ b # "copy" /\ b \notin {"counted", "over", "post"}
    BY DEF DmaCounted
  <2>3. dWoken' \subseteq Workers /\ dOwn' = [v \in Workers |-> TRUE] /\ dPc[w] \in DmaCounted
    BY <1>1 DEF DmaInv, DmaType, DmaCounted
  <2> HIDE DEF b
  <2>4. QED
    BY <1>1, <1>4, <1>5, <2>1, <2>2, <2>3, DmaMoves

\* Where the caller at the head of the list is.
LEMMA DmaHead ==
  ASSUME DmaInv, NEW w \in Workers,
         dPc[w] \in {"poll", "unlink"} \/ (dPc[w] = "wait" /\ w \in dWoken)
  PROVE  /\ dQueue # <<>> /\ 1 \in 1 .. Len(dQueue) /\ dQueue[1] = w
         /\ \A i \in 1 .. Len(dQueue) : dQueue[i] \in Workers /\ (i > 1 => dQueue[i] # w)
         /\ dPc[w] # "wait" => dWoken = {}
<1>1. PICK i \in 1 .. Len(dQueue) : dQueue[i] = w
  BY DEF DmaInv, DmaQueue, DmaListed
<1>2. dQueue \in Seq(Workers) /\ Len(dQueue) \in Nat
  BY DEF DmaInv, DmaType
<1>3. dQueue # <<>> /\ 1 \in 1 .. Len(dQueue)
  BY <1>1, <1>2
<1>4. dQueue[1] = w
  <2>1. CASE dPc[w] = "wait" /\ w \in dWoken
    BY <2>1 DEF DmaInv, DmaQueue
  <2>2. CASE dPc[w] # "wait"
    <3>1. ~(i > 1)
      BY <1>1, <2>2 DEF DmaInv, DmaQueue
    <3>2. i = 1
      BY <1>1, <1>2, <3>1
    <3>3. QED
      BY <1>1, <3>2
  <2>3. QED
    BY <2>1, <2>2
<1>5. \A j \in 1 .. Len(dQueue) : dQueue[j] \in Workers /\ (j > 1 => dQueue[j] # w)
  <2>1. \A j \in 1 .. Len(dQueue) : j > 1 => j # 1
    BY <1>2
  <2>2. QED
    BY <1>2, <1>3, <1>4, <2>1 DEF DmaInv, DmaQueue
<1>6. dPc[w] # "wait" => dWoken = {}
  BY <1>4 DEF DmaInv, DmaQueue
<1>7. QED
  BY <1>3, <1>4, <1>5, <1>6

\* A waiting caller has come to the head of the list.
LEMMA DmaSyncWokenStep ==
  ASSUME DmaInv, NEW w \in Workers, D!SyncWoken(w)
  PROVE  DmaInv'
<1>1. /\ dPc' = [dPc EXCEPT ![w] = "poll"] /\ dPc[w] = "wait" /\ w \in dWoken
      /\ dWoken' = dWoken \ {w}
      /\ UNCHANGED <<dInits, dUp, dEnabled, dVotes, dForgotten, dPend, dKind, dAsync, dCb,
                     dDestroy, dFlag, dDone, dLostRace, dLate, dOwn, dQueue, dFifo>>
  BY DEF D!SyncWoken, D!Step, D!clock
<1>2. DmaOnly(w) /\ dPc'[w] = "poll" /\ dKind'[w] = dKind[w]
  BY <1>1 DEF DmaOnly, DmaInv, DmaType
<1>3. DmaLimit'
  <2>1. \A k \in {"sync", "async"} : DmaWorkers(k, DmaAdmitted)' = DmaWorkers(k, DmaAdmitted)
    BY <1>1, <1>2, DmaStays DEF DmaAdmitted, DmaListed
  <2>2. QED
    BY <1>1, <2>1 DEF DmaInv, DmaLimit, DmaInPipe
<1>4. DmaQueue'
  <2>1. /\ dQueue # <<>> /\ dQueue[1] = w
        /\ \A i \in 1 .. Len(dQueue) : dQueue[i] \in Workers /\ (i > 1 => dQueue[i] # w)
    BY <1>1, DmaHead
  <2>2. \A v \in Workers : dPc'[v] \in DmaListed <=> dPc[v] \in DmaListed
    BY <1>1, <1>2 DEF DmaOnly, DmaListed
  <2>3. dWoken' = {}
    BY <1>1, <2>1 DEF DmaInv, DmaQueue
  <2>4. \A i \in 1 .. Len(dQueue) : i > 1 => dPc'[dQueue[i]] = "wait"
    BY <1>2, <2>1 DEF DmaInv, DmaQueue, DmaOnly
  <2>5. dFifo = dQueue
    BY <1>1, <2>1 DEF DmaInv, DmaQueue
  <2>6. QED
    BY <1>1, <1>2, <2>1, <2>2, <2>3, <2>4, <2>5 DEF DmaInv, DmaQueue
<1>5. dKind[w] = "sync"
  BY <1>1 DEF DmaInv, DmaPlaces, DmaListed
<1>6. QED
  BY <1>1, <1>3, <1>4, <1>5, DmaMoves DEF DmaInv, DmaType, DmaCounted, DmaListed

\* The caller at the head polls its copy out of the pipe.
LEMMA DmaSyncPollStep ==
  ASSUME DmaInv, NEW w \in Workers, D!SyncPoll(w)
  PROVE  DmaInv'
<1>1. /\ dPc' = [dPc EXCEPT ![w] = "unlink"] /\ dPc[w] = "poll" /\ dFifo # <<>>
      /\ dOwn' = [dOwn EXCEPT ![w] = Head(dFifo) = w]
      /\ dFifo' = Tail(dFifo)
      /\ UNCHANGED <<dInits, dUp, dEnabled, dVotes, dForgotten, dPend, dKind, dAsync, dCb,
                     dDestroy, dFlag, dDone, dLostRace, dLate, dQueue, dWoken>>
  BY DEF D!SyncPoll, D!Step, D!clock
<1>2. DmaOnly(w) /\ dPc'[w] = "unlink" /\ dKind'[w] = dKind[w]
  BY <1>1 DEF DmaOnly, DmaInv, DmaType
<1>3. DmaLimit'
  <2>1. \A k \in {"sync", "async"} : DmaWorkers(k, DmaAdmitted)' = DmaWorkers(k, DmaAdmitted)
    BY <1>1, <1>2, DmaStays DEF DmaAdmitted, DmaListed
  <2>2. QED
    BY <1>1, <2>1 DEF DmaInv, DmaLimit, DmaInPipe
<1>4. /\ dQueue # <<>> /\ dQueue[1] = w /\ dWoken = {}
      /\ \A i \in 1 .. Len(dQueue) : dQueue[i] \in Workers /\ (i > 1 => dQueue[i] # w)
  BY <1>1, DmaHead
<1>5. dFifo = dQueue
  BY <1>1, <1>4 DEF DmaInv, DmaQueue
<1>6. DmaQueue'
  <2>1. \A v \in Workers : dPc'[v] \in DmaListed <=> dPc[v] \in DmaListed
    BY <1>1, <1>2 DEF DmaOnly, DmaListed
  <2>2. \A i \in 1 .. Len(dQueue) : i > 1 => dPc'[dQueue[i]] = "wait"
    BY <1>2, <1>4 DEF DmaInv, DmaQueue, DmaOnly
  <2>3. QED
    BY <1>1, <1>2, <1>4, <1>5, <2>1, <2>2 DEF DmaInv, DmaQueue
<1>7. dOwn' = [v \in Workers |-> TRUE]
  <2>1. Head(dFifo) = w
    BY <1>4, <1>5
  <2>2. QED
    BY <1>1, <2>1 DEF DmaInv, DmaType
<1>8. dFifo' \in Seq(Workers)
  BY <1>1 DEF DmaInv, DmaType
<1>9. dKind[w] = "sync"
  BY <1>1 DEF DmaInv, DmaPlaces, DmaListed
<1>10. QED
  BY <1>1, <1>3, <1>6, <1>7, <1>8, <1>9, DmaMoves DEF DmaInv, DmaType, DmaCounted, DmaListed

\* The caller leaves the list and wakes the next one.
LEMMA DmaSyncUnlinkStep ==
  ASSUME DmaInv, NEW w \in Workers, D!SyncUnlink(w)
  PROVE  DmaInv'
<1> DEFINE n == Len(dQueue)
<1>1. /\ dPc' = [dPc EXCEPT ![w] = "dec"] /\ dPc[w] = "unlink"
      /\ UNCHANGED <<dInits, dUp, dEnabled, dVotes, dForgotten, dPend, dKind, dAsync, dCb,
                     dDestroy, dFlag, dDone, dLostRace, dLate, dOwn, dFifo>>
  BY DEF D!SyncUnlink, D!Step, D!clock
<1>2. DmaOnly(w) /\ dPc'[w] = "dec" /\ dKind'[w] = dKind[w]
  BY <1>1 DEF DmaOnly, DmaInv, DmaType
<1>3. DmaLimit'
  <2>1. \A k \in {"sync", "async"} : DmaWorkers(k, DmaAdmitted)' = DmaWorkers(k, DmaAdmitted)
    BY <1>1, <1>2, DmaStays DEF DmaAdmitted, DmaListed
  <2>2. QED
    BY <1>1, <2>1 DEF DmaInv, DmaLimit, DmaInPipe
<1>4. /\ dQueue # <<>> /\ dQueue[1] = w /\ dWoken = {}
      /\ \A i \in 1 .. n : dQueue[i] \in Workers /\ (i > 1 => dQueue[i] # w)
  BY <1>1, DmaHead
<1>5. dQueue \in Seq(Workers) /\ n \in Nat /\ n >= 1
  BY <1>4 DEF DmaInv, DmaType
<1>6. /\ dQueue' = D!RemoveAt(dQueue, 1)
      /\ dWoken' = IF dQueue' = <<>> THEN dWoken ELSE dWoken \cup {Head(dQueue')}
  <2>1. PICK i \in DOMAIN dQueue :
          /\ dQueue[i] = w
          /\ dQueue' = D!RemoveAt(dQueue, i)
          /\ dWoken' = IF dQueue' = <<>> THEN dWoken ELSE dWoken \cup {Head(dQueue')}
    BY DEF D!SyncUnlink
  <2>2. i \in 1 .. n /\ ~(i > 1)
    BY <1>4, <1>5, <2>1
  <2>3. i = 1
    BY <1>5, <2>2
  <2>4. QED
    BY <2>1, <2>3
<1>7. dQueue' = Tail(dQueue)
  BY <1>4, <1>5, <1>6 DEF D!RemoveAt
<1>8. /\ dQueue' \in Seq(Workers) /\ Len(dQueue') = n - 1
      /\ \A i \in 1 .. n - 1 : dQueue'[i] = dQueue[i + 1]
  BY <1>4, <1>5, <1>7
<1>9. \A i \in 1 .. n - 1 : i + 1 \in 1 .. n /\ i + 1 > 1
  BY <1>5
<1>10. \A i \in 1 .. n - 1 : dQueue'[i] # w /\ dPc[dQueue'[i]] = "wait" /\ dPc'[dQueue'[i]] = "wait"
  <2> SUFFICES ASSUME NEW i \in 1 .. n - 1
               PROVE  dQueue'[i] # w /\ dPc[dQueue'[i]] = "wait" /\ dPc'[dQueue'[i]] = "wait"
    OBVIOUS
  <2>1. dQueue'[i] = dQueue[i + 1] /\ i + 1 \in 1 .. n /\ i + 1 > 1
    BY <1>8, <1>9
  <2>2. dPc[dQueue[i + 1]] = "wait"
    BY <2>1 DEF DmaInv, DmaQueue
  <2>3. dQueue[i + 1] # w /\ dQueue[i + 1] \in Workers
    BY <1>4, <2>1
  <2>4. QED
    BY <1>2, <2>1, <2>2, <2>3 DEF DmaOnly
<1>11. dQueue' # <<>> => 1 \in 1 .. n - 1 /\ Head(dQueue') = dQueue'[1]
  BY <1>5, <1>8
<1>12. dWoken' = IF dQueue' = <<>> THEN {} ELSE {dQueue'[1]}
  BY <1>4, <1>6, <1>11
<1>13. DmaQueue'
  <2>1. \A i, j \in 1 .. Len(dQueue') : dQueue'[i] = dQueue'[j] => i = j
    <3> SUFFICES ASSUME NEW i \in 1 .. n - 1, NEW j \in 1 .. n - 1, dQueue'[i] = dQueue'[j]
                 PROVE  i = j
      BY <1>8
    <3>1. i + 1 = j + 1
      BY <1>8, <1>9 DEF DmaInv, DmaQueue
    <3>2. QED
      BY <3>1, <1>5
  <2>2. \A v \in Workers : dPc'[v] \in DmaListed <=> \E i \in 1 .. Len(dQueue') : dQueue'[i] = v
    <3> TAKE v \in Workers
    <3>1. CASE v = w
      BY <1>2, <1>8, <1>10, <3>1 DEF DmaListed
    <3>2. CASE v # w
      <4>1. dPc'[v] = dPc[v]
        BY <1>2, <3>2 DEF DmaOnly
      <4>2. (\E i \in 1 .. n : dQueue[i] = v) => \E i \in 1 .. n - 1 : dQueue'[i] = v
        <5> SUFFICES ASSUME NEW i \in 1 .. n, dQueue[i] = v
                     PROVE  \E j \in 1 .. n - 1 : dQueue'[j] = v
          OBVIOUS
        <5>1. i # 1
          BY <1>4, <3>2
        <5>2. i - 1 \in 1 .. n - 1 /\ (i - 1) + 1 = i
          BY <1>5, <5>1
        <5>3. dQueue'[i - 1] = v
          BY <1>8, <5>2
        <5>4. QED
          BY <5>2, <5>3
      <4>3. (\E i \in 1 .. n - 1 : dQueue'[i] = v) => \E i \in 1 .. n : dQueue[i] = v
        BY <1>8, <1>9
      <4>4. QED
        BY <1>8, <4>1, <4>2, <4>3 DEF DmaInv, DmaQueue
    <3>3. QED
      BY <3>1, <3>2
  <2>3. \A v \in dWoken' : dPc'[v] = "wait" /\ v = dQueue'[1]
    BY <1>10, <1>11, <1>12
  <2>4. \A i \in 1 .. Len(dQueue') : i > 1 => dPc'[dQueue'[i]] = "wait"
    BY <1>8, <1>10
  <2>5. dQueue' # <<>> => (dPc'[dQueue'[1]] = "wait" => dQueue'[1] \in dWoken')
    BY <1>12
  <2>6. dFifo' = IF dQueue' # <<>> /\ dPc'[dQueue'[1]] = "unlink" THEN Tail(dQueue') ELSE dQueue'
    <3>1. dQueue' # <<>> => dPc'[dQueue'[1]] = "wait"
      BY <1>10, <1>11
    <3>2. dFifo = Tail(dQueue)
      BY <1>1, <1>4 DEF DmaInv, DmaQueue
    <3>3. QED
      BY <1>1, <1>7, <3>1, <3>2
  <2>7. QED
    BY <2>1, <2>2, <2>3, <2>4, <2>5, <2>6 DEF DmaQueue
<1>14. dWoken' \subseteq Workers
  BY <1>8, <1>11, <1>12
<1>15. QED
  BY <1>1, <1>3, <1>8, <1>13, <1>14, DmaMoves DEF DmaInv, DmaType, DmaCounted, DmaListed

\* A copy begins, and how it ends: turned away, in the pipe, or done.
LEMMA DmaStartStep ==
  ASSUME DmaInv, NEW w \in Workers, NEW k \in D!Kinds, D!MemcpyStart(w, k)
  PROVE  DmaInv'
<1> DEFINE b == IF k = "uc" THEN "copy" ELSE "counted"
<1>1. /\ dPc' = [dPc EXCEPT ![w] = b] /\ dPc[w] = "idle" /\ dUp /\ dEnabled
      /\ dKind' = [dKind EXCEPT ![w] = k]
      /\ dPend' = [dPend EXCEPT ![k] = @ + 1]
      /\ dLate' = IF dDestroy = "tear" \/ dDone THEN dLate \cup {w} ELSE dLate
      /\ UNCHANGED <<dInits, dUp, dEnabled, dVotes, dForgotten, dAsync, dCb, dDestroy, dFlag,
                     dDone, dLostRace, dOwn, dQueue, dFifo, dWoken>>
  BY DEF D!MemcpyStart, D!Step, D!clock, D!pipes
<1>2. DmaOnly(w) /\ dPc'[w] = b /\ dKind'[w] = k
  BY <1>1 DEF DmaOnly, DmaInv, DmaType
<1>3. b \in DmaCounted /\ b \notin DmaAdmitted /\ b \notin DmaListed
      /\ dPc[w] \notin DmaCounted /\ dPc[w] \notin DmaAdmitted /\ dPc[w] \notin DmaListed
  BY <1>1 DEF DmaCounted, DmaAdmitted, DmaListed
<1>4. DmaType'
  BY <1>1, <1>3 DEF DmaInv, DmaType
<1>5. DmaPlaces'
  <2>1. \A v \in Workers : /\ dPc'[v] \in DmaListed => dKind'[v] = "sync"
                           /\ dPc'[v] = "copy" => dKind'[v] = "uc"
                           /\ dPc'[v] \in {"counted", "over", "post"} => dKind'[v] # "uc"
    BY <1>2, <1>3 DEF DmaInv, DmaPlaces, DmaOnly
  <2>2. QED
    BY <1>1, <2>1 DEF DmaInv, DmaPlaces
<1>6. DmaCounts'
  <2> SUFFICES ASSUME NEW j \in D!Kinds
               PROVE  dPend'[j] = Cardinality(DmaWorkers(j, DmaCounted)') + DmaInPipe(j)'
    BY DEF DmaCounts
  <2>1. DmaInPipe(j)' = DmaInPipe(j) /\ DmaInPipe(j) \in Nat
    BY <1>1 DEF DmaInPipe, DmaInv, DmaType
  <2>2. dPend[j] = Cardinality(DmaWorkers(j, DmaCounted)) + DmaInPipe(j)
    BY DEF DmaInv, DmaCounts
  <2>3. j = k => Cardinality(DmaWorkers(j, DmaCounted)') = Cardinality(DmaWorkers(j, DmaCounted)) + 1
    BY <1>2, <1>3, DmaEnters
  <2>4. j # k => DmaWorkers(j, DmaCounted)' = DmaWorkers(j, DmaCounted)
    BY <1>2, <1>3, DmaEnters
  <2>5. dPend'[j] = IF j = k THEN dPend[j] + 1 ELSE dPend[j]
    BY <1>1 DEF DmaInv, DmaType
  <2>6. Cardinality(DmaWorkers(j, DmaCounted)) \in Nat
    BY DmaFinite
  <2>7. QED
    BY <2>1, <2>2, <2>3, <2>4, <2>5, <2>6
<1>7. DmaLimit'
  <2>1. \A j \in {"sync", "async"} : DmaWorkers(j, DmaAdmitted)' = DmaWorkers(j, DmaAdmitted)
    BY <1>2, <1>3 DEF DmaWorkers, DmaOnly
  <2>2. QED
    BY <1>1, <2>1 DEF DmaInv, DmaLimit, DmaInPipe
<1>8. DmaQueue'
  BY <1>1, <1>2, <1>3, DmaQueueKept
<1>9. DmaSignals'
  <2>1. dPend'[k] > 0
    BY <1>1 DEF DmaInv, DmaType
  <2>2. QED
    BY <2>1 DEF DmaSignals, D!WorkPending
<1>10. DmaLate' /\ D!CopiesAreClocked'
  <2>1. \A v \in Workers : v # w => (D!Busy(v)' <=> D!Busy(v))
    BY <1>2 DEF DmaOnly, D!Busy
  <2>2. QED
    BY <1>1, <2>1 DEF DmaInv, DmaLate, D!CopiesAreClocked
<1>11. QED
  BY <1>4, <1>5, <1>6, <1>7, <1>8, <1>9, <1>10 DEF DmaInv

\* A worker that leaves takes its own count with it.
LEMMA DmaDrop ==
  ASSUME DmaInv, NEW w \in Workers, DmaOnly(w), dPc[w] \in DmaCounted, dPc'[w] \notin DmaCounted,
         D!Drop(dKind[w]), UNCHANGED dAsync
  PROVE  dPend' \in [D!Kinds -> Nat] /\ DmaCounts'
<1>1. dKind[w] \in D!Kinds /\ dPend[dKind[w]] > 0
  BY DmaBusyPends DEF DmaInv, DmaType
<1>2. dPend' = [dPend EXCEPT ![dKind[w]] = @ - 1]
  BY DEF D!Drop
<1>3. dPend' \in [D!Kinds -> Nat]
  BY <1>1, <1>2 DEF DmaInv, DmaType
<1>4. DmaCounts'
  <2> SUFFICES ASSUME NEW j \in D!Kinds
               PROVE  dPend'[j] = Cardinality(DmaWorkers(j, DmaCounted)') + DmaInPipe(j)'
    BY DEF DmaCounts
  <2>1. DmaInPipe(j)' = DmaInPipe(j) /\ DmaInPipe(j) \in Nat
    BY DEF DmaInPipe, DmaInv, DmaType
  <2>2. dPend[j] = Cardinality(DmaWorkers(j, DmaCounted)) + DmaInPipe(j)
    BY DEF DmaInv, DmaCounts
  <2>3. j = dKind[w] =>
          Cardinality(DmaWorkers(j, DmaCounted)') = Cardinality(DmaWorkers(j, DmaCounted)) - 1
    BY DmaLeaves
  <2>4. j # dKind[w] => DmaWorkers(j, DmaCounted)' = DmaWorkers(j, DmaCounted)
    BY DmaLeaves
  <2>5. dPend'[j] = IF j = dKind[w] THEN dPend[j] - 1 ELSE dPend[j]
    BY <1>2 DEF DmaInv, DmaType
  <2>6. Cardinality(DmaWorkers(j, DmaCounted)) \in Nat
    BY DmaFinite
  <2>7. QED
    BY <2>1, <2>2, <2>3, <2>4, <2>5, <2>6
<1>5. QED
  BY <1>3, <1>4

\* A caller found the limit reached and counts for a moment.
LEMMA DmaTurnedAwayStep ==
  ASSUME DmaInv, NEW w \in Workers, D!TurnedAway(w)
  PROVE  DmaInv'
<1>1. /\ dPc' = [dPc EXCEPT ![w] = "idle"] /\ dPc[w] = "over"
      /\ dKind' = [dKind EXCEPT ![w] = "sync"]
      /\ D!Drop(dKind[w])
      /\ dDestroy \in {"flag", "wait"} /\ ~D!WorkPending' => dLostRace' # {}
      /\ dLostRace # {} => dLostRace' # {}
      /\ dLate' = dLate \ {w}
      /\ UNCHANGED <<dInits, dUp, dEnabled, dVotes, dForgotten, dAsync, dCb, dDestroy, dFlag,
                     dDone, dOwn, dQueue, dFifo, dWoken>>
  BY DEF D!TurnedAway, D!Return, D!Step, D!clock, D!pipes
<1>2. DmaOnly(w) /\ dPc'[w] = "idle" /\ dKind'[w] = "sync"
  BY <1>1 DEF DmaOnly, DmaInv, DmaType
<1>3. dPend' \in [D!Kinds -> Nat] /\ DmaCounts'
  BY <1>1, <1>2, DmaDrop DEF DmaCounted
<1>4. DmaType'
  BY <1>1, <1>3 DEF DmaInv, DmaType, D!Kinds
<1>5. DmaPlaces'
  BY <1>1, <1>2 DEF DmaInv, DmaPlaces, DmaOnly, DmaListed
<1>6. DmaLimit'
  <2>1. \A j \in {"sync", "async"} : DmaWorkers(j, DmaAdmitted)' = DmaWorkers(j, DmaAdmitted)
    BY <1>1, <1>2 DEF DmaWorkers, DmaOnly, DmaAdmitted, DmaListed
  <2>2. QED
    BY <1>1, <2>1 DEF DmaInv, DmaLimit, DmaInPipe
<1>7. DmaQueue'
  BY <1>1, <1>2, DmaQueueKept DEF DmaListed
<1>8. DmaSignals'
  BY <1>1 DEF DmaSignals
<1>9. DmaLate' /\ D!CopiesAreClocked'
  BY <1>1, <1>2 DEF DmaInv, DmaLate, D!CopiesAreClocked, DmaOnly, D!Busy
<1>10. QED
  BY <1>3, <1>4, <1>5, <1>6, <1>7, <1>8, <1>9 DEF DmaInv

\* An asynchronous copy goes into the pipe.
LEMMA DmaAsyncPostStep ==
  ASSUME DmaInv, NEW w \in Workers, D!AsyncPost(w)
  PROVE  DmaInv'
<1>1. /\ dPc' = [dPc EXCEPT ![w] = "idle"] /\ dPc[w] = "post" /\ dKind[w] = "async"
      /\ dKind' = [dKind EXCEPT ![w] = "sync"]
      /\ dAsync' = dAsync + 1
      /\ dLate' = IF w \in dLate THEN (dLate \ {w}) \cup {"async"} ELSE dLate
      /\ UNCHANGED <<dInits, dUp, dEnabled, dVotes, dForgotten, dPend, dCb, dDestroy, dFlag,
                     dDone, dLostRace, dOwn, dQueue, dFifo, dWoken>>
  BY DEF D!AsyncPost, D!Return, D!Step, D!clock
<1>2. DmaOnly(w) /\ dPc'[w] = "idle" /\ dKind'[w] = "sync"
  BY <1>1 DEF DmaOnly, DmaInv, DmaType
<1>3. /\ dPc[w] \in DmaCounted /\ dPc'[w] \notin DmaCounted
      /\ dPc[w] \in DmaAdmitted /\ dPc'[w] \notin DmaAdmitted
  BY <1>1, <1>2 DEF DmaCounted, DmaAdmitted, DmaListed
<1>4. DmaType'
  BY <1>1 DEF DmaInv, DmaType, D!Kinds
<1>5. DmaPlaces'
  BY <1>1, <1>2 DEF DmaInv, DmaPlaces, DmaOnly, DmaListed
<1>6. /\ dAsync \in Nat /\ DmaInPipe("async") = dAsync /\ DmaInPipe("async")' = dAsync + 1
      /\ \A j : j # "async" => DmaInPipe(j) = 0 /\ DmaInPipe(j)' = 0
  BY <1>1 DEF DmaInv, DmaType, DmaInPipe
<1>7. \A at : Cardinality(DmaWorkers("async", at)) \in Nat
  BY DmaFinite
<1>8. DmaCounts'
  <2>1. /\ Cardinality(DmaWorkers("async", DmaCounted)')
             = Cardinality(DmaWorkers("async", DmaCounted)) - 1
        /\ \A j : j # "async" => DmaWorkers(j, DmaCounted)' = DmaWorkers(j, DmaCounted)
    BY <1>1, <1>2, <1>3, DmaLeaves
  <2>2. QED
    BY <1>1, <1>6, <1>7, <2>1 DEF DmaInv, DmaCounts
<1>9. DmaLimit'
  <2>1. /\ Cardinality(DmaWorkers("async", DmaAdmitted)')
             = Cardinality(DmaWorkers("async", DmaAdmitted)) - 1
        /\ \A j : j # "async" => DmaWorkers(j, DmaAdmitted)' = DmaWorkers(j, DmaAdmitted)
    BY <1>1, <1>2, <1>3, DmaLeaves
  <2>2. QED
    BY <1>1, <1>6, <1>7, <2>1 DEF DmaInv, DmaLimit
<1>10. DmaQueue'
  BY <1>1, <1>2, DmaQueueKept DEF DmaListed
<1>11. DmaSignals'
  BY <1>1, <1>2 DEF DmaInv, DmaSignals, D!WorkPending, DmaOnly
<1>12. DmaLate'
  BY <1>1, <1>2 DEF DmaInv, DmaLate, DmaOnly, D!Busy
<1>13. D!CopiesAreClocked'
  BY <1>1, <1>2 DEF DmaInv, D!CopiesAreClocked, DmaOnly, D!Busy
<1>14. QED
  BY <1>4, <1>5, <1>8, <1>9, <1>10, <1>11, <1>12, <1>13 DEF DmaInv

\* A caller is no longer counted.
LEMMA DmaDecStep ==
  ASSUME DmaInv, NEW w \in Workers, D!MemcpyDec(w)
  PROVE  DmaInv'
<1>1. /\ dPc' = [dPc EXCEPT ![w] = "signal"] /\ dPc[w] = "dec"
      /\ D!Drop(dKind[w])
      /\ UNCHANGED <<dInits, dUp, dEnabled, dVotes, dForgotten, dKind, dAsync, dCb, dDestroy,
                     dFlag, dDone, dLostRace, dLate, dOwn, dQueue, dFifo, dWoken>>
  BY DEF D!MemcpyDec, D!Step, D!clock, D!pipes
<1>2. DmaOnly(w) /\ dPc'[w] = "signal" /\ dKind'[w] = dKind[w]
  BY <1>1 DEF DmaOnly, DmaInv, DmaType
<1>3. dPend' \in [D!Kinds -> Nat] /\ DmaCounts'
  BY <1>1, <1>2, DmaDrop DEF DmaCounted
<1>4. DmaType'
  BY <1>1, <1>3 DEF DmaInv, DmaType
<1>5. DmaPlaces'
  BY <1>1, <1>2 DEF DmaInv, DmaPlaces, DmaOnly, DmaListed
<1>6. DmaLimit'
  <2> SUFFICES ASSUME NEW j \in {"sync", "async"}
               PROVE  Cardinality(DmaWorkers(j, DmaAdmitted)') + DmaInPipe(j)' < MaxPending
    BY DEF DmaLimit
  <2>1. DmaInPipe(j)' = DmaInPipe(j) /\ DmaInPipe(j) \in Nat
    BY <1>1 DEF DmaInPipe, DmaInv, DmaType
  <2>2. /\ j = dKind[w] =>
             Cardinality(DmaWorkers(j, DmaAdmitted)') = Cardinality(DmaWorkers(j, DmaAdmitted)) - 1
        /\ j # dKind[w] => DmaWorkers(j, DmaAdmitted)' = DmaWorkers(j, DmaAdmitted)
    BY <1>1, <1>2, DmaLeaves DEF DmaAdmitted, DmaListed
  <2>3. Cardinality(DmaWorkers(j, DmaAdmitted)) + DmaInPipe(j) < MaxPending
    BY DEF DmaInv, DmaLimit
  <2>4. Cardinality(DmaWorkers(j, DmaAdmitted)) \in Nat
    BY DmaFinite
  <2>5. QED
    BY <2>1, <2>2, <2>3, <2>4
<1>7. DmaQueue'
  BY <1>1, <1>2, DmaQueueKept DEF DmaListed
<1>8. DmaSignals'
  BY <1>2 DEF DmaSignals
<1>9. DmaLate' /\ D!CopiesAreClocked'
  BY <1>1, <1>2 DEF DmaInv, DmaLate, D!CopiesAreClocked, DmaOnly, D!Busy
<1>10. QED
  BY <1>3, <1>4, <1>5, <1>6, <1>7, <1>8, <1>9 DEF DmaInv

\* What an ending copy or callback says to destroy.
LEMMA DmaSignalled ==
  ASSUME DmaInv, D!Signal, D!Unheard, UNCHANGED <<dUp, dPend, dDestroy, dFlag>>
  PROVE  /\ dDone' \in BOOLEAN
         /\ dDone' => dFlag
         /\ dDone' => dDone \/ ~D!WorkPending
         /\ dDestroy \in {"flag", "wait"} => D!WorkPending' \/ dLostRace' # {} \/ dDone'
<1>1. dDone' = (dDone \/ (dFlag /\ ~D!WorkPending)) /\ dDone \in BOOLEAN
  BY DEF D!Signal, DmaInv, DmaType
<1>2. dDone => dFlag
  BY DEF DmaInv, DmaPlaces
<1>3. D!WorkPending' <=> D!WorkPending
  BY DEF D!WorkPending
<1>4. dDestroy = "flag" /\ ~D!WorkPending => dLostRace' # {}
  BY DEF D!Unheard
<1>5. dDestroy = "wait" => dFlag
  BY DEF DmaInv, DmaPlaces
<1>6. QED
  BY <1>1, <1>2, <1>3, <1>4, <1>5

\* A caller that left tells a destroy that waits.
LEMMA DmaSignalStep ==
  ASSUME DmaInv, NEW w \in Workers, D!MemcpySignal(w)
  PROVE  DmaInv'
<1>1. /\ dPc' = [dPc EXCEPT ![w] = "idle"] /\ dPc[w] = "signal"
      /\ dKind' = [dKind EXCEPT ![w] = "sync"]
      /\ D!Signal /\ D!Unheard
      /\ dLate' = dLate \ {w}
      /\ UNCHANGED <<dInits, dUp, dEnabled, dVotes, dForgotten, dPend, dAsync, dCb, dDestroy,
                     dFlag, dOwn, dQueue, dFifo, dWoken>>
  BY DEF D!MemcpySignal, D!Return, D!Step, D!clock, D!pipes
<1>2. DmaOnly(w) /\ dPc'[w] = "idle" /\ dKind'[w] = "sync"
  BY <1>1 DEF DmaOnly, DmaInv, DmaType
<1>3. /\ dDone' \in BOOLEAN /\ (dDone' => dFlag)
      /\ dDone' => dDone \/ ~D!WorkPending
      /\ dDestroy \in {"flag", "wait"} => D!WorkPending' \/ dLostRace' # {} \/ dDone'
  BY <1>1, DmaSignalled
<1>4. DmaType'
  BY <1>1, <1>3 DEF DmaInv, DmaType, D!Kinds
<1>5. DmaPlaces'
  BY <1>1, <1>2, <1>3 DEF DmaInv, DmaPlaces, DmaOnly, DmaListed
<1>6. \A j : /\ DmaWorkers(j, DmaCounted)' = DmaWorkers(j, DmaCounted)
             /\ DmaWorkers(j, DmaAdmitted)' = DmaWorkers(j, DmaAdmitted)
  BY <1>1, <1>2 DEF DmaWorkers, DmaOnly, DmaAdmitted, DmaListed, DmaCounted
<1>7. DmaCounts' /\ DmaLimit'
  BY <1>1, <1>6 DEF DmaInv, DmaCounts, DmaLimit, DmaInPipe
<1>8. DmaQueue'
  BY <1>1, <1>2, DmaQueueKept DEF DmaListed
<1>9. DmaSignals'
  BY <1>1, <1>3 DEF DmaSignals
<1>10. \A v \in Workers : D!Busy(v)' => D!Busy(v) /\ v # w
  BY <1>1, <1>2 DEF D!Busy, DmaOnly
<1>11. DmaLate'
  <2>1. CASE dDestroy = "tear" \/ dDone
    BY <1>1, <1>10, <2>1 DEF DmaInv, DmaLate
  <2>2. CASE ~D!WorkPending
    BY <1>1, <1>10, <2>2, DmaIdle DEF DmaLate
  <2>3. QED
    BY <1>1, <1>3, <2>1, <2>2 DEF DmaLate
<1>12. D!CopiesAreClocked'
  BY <1>1, <1>10 DEF DmaInv, D!CopiesAreClocked
<1>13. QED
  BY <1>4, <1>5, <1>7, <1>8, <1>9, <1>11, <1>12 DEF DmaInv

\* What the workers do not change.
LEMMA DmaWorkersKept ==
  ASSUME DmaInv, UNCHANGED <<dPc, dKind, dQueue, dFifo, dWoken, dOwn>>
  PROVE  /\ DmaQueue'
         /\ \A j, at : DmaWorkers(j, at)' = DmaWorkers(j, at)
         /\ \A v \in Workers : D!Busy(v)' <=> D!Busy(v)
<1>1. DmaQueue'
  BY DEF DmaInv, DmaQueue
<1>2. QED
  BY <1>1 DEF DmaWorkers, D!Busy

\* The callback of an asynchronous copy.
LEMMA DmaNotifyCbStep ==
  ASSUME DmaInv, D!NotifyCb
  PROVE  DmaInv'
<1>1. /\ dAsync > 0 /\ dAsync' = dAsync - 1 /\ dCb' = "signal"
      /\ dPend' = [dPend EXCEPT !["async"] = @ - 1]
      /\ UNCHANGED <<dInits, dUp, dEnabled, dVotes, dForgotten, dPc, dKind, dDestroy, dFlag,
                     dDone, dLostRace, dLate, dOwn, dQueue, dFifo, dWoken>>
  BY DEF D!NotifyCb, D!Drop, D!clock
<1>2. dPend["async"] > 0 /\ "async" \in D!Kinds /\ dAsync \in Nat
  BY <1>1, DmaBusyPends DEF D!Kinds, DmaInv, DmaType
<1>3. DmaType'
  <2>1. dPend' \in [D!Kinds -> Nat] /\ dAsync' \in Nat
    BY <1>1, <1>2 DEF DmaInv, DmaType
  <2>2. QED
    BY <1>1, <2>1 DEF DmaInv, DmaType
<1>4. DmaPlaces' /\ DmaSignals'
  BY <1>1 DEF DmaInv, DmaPlaces, DmaSignals
<1>5. /\ DmaQueue'
      /\ \A j, at : DmaWorkers(j, at)' = DmaWorkers(j, at)
      /\ \A v \in Workers : D!Busy(v)' <=> D!Busy(v)
  BY <1>1, DmaWorkersKept
<1>6. /\ DmaInPipe("async") = dAsync /\ DmaInPipe("async")' = dAsync - 1
      /\ \A j : j # "async" => DmaInPipe(j) = 0 /\ DmaInPipe(j)' = 0
  BY <1>1 DEF DmaInPipe
<1>7. \A j, at : Cardinality(DmaWorkers(j, at)) \in Nat
  BY DmaFinite
<1>8. DmaCounts'
  <2>1. \A j \in D!Kinds : dPend'[j] = IF j = "async" THEN dPend[j] - 1 ELSE dPend[j]
    BY <1>1 DEF DmaInv, DmaType
  <2>2. QED
    BY <1>2, <1>5, <1>6, <1>7, <2>1 DEF DmaInv, DmaCounts
<1>9. DmaLimit'
  BY <1>2, <1>5, <1>6, <1>7 DEF DmaInv, DmaLimit
<1>10. DmaLate' /\ D!CopiesAreClocked'
  BY <1>1, <1>2, <1>5 DEF DmaInv, DmaLate, D!CopiesAreClocked
<1>11. QED
  BY <1>3, <1>4, <1>5, <1>8, <1>9, <1>10 DEF DmaInv

\* The callback tells a destroy that waits.
LEMMA DmaNotifySignalStep ==
  ASSUME DmaInv, D!NotifySignal
  PROVE  DmaInv'
<1>1. /\ dCb' = "none" /\ D!Signal /\ D!Unheard
      /\ UNCHANGED <<dInits, dUp, dEnabled, dVotes, dForgotten, dPend, dPc, dKind, dAsync,
                     dDestroy, dFlag, dLate, dOwn, dQueue, dFifo, dWoken>>
  BY DEF D!NotifySignal, D!clock, D!pipes
<1>2. /\ dDone' \in BOOLEAN /\ (dDone' => dFlag)
      /\ dDone' => dDone \/ ~D!WorkPending
      /\ dDestroy \in {"flag", "wait"} => D!WorkPending' \/ dLostRace' # {} \/ dDone'
  BY <1>1, DmaSignalled
<1>3. DmaType'
  BY <1>1, <1>2 DEF DmaInv, DmaType
<1>4. DmaPlaces' /\ DmaSignals'
  BY <1>1, <1>2 DEF DmaInv, DmaPlaces, DmaSignals
<1>5. /\ DmaQueue'
      /\ \A j, at : DmaWorkers(j, at)' = DmaWorkers(j, at)
      /\ \A v \in Workers : D!Busy(v)' <=> D!Busy(v)
  BY <1>1, DmaWorkersKept
<1>6. DmaCounts' /\ DmaLimit'
  BY <1>1, <1>5 DEF DmaInv, DmaCounts, DmaLimit, DmaInPipe
<1>7. DmaLate'
  <2>1. CASE dDestroy = "tear" \/ dDone
    BY <1>1, <1>5, <2>1 DEF DmaInv, DmaLate
  <2>2. CASE ~D!WorkPending
    BY <1>1, <1>5, <2>2, DmaIdle DEF DmaLate
  <2>3. QED
    BY <1>1, <1>2, <2>1, <2>2 DEF DmaLate
<1>8. D!CopiesAreClocked'
  BY <1>1, <1>5 DEF DmaInv, D!CopiesAreClocked
<1>9. QED
  BY <1>3, <1>4, <1>5, <1>6, <1>7, <1>8 DEF DmaInv

\* Set-up, clock and destroy.
LEMMA DmaClockSteps ==
  ASSUME DmaInv
  PROVE  /\ D!DmaInit => DmaInv'
         /\ D!DmaEnable => DmaInv'
         /\ D!DmaDisable => DmaInv'
<1>1. ASSUME UNCHANGED <<dPend, dPc, dKind, dAsync, dQueue, dFifo, dWoken, dOwn>>
      PROVE  /\ DmaQueue' /\ DmaCounts' /\ DmaLimit'
             /\ \A v \in Workers : D!Busy(v)' <=> D!Busy(v)
             /\ D!WorkPending' <=> D!WorkPending
  <2>1. /\ DmaQueue'
        /\ \A j, at : DmaWorkers(j, at)' = DmaWorkers(j, at)
        /\ \A v \in Workers : D!Busy(v)' <=> D!Busy(v)
    BY <1>1, DmaWorkersKept
  <2>2. QED
    BY <1>1, <2>1 DEF DmaInv, DmaCounts, DmaLimit, DmaInPipe, D!WorkPending
<1>2. ASSUME D!DmaInit PROVE DmaInv'
  <2>1. /\ ~dUp /\ dUp' = TRUE /\ dEnabled' = FALSE /\ dFlag' = FALSE /\ dDone' = FALSE
        /\ UNCHANGED <<dVotes, dForgotten, dPend, dPc, dKind, dAsync, dCb, dDestroy, dOwn,
                       dQueue, dFifo, dWoken>>
    BY <1>2 DEF D!DmaInit, D!pipes
  <2>2. ~dEnabled /\ dDestroy = "none"
    BY <2>1 DEF DmaInv, DmaPlaces
  <2>3. DmaType'
    BY <2>1 DEF DmaInv, DmaType
  <2>4. DmaPlaces' /\ DmaSignals' /\ DmaLate'
    BY <2>1, <2>2 DEF DmaInv, DmaPlaces, DmaSignals, DmaLate
  <2>5. D!CopiesAreClocked'
    BY <1>1, <2>1, <2>2 DEF DmaInv, D!CopiesAreClocked
  <2>6. QED
    BY <1>1, <2>1, <2>3, <2>4, <2>5 DEF DmaInv
<1>3. ASSUME D!DmaEnable PROVE DmaInv'
  <2>1. /\ dUp /\ ~dEnabled /\ dEnabled' = TRUE /\ dVotes' = dVotes + 1
        /\ UNCHANGED <<dUp, dForgotten, dPend, dPc, dKind, dAsync, dCb, dDestroy, dOwn,
                       dQueue, dFifo, dWoken, dFlag, dDone, dLostRace, dLate>>
    BY <1>3 DEF D!DmaEnable, D!pipes
  <2>2. DmaType'
    <3>1. dVotes' \in Nat
      BY <2>1 DEF DmaInv, DmaType
    <3>2. QED
      BY <2>1, <3>1 DEF DmaInv, DmaType
  <2>3. DmaPlaces' /\ DmaSignals' /\ DmaLate'
    BY <1>1, <2>1 DEF DmaInv, DmaPlaces, DmaSignals, DmaLate
  <2>4. D!CopiesAreClocked'
    <3>1. dVotes = dForgotten
      BY <2>1 DEF DmaInv, D!CopiesAreClocked, DmaType
    <3>2. dVotes' = dForgotten' + 1
      BY <2>1, <3>1
    <3>3. QED
      BY <2>1, <3>2 DEF D!CopiesAreClocked
  <2>5. QED
    BY <1>1, <2>1, <2>2, <2>3, <2>4 DEF DmaInv
<1>4. ASSUME D!DmaDisable PROVE DmaInv'
  <2>1. /\ dUp /\ dEnabled /\ dEnabled' = FALSE /\ dVotes' = dVotes - 1 /\ ~D!WorkPending
        /\ UNCHANGED <<dUp, dForgotten, dPend, dPc, dKind, dAsync, dCb, dDestroy, dOwn,
                       dQueue, dFifo, dWoken, dFlag, dDone, dLostRace, dLate>>
    BY <1>4 DEF D!DmaDisable, D!pipes
  <2>2. dVotes = dForgotten + 1 /\ dForgotten \in Nat
    BY <2>1 DEF DmaInv, DmaType, D!CopiesAreClocked
  <2>3. dVotes' = dForgotten' /\ dVotes' \in Nat
    BY <2>1, <2>2
  <2>4. DmaType'
    BY <2>1, <2>3 DEF DmaInv, DmaType
  <2>5. DmaPlaces' /\ DmaSignals' /\ DmaLate'
    BY <1>1, <2>1 DEF DmaInv, DmaPlaces, DmaSignals, DmaLate
  <2>6. (\A v \in Workers : ~D!Busy(v)') /\ dAsync' = 0
    BY <1>1, <2>1, DmaIdle
  <2>7. dVotes' = dForgotten' + 0
    BY <2>2, <2>3, <2>1
  <2>8. D!CopiesAreClocked'
    BY <2>1, <2>6, <2>7 DEF D!CopiesAreClocked
  <2>9. QED
    BY <1>1, <2>1, <2>4, <2>5, <2>8 DEF DmaInv
<1>5. QED
  BY <1>2, <1>3, <1>4

\* ipa2_dma_destroy() by its steps.
LEMMA DmaDestroySteps ==
  ASSUME DmaInv
  PROVE  /\ D!DmaDestroy => DmaInv'
         /\ D!DestroyFlag => DmaInv'
         /\ D!DestroyWoken => DmaInv'
         /\ D!DestroyTear => DmaInv'
<1>1. ASSUME UNCHANGED <<dUp, dEnabled, dVotes, dForgotten, dPend, dPc, dKind, dAsync, dQueue,
                         dFifo, dWoken, dOwn>>
      PROVE  /\ DmaQueue' /\ DmaCounts' /\ DmaLimit' /\ D!CopiesAreClocked'
             /\ \A v \in Workers : D!Busy(v)' <=> D!Busy(v)
             /\ D!WorkPending' <=> D!WorkPending
  <2>1. /\ DmaQueue'
        /\ \A j, at : DmaWorkers(j, at)' = DmaWorkers(j, at)
        /\ \A v \in Workers : D!Busy(v)' <=> D!Busy(v)
    BY <1>1, DmaWorkersKept
  <2>2. DmaCounts' /\ DmaLimit' /\ (D!WorkPending' <=> D!WorkPending)
    BY <1>1, <2>1 DEF DmaInv, DmaCounts, DmaLimit, DmaInPipe, D!WorkPending
  <2>3. D!CopiesAreClocked'
    BY <1>1, <2>1 DEF DmaInv, D!CopiesAreClocked
  <2>4. QED
    BY <2>1, <2>2, <2>3
<1>2. ASSUME D!DmaDestroy PROVE DmaInv'
  <2>1. /\ dUp /\ dDestroy = "none"
        /\ dDestroy' = IF D!WorkPending THEN "flag" ELSE "tear"
        /\ UNCHANGED <<dUp, dEnabled, dVotes, dForgotten, dPend, dPc, dKind, dAsync, dQueue,
                       dFifo, dWoken, dOwn, dCb, dFlag, dDone, dLostRace, dLate>>
    BY <1>2 DEF D!DmaDestroy, D!clock, D!pipes
  <2>2. ~dFlag /\ ~dDone
    BY <2>1 DEF DmaInv, DmaPlaces
  <2>3. DmaType'
    BY <2>1 DEF DmaInv, DmaType
  <2>4. DmaPlaces' /\ DmaSignals'
    BY <1>1, <2>1, <2>2 DEF DmaInv, DmaPlaces, DmaSignals
  <2>5. DmaLate'
    <3>1. CASE D!WorkPending
      BY <2>1, <2>2, <3>1 DEF DmaLate
    <3>2. CASE ~D!WorkPending
      BY <1>1, <2>1, <3>2, DmaIdle DEF DmaLate
    <3>3. QED
      BY <3>1, <3>2
  <2>6. QED
    BY <1>1, <2>1, <2>3, <2>4, <2>5 DEF DmaInv
<1>3. ASSUME D!DestroyFlag PROVE DmaInv'
  <2>1. /\ dDestroy = "flag" /\ dDestroy' = "wait" /\ dFlag' = TRUE
        /\ UNCHANGED <<dUp, dEnabled, dVotes, dForgotten, dPend, dPc, dKind, dAsync, dQueue,
                       dFifo, dWoken, dOwn, dCb, dDone, dLostRace, dLate>>
    BY <1>3 DEF D!DestroyFlag, D!clock, D!pipes
  <2>2. DmaType'
    BY <2>1 DEF DmaInv, DmaType
  <2>3. DmaPlaces' /\ DmaSignals' /\ DmaLate'
    BY <1>1, <2>1 DEF DmaInv, DmaPlaces, DmaSignals, DmaLate
  <2>4. QED
    BY <1>1, <2>1, <2>2, <2>3 DEF DmaInv
<1>4. ASSUME D!DestroyWoken PROVE DmaInv'
  <2>1. /\ dDestroy = "wait" /\ dDone /\ dDestroy' = "tear" /\ dDone' = FALSE
        /\ UNCHANGED <<dUp, dEnabled, dVotes, dForgotten, dPend, dPc, dKind, dAsync, dQueue,
                       dFifo, dWoken, dOwn, dCb, dFlag, dLostRace, dLate>>
    BY <1>4 DEF D!DestroyWoken, D!clock, D!pipes
  <2>2. DmaType'
    BY <2>1 DEF DmaInv, DmaType
  <2>3. DmaPlaces' /\ DmaSignals' /\ DmaLate'
    BY <1>1, <2>1 DEF DmaInv, DmaPlaces, DmaSignals, DmaLate
  <2>4. QED
    BY <1>1, <2>1, <2>2, <2>3 DEF DmaInv
<1>5. ASSUME D!DestroyTear PROVE DmaInv'
  <2>1. /\ dDestroy = "tear" /\ dUp' = FALSE /\ dEnabled' = FALSE /\ dDestroy' = "none"
        /\ dForgotten' = IF dEnabled THEN dForgotten + 1 ELSE dForgotten
        /\ dPend' = [k \in D!Kinds |-> 0]
        /\ dPc' = [w \in Workers |-> "idle"] /\ dKind' = [w \in Workers |-> "sync"]
        /\ dQueue' = <<>> /\ dFifo' = <<>> /\ dWoken' = {} /\ dAsync' = 0 /\ dCb' = "none"
        /\ UNCHANGED <<dVotes, dOwn, dFlag, dDone>>
    BY <1>5 DEF D!DestroyTear
  <2>2. DmaType'
    <3>1. dForgotten' \in Nat /\ dAsync' \in Nat /\ dVotes' \in Nat
      BY <2>1 DEF DmaInv, DmaType
    <3>2. dPend' \in [D!Kinds -> Nat]
      BY <2>1
    <3>3. dUp' \in BOOLEAN /\ dEnabled' \in BOOLEAN /\ dFlag' \in BOOLEAN /\ dDone' \in BOOLEAN
      BY <2>1 DEF DmaInv, DmaType
    <3>4. /\ dPc' \in [Workers -> DmaCounted \cup {"idle", "signal"}]
          /\ dKind' \in [Workers -> D!Kinds] /\ dOwn' = [w \in Workers |-> TRUE]
      BY <2>1 DEF DmaInv, DmaType, D!Kinds
    <3>5. dWoken' \subseteq Workers /\ dQueue' \in Seq(Workers) /\ dFifo' \in Seq(Workers)
      BY <2>1
    <3>6. dCb' \in {"none", "signal"} /\ dDestroy' \in {"none", "flag", "wait", "tear"}
      BY <2>1
    <3>7. QED
      BY <3>1, <3>2, <3>3, <3>4, <3>5, <3>6 DEF DmaType
  <2>3. DmaPlaces' /\ DmaSignals' /\ DmaLate' /\ DmaQueue'
    BY <2>1 DEF DmaInv, DmaPlaces, DmaSignals, DmaLate, DmaQueue, DmaListed, D!Busy
  <2>4. \A k : DmaWorkers(k, DmaCounted)' = {} /\ DmaWorkers(k, DmaAdmitted)' = {} /\ DmaInPipe(k)' = 0
    BY <2>1 DEF DmaWorkers, DmaCounted, DmaAdmitted, DmaListed, DmaInPipe
  <2>5. DmaCounts' /\ DmaLimit'
    <3>1. Cardinality({}) = 0
      BY FS_EmptySet
    <3>2. \A k \in D!Kinds : dPend'[k] = 0
      BY <2>1
    <3>3. DmaCounts'
      <4>1. \A k \in D!Kinds : Cardinality(DmaWorkers(k, DmaCounted)') = 0 /\ DmaInPipe(k)' = 0
        BY ONLY <2>4, <3>1
      <4>2. QED
        BY <3>2, <4>1 DEF DmaCounts
    <3>4. DmaLimit'
      BY <2>4, <3>1 DEF DmaLimit
    <3>5. QED
      BY <3>3, <3>4
  <2>6. D!CopiesAreClocked'
    <3>1. dVotes = dForgotten'
      BY <2>1 DEF DmaInv, DmaType, D!CopiesAreClocked
    <3>2. dForgotten' \in Nat
      BY <2>2 DEF DmaType
    <3>3. QED
      BY <2>1, <3>1, <3>2 DEF D!CopiesAreClocked, D!Busy
  <2>7. QED
    BY <2>2, <2>3, <2>5, <2>6 DEF DmaInv
<1>6. QED
  BY <1>2, <1>3, <1>4, <1>5

\* Every step of the copy service keeps the invariant.
LEMMA DmaStep == DmaInv /\ D!Next => DmaInv'
<1> SUFFICES ASSUME DmaInv, D!Next PROVE DmaInv'
  OBVIOUS
<1>1. ASSUME NEW w \in Workers, D!Copy(w) PROVE DmaInv'
  BY <1>1, DmaStartStep, DmaSimpleSteps, DmaTurnedAwayStep, DmaAsyncPostStep, DmaSyncPostStep,
     DmaSyncWokenStep, DmaSyncPollStep, DmaSyncUnlinkStep, DmaDecStep, DmaSignalStep
  DEF D!Copy
<1>2. QED
  BY <1>1, DmaClockSteps, DmaNotifyCbStep, DmaNotifySignalStep, DmaDestroySteps DEF D!Next

\* The invariant holds before ipa_dma_init().
LEMMA DmaStart == D!Init => DmaInv
<1> SUFFICES ASSUME D!Init PROVE DmaInv
  OBVIOUS
<1>1. /\ dInits = 0 /\ dUp = FALSE /\ dEnabled = FALSE /\ dVotes = 0 /\ dForgotten = 0
      /\ dPend = [k \in D!Kinds |-> 0]
      /\ dPc = [w \in Workers |-> "idle"] /\ dKind = [w \in Workers |-> "sync"]
      /\ dOwn = [w \in Workers |-> TRUE]
      /\ dQueue = <<>> /\ dFifo = <<>> /\ dWoken = {} /\ dAsync = 0
      /\ dCb = "none" /\ dDestroy = "none" /\ dFlag = FALSE /\ dDone = FALSE
  BY DEF D!Init
<1>2. DmaType
  <2>1. dVotes \in Nat /\ dForgotten \in Nat /\ dAsync \in Nat /\ dPend \in [D!Kinds -> Nat]
    BY <1>1
  <2>2. dUp \in BOOLEAN /\ dEnabled \in BOOLEAN /\ dFlag \in BOOLEAN /\ dDone \in BOOLEAN
    BY <1>1
  <2>3. /\ dPc \in [Workers -> DmaCounted \cup {"idle", "signal"}]
        /\ dKind \in [Workers -> D!Kinds]
    BY <1>1 DEF D!Kinds
  <2>4. dWoken \subseteq Workers /\ dQueue \in Seq(Workers) /\ dFifo \in Seq(Workers)
    BY <1>1
  <2>5. dCb \in {"none", "signal"} /\ dDestroy \in {"none", "flag", "wait", "tear"}
    BY <1>1
  <2>6. QED
    BY <1>1, <2>1, <2>2, <2>3, <2>4, <2>5 DEF DmaType
<1>3. DmaPlaces /\ DmaSignals /\ DmaLate /\ DmaQueue
  BY <1>1 DEF DmaPlaces, DmaSignals, DmaLate, DmaQueue, DmaListed, D!Busy
<1>4. \A k : DmaWorkers(k, DmaCounted) = {} /\ DmaWorkers(k, DmaAdmitted) = {} /\ DmaInPipe(k) = 0
  BY <1>1 DEF DmaWorkers, DmaCounted, DmaAdmitted, DmaListed, DmaInPipe
<1>5. DmaCounts /\ DmaLimit
  <2>1. Cardinality({}) = 0
    BY FS_EmptySet
  <2>2. \A k \in D!Kinds : dPend[k] = 0
    BY <1>1
  <2>3. DmaCounts
    <3>1. \A k \in D!Kinds : Cardinality(DmaWorkers(k, DmaCounted)) = 0 /\ DmaInPipe(k) = 0
      BY ONLY <1>4, <2>1
    <3>2. QED
      BY <2>2, <3>1 DEF DmaCounts
  <2>4. DmaLimit
    BY <1>4, <2>1 DEF DmaLimit
  <2>5. QED
    BY <2>3, <2>4
<1>6. D!CopiesAreClocked
  BY <1>1 DEF D!CopiesAreClocked, D!Busy
<1>7. QED
  BY <1>2, <1>3, <1>5, <1>6 DEF DmaInv

\* Steps of the other parts.
LEMMA DmaQuiet == DmaInv /\ UNCHANGED dVars => DmaInv'
<1> SUFFICES ASSUME DmaInv, UNCHANGED dVars PROVE DmaInv'
  OBVIOUS
<1> USE DEF dVars
<1>1. DmaType' /\ DmaPlaces' /\ DmaLate'
  BY DEF DmaInv, DmaType, DmaPlaces, DmaLate, D!Busy
<1>2. DmaQueue' /\ \A j, at : DmaWorkers(j, at)' = DmaWorkers(j, at)
  BY DmaWorkersKept
<1>3. DmaCounts' /\ DmaLimit'
  BY <1>2 DEF DmaInv, DmaCounts, DmaLimit, DmaInPipe
<1>4. DmaSignals' /\ D!CopiesAreClocked'
  BY DEF DmaInv, DmaSignals, D!WorkPending, D!CopiesAreClocked, D!Busy
<1>5. QED
  BY <1>1, <1>2, <1>3, <1>4 DEF DmaInv

\* The list is no longer than the callers that passed the limit are many.
LEMMA DmaRoom == DmaInv => D!FifoHasRoom
<1> SUFFICES ASSUME DmaInv PROVE D!FifoHasRoom
  OBVIOUS
<1> DEFINE n == Len(dQueue)
           adm == DmaWorkers("sync", DmaAdmitted)
<1>1. dQueue \in Seq(Workers) /\ dFifo \in Seq(Workers) /\ n \in Nat /\ dAsync \in Nat
  BY DEF DmaInv, DmaType
<1>2. \A i \in 1 .. n : dQueue[i] \in adm
  BY <1>1 DEF DmaInv, DmaQueue, DmaPlaces, DmaWorkers, DmaAdmitted
<1>3. dQueue \in Injection(1 .. n, adm)
  BY <1>1, <1>2 DEF DmaInv, DmaQueue, Injection, IsInjective
<1>4. IsFiniteSet(adm) /\ Cardinality(adm) \in Nat
  BY DmaFinite
<1>5. Cardinality(1 .. n) <= Cardinality(adm)
  BY <1>3, <1>4, FS_Injection
<1>6. Cardinality(1 .. n) = n
  <2>1. PICK a \in Int, b \in Int : a = 1 /\ b = n
    BY <1>1
  <2>2. Cardinality(a .. b) = IF a > b THEN 0 ELSE b - a + 1
    BY FS_Interval
  <2>3. QED
    BY <1>1, <2>1, <2>2
<1>7. Cardinality(adm) < MaxPending /\ dAsync < MaxPending
  <2>1. DmaInPipe("sync") = 0 /\ DmaInPipe("async") = dAsync
    BY DEF DmaInPipe
  <2>2. Cardinality(DmaWorkers("async", DmaAdmitted)) \in Nat
    BY DmaFinite
  <2>3. QED
    BY <1>1, <1>4, <2>1, <2>2 DEF DmaInv, DmaLimit
<1>8. Len(dFifo) <= n
  <2>1. dFifo = dQueue \/ (dQueue # <<>> /\ dFifo = Tail(dQueue))
    BY DEF DmaInv, DmaQueue
  <2>2. QED
    BY <1>1, <2>1
<1>9. QED
  BY <1>1, <1>4, <1>5, <1>6, <1>7, <1>8 DEF D!FifoHasRoom

\* The instance's name for a library operator.
LEMMA DmaCardinality == \A X : D!Cardinality(X) = Cardinality(X)
BY DEF D!Cardinality, Cardinality

\* The head of the list is awake or will be woken.
LEMMA DmaHandsOver == DmaInv => D!HandOver
<1> SUFFICES ASSUME DmaInv PROVE D!HandOver
  OBVIOUS
<1>1. \A w \in Workers : dOwn[w]
  BY DEF DmaInv, DmaType
<1>2. Cardinality({w \in Workers : dPc[w] \in {"poll", "unlink"}}) <= 1
  <2> DEFINE polling == {w \in Workers : dPc[w] \in {"poll", "unlink"}}
  <2>1. polling \subseteq {dQueue[1]}
    BY DmaHead
  <2>2. Cardinality({dQueue[1]}) = 1 /\ IsFiniteSet({dQueue[1]})
    BY FS_Singleton
  <2>3. QED
    BY <2>1, <2>2, FS_Subset
<1>3. ASSUME NEW w \in Workers, dPc[w] = "wait"
      PROVE  w \in dWoken \/ (\E x \in Workers : dPc[x] \in {"poll", "unlink"})
                          \/ \E y \in dWoken : dPc[y] = "wait"
  <2>1. PICK i \in 1 .. Len(dQueue) : dQueue[i] = w
    BY <1>3 DEF DmaInv, DmaQueue, DmaListed
  <2>2. dQueue # <<>> /\ 1 \in 1 .. Len(dQueue) /\ dQueue[1] \in Workers
    BY <2>1 DEF DmaInv, DmaType
  <2>3. dPc[dQueue[1]] \in DmaListed
    BY <2>2 DEF DmaInv, DmaQueue
  <2>4. QED
    BY <2>2, <2>3 DEF DmaInv, DmaQueue, DmaListed
<1>4. QED
  BY <1>1, <1>2, <1>3, DmaCardinality DEF D!HandOver

\* ipa_dma.c, for any number of copying threads and any limit: copies run with a clock
\* vote, callers poll out their own copies one after the other, the pipes' FIFOs have
\* room although the limit is tested without a lock, and ipa2_dma_destroy() finds idle
\* pipes and is woken, but for the lost wake-ups and the late starters the module names.
THEOREM CopiesAreSound == MCSpec => []CopiesSound
<1>1. MCInit => DmaInv
  BY DmaStart DEF MCInit
<1>2. DmaInv /\ [MCNext]_allVars => DmaInv'
  <2> SUFFICES ASSUME DmaInv, [MCNext]_allVars PROVE DmaInv'
    OBVIOUS
  <2>1. CASE Dma
    BY <2>1, DmaStep DEF Dma
  <2>2. CASE UNCHANGED dVars
    BY <2>2, DmaQuiet
  <2>3. QED
    BY <2>1, <2>2, PartSteps
<1>3. DmaInv => CopiesSound
  <2> SUFFICES ASSUME DmaInv PROVE CopiesSound
    OBVIOUS
  <2>1. D!DestroyIsWoken
    BY DEF DmaInv, DmaSignals, D!DestroyIsWoken
  <2>2. D!TearsDownIdlePipes
    BY DEF DmaInv, DmaLate, D!TearsDownIdlePipes
  <2>3. QED
    BY <2>1, <2>2, DmaRoom, DmaHandsOver DEF DmaInv, CopiesSound
<1>4. QED
  BY <1>1, <1>2, <1>3, PTL DEF MCSpec
==============================================================================
