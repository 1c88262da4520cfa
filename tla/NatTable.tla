------------------------------ MODULE NatTable ------------------------------
(* The IPv4 NAT table (ipa_nat.c): user space has memory allocated, maps it, *)
(* points the hardware at tables in it, changes single entries through the   *)
(* hardware and deletes the table.  Allocating, mapping and initialising hold*)
(* nat_mem.lock; changing entries and deleting do not, until the memory is   *)
(* freed.  The base table and the expansion table stand for themselves and   *)
(* for their index tables, which pass through the same tests.                *)
EXTENDS Naturals, FiniteSets

CONSTANTS
  Users,       \* threads in the ioctls
  MemSizes,    \* sizes of the memory that is asked for, in table entries
  Layouts,     \* tables asked for: [ro, base, xo, expn, ip]
  Offsets,     \* offsets of changed entries
  MaxAllocs    \* bound on the allocations

VARIABLES
  nat,      \* ipa_ctx->nat_mem: is_dev_init, vaddr, size, is_mapped, the sizes of
            \* the tables, public_ip_addr # 0, the memory of ipv4_rules_addr and
            \* of nat_base_address
  lock,     \* nat_mem.lock is held by an init that has sent its command
  mem,      \* allocated memory: number |-> size, 0 for none
  tmp,      \* is_tmp_mem: allocate_temp_nat_memory() worked
  hw,       \* what the hardware was given: on, buf, ro, base, xo, expn
  pc, job,  \* per thread: where it is, and the request it works on
  stale,    \* threads in a call during which another call changed the table
  tainted,  \* history: such a thread went on with what it had seen before
  strayed,  \* history: a changed entry was outside the hardware's table
  allocs

vars == <<nat, lock, mem, tmp, hw, pc, job, stale, tainted, strayed, allocs>>

\* hw.on: no table yet, the temporary memory, the IPA's own memory (neither is ever
\* freed), or a table in the memory hw.buf.
Places == {"nothing", "tmp", "local", "table"}
Without(place) == [on |-> place, buf |-> 0, ro |-> 0, base |-> 0, xo |-> 0, expn |-> 0]
Parked == Without(IF tmp THEN "tmp" ELSE "local")
NoJob == [ro |-> 0, base |-> 0, xo |-> 0, expn |-> 0, ip |-> FALSE]

\* create_nat_device() allocates the temporary memory, if it can; the hardware hears of
\* it only when a table is deleted.
Init ==
  /\ nat = [init |-> FALSE, buf |-> 0, size |-> 0, mapped |-> FALSE, base |-> 0,
            expn |-> 0, ip |-> FALSE, rulesAt |-> 0, natBase |-> 0]
  /\ lock = FALSE
  /\ mem = [b \in 1 .. MaxAllocs |-> 0]
  /\ tmp \in BOOLEAN
  /\ hw = Without("nothing")
  /\ pc = [u \in Users |-> "idle"] /\ job = [u \in Users |-> NoJob]
  /\ stale = {} /\ tainted = FALSE /\ strayed = FALSE /\ allocs = 0

Go(u, at) == pc' = [pc EXCEPT ![u] = at]
Return(u) == Go(u, "idle") /\ job' = [job EXCEPT ![u] = NoJob]

\* Bookkeeping of a step that changes the table: the calls of the others are
\* stale from now on, and a stale call that goes on taints what follows.
Changed(u) ==
  /\ stale' = (stale \cup {v \in Users \ {u} : pc[v] # "idle"}) \ {u}
  /\ tainted' = (tainted \/ u \in stale)
Unseen(u) == stale' = stale \ {u} /\ UNCHANGED tainted
Started(u) ==
  stale' = IF \E v \in Users : pc[v] \in {"record", "clear", "free"}
           THEN stale \cup {u} ELSE stale

-----------------------------------------------------------------------------
(* Under nat_mem.lock *)

\* ipa2_allocate_nat_device(); when there is a table already it only says so.
AllocateNatDevice(u, n) ==
  /\ pc[u] = "idle" /\ ~lock
  /\ ~nat.init /\ n > 0 /\ allocs < MaxAllocs
  /\ allocs' = allocs + 1
  /\ mem' = [mem EXCEPT ![allocs + 1] = n]
  /\ nat' = [nat EXCEPT !.init = TRUE, !.buf = allocs + 1, !.size = n]
  /\ Changed(u)
  /\ UNCHANGED <<tmp, lock, hw, pc, job, strayed>>

\* ipa_nat_mmap()
NatMmap(u) ==
  /\ pc[u] = "idle" /\ ~lock
  /\ nat.buf # 0 /\ ~nat.mapped
  /\ nat' = [nat EXCEPT !.mapped = TRUE, !.natBase = nat.buf]
  /\ UNCHANGED <<tmp, lock, mem, hw, pc, job, stale, tainted, strayed, allocs>>

\* The tests of ipa2_nat_init_cmd(): the base table has one entry more.
Fits(r) ==
  /\ r.base > 0
  /\ r.ro + r.base + 1 <= nat.size
  /\ r.xo + r.expn <= nat.size

NatInitSend(u, r) ==
  /\ pc[u] = "idle" /\ ~lock
  /\ nat.init /\ Fits(r)
  /\ hw' = [on |-> "table", buf |-> nat.buf, ro |-> r.ro, base |-> r.base, xo |-> r.xo,
            expn |-> r.expn]
  /\ lock' = TRUE
  /\ job' = [job EXCEPT ![u] = r] /\ Go(u, "record")
  /\ Changed(u)
  /\ UNCHANGED <<tmp, nat, mem, strayed, allocs>>

\* The addresses and sizes are noted after the command: the addresses are in
\* whatever memory was mapped last.
NatInitRecord(u) ==
  /\ pc[u] = "record"
  /\ nat' = [nat EXCEPT !.base = job[u].base, !.expn = job[u].expn, !.ip = job[u].ip,
                        !.rulesAt = nat.natBase]
  /\ lock' = FALSE
  /\ Return(u)
  /\ Changed(u)
  /\ UNCHANGED <<tmp, mem, hw, strayed, allocs>>

-----------------------------------------------------------------------------
(* ipa2_nat_dma_cmd(): tested against the sizes noted, sent later *)

InTable(o, n) == o < n

NatDmaCheck(u, tbl, o) ==
  /\ pc[u] = "idle" /\ nat.init
  /\ IF tbl = "base" THEN InTable(o, nat.base + 1) ELSE InTable(o, nat.expn)
  /\ job' = [job EXCEPT ![u] = [NoJob EXCEPT !.ro = o, !.ip = tbl = "base"]]
  /\ Go(u, "dma")
  /\ Started(u)
  /\ UNCHANGED <<tmp, nat, lock, mem, hw, tainted, strayed, allocs>>

\* The hardware writes at the offset from the start of its table, or the command is
\* refused.  Before it has one, the first entry passes the test on the base table's size.
Inside(j) == IF j.ip THEN InTable(j.ro, hw.base + 1) ELSE InTable(j.ro, hw.expn)
FirstOfNone(j) == hw.on = "nothing" /\ j.ip /\ j.ro = 0
Strays(j) == IF hw.on = "nothing" THEN ~FirstOfNone(j) ELSE ~Inside(j)
NatDmaSend(u) ==
  /\ pc[u] = "dma"
  /\ \/ /\ strayed' = (strayed \/ (u \notin stale /\ Strays(job[u])))
        /\ tainted' = (tainted \/ u \in stale)
     \/ UNCHANGED <<strayed, tainted>>
  /\ stale' = stale \ {u}
  /\ Return(u)
  /\ UNCHANGED <<tmp, nat, lock, mem, hw, allocs>>

-----------------------------------------------------------------------------
(* ipa2_nat_del_cmd() *)

NatDelCheck(u) ==
  /\ pc[u] = "idle" /\ nat.init /\ nat.ip
  /\ Go(u, "del")
  /\ Started(u)
  /\ UNCHANGED <<tmp, nat, lock, mem, hw, job, tainted, strayed, allocs>>

\* A plausible slip: a refused command does not keep the memory.
NatDelSendAnyway(u) ==
  /\ pc[u] = "del"
  /\ hw' \in {hw, Parked}
  /\ Go(u, "clear")
  /\ Changed(u)
  /\ UNCHANGED <<tmp, nat, lock, mem, job, strayed, allocs>>

\* The command parks the hardware on the temporary memory; refused, the table
\* stays as it is.
NatDelSend(u) ==
  /\ pc[u] = "del"
  /\ \/ /\ hw' = Parked
        /\ Go(u, "clear")
        /\ Changed(u)
        /\ UNCHANGED job
     \/ /\ Return(u)
        /\ Unseen(u)
        /\ UNCHANGED hw
  /\ UNCHANGED <<tmp, nat, lock, mem, strayed, allocs>>

NatDelClear(u) ==
  /\ pc[u] = "clear"
  /\ nat' = [nat EXCEPT !.base = 0, !.expn = 0, !.ip = FALSE, !.rulesAt = 0]
  /\ Go(u, "free")
  /\ Changed(u)
  /\ UNCHANGED <<tmp, lock, mem, hw, job, strayed, allocs>>

\* ipa_nat_free_mem_and_device()
NatFree(u) ==
  /\ pc[u] = "free" /\ ~lock
  /\ mem' = IF nat.buf = 0 THEN mem ELSE [mem EXCEPT ![nat.buf] = 0]
  /\ nat' = [nat EXCEPT !.init = FALSE, !.buf = 0, !.size = 0, !.mapped = FALSE]
  /\ Return(u)
  /\ Changed(u)
  /\ UNCHANGED <<tmp, lock, hw, strayed, allocs>>

-----------------------------------------------------------------------------
Ioctl(u) ==
  \/ \E n \in MemSizes : AllocateNatDevice(u, n)
  \/ NatMmap(u)
  \/ \E r \in Layouts : NatInitSend(u, r)
  \/ NatInitRecord(u)
  \/ \E tbl \in {"base", "expn"}, o \in Offsets : NatDmaCheck(u, tbl, o)
  \/ NatDmaSend(u)
  \/ NatDelCheck(u) \/ NatDelSend(u) \/ NatDelClear(u) \/ NatFree(u)
Next == \E u \in Users : Ioctl(u)
Spec == Init /\ [][Next]_vars

-----------------------------------------------------------------------------
\* The hardware's tables lie in allocated memory, base table with its last entry
\* included, unless calls overlapped: ipa2_nat_init_cmd()'s tests, and the order
\* of parking the hardware and freeing the memory.
HwTableAllocated ==
  hw.on = "table" /\ ~tainted => /\ hw.ro + hw.base + 1 <= mem[hw.buf]
                                 /\ hw.xo + hw.expn <= mem[hw.buf]

\* An entry that ipa2_nat_dma_cmd() lets through is one of the table the hardware has,
\* unless another call overlapped: the sizes that were noted never outlive their table.
\* (Before the hardware has a table the one entry let through is FirstOfNone.)
EntriesInTable == strayed => tainted

\* Without overlapping calls memory is neither lost nor kept twice: what is
\* allocated is what nat_mem knows of.
MemoryOwned ==
  ~tainted => \A b \in 1 .. MaxAllocs : mem[b] > 0 <=> (b = nat.buf)
=============================================================================
