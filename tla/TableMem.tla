------------------------------- MODULE TableMem ------------------------------
(***************************************************************************)
(* The memory behind the tables the IPA hardware reads (ipa_rt.c, ipa_flt.c, *)
(* ipa_hdr.c).  On IPA 2.x all tables live in DMA buffers.  A commit builds   *)
(* each routing or filter table in a new buffer, remembers the one before,    *)
(* points the hardware at the new ones and only then frees the old ones; the  *)
(* header table has one buffer, exchanged when the hardware has taken it.     *)
(*                                                                         *)
(* All but the connecting of a pipe runs under ipa_ctx->lock.  Of a table     *)
(* only matters whether it has rules; `kind' chooses routing or filter        *)
(* tables, which differ in which tables are generated and reaped.  A pipe     *)
(* that is connected with skip_ep_cfg is the modem's to set up: a commit of   *)
(* the filter tables does not write its header word.                         *)
(***************************************************************************)

CONSTANTS
  NONE,      \* no buffer; for the hardware, the empty table
  Tables,    \* the routing table indexes, or the pipes with filter tables
  Skipped,   \* pipes of the clients __ipa_commit_flt_v2() names and skips
  Bufs       \* DMA buffers

VARIABLES
  kind,      \* "rt" or "flt"
  live,      \* tables that exist
  full,      \* tables with at least one rule
  curr,      \* tbl->curr_mem
  prev,      \* tbl->prev_mem
  reap,      \* curr_mem of the tables on reap_rt_tbl_set
  mem,       \* allocated buffers
  hw,        \* per table, the buffer the hardware reads
  shadow,    \* skip_ep_cfg_shadow: pipes last connected with skip_ep_cfg
  left,      \* pipes whose header word, naming a table, a commit left alone
  hdrMem,    \* ipa_ctx->hdr_mem
  hwHdr,     \* the buffer the hardware reads headers from
  failed     \* a commit failed after a table had its new buffer

vars == <<kind, live, full, curr, prev, reap, mem, hw, shadow, left, hdrMem, hwHdr,
          failed>>

Init ==
  /\ kind \in {"rt", "flt"}
  /\ live = IF kind = "flt" THEN Tables ELSE {}
  /\ full = {}
  /\ curr = [t \in Tables |-> NONE]
  /\ prev = [t \in Tables |-> NONE]
  /\ reap = {}
  /\ mem = {}
  /\ hw = [t \in Tables |-> NONE]
  /\ shadow = {}
  /\ left = {}
  /\ hdrMem = NONE
  /\ hwHdr = NONE
  /\ failed = FALSE

-----------------------------------------------------------------------------
(* A first rule brings a routing table into being.                           *)
AddRule(t) ==
  /\ t \notin full
  /\ full' = full \cup {t}
  /\ live' = live \cup {t}
  /\ UNCHANGED <<kind, curr, prev, reap, mem, hw, shadow, left, hdrMem, hwHdr,
                 failed>>

(* The last rule goes; a table that a filter rule or a holder refers to      *)
(* stays.                                                                    *)
DelRules(t) ==
  /\ t \in full
  /\ full' = full \ {t}
  /\ UNCHANGED <<kind, live, curr, prev, reap, mem, hw, shadow, left, hdrMem, hwHdr,
                 failed>>

DelTableAndMemory(t) ==
  /\ kind = "rt"
  /\ t \in live \ full
  /\ live' = live \ {t}
  /\ mem' = mem \ {curr[t]}
  /\ curr' = [curr EXCEPT ![t] = NONE]
  /\ prev' = [prev EXCEPT ![t] = NONE]
  /\ UNCHANGED <<kind, full, reap, hw, shadow, left, hdrMem, hwHdr, failed>>

(* __ipa_del_rt_tbl(): the index is free at once, the memory is kept on the  *)
(* reap list until a commit; prev_mem is forgotten.                          *)
DelTable(t) ==
  /\ kind = "rt"
  /\ t \in live \ full
  /\ live' = live \ {t}
  /\ reap' = reap \cup ({curr[t]} \ {NONE})
  /\ curr' = [curr EXCEPT ![t] = NONE]
  /\ prev' = [prev EXCEPT ![t] = NONE]
  /\ UNCHANGED <<kind, full, mem, hw, shadow, left, hdrMem, hwHdr, failed>>

(* ipa2_connect() or ipa2_setup_sys_pipe() of a pipe, the modem's or not.    *)
ConnectPipe(t, skip) ==
  /\ kind = "flt"
  /\ shadow' = IF skip THEN shadow \cup {t} ELSE shadow \ {t}
  /\ UNCHANGED <<kind, live, full, curr, prev, reap, mem, hw, left, hdrMem, hwHdr,
                 failed>>

-----------------------------------------------------------------------------
(* Commit of the routing or filter tables                                   *)

(* The tables a commit generates: existing routing tables, filter tables     *)
(* with rules.                                                               *)
Generated == IF kind = "rt" THEN live ELSE full

(* The tables of s get the new buffers f; the old one becomes prev_mem.      *)
CurrAfter(s, f) == [t \in Tables |-> IF t \in s THEN f[t] ELSE curr[t]]

PrevAfter(s) ==
  [t \in Tables |-> IF t \in s /\ curr[t] # NONE THEN curr[t] ELSE prev[t]]

FreshFor(s) ==
  {f \in [s -> Bufs \ mem] : \A t, u \in s : f[t] = f[u] => t = u}

Room(s) == FreshFor(s) # {}

(* Which free buffers they are makes no difference.                          *)
NewBuffers(s) == CHOOSE f \in FreshFor(s) : TRUE

(* Generation stops at a table with no memory, or the command is not sent:   *)
(* the tables done by then keep their new buffers, the hardware the old ones.*)
CommitFails(s) ==
  /\ s # {}
  /\ Room(s)
  /\ curr' = CurrAfter(s, NewBuffers(s))
  /\ prev' = PrevAfter(s)
  /\ mem' = mem \cup {NewBuffers(s)[t] : t \in s}
  /\ failed' = TRUE
  /\ UNCHANGED <<kind, live, full, reap, hw, shadow, left, hdrMem, hwHdr>>

(* What __ipa_reap_sys_rt_tbls() and __ipa_reap_sys_flt_tbls() free: the     *)
(* previous buffers, the deleted tables' buffers, those of empty filter      *)
(* tables.                                                                   *)
Emptied == IF kind = "flt" THEN Tables \ full ELSE {}

ReapedWithoutDeleted(s) ==
  {PrevAfter(s)[t] : t \in live} \cup {curr[t] : t \in Emptied}

Reaped(s) == {PrevAfter(s)[t] : t \in live} \cup reap \cup {curr[t] : t \in Emptied}

(* The pipes whose header word a commit does not write.                      *)
LeftAlone == IF kind = "flt" THEN Skipped \cup shadow ELSE {}

HwAfter(f) ==
  [t \in Tables |->
     IF t \in LeftAlone THEN hw[t]
     ELSE IF t \in Generated THEN f[t] ELSE NONE]

CommitWorks ==
  /\ Room(Generated)
  /\ hw' = HwAfter(NewBuffers(Generated))
  /\ left' = {t \in Tables \cap LeftAlone : hw[t] # NONE}
  /\ curr' = [t \in Tables |->
               IF t \in Emptied THEN NONE
               ELSE CurrAfter(Generated, NewBuffers(Generated))[t]]
  /\ prev' = [t \in Tables |-> NONE]
  /\ reap' = {}
  /\ mem' = (mem \cup {NewBuffers(Generated)[t] : t \in Generated}) \ Reaped(Generated)
  /\ UNCHANGED <<kind, live, full, shadow, hdrMem, hwHdr, failed>>

-----------------------------------------------------------------------------
(* __ipa_commit_hdr_v2(): the old buffer goes once the new one is taken.     *)
CommitHdr(sent) ==
  /\ Bufs \ mem # {}
  /\ IF sent
     THEN \E b \in {CHOOSE c \in Bufs \ mem : TRUE} :
            /\ mem' = (mem \cup {b}) \ {hdrMem}
            /\ hdrMem' = b
            /\ hwHdr' = b
     ELSE UNCHANGED <<mem, hdrMem, hwHdr>>
  /\ UNCHANGED <<kind, live, full, curr, prev, reap, hw, shadow, left, failed>>

Next ==
  \/ \E t \in Tables : AddRule(t) \/ DelRules(t) \/ DelTable(t)
  \/ \E t \in Tables, skip \in BOOLEAN : ConnectPipe(t, skip)
  \/ \E s \in SUBSET Generated : CommitFails(s)
  \/ CommitWorks
  \/ \E sent \in BOOLEAN : CommitHdr(sent)

Spec == Init /\ [][Next]_vars

-----------------------------------------------------------------------------
(* The hardware never reads freed memory: whatever commits fail half way,     *)
(* and whatever tables are deleted in between, the buffers it was last given  *)
(* stay allocated until it has been given others.  (Not so for a pipe that    *)
(* had a table and is connected anew as the modem's: the next commit frees    *)
(* the table's buffer and leaves the header word that names it.)              *)
HwReadsAllocated ==
  /\ \A t \in Tables \ left : hw[t] # NONE => hw[t] \in mem
  /\ hwHdr # NONE => hwHdr \in mem

(* No buffer is forgotten as long as no commit failed half way: each is the   *)
(* current or previous one of a table, waits to be reaped, or is the header   *)
(* table's.                                                                  *)
BuffersAccounted ==
  failed \/ mem = (({curr[t] : t \in Tables} \cup {prev[t] : t \in Tables}
                      \cup reap \cup {hdrMem}) \ {NONE})

=============================================================================
