------------------------------ MODULE IpaTables ------------------------------
(***************************************************************************)
(* The header, processing-context, routing and filter tables the IPA driver *)
(* keeps in memory (ipa_hdr.c, ipa_rt.c, ipa_flt.c).  Entries point at each  *)
(* other: a filter rule at a routing table, a routing rule at its table and  *)
(* at a header or a processing context, a context at a header.  Reference    *)
(* counts keep what is pointed at; a reset throws away the three tables, one *)
(* after the other, each under its own hold of ipa_ctx->lock.               *)
(*                                                                         *)
(* Every call takes the lock for its whole length, so a call is one action   *)
(* and a reset one action per hold.  One IP family and one pipe's filter     *)
(* table stand for all.  Callers delete and put what they added or got.      *)
(* A step that leaves a pointer to freed memory, a wrong count or a rule in  *)
(* the wrong place behind, in one of the ways that the code has, sets        *)
(* `fault', and nothing is said of what follows.                             *)
(***************************************************************************)
EXTENDS Integers, Sequences, FiniteSets, SequencesExt

CONSTANTS
  NONE,      \* the null pointer
  MaxId,     \* largest handle
  HdrMem,    \* size of the header table, in units of the small bin
  CtxMem,    \* size of the processing-context table
  MaxIdx,    \* number of routing table indexes
  RuleMax,   \* IPA_RULE_CNT_MAX
  Names,     \* names of routing tables beside the default one
  MaxAdds    \* bound on the calls that add an entry or get a table

VARIABLES
  hwType,    \* the hardware version
  obj,       \* ipa_idr: handle -> the entry it names
  heap,      \* the header and the context memory: end and the free slots
  list,      \* the filter table: handles, first rule first
  dflt,      \* dflt_flt4_rule_hdl of the pipe
  sticky,    \* sticky_rear of the filter table
  reset,     \* where a reset in progress is
  lostIdx,   \* routing table indexes taken by tables that then failed
  fault,     \* the path that left a dangling pointer, a wrong count or order
  adds       \* calls that added an entry or got a table, or failed to

vars == <<hwType, obj, heap, list, dflt, sticky, reset, lostIdx, fault, adds>>

-----------------------------------------------------------------------------
(* Handles                                                                  *)

(* ipa_id_alloc(): the lowest handle not in use.                            *)
FreeIds == (0..MaxId) \ DOMAIN obj

IdAlloc == Min(FreeIds)

WithNew(e) == obj @@ IdAlloc :> e

Of(k) == {i \in DOMAIN obj : obj[i].k = k}

RulesOf(t) == {r \in Of("rt") : obj[r].tbl = t}

TableNamed(n) == {t \in Of("tbl") : obj[t].name = n}

-----------------------------------------------------------------------------
(* Slots of the header and the context memory                               *)

Size == [small |-> 1, large |-> 2]
Bins == DOMAIN Size
MemOf == [hdr |-> HdrMem, ctx |-> CtxMem]

Fits(m, b) == heap[m].free[b] # <<>> \/ heap[m].end + Size[b] <= MemOf[m]

(* The first free slot of the bin, or the memory is grown by one.           *)
SlotFor(m, b) ==
  IF heap[m].free[b] # <<>> THEN Head(heap[m].free[b]) ELSE heap[m].end

HeapTaking(m, b) ==
  IF heap[m].free[b] # <<>>
  THEN [heap EXCEPT ![m].free[b] = Tail(@)]
  ELSE [heap EXCEPT ![m].end = @ + Size[b]]

(* The slots of the entries in `gone' go to the head of their free lists.    *)
FreedFrom(m, gone, b) ==
  SetToSeq({obj[i].off :
              i \in {j \in gone : obj[j].k = m /\ obj[j].bin = b}} \ {NONE})

HeapWithout(gone) ==
  [m \in {"hdr", "ctx"} |->
     [heap[m] EXCEPT !.free = [b \in Bins |-> FreedFrom(m, gone, b) \o heap[m].free[b]]]]

-----------------------------------------------------------------------------
(* Releasing: the rules of R go, the owners of the headers H and of the      *)
(* contexts X let go of them; what loses its last reference is freed.        *)

CtxRef(x, R, X) ==
  obj[x].ref - Cardinality({r \in R : obj[r].hdr = NONE /\ obj[r].ctx = x})
    - Cardinality(X \cap {x})

DeadCtx(R, X) ==
  {x \in Of("ctx") : CtxRef(x, R, X) = 0 /\ CtxRef(x, R, X) # obj[x].ref}

HdrRef(h, R, H, X) ==
  obj[h].ref - Cardinality({r \in R : obj[r].hdr = h})
    - Cardinality({x \in DeadCtx(R, X) : obj[x].counted /\ obj[x].hdr = h})
    - Cardinality(H \cap {h})

DeadHdr(R, H, X) ==
  {h \in Of("hdr") : HdrRef(h, R, H, X) = 0 /\ HdrRef(h, R, H, X) # obj[h].ref}

(* A header kept in DDR has a context of its own, which goes with it.        *)
OwnCtx(hs) == {obj[h].ctx : h \in hs} \ {NONE}

Dead(R, H, X) ==
  R \cup DeadCtx(R, X) \cup DeadHdr(R, H, X) \cup OwnCtx(DeadHdr(R, H, X))

Left(R, H, X) ==
  [i \in DOMAIN obj \ Dead(R, H, X) |->
     CASE obj[i].k = "ctx" -> [obj[i] EXCEPT !.ref = CtxRef(i, R, X),
                                             !.gone = @ \/ i \in X]
       [] obj[i].k = "hdr" -> [obj[i] EXCEPT !.ref = HdrRef(i, R, H, X),
                                             !.gone = @ \/ i \in H]
       [] obj[i].k = "tbl" ->
            [obj[i] EXCEPT !.cnt = @ - Cardinality({r \in R : obj[r].tbl = i})]
       [] OTHER -> obj[i]]

Without(o, ids) == [i \in DOMAIN o \ ids |-> o[i]]

-----------------------------------------------------------------------------
(* References, for the properties and for naming faults                     *)

PointsAt(e) ==
  CASE e.k = "ctx" -> {e.hdr}
    [] e.k = "rt" -> {e.tbl, e.hdr, IF e.hdr = NONE THEN e.ctx ELSE NONE} \ {NONE}
    [] e.k = "flt" -> {e.tbl} \ {NONE}
    [] OTHER -> {}

Dangles(o) == \E i \in DOMAIN o : ~(PointsAt(o[i]) \subseteq DOMAIN o)

-----------------------------------------------------------------------------
Idle == [stage |-> "idle", whole |-> FALSE, user |-> FALSE, raced |-> FALSE]

(* As ipa_setup_exception_path() and ipa_setup_dflt_rt_tables() leave it:    *)
(* the default header is the first entry and has handle 0, which a rule      *)
(* cannot name, so the default rule has no header.                           *)
Init ==
  /\ hwType \in {"v2_5", "v2_6L"}
  /\ obj = [i \in 0..2 |->
              CASE i = 0 -> [k |-> "hdr", ref |-> 1, gone |-> FALSE, user |-> FALSE,
                             off |-> 0, bin |-> "small", ctx |-> NONE]
                [] i = 1 -> [k |-> "tbl", name |-> "dflt", idx |-> 0, cnt |-> 1, ref |-> 0,
                             got |-> 0]
                [] OTHER -> [k |-> "rt", tbl |-> 1, hdr |-> NONE, ctx |-> NONE,
                             user |-> FALSE]]
  /\ heap = [hdr |-> [end |-> 1, free |-> [b \in Bins |-> <<>>]],
             ctx |-> [end |-> 0, free |-> [b \in Bins |-> <<>>]]]
  /\ list = <<>>
  /\ dflt = NONE
  /\ sticky = FALSE
  /\ reset = Idle
  /\ lostIdx = {}
  /\ fault = "none"
  /\ adds = 0

(* Something is added or pointed elsewhere while a reset is between holds.   *)
Raced == reset' = [reset EXCEPT !.raced = reset.stage # "idle"]

Quiet == UNCHANGED <<hwType, dflt, sticky, reset, lostIdx, fault>>

-----------------------------------------------------------------------------
(* Headers and processing contexts                                          *)

(* __ipa_add_hdr() into the header memory.                                   *)
AddHdr(u, b) ==
  /\ FreeIds # {}
  /\ Fits("hdr", b)
  /\ obj' = WithNew([k |-> "hdr", ref |-> 1, gone |-> FALSE, user |-> u,
                     off |-> SlotFor("hdr", b), bin |-> b, ctx |-> NONE])
  /\ heap' = HeapTaking("hdr", b)
  /\ UNCHANGED list
  /\ Quiet

(* A header that does not fit: on 2.5 it stays in DDR behind a context.      *)
AddHdrInDdr(u, b) ==
  /\ hwType = "v2_5"
  /\ ~Fits("hdr", b)
  /\ Fits("ctx", "small")
  /\ Cardinality(FreeIds) >= 2
  /\ LET h == IdAlloc
         x == Min(FreeIds \ {h})
     IN obj' = [i \in DOMAIN obj \cup {h, x} |->
                  CASE i = h -> [k |-> "hdr", ref |-> 1, gone |-> FALSE, user |-> u,
                                 off |-> NONE, bin |-> b, ctx |-> x]
                    [] i = x -> [k |-> "ctx", ref |-> 1, gone |-> FALSE, user |-> u,
                                 off |-> SlotFor("ctx", "small"), bin |-> "small",
                                 hdr |-> h, counted |-> FALSE]
                    [] OTHER -> obj[i]]
  /\ heap' = HeapTaking("ctx", "small")
  /\ UNCHANGED list
  /\ Quiet

(* __ipa_add_hdr_proc_ctx() for a caller, of any header.                     *)
AddCtx(u, h, b) ==
  /\ hwType = "v2_5"
  /\ FreeIds # {}
  /\ Fits("ctx", b)
  /\ obj' = [WithNew([k |-> "ctx", ref |-> 1, gone |-> FALSE, user |-> u,
                      off |-> SlotFor("ctx", b), bin |-> b, hdr |-> h,
                      counted |-> TRUE])
               EXCEPT ![h].ref = @ + 1]
  /\ heap' = HeapTaking("ctx", b)
  /\ Raced
  /\ UNCHANGED <<hwType, list, dflt, sticky, fault, lostIdx>>

(* No handle for a header or a context: a slot the memory was grown by for   *)
(* it is free from then on.                                                  *)
SlotWithoutId(m, b) ==
  /\ m = "ctx" => hwType = "v2_5"
  /\ heap[m].free[b] = <<>> /\ Fits(m, b)
  /\ heap' = [HeapTaking(m, b) EXCEPT ![m].free[b] = <<SlotFor(m, b)>>]
  /\ UNCHANGED <<obj, list>>
  /\ Quiet

(* __ipa_del_hdr(): the owner lets go; the default header stays.             *)
DelHdr(h) ==
  /\ obj[h].off # 0
  /\ ~obj[h].gone
  /\ obj' = Left({}, {h}, {})
  /\ heap' = HeapWithout(Dead({}, {h}, {}))
  /\ UNCHANGED list
  /\ Quiet

DelCtx(x) ==
  /\ obj[x].counted
  /\ ~obj[x].gone
  /\ obj' = Left({}, {}, {x})
  /\ heap' = HeapWithout(Dead({}, {}, {x}))
  /\ UNCHANGED list
  /\ Quiet

-----------------------------------------------------------------------------
(* Routing tables and rules                                                 *)

FreeIdxs == (0..MaxIdx - 1) \ ({obj[t].idx : t \in Of("tbl")} \cup lostIdx)

Rule(u, t, ref) ==
  [k |-> "rt", tbl |-> t, user |-> u,
   hdr |-> IF ref # NONE /\ obj[ref].k = "hdr" THEN ref ELSE NONE,
   ctx |-> IF ref # NONE /\ obj[ref].k = "ctx" THEN ref ELSE NONE]

(* A reference a rule may name: a live header or context; handle 0 is none.  *)
Targets == {NONE} \cup ((Of("hdr") \cup {x \in Of("ctx") : obj[x].counted}) \ {0})

Counted(o, ref) ==
  IF ref = NONE THEN o ELSE [o EXCEPT ![ref].ref = @ + 1]

(* A rule for a table that exists; the default table takes no second one.    *)
Takes(t) == obj[t].name = "dflt" => obj[t].cnt = 0
AddRtRule(u, t, ref) ==
  /\ FreeIds # {}
  /\ Takes(t) /\ obj[t].cnt < RuleMax
  /\ obj' = Counted([WithNew(Rule(u, t, ref)) EXCEPT ![t].cnt = @ + 1], ref)
  /\ Raced
  /\ UNCHANGED <<hwType, heap, list, dflt, sticky, lostIdx, fault>>

(* Without a handle the rule is dropped again, and still counted.            *)
RtRuleWithoutId(t) ==
  /\ Takes(t) /\ obj[t].cnt < RuleMax
  /\ obj' = [obj EXCEPT ![t].cnt = @ + 1]
  /\ UNCHANGED <<heap, list>>
  /\ Quiet

(* A rule over the limit is in its table, uncounted and with no handle.      *)
RtRuleOverLimit(t) ==
  /\ Takes(t) /\ obj[t].cnt = RuleMax
  /\ fault' = "rule_limit"
  /\ UNCHANGED <<hwType, obj, heap, list, dflt, sticky, reset, lostIdx>>

(* A rule for a name with no table: __ipa_add_rt_tbl() makes it first, at    *)
(* the lowest free index.                                                    *)
Table(n) ==
  [k |-> "tbl", name |-> n, idx |-> Min(FreeIdxs), cnt |-> 1, ref |-> 0, got |-> 0]
AddRtRuleAndTable(u, n, ref) ==
  /\ TableNamed(n) = {}
  /\ FreeIdxs # {}
  /\ Cardinality(FreeIds) >= 2
  /\ LET t == IdAlloc
         r == Min(FreeIds \ {t})
         new == [i \in DOMAIN obj \cup {t, r} |->
                   CASE i = t -> Table(n)
                     [] i = r -> Rule(u, t, ref)
                     [] OTHER -> obj[i]]
     IN obj' = Counted(new, ref)
  /\ Raced
  /\ UNCHANGED <<hwType, heap, list, dflt, sticky, lostIdx, fault>>

(* No handle for the table, whose index is not given back, or for the rule   *)
(* only, whose table stays.                                                  *)
RtTableWithoutId(n) ==
  /\ TableNamed(n) = {}
  /\ FreeIdxs # {}
  /\ \/ lostIdx' = lostIdx \cup {Min(FreeIdxs)} /\ UNCHANGED obj
     \/ FreeIds # {} /\ obj' = WithNew(Table(n)) /\ UNCHANGED lostIdx
  /\ UNCHANGED <<hwType, heap, list, dflt, sticky, reset, fault>>

(* Tables of ts that nothing holds any more.                                 *)
Idlers(o, ts) == {t \in ts : o[t].ref = 0 /\ o[t].cnt = 0}

(* __ipa_del_rt_rule()                                                       *)
DelRtRule(r) ==
  /\ obj[obj[r].tbl].name = "dflt" => obj[obj[r].tbl].cnt # 1
  /\ LET o == Left({r}, {}, {})
     IN obj' = Without(o, Idlers(o, {obj[r].tbl}))
  /\ heap' = HeapWithout(Dead({r}, {}, {}))
  /\ UNCHANGED list
  /\ Quiet

(* __ipa_mdfy_rt_rule(): the old header loses a reference and is not freed   *)
(* at zero; a rule that had a context keeps pointing at it.                  *)
MdfyRtRule(r, h) ==
  /\ obj[obj[r].tbl].name # "dflt"
  /\ h # 0
  /\ LET o == IF obj[r].hdr = NONE THEN obj ELSE [obj EXCEPT ![obj[r].hdr].ref = @ - 1]
     IN obj' = Counted([o EXCEPT ![r].hdr = h], h)
  /\ fault' = IF obj[r].ctx # NONE THEN "mdfy_rt" ELSE "none"
  /\ Raced
  /\ UNCHANGED <<hwType, heap, list, dflt, sticky, lostIdx>>

GetRtTbl(t) ==
  /\ obj[t].got = 0     \* bound: one holder per table
  /\ obj' = [obj EXCEPT ![t].ref = @ + 1, ![t].got = @ + 1]
  /\ UNCHANGED <<heap, list>>
  /\ Quiet

PutRtTbl(t) ==
  /\ obj[t].got > 0
  /\ obj[t].ref # 0
  /\ LET o == [obj EXCEPT ![t].ref = @ - 1, ![t].got = @ - 1]
     IN obj' = Without(o, Idlers(o, {t}))
  /\ UNCHANGED <<heap, list>>
  /\ Quiet

-----------------------------------------------------------------------------
(* Filter rules                                                             *)

(* __ipa_add_flt_rule(): a rule for the rear goes before the default rule.   *)
Inserted(f, rear) ==
  CASE ~rear -> <<f>> \o list
    [] rear /\ sticky /\ list # <<>> -> InsertAt(list, Len(list), f)
    [] OTHER -> Append(list, f)

AddFltRule(u, t, rear) ==
  /\ FreeIds # {} /\ Len(list) < RuleMax
  /\ obj' = Counted(WithNew([k |-> "flt", tbl |-> t, user |-> u, default |-> FALSE]), t)
  /\ list' = Inserted(IdAlloc, rear)
  /\ Raced
  /\ UNCHANGED <<hwType, heap, dflt, sticky, fault, lostIdx>>

(* As for routing rules; what fails before that is undone.                   *)
FltRuleOverLimit ==
  /\ Len(list) = RuleMax
  /\ fault' = "rule_limit"
  /\ UNCHANGED <<hwType, obj, heap, list, dflt, sticky, reset, lostIdx>>

FltReleased(o, f) == IF o[f].tbl = NONE THEN o ELSE [o EXCEPT ![o[f].tbl].ref = @ - 1]

(* __ipa_del_flt_rule() and the table keeps existing when its count is zero. *)
DelFltRule(f) ==
  /\ ~obj[f].default
  /\ obj' = Without(FltReleased(obj, f), {f})
  /\ list' = SelectSeq(list, LAMBDA i : i # f)
  /\ UNCHANGED heap
  /\ Quiet

MdfyFltRuleKeepingCount(f, t) ==
  /\ ~obj[f].default
  /\ obj' = Counted([obj EXCEPT ![f].tbl = t], t)
  /\ Raced
  /\ UNCHANGED <<hwType, heap, list, dflt, sticky, fault, lostIdx>>

(* __ipa_mdfy_flt_rule(): the old table's count is dropped before the new    *)
(* table's handle is looked up.                                              *)
MdfyFltRule(f, t) ==
  /\ ~obj[f].default
  /\ obj' = Counted([FltReleased(obj, f) EXCEPT ![f].tbl = t], t)
  /\ Raced
  /\ UNCHANGED <<hwType, heap, list, dflt, sticky, fault, lostIdx>>

MdfyFltRuleRefused(f) ==
  /\ obj[f].tbl # NONE
  /\ obj' = FltReleased(obj, f)
  /\ fault' = "mdfy_flt"
  /\ UNCHANGED <<hwType, heap, list, dflt, sticky, reset, lostIdx>>

(* ipa_install_dflt_flt_rules() when the pipe is connected.  It does not ask *)
(* whether its rule was added: the rear is sticky all the same, and as there *)
(* is no handle the deletion does not undo that.  The default rule of the    *)
(* next connection then goes before another rule.                            *)
InstallDflt ==
  /\ dflt = NONE
  /\ FreeIds # {} /\ Len(list) < RuleMax
  /\ obj' = WithNew([k |-> "flt", tbl |-> NONE, user |-> FALSE, default |-> TRUE])
  /\ list' = Inserted(IdAlloc, TRUE)
  /\ dflt' = IdAlloc
  /\ sticky' = TRUE
  /\ fault' = IF sticky /\ list # <<>> THEN "dflt_before" ELSE "none"
  /\ UNCHANGED <<hwType, heap, reset, lostIdx>>
InstallDfltFails ==
  /\ dflt = NONE
  /\ sticky' = TRUE
  /\ fault' \in IF Len(list) = RuleMax THEN {"none", "rule_limit"} ELSE {"none"}
  /\ UNCHANGED <<hwType, obj, heap, list, dflt, reset, lostIdx>>

(* ipa_delete_dflt_flt_rules(): a reset may have deleted the rule already,   *)
(* and the handle may name another filter rule by now.                       *)
DeleteDflt ==
  /\ dflt # NONE
  /\ IF dflt \in Of("flt")
     THEN /\ obj' = Without(FltReleased(obj, dflt), {dflt})
          /\ list' = SelectSeq(list, LAMBDA i : i # dflt)
          /\ fault' = IF obj[dflt].default THEN "none" ELSE "stale_dflt"
     ELSE UNCHANGED <<obj, list, fault>>
  /\ dflt' = NONE
  /\ sticky' = FALSE
  /\ UNCHANGED <<hwType, heap, reset, lostIdx>>

-----------------------------------------------------------------------------
(* Resets                                                                   *)

(* Entries a reset takes: all, or the ones userspace installed.              *)
Taken(k, userOnly) == {i \in Of(k) : ~userOnly \/ obj[i].user}

(* ipa2_reset_flt(), alone (next = "idle") or as the first hold of           *)
(* ipa2_reset_rt() and of ipa2_reset_hdr().                                  *)
ResetFlt(userOnly, next, whole) ==
  /\ reset.stage = "idle"
  /\ LET fs == Taken("flt", userOnly)
     IN /\ obj' = [i \in DOMAIN obj \ fs |->
                     IF obj[i].k = "tbl"
                     THEN [obj[i] EXCEPT !.ref = @ - Cardinality({f \in fs : obj[f].tbl = i})]
                     ELSE obj[i]]
        /\ list' = SelectSeq(list, LAMBDA i : i \notin fs)
  /\ reset' = IF next = "idle" THEN Idle
              ELSE [stage |-> next, whole |-> whole, user |-> userOnly, raced |-> FALSE]
  /\ UNCHANGED <<hwType, heap, dflt, sticky, fault, lostIdx>>

(* Rules a routing reset takes: the last rule of the default table stays.    *)
TakenRules ==
  {r \in Taken("rt", reset.user) :
     ~(obj[obj[r].tbl].idx = 0 /\ obj[obj[r].tbl].cnt = 1)}

(* Tables it takes: all but the default one, or the ones with a rule of      *)
(* userspace, whoever else has rules there or refers to them.                *)
TakenTables ==
  {t \in Of("tbl") :
     obj[t].idx # 0 /\ (reset.user => \E r \in RulesOf(t) : obj[r].user)}

(* A context a reset frees does not give its header's count back.            *)
Miscounts(xs, hs) == \E x \in xs : obj[x].counted /\ obj[x].hdr \notin hs

FaultOf(o, miscounts) ==
  fault' = IF Dangles(o) \/ miscounts THEN "reset" ELSE "none"

ResetRt ==
  /\ reset.stage = "rt"
  /\ LET o == Without(Left(TakenRules, {}, {}), TakenTables)
     IN /\ obj' = o
        /\ FaultOf(o, FALSE)
  /\ heap' = HeapWithout(Dead(TakenRules, {}, {}))
  /\ reset' = IF reset.whole THEN [reset EXCEPT !.stage = "hdr"] ELSE Idle
  /\ UNCHANGED <<hwType, list, dflt, sticky, lostIdx>>

(* The header part of ipa2_reset_hdr(): headers and contexts go whatever     *)
(* their counts, and a global reset starts the memories afresh.              *)
ResetHdr ==
  /\ reset.stage = "hdr"
  /\ LET hs == {h \in Taken("hdr", reset.user) : obj[h].off # 0}
         xs == Taken("ctx", reset.user)
         o  == Without(obj, hs \cup xs)
     IN /\ obj' = o
        /\ FaultOf(o, Miscounts(xs, hs))
        /\ heap' = IF reset.user THEN HeapWithout(hs \cup xs)
                   ELSE [m \in {"hdr", "ctx"} |->
                           [end |-> IF m = "hdr" THEN 1 ELSE 0,
                            free |-> [b \in Bins |-> <<>>]]]
  /\ reset' = Idle
  /\ UNCHANGED <<hwType, list, dflt, sticky, lostIdx>>

-----------------------------------------------------------------------------
Adding ==
  /\ adds < MaxAdds
  /\ adds' = adds + 1
  /\ \/ \E u \in BOOLEAN, b \in Bins : AddHdr(u, b) \/ AddHdrInDdr(u, b)
     \/ \E u \in BOOLEAN, h \in Of("hdr"), b \in Bins : AddCtx(u, h, b)
     \/ \E u \in BOOLEAN, t \in Of("tbl"), ref \in Targets : AddRtRule(u, t, ref)
     \/ \E u \in BOOLEAN, n \in Names, ref \in Targets : AddRtRuleAndTable(u, n, ref)
     \/ \E t \in Of("tbl") : GetRtTbl(t) \/ RtRuleWithoutId(t) \/ RtRuleOverLimit(t)
     \/ \E n \in Names : RtTableWithoutId(n)
     \/ \E m \in {"hdr", "ctx"}, b \in Bins : SlotWithoutId(m, b)
     \/ \E u \in BOOLEAN, t \in Of("tbl") \cup {NONE}, rear \in BOOLEAN :
          AddFltRule(u, t, rear)
     \/ FltRuleOverLimit \/ InstallDflt \/ InstallDfltFails

Changing ==
  \/ \E h \in Of("hdr") : DelHdr(h)
  \/ \E x \in Of("ctx") : DelCtx(x)
  \/ \E r \in Of("rt") : DelRtRule(r)
  \/ \E r \in Of("rt"), h \in Of("hdr") \cup {NONE} : MdfyRtRule(r, h)
  \/ \E t \in Of("tbl") : PutRtTbl(t)
  \/ \E f \in Of("flt") : DelFltRule(f) \/ MdfyFltRuleRefused(f)
  \/ \E f \in Of("flt"), t \in Of("tbl") \cup {NONE} : MdfyFltRule(f, t)
  \/ DeleteDflt
  \/ \E u \in BOOLEAN : ResetFlt(u, "idle", FALSE)
  \/ \E u, whole \in BOOLEAN : ResetFlt(u, "rt", whole)
  \/ ResetRt
  \/ ResetHdr

Next ==
  /\ fault = "none"
  /\ Adding \/ (Changing /\ UNCHANGED adds)
Spec == Init /\ [][Next]_vars

-----------------------------------------------------------------------------
Sound == fault = "none"

(* No entry points at freed memory: a filter rule's routing table, a routing *)
(* rule's table and its header or context, and a context's header all exist, *)
(* whoever deleted what in whatever order, until one of the paths that       *)
(* `fault' names has run.                                                    *)
ReferencesLive == Sound => ~Dangles(obj)

(* The counts are exact, so nothing is freed early: a header counts its      *)
(* owner, the rules and the contexts that use it, a context its owner and    *)
(* its rules, a table its holders and filter rules, and no fewer rules than  *)
(* it has.  (Late it may be: MdfyRtRule and DelFltRule leave at zero what    *)
(* they drop, and a rule that got no handle stays counted.)                  *)
RefsCountHolders ==
  Sound =>
    \A i \in DOMAIN obj :
      LET own(e) == IF e.gone THEN 0 ELSE 1
          users == Cardinality({j \in DOMAIN obj :
                     /\ obj[j].k \in {"rt", "ctx", "flt"}
                     /\ i \in PointsAt(obj[j])
                     /\ obj[j].k = "ctx" => obj[j].counted
                     /\ obj[i].k = "tbl" => obj[j].k = "flt"})
      IN CASE obj[i].k \in {"hdr", "ctx"} -> obj[i].ref = own(obj[i]) + users
           [] obj[i].k = "tbl" -> /\ obj[i].ref = obj[i].got + users
                                  /\ obj[i].cnt >= Cardinality(RulesOf(i))
           [] OTHER -> TRUE

Cells(o, b) == o..(o + Size[b] - 1)

(* Two headers never share bytes of the header memory, nor does a header use *)
(* a slot that is on a free list; all of it is below the end of the table    *)
(* and the end within the memory. The same holds of the contexts.            *)
SlotsDisjoint ==
  Sound =>
    \A m \in {"hdr", "ctx"} :
      LET used == {[off |-> obj[i].off, bin |-> obj[i].bin] :
                     i \in {j \in Of(m) : obj[j].off # NONE}}
          free == UNION {{[off |-> heap[m].free[b][n], bin |-> b] :
                            n \in DOMAIN heap[m].free[b]} : b \in Bins}
          slots == used \cup free
      IN /\ Cardinality(used) = Cardinality({j \in Of(m) : obj[j].off # NONE})
         /\ used \cap free = {}
         /\ \A a, c \in slots : a # c => Cells(a.off, a.bin) \cap Cells(c.off, c.bin) = {}
         /\ \A a \in slots : a.off + Size[a.bin] <= heap[m].end
         /\ heap[m].end <= MemOf[m]

(* Packets no rule claims always have a way: the default header at offset 0  *)
(* and the default table with its one rule survive every deletion and reset. *)
DefaultPathKept ==
  /\ \E h \in Of("hdr") : obj[h].off = 0
  /\ \E t \in TableNamed("dflt") : obj[t].idx = 0 /\ Cardinality(RulesOf(t)) = 1

(* The rule that sends everything to the exception path is behind all the    *)
(* other rules of its pipe as long as it is installed: a rule behind it      *)
(* would never match.  (Until "dflt_before": see InstallDflt.)               *)
DefaultFilterLast ==
  Sound => \A f \in Of("flt") : obj[f].default => Last(list) = f

(* Kernel and userspace share a table, a kernel entry uses a header or a      *)
(* context of userspace, or a context of userspace a kernel header.           *)
Shared ==
  \/ \E i \in Of("rt") \cup Of("flt"), r \in Of("rt") :
       ~obj[i].user /\ obj[r].user /\ obj[i].tbl = obj[r].tbl
  \/ \E i \in Of("rt") \cup Of("ctx") :
       \E j \in PointsAt(obj[i]) \ Of("tbl") :
         \/ ~obj[i].user /\ obj[j].user
         \/ obj[i].k = "ctx" /\ obj[i].user # obj[j].user

(* A reset leaves no pointer to what it freed: neither a global one, nor one *)
(* of userspace's entries when kernel entries keep to themselves, unless an  *)
(* entry was added between its holds of the lock, or a context uses the      *)
(* default header, which stays and keeps the context's count.                *)
ResetSafeUnlessShared ==
  [][fault' = "reset" => \/ reset.raced \/ (reset.user /\ Shared)
                         \/ \E x \in Of("ctx") : obj[x].hdr = 0]_vars

=============================================================================
