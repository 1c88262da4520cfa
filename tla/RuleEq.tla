-------------------------------- MODULE RuleEq -------------------------------
(***************************************************************************)
(* How a filter or routing rule becomes hardware equations (ipa_utils.c,     *)
(* ipa_flt.c, ipa_rt.c).  The hardware has a fixed set of equations; each     *)
(* attribute of a rule takes one of the kind it needs, and the rule is        *)
(* refused when none is left.  There are two ways to the same bytes:          *)
(* ipa_generate_hw_rule() writes an attribute's operands at once, while       *)
(* ipa_generate_flt_eq() fills a struct of equations (for user space and the  *)
(* modem) that ipa_generate_hw_rule_from_eq() writes out later; that one      *)
(* takes any struct, and the bitmap its caller put there.                     *)
(*                                                                         *)
(* A commit generates every rule twice: once to learn its length, once to     *)
(* write it.  Operands are abstracted to the attribute they are taken from    *)
(* and, where the two ways write different bytes, to their form; the header   *)
(* word to whether it has any bit besides the equation bitmap.               *)
(***************************************************************************)
EXTENDS Naturals, Sequences, FiniteSets, SequencesExt

CONSTANT
  FewRules    \* attribute sets of the rules that change or share a table

VARIABLES
  ruleKind,   \* "flt" or "rt"
  ip,         \* "v4" or "v6"
  rules,      \* the rule list of one table: entry->rule and entry->hw_len
  ret         \* result of the last commit, "none" when the list changed since

ruleVars == <<ruleKind, ip, rules, ret>>

-----------------------------------------------------------------------------
(* The equations of the hardware: the bits of en_rule a kind has, in the     *)
(* order they are handed out, and the bytes its operands take.               *)
EqBits ==
  [tos |-> <<0>>, protocol |-> <<1>>, meq32 |-> <<2, 3>>, rng16 |-> <<4, 5>>,
   eq16 |-> <<6>>, eq32 |-> <<7>>, ihl_meq32 |-> <<8, 13>>, meq128 |-> <<9, 10>>,
   tc |-> <<11>>, fl |-> <<12>>, metadata |-> <<14>>, frag |-> <<15>>]

EqSize ==
  [tos |-> 4, protocol |-> 4, meq32 |-> 12, rng16 |-> 8, eq16 |-> 4, eq32 |-> 8,
   ihl_meq32 |-> 12, meq128 |-> 36, tc |-> 4, fl |-> 4, metadata |-> 12, frag |-> 0]

(* An attribute, the kind of equation it takes, and the form of its operands.*)
Row(attr, eq) == [attr |-> attr, eq |-> eq, form |-> "same"]
Ether(form) == [attr |-> "MAC_ETHER_TYPE", eq |-> "meq32", form |-> form]
InnerIp(form) == [attr |-> "L2TP_INNER_IP_TYPE", eq |-> "ihl_meq32", form |-> form]

MacRows ==
  <<Row("MAC_DST_ADDR_ETHER_II", "meq128"),
    Row("MAC_SRC_ADDR_ETHER_II", "meq128"),
    Row("MAC_DST_ADDR_802_3", "meq128"),
    Row("MAC_SRC_ADDR_802_3", "meq128")>>

(* Operands of attributes that no rule of the other family may have.         *)
Foreign == [v4 |-> {"NEXT_HDR", "TC", "FLOW_LABEL"}, v6 |-> {"TOS", "PROTOCOL"}]

-----------------------------------------------------------------------------
(* ipa_generate_hw_rule(): the order the attributes are looked at, which is  *)
(* also the order of the operands.                                           *)
HwRuleV4Ip ==
  <<Row("TOS", "tos"), Row("TOS_MASKED", "meq32"), Row("PROTOCOL", "protocol"),
    Row("SRC_ADDR", "meq32"), Row("DST_ADDR", "meq32"), Ether("high half")>>

HwRuleV4Ports ==
  <<Row("SRC_PORT_RANGE", "rng16"), Row("DST_PORT_RANGE", "rng16"),
    Row("TYPE", "ihl_meq32"), Row("CODE", "ihl_meq32"), Row("SPI", "ihl_meq32"),
    Row("SRC_PORT", "rng16"), Row("DST_PORT", "rng16")>>

HwRuleV4Link ==
  MacRows \o <<Row("META_DATA", "metadata"), Row("FRAGMENT", "frag")>>

HwRuleV6Ip ==
  <<Row("NEXT_HDR", "protocol"), Ether("high half"),
    Row("TYPE", "ihl_meq32"), Row("CODE", "ihl_meq32"), Row("SPI", "ihl_meq32"),
    InnerIp("4 or 6"),
    Row("L2TP_INNER_IPV4_DST_ADDR", "ihl_meq32")>>

HwRuleV6Ports ==
  <<Row("SRC_PORT", "rng16"), Row("DST_PORT", "rng16"),
    Row("SRC_PORT_RANGE", "rng16"), Row("DST_PORT_RANGE", "rng16")>>

HwRuleV6Addr ==
  <<Row("SRC_ADDR", "meq128"), Row("DST_ADDR", "meq128"), Row("TC", "tc"),
    Row("TOS_MASKED", "meq128")>>

HwRuleV6Link ==
  MacRows \o <<Row("FLOW_LABEL", "fl"), Row("META_DATA", "metadata"),
               Row("FRAGMENT", "frag")>>

HwRuleRows ==
  [v4 |-> HwRuleV4Ip \o HwRuleV4Ports \o HwRuleV4Link,
   v6 |-> HwRuleV6Ip \o HwRuleV6Ports \o HwRuleV6Addr \o HwRuleV6Link]

-----------------------------------------------------------------------------
(* ipa_generate_flt_eq()                                                     *)
FltEqV4Ip ==
  <<Row("TOS", "tos"), Row("TOS_MASKED", "meq32"), Row("PROTOCOL", "protocol"),
    Row("SRC_ADDR", "meq32"), Row("DST_ADDR", "meq32")>>

FltEqV4Ports ==
  <<Row("SRC_PORT_RANGE", "rng16"), Row("DST_PORT_RANGE", "rng16"),
    Row("TYPE", "ihl_meq32"), Row("CODE", "ihl_meq32"), Row("SPI", "ihl_meq32"),
    Row("SRC_PORT", "rng16"), Row("DST_PORT", "rng16")>>

FltEqV4Link ==
  <<Row("META_DATA", "metadata"), Row("FRAGMENT", "frag")>> \o MacRows
  \o <<Ether("low half")>>

FltEqV6Ip ==
  <<Row("NEXT_HDR", "protocol"),
    Row("TYPE", "ihl_meq32"), Row("CODE", "ihl_meq32"), Row("SPI", "ihl_meq32"),
    InnerIp("as given"),
    Row("L2TP_INNER_IPV4_DST_ADDR", "ihl_meq32")>>

FltEqV6Ports ==
  <<Row("SRC_PORT", "rng16"), Row("DST_PORT", "rng16"),
    Row("SRC_PORT_RANGE", "rng16"), Row("DST_PORT_RANGE", "rng16")>>

FltEqV6Addr ==
  <<Row("SRC_ADDR", "meq128"), Row("DST_ADDR", "meq128"), Row("TC", "tc"),
    Row("TOS_MASKED", "meq128")>>

FltEqV6Link ==
  <<Row("FLOW_LABEL", "fl"), Row("META_DATA", "metadata"),
    Row("FRAGMENT", "frag")>> \o MacRows \o <<Ether("low half")>>

FltEqRows ==
  [v4 |-> FltEqV4Ip \o FltEqV4Ports \o FltEqV4Link,
   v6 |-> FltEqV6Ip \o FltEqV6Ports \o FltEqV6Addr \o FltEqV6Link]

-----------------------------------------------------------------------------
(* Attributes that some row names, and one of those this hardware has no     *)
(* equation for: no branch of either function looks at it.                   *)
Unsupported == {"TCP_SYN"}
Attrs ==
  Unsupported \cup UNION {{HwRuleRows[f][i].attr : i \in DOMAIN HwRuleRows[f]} :
                          f \in {"v4", "v6"}}
Ranges == {"SRC_PORT_RANGE", "DST_PORT_RANGE"}

(* A rule of attributes as a client gives it: the attributes, the value of   *)
(* `type', and whether its port ranges are upside down.  `zero' says that    *)
(* the header word has no bit but the equations': action and table index 0,  *)
(* which only rules of equations can name, or pipe 0.  A rule of equations   *)
(* (eq_attrib_type) has the struct `eqs' instead: operands and rule_eq_bitmap.*)
InnerTypes == {"0x40", "0x60", "other"}
Rule(attrs, type, rev, zero) ==
  [attrs |-> attrs, type |-> type, rev |-> rev, zero |-> zero, hwLen |-> 0,
   from |-> "attributes", eqs |-> [bits |-> {}, out |-> <<>>]]

Refused(row, r, used) ==
  \/ used[row.eq] = Len(EqBits[row.eq])
  \/ row.attr \in Ranges /\ r.rev

(* The value written for the type of an inner IP header: by one function     *)
(* 0x40000000 or 0x60000000, by the other the type shifted.                  *)
Form(row, r) ==
  CASE row.form = "4 or 6" -> IF r.type = "0x40" THEN "0x40" ELSE "0x60"
    [] row.form = "as given" -> r.type
    [] OTHER -> row.form

Operand(row, r, used) ==
  [bit |-> EqBits[row.eq][used[row.eq] + 1], attr |-> row.attr, eq |-> row.eq,
   form |-> Form(row, r)]

(* Walk of the rows: each attribute the rule has takes the next equation of  *)
(* its kind, or the rule is refused.                                         *)
Walk(rows, r) ==
  LET start == [ok |-> TRUE, used |-> [k \in DOMAIN EqBits |-> 0], out |-> <<>>]
      walk[i \in 0..Len(rows)] ==
        IF i = 0 THEN start
        ELSE LET s == walk[i - 1]
                 row == rows[i]
             IN CASE ~s.ok \/ row.attr \notin r.attrs -> s
                  [] s.ok /\ row.attr \in r.attrs /\ Refused(row, r, s.used) ->
                       [s EXCEPT !.ok = FALSE]
                  [] OTHER ->
                       [s EXCEPT !.used[row.eq] = @ + 1,
                                 !.out = Append(@, Operand(row, r, s.used))]
  IN walk[Len(rows)]

(* "default rule means no attributes set": one equation that always holds.   *)
DefaultRule(r) ==
  IF r.attrs = {}
  THEN <<[bit |-> 2, attr |-> "none", eq |-> "meq32", form |-> "same"]>>
  ELSE <<>>

(* Either function: the error check, the rows, the default rule.             *)
Equations(rows, f, r) ==
  LET w == Walk(rows, r) IN
  [ok |-> r.attrs \cap Foreign[f] = {} /\ w.ok, out |-> w.out \o DefaultRule(r)]

HwRule(f, r) == Equations(HwRuleRows[f], f, r)
FltEq(f, r) == Equations(FltEqRows[f], f, r)

Bits(out) == {out[i].bit : i \in DOMAIN out}

(* A rule whose equations are those of r's attributes, and one whose caller  *)
(* filled the struct in: the equations `present', whatever the bitmap says.  *)
Converted(f, r) ==
  LET out == FltEq(f, r).out
  IN [r EXCEPT !.from = "converted", !.eqs = [bits |-> Bits(out), out |-> out]]

Given(present, bits, zero) ==
  LET operand(k) == [bit |-> EqBits[k][1], attr |-> "given", eq |-> k, form |-> "same"]
  IN [Rule({}, "other", FALSE, zero) EXCEPT
        !.from = "given",
        !.eqs = [bits |-> bits, out |-> SetToSeq({operand(k) : k \in present})]]

(* ipa_generate_hw_rule_from_eq(): the operands of the equations present, in *)
(* the order of the equations.                                               *)
HwRuleFromEq(out) == SortSeq(out, LAMBDA a, b : a.bit < b.bit)

(* What a rule is in the table: ipa_generate_flt_hw_rule() and, without      *)
(* equations, __ipa_generate_rt_hw_rule_v2().                                *)
HwGenerated(f, r) ==
  IF r.from = "attributes"
  THEN [ok |-> HwRule(f, r).ok, bits |-> Bits(HwRule(f, r).out), out |-> HwRule(f, r).out]
  ELSE [ok |-> TRUE, bits |-> r.eqs.bits, out |-> HwRuleFromEq(r.eqs.out)]

(* The length of a rule: the header word and the operands.                   *)
Bytes(out) ==
  LET bytes[i \in 0..Len(out)] ==
        IF i = 0 THEN 4 ELSE EqSize[out[i].eq] + bytes[i - 1]
  IN bytes[Len(out)]

-----------------------------------------------------------------------------
RuleInit ==
  /\ ruleKind \in {"flt", "rt"}
  /\ ip \in {"v4", "v6"}
  /\ rules = <<>>
  /\ ret = "none"

(* Rules are generated when they are committed, not when they are added;     *)
(* routing rules have no equations.                                          *)
Allowed(r) ==
  /\ r.from # "attributes" => ruleKind = "flt"
  /\ r.zero => r.from # "attributes" \/ ruleKind = "rt"

AddRuleEntry(r) ==
  /\ Allowed(r)
  /\ rules' = Append(rules, r)
  /\ ret' = "none"
  /\ UNCHANGED <<ruleKind, ip>>

MdfyRuleKeepingLength(i, r) ==
  /\ Allowed(r)
  /\ rules' = [rules EXCEPT ![i] = [r EXCEPT !.hwLen = rules[i].hwLen]]
  /\ ret' = "none"
  /\ UNCHANGED <<ruleKind, ip>>

(* __ipa_mdfy_flt_rule() resets the length, __ipa_mdfy_rt_rule() does not.   *)
MdfyRule(i, r) ==
  /\ Allowed(r)
  /\ rules' = [rules EXCEPT ![i] =
                 [r EXCEPT !.hwLen = IF ruleKind = "rt" THEN rules[i].hwLen ELSE 0]]
  /\ ret' = "none"
  /\ UNCHANGED <<ruleKind, ip>>

DelRule(i) ==
  /\ rules' = RemoveAt(rules, i)
  /\ ret' = "none"
  /\ UNCHANGED <<ruleKind, ip>>

(* Does generating r give the length noted before, if one was?               *)
Sizes(r) ==
  LET g == HwGenerated(ip, r) IN g.ok /\ r.hwLen \in {0, Bytes(g.out)}

(* The rules before the first that cannot be generated have their length.    *)
SizePass ==
  [i \in DOMAIN rules |->
     IF \A j \in 1..i : Sizes(rules[j])
     THEN [rules[i] EXCEPT !.hwLen = Bytes(HwGenerated(ip, rules[i]).out)]
     ELSE rules[i]]

(* A commit stops at a rule it cannot generate and leaves the hardware's     *)
(* table; otherwise the hardware has the rules as generated.                 *)
Commit ==
  /\ rules # <<>>
  /\ rules' = SizePass
  /\ ret' = IF \A i \in DOMAIN rules : Sizes(rules[i]) THEN "0" ELSE "EPERM"
  /\ UNCHANGED <<ruleKind, ip>>

(* Rules of up to three attributes alone in their table; of FewRules and of  *)
(* equations, two that also change.                                          *)
Single ==
  {Rule({a, b, c}, "0x60", FALSE, FALSE) : a \in Attrs, b \in Attrs, c \in Attrs}
  \cup {Rule({"L2TP_INNER_IP_TYPE", a}, t, FALSE, FALSE) : a \in Attrs, t \in InnerTypes}

Few ==
  [f \in {"v4", "v6"} |->
     LET plain == {Rule(a, "0x60", rev, zero) :
                     a \in FewRules, rev \in BOOLEAN, zero \in BOOLEAN}
     IN plain \cup {Converted(f, r) : r \in {q \in plain : FltEq(f, q).ok}}
          \cup {Given(p, b, TRUE) : p \in {{}, {"eq16", "eq32"}}, b \in {{}, {6, 7}}}]

RuleNext ==
  \/ rules = <<>> /\ \E r \in Single : AddRuleEntry(r)
  \/ \E r \in Few[ip] :
       /\ Len(rules) < 2
       /\ \A i \in DOMAIN rules : rules[i].attrs \in FewRules \cup {{}}
       /\ r.rev => r.attrs \cap Ranges # {}
       /\ AddRuleEntry(r)
  \/ \E i \in DOMAIN rules, r \in Few[ip] : ~r.rev /\ MdfyRule(i, r)
  \/ \E i \in DOMAIN rules : DelRule(i)
  \/ Commit

RuleSpec == RuleInit /\ [][RuleNext]_ruleVars

-----------------------------------------------------------------------------
(* Properties                                                               *)

AfterHeader == {"TYPE", "CODE", "SPI", "L2TP_INNER_IP_TYPE", "L2TP_INNER_IPV4_DST_ADDR"}
Ports == {"SRC_PORT", "DST_PORT"}
Macs == {MacRows[i].attr : i \in DOMAIN MacRows}

(* The rules the two functions lay out differently.  In attribute order, the *)
(* operands of an equation come before those of one with a lower bit when a  *)
(* rule has TOS_MASKED and PROTOCOL (v4), a port after a TYPE, CODE or SPI,  *)
(* a traffic class before a 128-bit equation (v6), or an operand of those    *)
(* written after the second of the equations behind the IP header.  And an   *)
(* ether type is in the upper half of the operand in one, in the lower in    *)
(* the other; an inner IP type that is neither 4 nor 6 is 6 in one.          *)
Differ(f, r) ==
  LET attrs == r.attrs
      behind == attrs \cap (AfterHeader \ IF f = "v4" THEN {"L2TP_INNER_IP_TYPE",
                                            "L2TP_INNER_IPV4_DST_ADDR"} ELSE {})
      late == Macs \cup IF f = "v4" THEN {}
                        ELSE {"SRC_ADDR", "DST_ADDR", "TC", "TOS_MASKED", "FLOW_LABEL"}
      ports == Ports \cup IF f = "v4" THEN {} ELSE Ranges
  IN \/ "MAC_ETHER_TYPE" \in attrs
     \/ f = "v6" /\ "L2TP_INNER_IP_TYPE" \in attrs /\ r.type = "other"
     \/ f = "v4" /\ {"TOS_MASKED", "PROTOCOL"} \subseteq attrs
     \/ f = "v6" /\ "TC" \in attrs /\ attrs \cap (Macs \cup {"TOS_MASKED"}) # {}
     \/ behind # {} /\ attrs \cap ports # {}
     \/ Cardinality(behind) = 2 /\ attrs \cap late # {}

(* ipa_generate_hw_rule() and ipa_generate_flt_eq() accept the same rules    *)
(* and give them the same equations, and the bytes of the two ways agree     *)
(* exactly for the rules that are not in Differ.                             *)
EncodingsAgree ==
  \A i \in DOMAIN rules :
    LET r == rules[i]
        h == HwRule(ip, r)
        e == FltEq(ip, r)
    IN /\ h.ok <=> e.ok
       /\ h.ok => /\ {o.bit : o \in Range(h.out)} = {o.bit : o \in Range(e.out)}
                  /\ Cardinality({o.bit : o \in Range(h.out)}) = Len(h.out)
                  /\ (h.out = HwRuleFromEq(e.out)) <=> ~Differ(ip, r)

(* A commit fails only when a rule of the table has no equations, or is a    *)
(* routing rule modified since its length was noted; so a filter table whose *)
(* rules are all sound can always be committed, whatever was done to it.     *)
CommitFailureHasCause ==
  ret = "EPERM" =>
    \E i \in DOMAIN rules :
      \/ ~HwGenerated(ip, rules[i]).ok
      \/ ruleKind = "rt" /\ rules[i].hwLen # Bytes(HwGenerated(ip, rules[i]).out)

(* The hardware stops at the first word 0, the rule-set terminator.  A rule  *)
(* of a committed table is that word only when it has attributes and the     *)
(* driver knows none of them for the family, or comes as equations with the  *)
(* bitmap 0; never a rule for all packets.                                   *)
TerminatorOnlyAtEnd ==
  ret = "0" =>
    \A i \in DOMAIN rules :
      rules[i].zero /\ HwGenerated(ip, rules[i]).bits = {} /\ rules[i].from # "given" =>
        /\ rules[i].attrs # {}
        /\ \A j \in DOMAIN HwRuleRows[ip] : HwRuleRows[ip][j].attr \notin rules[i].attrs
=============================================================================
