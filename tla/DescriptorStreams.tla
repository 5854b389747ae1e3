-------------------------- MODULE DescriptorStreams --------------------------
(***************************************************************************)
(* What a descriptor declares, told from its list of items alone: a second *)
(* definition of what the parser computes, with no parser state in it.  A  *)
(* stream source is [items, cut]: builder calls [type, tag, value], encoded *)
(* one after the other, with the last `cut` bytes lost.  Reserved items    *)
(* and long items stand beside the builder's, as a device may send them.   *)
(***************************************************************************)
EXTENDS DescriptorParser

\* A long item's payload is filled with what would end a collection.
EncodeItem(c) ==
  CASE c.type = "Global" -> Global(c.tag, c.value)
    [] c.type = "Local" -> Local(c.tag, c.value)
    [] c.type = "Main" -> Main(c.tag, c.value)
    [] c.type = "Reserved" -> <<c.value * 16 + 12>>
    [] c.type = "Long" -> <<LongPrefix, c.value, 0>> \o [i \in 1..c.value |-> 192]

Encoded(items) == [i \in 1..Len(items) |-> EncodeItem(items[i])]

StreamInput(items, cut) ==
  LET bytes == FlattenSeq(Encoded(items))
  IN [source |-> [of |-> "stream", items |-> items, cut |-> cut],
      bytes |-> SubSeq(bytes, 1, Len(bytes) - cut)]

\* What the payload of an item says: an i32 or a u32, as its tag has it.
Values(tag) ==
  IF tag \in SignedTags THEN {v \in Int : FitsSigned(v, U32)} ELSE 0..(U32 - 1)

Calls ==
  {c \in [type : {"Global"}, tag : DOMAIN GlobalTag, value : Int]
           \cup [type : {"Local"}, tag : DOMAIN LocalTag, value : Int]
           \cup [type : {"Main"}, tag : DOMAIN MainTag, value : Int] :
     c.value \in Values(c.tag)}
    \cup [type : {"Reserved"}, tag : {"reserved"}, value : 0..15]
    \cup [type : {"Long"}, tag : {"long"}, value : {n \in Nat : n < U8}]

\* A stream is any sequence of items; what is lost is a part of the last one.
ASSUME StreamsAssumption ==
  \A x \in Inputs : x.source.of = "stream" =>
    LET items == x.source.items
        cut == x.source.cut
    IN /\ items \in Seq(Calls)
       /\ cut \in Nat
       /\ cut # 0 => items # <<>> /\ cut < Len(EncodeItem(items[Len(items)]))
       /\ x = StreamInput(items, cut)

-----------------------------------------------------------------------------
IsItem(items, i, tag) == items[i].tag = tag

Count(items, n, tag) == Cardinality({i \in 1..n : IsItem(items, i, tag)})

\* Nothing is lost, nothing ends that was not begun, every collection ends.
WellFormed(items, cut) ==
  /\ cut = 0
  /\ \A n \in DOMAIN items :
       /\ Count(items, n, "Pop") <= Count(items, n, "Push")
       /\ Count(items, n, "EndCollection") <= Count(items, n, "Collection")
  /\ Count(items, Len(items), "EndCollection") = Count(items, Len(items), "Collection")

\* parse says Ok to exactly the well-formed descriptors and an error to all
\* others, whatever comes before the fault.
AcceptsBalanced ==
  input.source.of = "stream" =>
    /\ status = "done" => WellFormed(input.source.items, input.source.cut)
    /\ status = "error" => ~WellFormed(input.source.items, input.source.cut)

-----------------------------------------------------------------------------
Depth(items, n) == Count(items, n, "Push") - Count(items, n, "Pop")

Highest(S) == CHOOSE n \in S : \A m \in S : m <= n

\* The global in force at item i: the last one set at a depth that no Pop
\* has left since.
GlobalAt(items, i, tag) ==
  LET set == {j \in 1..(i - 1) :
                /\ IsItem(items, j, tag)
                /\ \A k \in j..(i - 1) : Depth(items, k) >= Depth(items, j)}
      value == items[Highest(set)].value
  IN IF set = {} THEN DefaultGlobals[tag]
     ELSE IF tag = "ReportId" THEN value % U8
     ELSE IF tag = "UsagePage" THEN value % U16
     ELSE value

IsMain(items, i) == items[i].type = "Main"

\* The local items of main item i: those since the main item before it.
LocalsOf(items, i, tag) ==
  {j \in 1..(i - 1) : IsItem(items, j, tag) /\ ~\E k \in j..(i - 1) : IsMain(items, k)}

\* A usage of more than 16 bits carries its page; another takes the page in
\* force at item i.
UsageAt(items, i, raw) ==
  IF raw >= U16 THEN raw ELSE Usage(GlobalAt(items, i, "UsagePage"), raw)

\* The place of item j among the items S, from 1 on.
Place(S, j) == Cardinality({k \in S : k <= j})

\* The usages given for main item i, in their order.
UsagesDeclared(usages, items, i) ==
  LET at == LocalsOf(items, i, "Usage")
  IN /\ Len(usages) = Cardinality(at)
     /\ \A j \in at : usages[Place(at, j)] = UsageAt(items, j, items[j].value)

\* The last value of a local item given for main item i.
LocalAt(items, i, tag) ==
  LET at == LocalsOf(items, i, tag)
  IN IF at = {} THEN None ELSE items[Highest(at)].value

\* Both ends of a range take the page in force at the main item.
RangeDeclared(items, i) ==
  LET lo == LocalAt(items, i, "UsageMinimum")
      hi == LocalAt(items, i, "UsageMaximum")
  IN IF lo = None \/ hi = None THEN None
     ELSE <<UsageAt(items, i, lo), UsageAt(items, i, hi)>>

\* What main item i declares of its field.
Declares(items, i, field) ==
  /\ field.flags = items[i].value
  /\ UsagesDeclared(field.usages, items, i)
  /\ field.usage_range = RangeDeclared(items, i)
  /\ \A t \in FieldGlobals : field.globals[t] = GlobalAt(items, i, t)

\* The fields that the first n items declare, and those of one report.
FieldItems(items, n) == {i \in 1..n : items[i].tag \in Kinds}

KeyAt(items, i) == <<items[i].tag, GlobalAt(items, i, "ReportId")>>

FieldItemsOf(items, n, key) == {i \in FieldItems(items, n) : KeyAt(items, i) = key}

\* What tells a report from the others.
KeyOf(r) == <<r.kind, r.report_id>>

\* The reports rs hold what the first n items declare: the reports are theirs,
\* and each has its fields in the order of their main items.
ReportsDeclared(rs, items, n) ==
  /\ {KeyOf(rs[r]) : r \in DOMAIN rs} = {KeyAt(items, i) : i \in FieldItems(items, n)}
  /\ \A r \in DOMAIN rs :
       LET at == FieldItemsOf(items, n, KeyOf(rs[r]))
           fs == rs[r].fields
       IN /\ Len(fs) = Cardinality(at)
          /\ \A i \in at : Declares(items, i, fs[Place(at, i)])

\* A parsed descriptor holds the reports its items declare, each with its
\* fields in the order of their main items, and each field has the flags of
\* its main item, the globals in force there, and the usages given since the
\* main item before: nothing leaks from an earlier field, from a popped
\* state or from an item that is skipped.
FieldsAsDeclared ==
  input.source.of = "stream" /\ status = "done" =>
    ReportsDeclared(reports, input.source.items, Len(input.source.items))
=============================================================================
