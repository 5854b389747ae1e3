----------------------------- MODULE WinDescriptor -----------------------------
(***************************************************************************)
(* The reconstruction of src/backend/windows.rs: Windows does not give a   *)
(* device's report descriptor, only what it parsed from it, from which     *)
(* reconstruct_descriptor builds another.  A Windows source is             *)
(*   nodes  the link collections: [page, usage, type, child, sibling],     *)
(*          node 0 first, child and sibling being node numbers or 0        *)
(*   caps   for each kind of report [len, buttons, values], the caps being *)
(*          None when they cannot be read.                                 *)
(***************************************************************************)
EXTENDS DescriptorParser

CONSTANT MaxDepth    \* the deepest collection rebuilt: 64 in the code

KindOrder == <<"Input", "Output", "Feature">>

ReadCaps(caps) == IF caps = None THEN <<>> ELSE caps

\* collect_fields: every cap that is not the alias of another, the buttons of
\* each kind before its values, `order` being its place among them.
CollectFields(caps) ==
  LET Of(kind) ==
        LET Tagged(data, cs) ==
              [n \in DOMAIN cs |-> [kind |-> kind, data |-> data] @@ cs[n]]
        IN SelectSeq(Tagged("Button", ReadCaps(caps[kind].buttons))
                       \o Tagged("Value", ReadCaps(caps[kind].values)),
                     LAMBDA c : ~c.is_alias)
      all == FlattenSeq([k \in DOMAIN KindOrder |-> Of(KindOrder[k])])
  IN [n \in DOMAIN all |-> [order |-> n] @@ all[n]]

IsVariable(f) == HasFlag(f.flags, "variable")

AtLeastOne(n) == IF n = 0 THEN 1 ELSE n

\* Usages in a range, whose ends saturate.
RangeCount(range) ==
  IF range[2] < range[1] THEN 1 ELSE range[2] - range[1] + 1

\* Field::layout: <<report_size, report_count>>
Layout(f) ==
  CASE f.data = "Padding" -> <<f.bits, 1>>
    [] f.data = "Value" ->
         <<f.bit_size,
           IF f.range # None /\ RangeCount(f.range) > AtLeastOne(f.report_count)
           THEN RangeCount(f.range) ELSE AtLeastOne(f.report_count)>>
    [] f.data = "Button" /\ IsVariable(f) ->
         <<1, IF f.range # None THEN RangeCount(f.range)
              ELSE AtLeastOne(f.report_count)>>
    [] OTHER ->
         <<IF f.range # None /\ f.range[2] > U8 - 1 THEN 16 ELSE 8,
           AtLeastOne(f.report_count)>>

Bits(fs) == FoldLeft(LAMBDA acc, f : acc + Layout(f)[1] * Layout(f)[2], 0, fs)

\* Mutant: the length is taken for that of the data.
PaddingToLen(caps, fields) ==
  LET For(kind) ==
        LET fs == SelectSeq(fields, LAMBDA f : f.kind = kind)
            ids == {fs[n].report_id : n \in DOMAIN fs}
            declared == caps[kind].len * 8
        IN IF caps[kind].len < 2 \/ Cardinality(ids) # 1 \/ Bits(fs) >= declared
           THEN <<>>
           ELSE <<[kind |-> kind, report_id |-> fs[1].report_id, link |-> 0,
                   order |-> Len(fields) + 1, data |-> "Padding",
                   bits |-> declared - Bits(fs)]>>
  IN FlattenSeq([k \in DOMAIN KindOrder |-> For(KindOrder[k])])

\* synthesize_padding: what the only report of a kind lacks to be as long as
\* Windows says, as a constant field of the top collection after its others.
Padding(caps, fields) ==
  LET For(kind) ==
        LET fs == SelectSeq(fields, LAMBDA f : f.kind = kind)
            ids == {fs[n].report_id : n \in DOMAIN fs}
            declared == (caps[kind].len - 1) * 8
        IN IF caps[kind].len < 2 \/ Cardinality(ids) # 1 \/ Bits(fs) >= declared
           THEN <<>>
           ELSE <<[kind |-> kind, report_id |-> fs[1].report_id, link |-> 0,
                   order |-> Len(fields) + 1, data |-> "Padding",
                   bits |-> declared - Bits(fs)]>>
  IN FlattenSeq([k \in DOMAIN KindOrder |-> For(KindOrder[k])])

KindRank(kind) == CHOOSE k \in DOMAIN KindOrder : KindOrder[k] = kind

\* The order of a node's fields: by type, report ID and enumeration order.
Before(f, g) ==
  IF f.kind # g.kind THEN KindRank(f.kind) < KindRank(g.kind)
  ELSE IF f.report_id # g.report_id THEN f.report_id < g.report_id
  ELSE f.order < g.order

ByNode(fields, link) ==
  SetToSortSeq({fields[n] : n \in {m \in DOMAIN fields : fields[m].link = link}},
               Before)

-----------------------------------------------------------------------------
\* emit_field
EmitField(f) ==
  LET layout == Layout(f)
      id == IF f.report_id # 0 THEN <<Global("ReportId", f.report_id)>> ELSE <<>>
      size == <<Global("ReportSize", layout[1]), Global("ReportCount", layout[2])>>
      usages == IF f.range # None
                THEN <<Local("UsageMinimum", f.range[1]),
                       Local("UsageMaximum", f.range[2])>>
                ELSE <<Local("Usage", f.usage)>>
      button == [t \in SignedTags \cup {"Unit"} |->
                   IF t # "LogicalMaximum" THEN 0
                   ELSE IF IsVariable(f) \/ f.range = None THEN 1 ELSE f.range[2]]
      value == IF f.data = "Button" THEN button ELSE f.value
      globals_of == <<"LogicalMinimum", "LogicalMaximum", "PhysicalMinimum",
                      "PhysicalMaximum", "UnitExponent", "Unit">>
  IN IF f.data = "Padding"
     THEN FlattenSeq(id \o size \o <<Main(f.kind, 2 ^ FlagBit.constant)>>)
     ELSE FlattenSeq(<<Global("UsagePage", f.page)>> \o id \o usages
            \o [n \in DOMAIN globals_of |-> Global(globals_of[n], value[globals_of[n]])]
            \o size \o <<Main(f.kind, f.flags)>>)

\* The children of a node along FirstChild and NextSibling, at most as many
\* as there are nodes.
Chain(nodes, index) ==
  LET Valid(n) == n # 0 /\ n < Len(nodes)
      At[k \in 1..Len(nodes)] ==
        IF k = 1 THEN nodes[index + 1].child
        ELSE IF Valid(At[k - 1]) THEN nodes[At[k - 1] + 1].sibling ELSE 0
  IN SelectSeq([k \in 1..Len(nodes) |-> At[k]], Valid)

\* Whether emit_collection meets no collection below MaxDepth.
RECURSIVE Shallow(_, _, _)
Shallow(nodes, index, depth) ==
  /\ depth <= MaxDepth
  /\ \A n \in DOMAIN Chain(nodes, index) :
       Shallow(nodes, Chain(nodes, index)[n], depth + 1)

\* emit_collection
RECURSIVE EmitNode(_, _, _)
EmitNode(nodes, fields, index) ==
  LET node == nodes[index + 1]
      own == ByNode(fields, index)
      below == Chain(nodes, index)
  IN FlattenSeq(<<Global("UsagePage", node.page), Local("Usage", node.usage),
                  Main("Collection", KindFromValue(node.type % U8).value)>>
       \o [n \in DOMAIN own |-> EmitField(own[n])]
       \o [n \in DOMAIN below |-> EmitNode(nodes, fields, below[n])]
       \o <<Main("EndCollection", 0)>>)

\* reconstruct_descriptor gives an error for no collections or too deep ones.
Rebuilds(source) == source.nodes # <<>> /\ Shallow(source.nodes, 0, 0)

WinInput(source) ==
  LET fields == CollectFields(source.caps)
  IN [source |-> [of |-> "windows"] @@ source,
      bytes |-> EmitNode(source.nodes, fields \o Padding(source.caps, fields), 0)]

-----------------------------------------------------------------------------
(* The round trip.                                                         *)

CapsOf(caps, kind, id) ==
  SelectSeq(CollectFields(caps), LAMBDA f : f.kind = kind /\ f.report_id = id)

\* What a field of the descriptor says of cap f.
SameCap(field, f) ==
  /\ field.flags = f.flags
  /\ IF f.range # None
     THEN /\ field.usages = <<>>
          /\ field.usage_range = <<Usage(f.page, f.range[1]), Usage(f.page, f.range[2])>>
     ELSE /\ field.usages = <<Usage(f.page, f.usage)>>
          /\ field.usage_range = None
  /\ <<field.globals["ReportSize"], field.globals["ReportCount"]>> = Layout(f)
  /\ \A t \in SignedTags \cup {"Unit"} :
       IF f.data = "Value" THEN field.globals[t] = f.value[t]
       ELSE t # "LogicalMaximum" => field.globals[t] = 0

IsPadding(field) == field.usages = <<>> /\ field.usage_range = None

RECURSIVE SameNodes(_, _, _)
SameNodes(coll, nodes, index) ==
  LET node == nodes[index + 1]
      below == Chain(nodes, index)
  IN /\ coll.kind = KindFromValue(node.type)
     /\ coll.usage = Usage(node.page, node.usage)
     /\ Len(coll.children) = Len(below)
     /\ \A n \in DOMAIN below : SameNodes(coll.children[n], nodes, below[n])

\* The descriptor rebuilt on Windows parses to the collections, usages and
\* reports that Windows showed: every cap that is no alias is one field of the
\* report with its kind and ID (the order may differ, as the method's docs
\* say), nothing but padding is added, and a kind with one report ID is as
\* long as its *ReportByteLength says, which is what read, write and the
\* feature calls of the device use.
WinRoundTrip ==
  (input.source.of = "windows" /\ status \in {"done", "error"}) =>
    LET caps == input.source.caps
        IdOf(f) == IF f.report_id = 0 THEN None ELSE f.report_id
        all == CollectFields(caps)
    IN /\ status = "done"
       /\ Len(collections) = 1
       /\ SameNodes(collections[1], input.source.nodes, 0)
       /\ {ReportKey(i) : i \in DOMAIN reports} =
            {<<all[n].kind, IdOf(all[n])>> : n \in DOMAIN all}
       /\ \A i \in DOMAIN reports :
            LET kind == reports[i].kind
                id == IF reports[i].report_id = None THEN 0 ELSE reports[i].report_id
                its == CapsOf(caps, kind, id)
                real == SelectSeq(reports[i].fields, LAMBDA f : ~IsPadding(f))
            IN /\ Len(real) = Len(its)
               /\ \A n \in DOMAIN its :
                    Cardinality({m \in DOMAIN real : SameCap(real[m], its[n])}) =
                      Cardinality({m \in DOMAIN its :
                        [its[m] EXCEPT !.order = 0, !.link = 0]
                          = [its[n] EXCEPT !.order = 0, !.link = 0]})
               /\ (Cardinality(OfKind(kind)) = 1 /\ caps[kind].len >= 2
                     /\ Bits(its) <= (caps[kind].len - 1) * 8)
                    => MaxWireSize(kind) + (IF UsesReportIds THEN 0 ELSE 1)
                         = caps[kind].len
=============================================================================
