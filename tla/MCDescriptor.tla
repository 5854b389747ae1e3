----------------------------- MODULE MCDescriptor -----------------------------
(***************************************************************************)
(* Descriptors for the parser, from three writers: a device (streams of    *)
(* items, some cut short), the WebHID reconstruction and the Windows one.  *)
(* A byte of 6 bits leaves 24 bits to the widest item, which TLC can hold. *)
(***************************************************************************)
EXTENDS DescriptorStreams, ReportInfo, WinDescriptor

G(t, v) == [type |-> "Global", tag |-> t, value |-> v]
L(t, v) == [type |-> "Local", tag |-> t, value |-> v]
M(t, v) == [type |-> "Main", tag |-> t, value |-> v]

-----------------------------------------------------------------------------
(* Streams: a prologue, up to three letters and an epilogue.  The letters  *)
(* hold every kind of item, each size of payload, a negative number, a     *)
(* report ID of two bytes, the widest report size and items to be skipped. *)

Letters ==
  {G("UsagePage", U16 + U8 + 1), G("ReportId", U8 + 1), G("ReportId", 2),
   G("ReportSize", U32 - 1), G("LogicalMinimum", -(U8 \div 2) - 1),
   G("Unit", U16), G("Push", 0), G("Pop", 0),
   L("Usage", 2), L("Usage", U16 + 5), L("UsageMinimum", 0),
   L("UsageMaximum", U8), M("Collection", 1), M("EndCollection", 0),
   M("Input", 2), M("Feature", U8 * 4),
   [type |-> "Long", tag |-> "long", value |-> 2],
   [type |-> "Reserved", tag |-> "reserved", value |-> 10]}

MCWords == UNION {[1..n -> Letters] : n \in 0..3}

OneField == <<G("ReportSize", 8), G("ReportCount", 2), M("Input", 2)>>
Pushed == <<G("Push", 0), L("Usage", 7), L("StringIndex", 4)>>

MCStreams ==
  {StreamInput(OneField \o w, 0) : w \in MCWords}
  \cup {StreamInput(Pushed \o w \o <<G("Pop", 0), M("Input", 0)>>, 0) :
          w \in {v \in MCWords : Len(v) = 3 => v[1].tag \in {"Push", "Pop", "Collection"}}}
  \cup {StreamInput(OneField \o w, 1) :
          w \in {v \in MCWords : Len(v) \in {1, 2} /\ Len(EncodeItem(Last(v))) > 1}}

-----------------------------------------------------------------------------
(* WebHID: items as a browser shows them, with members left out; one or    *)
(* two reports of a kind, in one collection, in a child, or in two         *)
(* collections; numbered or not, never both.                               *)

Keyboard == Usage(1, 6)

MCItems ==
  {[report_size |-> 1, report_count |-> 8, is_range |-> TRUE,
    usage_minimum |-> Keyboard, usage_maximum |-> Keyboard + 7,
    logical_maximum |-> 1, is_buffered_bytes |-> TRUE],
   [report_size |-> 8, report_count |-> 1, is_constant |-> TRUE],
   [report_size |-> 16, report_count |-> 2, usages |-> <<Keyboard, Usage(2, 1)>>,
    is_absolute |-> FALSE, has_null |-> TRUE, wrap |-> TRUE,
    logical_minimum |-> -U8, logical_maximum |-> U8 - 1,
    physical_minimum |-> -(U8 \div 2), physical_maximum |-> U8 \div 2,
    unit_exponent |-> -2, unit_system |-> "si_linear",
    unit_factor |-> <<1, 0, -2, 0, -1, 3>>],
   [report_size |-> 4, report_count |-> 3, is_array |-> TRUE,
    usages |-> <<Keyboard>>, is_linear |-> FALSE, is_volatile |-> TRUE,
    has_preferred_state |-> FALSE, unit_system |-> "of_a_later_version"]}

MCReportsOf(numbered) ==
  LET one == {<<[report_id |-> IF numbered THEN 1 ELSE 0, items |-> <<i, j>>]>> :
                i, j \in MCItems}
  IN one \cup (IF numbered
               THEN {r \o <<[report_id |-> 2, items |-> r[1].items]>> : r \in one}
               ELSE {})

Leaf(rs) == [usage_page |-> 1, usage |-> 6, collection_type |-> 1,
             input_reports |-> rs, feature_reports |-> rs]
Nested(rs, inner) ==
  [usage_page |-> U8, usage |-> 1, collection_type |-> U8 - 1,
   output_reports |-> rs, children |-> <<inner, [collection_type |-> 2]>>]

\* The second collection's items come in the other order.
Swapped(rs) ==
  [n \in DOMAIN rs |-> [rs[n] EXCEPT !.items = <<@[2], @[1]>>]]

MCTrees(numbered) ==
  UNION {{<<Leaf(r)>>, <<Nested(r, Leaf(Swapped(r)))>>, <<Leaf(r), Leaf(Swapped(r))>>} :
           r \in MCReportsOf(numbered)}

MCWeb == {WebInput(js) : js \in MCTrees(TRUE) \cup MCTrees(FALSE)}

-----------------------------------------------------------------------------
(* Windows: no collection, two children in either order, or a chain of   *)
(* three, the last too deep when it has a fourth.                          *)

Node(usage, child, sibling) ==
  [page |-> 1, usage |-> usage, type |-> usage, child |-> child, sibling |-> sibling]

MCNodes ==
  {<<>>, <<Node(6, 1, 0), Node(2, 0, 2), Node(U8 \div 2, 0, 0)>>,
   <<Node(1, 2, 0), Node(3, 0, 0), Node(4, 0, 1)>>,
   <<Node(1, 1, 0), Node(3, 2, 0), Node(4, 0, 0)>>,
   <<Node(1, 1, 0), Node(3, 2, 0), Node(4, 3, 0), Node(5, 0, 0)>>}

MCCap(id, link) == [report_id |-> id, link |-> link, is_alias |-> FALSE,
                    page |-> 9, range |-> None, usage |-> 2,
                    report_count |-> 0, flags |-> 2]
MCValue == [LogicalMinimum |-> -U8, LogicalMaximum |-> U8,
            PhysicalMinimum |-> -1, PhysicalMaximum |-> 1,
            UnitExponent |-> -3, Unit |-> U16]

MCButtons(id, link) ==
  {None,
   <<[MCCap(id, 0) EXCEPT !.range = <<1, 3>>],
     [MCCap(id, 0) EXCEPT !.is_alias = TRUE]>>,
   <<[MCCap(id, link) EXCEPT !.flags = 0, !.range = <<0, U8>>, !.report_count = 2],
     MCCap(id, 0)>>}

\* Under a report ID the second value is in a report of its own.
MCValues(id, link) ==
  {<<>>,
   <<[MCCap(id, link) EXCEPT !.report_count = 3] @@ [bit_size |-> 4, value |-> MCValue]>>,
   <<[MCCap(id, 0) EXCEPT !.range = <<4, 5>>] @@ [bit_size |-> 8, value |-> MCValue],
     [MCCap(IF id = 0 THEN 0 ELSE id + 1, link) EXCEPT !.flags = 6]
        @@ [bit_size |-> 7, value |-> MCValue]>>}

MCCaps(id, link) ==
  {[Input |-> [len |-> len, buttons |-> b, values |-> v],
    Output |-> [len |-> 3, buttons |-> <<MCCap(id, link)>>, values |-> <<>>],
    Feature |-> [len |-> 0, buttons |-> <<>>, values |-> <<>>]] :
     len \in {1, 2, 9}, b \in MCButtons(id, link), v \in MCValues(id, link)}

MCWinSources ==
  UNION {{[nodes |-> nodes, caps |-> caps] :
            nodes \in MCNodes,
            caps \in MCCaps(id, link)} : id \in {0, 1}, link \in {0, 2}}

MCWindows ==
  {WinInput(s) : s \in {r \in MCWinSources : Rebuilds(r)}}

MCInputs == MCStreams \cup MCWeb \cup MCWindows
=============================================================================
