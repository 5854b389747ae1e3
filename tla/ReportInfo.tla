------------------------------ MODULE ReportInfo ------------------------------
(***************************************************************************)
(* src/report_info.rs and the conversion that ends src/backend/webhid.rs:  *)
(* the collections a browser parsed from a report descriptor, turned back  *)
(* into a descriptor.  A browser's item is a record with some of the       *)
(* members of an item; a web source is [collections], trees of converted   *)
(* collections.                                                            *)
(***************************************************************************)
EXTENDS DescriptorParser

\* The values of half a byte, which an exponent or the system of a unit takes.
Nibble == CHOOSE n \in 1..U8 : n * n = U8

\* UnitSystem::nibble; a reserved system is not told from none.
SystemNibble ==
  [none |-> 0, reserved |-> 0, si_linear |-> 1, si_rotation |-> 2,
   english_linear |-> 3, english_rotation |-> 4, vendor |-> Nibble - 1]

Dimensions == <<"length", "mass", "time", "temperature", "current", "luminous">>

\* ReportItemInfo::default: also what convert_item takes for an absent member.
DefaultItem ==
  [usages |-> <<>>, usage_minimum |-> 0, usage_maximum |-> 0,
   report_size |-> 0, report_count |-> 0,
   logical_minimum |-> 0, logical_maximum |-> 0,
   physical_minimum |-> 0, physical_maximum |-> 0,
   unit_exponent |-> 0, unit_system |-> "none",
   unit_factor |-> [i \in DOMAIN Dimensions |-> 0],
   is_absolute |-> TRUE, is_array |-> FALSE, is_buffered_bytes |-> FALSE,
   is_constant |-> FALSE, is_linear |-> TRUE, is_range |-> FALSE,
   is_volatile |-> FALSE, has_null |-> FALSE, has_preferred_state |-> TRUE,
   wrap |-> FALSE]

\* convert_item, and with it convert_unit_system for a system this version
\* does not know.
ConvertItem(js) ==
  LET it == js @@ DefaultItem
  IN [it EXCEPT !.unit_system =
        IF @ \in DOMAIN SystemNibble THEN @ ELSE "reserved"]

ConvertReports(js) ==
  [r \in DOMAIN js |->
     [report_id |-> js[r].report_id,
      items |-> [n \in DOMAIN js[r].items |-> ConvertItem(js[r].items[n])]]]

RECURSIVE ConvertCollection(_)
ConvertCollection(js) ==
  LET c == js @@ [usage_page |-> 0, usage |-> 0, collection_type |-> 0,
                  children |-> <<>>, input_reports |-> <<>>,
                  output_reports |-> <<>>, feature_reports |-> <<>>]
  IN [c EXCEPT !.children = [n \in DOMAIN @ |-> ConvertCollection(@[n])],
               !.input_reports = ConvertReports(@),
               !.output_reports = ConvertReports(@),
               !.feature_reports = ConvertReports(@)]

-----------------------------------------------------------------------------
\* ReportItemInfo::unit_value: one nibble each, negative exponents in two's
\* complement.
UnitValue(it) ==
  SystemNibble[it.unit_system]
    + MapThenSumSet(LAMBDA i : (it.unit_factor[i] % Nibble) * Nibble ^ i,
                    DOMAIN Dimensions)

\* ReportItemInfo::main_flags
SetFlags(it) ==
  {f \in DOMAIN FlagBit :
     CASE f = "constant" -> it.is_constant
       [] f = "variable" -> ~it.is_array
       [] f = "relative" -> ~it.is_absolute
       [] f = "wrap" -> it.wrap
       [] f = "nonlinear" -> ~it.is_linear
       [] f = "no_preferred" -> ~it.has_preferred_state
       [] f = "null_state" -> it.has_null
       [] f = "volatile" -> it.is_volatile
       [] f = "buffered_bytes" -> it.is_buffered_bytes}

FlagsValue(set) == MapThenSumSet(LAMBDA f : 2 ^ FlagBit[f], set)

\* uses_report_ids
RECURSIVE AnyNumbered(_)
AnyNumbered(cs) ==
  \E n \in DOMAIN cs :
    LET c == cs[n]
        all == c.input_reports \o c.output_reports \o c.feature_reports
    IN (\E r \in DOMAIN all : all[r].report_id # 0) \/ AnyNumbered(c.children)

-----------------------------------------------------------------------------
\* The bytes of a sequence of builder calls, one after the other.
Emit(calls) == FlattenSeq(calls)

EmitItem(kind, it) ==
  Emit(<<Global("LogicalMinimum", it.logical_minimum),
         Global("LogicalMaximum", it.logical_maximum),
         Global("PhysicalMinimum", it.physical_minimum),
         Global("PhysicalMaximum", it.physical_maximum),
         Global("Unit", UnitValue(it)),
         Global("UnitExponent", it.unit_exponent),
         Global("ReportSize", it.report_size),
         Global("ReportCount", it.report_count)>>
       \o (IF it.is_range
           THEN <<Local("UsageMinimum", it.usage_minimum),
                  Local("UsageMaximum", it.usage_maximum)>>
           ELSE [n \in DOMAIN it.usages |-> Local("Usage", it.usages[n])])
       \o <<Main(kind, FlagsValue(SetFlags(it)))>>)

\* Mutant: a report ID item for every report.
EmitReportWithId(kind, report) ==
  Emit(<<Global("ReportId", report.report_id)>>
       \o [n \in DOMAIN report.items |-> EmitItem(kind, report.items[n])])

\* emit_report: report ID 0 stands for no ID, and none is emitted.
EmitReport(kind, report) ==
  Emit((IF report.report_id # 0 THEN <<Global("ReportId", report.report_id)>>
        ELSE <<>>)
       \o [n \in DOMAIN report.items |-> EmitItem(kind, report.items[n])])

EmitReports(kind, rs) == Emit([n \in DOMAIN rs |-> EmitReport(kind, rs[n])])

\* emit_collection: own reports before the children.
RECURSIVE EmitCollection(_)
EmitCollection(c) ==
  Emit(<<Global("UsagePage", c.usage_page), Local("Usage", c.usage),
         Main("Collection", c.collection_type),
         EmitReports("Input", c.input_reports),
         EmitReports("Output", c.output_reports),
         EmitReports("Feature", c.feature_reports)>>
       \o [n \in DOMAIN c.children |-> EmitCollection(c.children[n])]
       \o <<Main("EndCollection", 0)>>)

\* reconstruct_descriptor, of what the browser shows of a device.
WebInput(js) ==
  LET cs == [n \in DOMAIN js |-> ConvertCollection(js[n])]
  IN [source |-> [of |-> "web", collections |-> cs],
      bytes |-> Emit([n \in DOMAIN cs |-> EmitCollection(cs[n])])]

-----------------------------------------------------------------------------
(* The round trip.                                                         *)

\* The reports of one kind at every level of a tree, as [report_id, items].
RECURSIVE ReportsBelow(_, _)
ReportsBelow(cs, kind) ==
  FlattenSeq([n \in DOMAIN cs |->
    (CASE kind = "Input" -> cs[n].input_reports
       [] kind = "Output" -> cs[n].output_reports
       [] kind = "Feature" -> cs[n].feature_reports)
    \o ReportsBelow(cs[n].children, kind)])

\* The items of one report, wherever in the tree they are declared.
ItemsOf(cs, kind, id) ==
  LET same == SelectSeq(ReportsBelow(cs, kind), LAMBDA r : r.report_id = id)
  IN FlattenSeq([n \in DOMAIN same |-> same[n].items])

SameField(field, it) ==
  /\ field.globals =
       [LogicalMinimum |-> it.logical_minimum, LogicalMaximum |-> it.logical_maximum,
        PhysicalMinimum |-> it.physical_minimum, PhysicalMaximum |-> it.physical_maximum,
        UnitExponent |-> it.unit_exponent, Unit |-> UnitValue(it),
        ReportSize |-> it.report_size, ReportCount |-> it.report_count]
  /\ \A f \in DOMAIN FlagBit : HasFlag(field.flags, f) <=> f \in SetFlags(it)
  /\ IF it.is_range
     THEN field.usage_range = <<it.usage_minimum, it.usage_maximum>>
     ELSE field.usage_range = None /\ field.usages = it.usages

RECURSIVE SameTree(_, _)
SameTree(parsedColls, cs) ==
  /\ Len(parsedColls) = Len(cs)
  /\ \A n \in DOMAIN cs :
       /\ parsedColls[n].kind = KindFromValue(cs[n].collection_type)
       /\ parsedColls[n].usage = Usage(cs[n].usage_page, cs[n].usage)
       /\ SameTree(parsedColls[n].children, cs[n].children)

\* The descriptor rebuilt for a WebHID device "parses back to the same report
\* IDs, sizes, flags and usages": no collection, report or field is lost or
\* added, and no global or usage page leaks from one item to the next.
WebRoundTrip ==
  (input.source.of = "web" /\ status \in {"done", "error"}) =>
    LET cs == input.source.collections
        IdOf(r) == IF r.report_id = 0 THEN None ELSE r.report_id
    IN /\ status = "done"
       /\ SameTree(collections, cs)
       /\ UsesReportIds <=> AnyNumbered(cs)
       /\ \A kind \in Kinds :
            {reports[i].report_id : i \in OfKind(kind)} =
              {IdOf(ReportsBelow(cs, kind)[n]) : n \in DOMAIN ReportsBelow(cs, kind)}
       /\ \A i \in DOMAIN reports :
            LET id == IF reports[i].report_id = None THEN 0 ELSE reports[i].report_id
                its == ItemsOf(cs, reports[i].kind, id)
            IN /\ Len(reports[i].fields) = Len(its)
               /\ \A n \in DOMAIN its : SameField(reports[i].fields[n], its[n])
=============================================================================
