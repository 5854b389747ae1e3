-------------------------- MODULE DescriptorParser --------------------------
(***************************************************************************)
(* ReportDescriptor::parse of src/descriptor/parse.rs: one action for each *)
(* way Parser::run treats an item.  `input` is the descriptor given, with  *)
(* what its writer meant by it (`source`, which no action reads); `rest`   *)
(* is what Items has not lexed yet.  After an error the code drops the     *)
(* parser and returns Err: the model keeps its state as it was.            *)
(***************************************************************************)
EXTENDS DescriptorItems

CONSTANT Inputs      \* descriptors to parse: [source, bytes]

VARIABLES input, rest, status, globals, global_stack, locals,
          collection_stack, collections, reports, offsets

parsed == <<collections, reports>>
vars == <<input, rest, status, globals, global_stack, locals,
          collection_stack, collections, reports, offsets>>

-----------------------------------------------------------------------------
(* Values: fields, reports and the queries on a parsed descriptor.         *)

\* MainFlags: the bit of each flag.
FlagBit == [constant |-> 0, variable |-> 1, relative |-> 2, wrap |-> 3,
            nonlinear |-> 4, no_preferred |-> 5, null_state |-> 6,
            volatile |-> 7, buffered_bytes |-> 8]

\* MainFlags::contains, for one flag.
HasFlag(flags, flag) == (flags \div 2 ^ FlagBit[flag]) % 2 = 1

\* CollectionKind::from_value, 0x80 being half of a byte's values.
CollectionKinds == <<"Physical", "Application", "Logical", "Report",
                     "NamedArray", "UsageSwitch", "UsageModifier">>
KindFromValue(value) ==
  IF value < 7 THEN [kind |-> CollectionKinds[value + 1], value |-> value]
  ELSE [kind |-> IF 2 * value >= U8 THEN "VendorDefined" ELSE "Reserved",
        value |-> value]

\* Usage::new; page() and id() are the halves.
Usage(page, id) == page * U16 + id
UsagePage(usage) == usage \div U16
UsageId(usage) == usage % U16

\* Field::size_bits
SizeBits(field) ==
  SaturatingMul(field.globals["ReportSize"], field.globals["ReportCount"])

\* Report::size_bits, size_bytes
ReportBits(report) ==
  FoldLeft(LAMBDA acc, f : SaturatingAdd(acc, SizeBits(f)), 0, report.fields)
ReportBytes(report) == (ReportBits(report) + 7) \div 8

\* ReportDescriptor::uses_report_ids, max_report_size, max_wire_size,
\* top_level_usages
UsesReportIds == \E i \in DOMAIN reports : reports[i].report_id # None
OfKind(kind) == {i \in DOMAIN reports : reports[i].kind = kind}
MaxReportSize(kind) ==
  IF OfKind(kind) = {} THEN 0
  ELSE CHOOSE n \in {ReportBytes(reports[i]) : i \in OfKind(kind)} :
         \A i \in OfKind(kind) : ReportBytes(reports[i]) <= n
MaxWireSize(kind) ==
  IF OfKind(kind) = {} THEN 0
  ELSE MaxReportSize(kind) + (IF UsesReportIds THEN 1 ELSE 0)
TopLevelUsages ==
  [i \in DOMAIN collections |->
     <<UsagePage(collections[i].usage), UsageId(collections[i].usage)>>]

-----------------------------------------------------------------------------
GlobalNames == DOMAIN GlobalTag \ {"Push", "Pop"}

\* What add_field copies of the globals.
FieldGlobals == GlobalNames \ {"UsagePage", "ReportId"}

\* GlobalState::default: zero, or None for the optional ones.
DefaultGlobals ==
  [t \in GlobalNames |->
     IF t \in {"PhysicalMinimum", "PhysicalMaximum", "Unit", "UnitExponent",
               "ReportId"}
     THEN None ELSE 0]

DefaultLocals == [usages |-> <<>>, usage_minimum |-> None, usage_maximum |-> None]

Init ==
  /\ input \in Inputs
  /\ rest = input.bytes
  /\ status = "parsing"
  /\ globals = DefaultGlobals
  /\ global_stack = <<>>
  /\ locals = DefaultLocals
  /\ collection_stack = <<>>
  /\ collections = <<>>
  /\ reports = <<>>
  /\ offsets = [k \in {} |-> 0]

-----------------------------------------------------------------------------
(* Parser::run: the head of the loop.                                      *)

\* The next item, when there is one and it is whole.
Lexed == status = "parsing" /\ rest # <<>> /\ ~Truncated(rest)

item == HeadItem(rest)

\* Items yields an error for a header that promises more than there is.
LexError ==
  /\ status = "parsing" /\ rest # <<>> /\ Truncated(rest)
  /\ status' = "error"
  /\ UNCHANGED <<input, rest, globals, global_stack, locals, collection_stack,
                 parsed, offsets>>

Known ==
  \/ \E t \in DOMAIN GlobalTag : HasTag(item, "Global", t)
  \/ \E t \in DOMAIN LocalTag : HasTag(item, "Local", t)
  \/ \E t \in DOMAIN MainTag : HasTag(item, "Main", t)

\* Long items and unknown tags are skipped; the locals stay.
SkipItem ==
  /\ Lexed /\ ~Known
  /\ rest' = item.after
  /\ UNCHANGED <<input, status, globals, global_stack, locals,
                 collection_stack, parsed, offsets>>

\* global_item, apart from Push and Pop.
GlobalValue(tag) ==
  IF tag \in SignedTags THEN Signed(item)
  ELSE IF tag = "UsagePage" THEN Unsigned(item) % U16
  ELSE IF tag = "ReportId" THEN Unsigned(item) % U8
  ELSE Unsigned(item)

GlobalItem ==
  /\ Lexed
  /\ \E t \in GlobalNames :
       /\ HasTag(item, "Global", t)
       /\ globals' = [globals EXCEPT ![t] = GlobalValue(t)]
  /\ rest' = item.after
  /\ UNCHANGED <<input, status, global_stack, locals, collection_stack,
                 parsed, offsets>>

Push ==
  /\ Lexed /\ HasTag(item, "Global", "Push")
  /\ global_stack' = Append(global_stack, globals)
  /\ rest' = item.after
  /\ UNCHANGED <<input, status, globals, locals, collection_stack, parsed,
                 offsets>>

\* Mutant: Pop drops the state that Push saved.
PopDiscards ==
  /\ Lexed /\ HasTag(item, "Global", "Pop")
  /\ global_stack # <<>>
  /\ global_stack' = Front(global_stack)
  /\ rest' = item.after
  /\ UNCHANGED <<input, status, globals, locals, collection_stack, parsed, offsets>>

Pop ==
  /\ Lexed /\ HasTag(item, "Global", "Pop")
  /\ global_stack # <<>>
  /\ globals' = Last(global_stack)
  /\ global_stack' = Front(global_stack)
  /\ rest' = item.after
  /\ UNCHANGED <<input, status, locals, collection_stack, parsed, offsets>>

\* extended_usage: a short usage takes the page in force now.
ExtendedUsage(raw) ==
  IF raw >= U16 THEN raw ELSE Usage(globals["UsagePage"], raw)

LocalItem ==
  /\ Lexed
  /\ \E t \in DOMAIN LocalTag :
       /\ HasTag(item, "Local", t)
       /\ locals' =
            CASE t = "Usage" ->
                   [locals EXCEPT !.usages =
                      Append(@, ExtendedUsage(Unsigned(item)))]
              [] t = "UsageMinimum" ->
                   [locals EXCEPT !.usage_minimum = Unsigned(item)]
              [] t = "UsageMaximum" ->
                   [locals EXCEPT !.usage_maximum = Unsigned(item)]
              [] OTHER -> locals
  /\ rest' = item.after
  /\ UNCHANGED <<input, status, globals, global_stack, collection_stack,
                 parsed, offsets>>

-----------------------------------------------------------------------------
(* main_item; every main item clears the locals.                           *)

OpenCollection ==
  /\ Lexed /\ HasTag(item, "Main", "Collection")
  /\ collection_stack' =
       Append(collection_stack,
              [kind |-> KindFromValue(Unsigned(item) % U8),
               usage |-> IF locals.usages # <<>> THEN Head(locals.usages)
                         ELSE Usage(globals["UsagePage"], 0),
               children |-> <<>>])
  /\ locals' = DefaultLocals
  /\ rest' = item.after
  /\ UNCHANGED <<input, status, globals, global_stack, parsed, offsets>>

\* The collection becomes the last child of the one around it.
CloseCollection ==
  /\ Lexed /\ HasTag(item, "Main", "EndCollection")
  /\ collection_stack # <<>>
  /\ LET done == Last(collection_stack)
         left == Front(collection_stack)
     IN IF left = <<>>
        THEN /\ collections' = Append(collections, done)
             /\ collection_stack' = left
        ELSE /\ collection_stack' =
                  [left EXCEPT ![Len(left)].children = Append(@, done)]
             /\ UNCHANGED collections
  /\ locals' = DefaultLocals
  /\ rest' = item.after
  /\ UNCHANGED <<input, status, globals, global_stack, reports, offsets>>

\* Pop or End Collection with nothing to end.
Unmatched ==
  /\ Lexed
  /\ \/ HasTag(item, "Global", "Pop") /\ global_stack = <<>>
     \/ HasTag(item, "Main", "EndCollection") /\ collection_stack = <<>>
  /\ status' = "error"
  /\ UNCHANGED <<input, rest, globals, global_stack, locals, collection_stack,
                 parsed, offsets>>

\* Both ends of a usage range take the page in force at the main item.
UsageRange ==
  IF locals.usage_minimum # None /\ locals.usage_maximum # None
  THEN <<ExtendedUsage(locals.usage_minimum), ExtendedUsage(locals.usage_maximum)>>
  ELSE None

\* Mutant: a report is looked up by its ID alone.
SameReportOfAnyKind(kind) ==
  {i \in DOMAIN reports : reports[i].report_id = globals["ReportId"]}

\* The reports of `kind` under the report ID in force: at most one.
SameReport(kind) ==
  {i \in DOMAIN reports :
     reports[i].kind = kind /\ reports[i].report_id = globals["ReportId"]}

NewField(flags, offset) ==
  [flags |-> flags, usages |-> locals.usages, usage_range |-> UsageRange,
   globals |-> [t \in FieldGlobals |-> globals[t]], bit_offset |-> offset]

AddField(kind) ==
  /\ Lexed /\ HasTag(item, "Main", kind)
  /\ LET key == <<kind, globals["ReportId"]>>
         offset == IF key \in DOMAIN offsets THEN offsets[key] ELSE 0
         field == NewField(Unsigned(item), offset)
     IN /\ offsets' = [k \in DOMAIN offsets \cup {key} |->
                         IF k = key THEN SaturatingAdd(offset, SizeBits(field))
                         ELSE offsets[k]]
        /\ reports' =
             IF SameReport(kind) = {}
             THEN Append(reports, [kind |-> kind,
                                   report_id |-> globals["ReportId"],
                                   fields |-> <<field>>])
             ELSE LET i == CHOOSE i \in SameReport(kind) :
                             \A j \in SameReport(kind) : i <= j
                  IN [reports EXCEPT ![i].fields = Append(@, field)]
  /\ locals' = DefaultLocals
  /\ rest' = item.after
  /\ UNCHANGED <<input, status, globals, global_stack, collection_stack,
                 collections>>

\* Mutant: open collections are not looked at.
FinishAnyway ==
  /\ status = "parsing" /\ rest = <<>>
  /\ status' = "done"
  /\ UNCHANGED <<input, rest, globals, global_stack, locals, collection_stack,
                 parsed, offsets>>

\* The end of the loop: Ok, or "unterminated collection".
Finish ==
  /\ status = "parsing" /\ rest = <<>>
  /\ status' = IF collection_stack = <<>> THEN "done" ELSE "error"
  /\ UNCHANGED <<input, rest, globals, global_stack, locals, collection_stack,
                 parsed, offsets>>

Kinds == {"Input", "Output", "Feature"}

Next ==
  \/ LexError \/ SkipItem
  \/ GlobalItem \/ Push \/ Pop
  \/ LocalItem
  \/ OpenCollection \/ CloseCollection
  \/ Unmatched
  \/ \E kind \in Kinds : AddField(kind)
  \/ Finish

Spec == Init /\ [][Next]_vars

-----------------------------------------------------------------------------
(* Properties.                                                             *)

ReportKey(i) == <<reports[i].kind, reports[i].report_id>>

\* A report is found by its kind and ID (`ReportDescriptor::report`) and its
\* fields lie one after the other from bit 0: however the items of several
\* reports alternate, no two fields overlap, none leaves a gap, and the
\* running offset of add_field is the end of the last field of that report,
\* capped where the code saturates.
FieldsTile ==
  /\ \A i, j \in DOMAIN reports : ReportKey(i) = ReportKey(j) => i = j
  /\ DOMAIN offsets = {ReportKey(i) : i \in DOMAIN reports}
  /\ \A i \in DOMAIN reports :
       LET fs == reports[i].fields
           End(n) == SaturatingAdd(fs[n].bit_offset, SizeBits(fs[n]))
       IN /\ fs # <<>> /\ fs[1].bit_offset = 0
          /\ \A n \in 2..Len(fs) : fs[n].bit_offset = End(n - 1)
          /\ offsets[ReportKey(i)] = End(Len(fs))
=============================================================================
