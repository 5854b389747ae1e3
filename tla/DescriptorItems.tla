--------------------------- MODULE DescriptorItems ---------------------------
(***************************************************************************)
(* Report descriptor items: the lexer of src/descriptor/items.rs and the   *)
(* encoder of src/descriptor/build.rs, which share one table of tags.      *)
(*                                                                         *)
(* A descriptor is a sequence of numbers: one prefix (tag * 16 + type * 4  *)
(* + size code) and the payload bytes of each item, least significant      *)
(* first.  A payload byte has U8 values, 256 in the code; every width is   *)
(* derived from it, so TLC, whose integers have 32 bits, meets each edge   *)
(* (sign bits, the size of an encoding, saturation) at a smaller byte.     *)
(***************************************************************************)
EXTENDS Integers, Sequences, SequencesExt

CONSTANTS
  U8,         \* how many values a payload byte has
  None        \* Option::None

ASSUME ByteAssumption == U8 \in Nat /\ U8 > 1

\* None is no value an item can give.
ASSUME NoneAssumption == None \notin Nat

U16 == U8 * U8
U32 == U16 * U16

SaturatingAdd(a, b) == IF a + b >= U32 THEN U32 - 1 ELSE a + b
SaturatingMul(a, b) ==
  IF a = 0 THEN 0 ELSE IF b > (U32 - 1) \div a THEN U32 - 1 ELSE a * b

-----------------------------------------------------------------------------
(* Types and tags: `code` and `from_code` read the same table.             *)

TypeCode == [Main |-> 0, Global |-> 1, Local |-> 2, Reserved |-> 3]

MainTag == [Input |-> 8, Output |-> 9, Collection |-> 10, Feature |-> 11,
            EndCollection |-> 12]

GlobalTag == [UsagePage |-> 0, LogicalMinimum |-> 1, LogicalMaximum |-> 2,
              PhysicalMinimum |-> 3, PhysicalMaximum |-> 4, UnitExponent |-> 5,
              Unit |-> 6, ReportSize |-> 7, ReportId |-> 8, ReportCount |-> 9,
              Push |-> 10, Pop |-> 11]

LocalTag == [Usage |-> 0, UsageMinimum |-> 1, UsageMaximum |-> 2,
             DesignatorIndex |-> 3, DesignatorMinimum |-> 4,
             DesignatorMaximum |-> 5, StringIndex |-> 7, StringMinimum |-> 8,
             StringMaximum |-> 9, Delimiter |-> 10]

Code(type, tag) ==
  CASE type = "Main" -> MainTag[tag]
    [] type = "Global" -> GlobalTag[tag]
    [] type = "Local" -> LocalTag[tag]

-----------------------------------------------------------------------------
(* The lexer.                                                              *)

LongPrefix == 254

\* Whether the item at the head of `rest` promises more than `rest` holds.
Truncated(rest) ==
  IF rest[1] = LongPrefix
  THEN Len(rest) < 3 \/ Len(rest) < 3 + rest[2]
  ELSE Len(rest) < 1 + (IF rest[1] % 4 = 3 THEN 4 ELSE rest[1] % 4)

\* Items::next: the item at the head of `rest`, which is not truncated, and
\* what follows it.
HeadItem(rest) ==
  LET prefix == rest[1]
      long == prefix = LongPrefix
      header == IF long THEN 3 ELSE 1
      size == IF long THEN rest[2] ELSE IF prefix % 4 = 3 THEN 4 ELSE prefix % 4
      code == (prefix \div 4) % 4
  IN [item_type |-> CHOOSE t \in DOMAIN TypeCode : TypeCode[t] = code,
      tag |-> IF long THEN rest[3] ELSE prefix \div 16,
      data |-> SubSeq(rest, header + 1, header + size),
      long |-> long,
      after |-> SubSeq(rest, header + size + 1, Len(rest))]

\* RawItem::typed_tag
HasTag(item, type, tag) ==
  ~item.long /\ item.item_type = type /\ item.tag = Code(type, tag)

\* RawItem::unsigned: at most four bytes count.
Unsigned(item) ==
  LET b == [i \in 1..4 |-> IF i <= Len(item.data) THEN item.data[i] ELSE 0]
  IN b[1] + U8 * b[2] + U16 * (b[3] + U8 * b[4])

\* Two's complement over `width` values.
SignExtend(v, width) == IF 2 * v >= width THEN v - width ELSE v

\* RawItem::signed
Signed(item) ==
  CASE Len(item.data) = 0 -> 0
    [] Len(item.data) = 1 -> SignExtend(item.data[1], U8)
    [] Len(item.data) = 2 -> SignExtend(item.data[1] + U8 * item.data[2], U16)
    [] OTHER -> SignExtend(Unsigned(item), U32)

-----------------------------------------------------------------------------
(* The encoder: each function returns the bytes the builder appends.       *)

\* to_le_bytes()[..len], of a value taken modulo 2^32.
LeBytes(value, len) ==
  SubSeq(<<value % U8, (value \div U8) % U8, (value \div U16) % U8,
           (value \div (U8 * U16)) % U8>>, 1, len)

PushItem(type, tag, data) ==
  <<Code(type, tag) * 16 + TypeCode[type] * 4
      + (IF Len(data) = 4 THEN 3 ELSE Len(data))>> \o data

UnsignedLen(value) ==
  CASE value = 0 -> 0
    [] value \in 1..(U8 - 1) -> 1
    [] value \in U8..(U16 - 1) -> 2
    [] OTHER -> 4

ItemUnsigned(type, tag, value) ==
  PushItem(type, tag, LeBytes(value, UnsignedLen(value)))

\* try_from succeeds for a value that the narrower signed type holds.
FitsSigned(value, width) == -width <= 2 * value /\ 2 * value < width

SignedLen(value) ==
  CASE value = 0 -> 0
    [] value # 0 /\ FitsSigned(value, U8) -> 1
    [] ~FitsSigned(value, U8) /\ FitsSigned(value, U16) -> 2
    [] OTHER -> 4

ItemSigned(type, tag, value) ==
  PushItem(type, tag, LeBytes(value % U32, SignedLen(value)))

SignedTags == {"LogicalMinimum", "LogicalMaximum", "PhysicalMinimum",
               "PhysicalMaximum", "UnitExponent"}

\* The builder's methods for global items, by tag: usage_page(page),
\* logical_minimum(value), ..., report_count(count).
Global(tag, value) ==
  IF tag \in {"Push", "Pop"} THEN PushItem("Global", tag, <<>>)
  ELSE IF tag \in SignedTags THEN ItemSigned("Global", tag, value)
  ELSE ItemUnsigned("Global", tag, value)

\* usage, usage_minimum, usage_maximum, string_index
Local(tag, value) == ItemUnsigned("Local", tag, value)

\* collection, end_collection, input, output, feature: a field's main item
\* carries a byte even when its flags are all zero.
Main(tag, value) ==
  CASE tag = "Collection" -> ItemUnsigned("Main", tag, value)
    [] tag = "EndCollection" -> PushItem("Main", tag, <<>>)
    [] OTHER -> IF value = 0 THEN PushItem("Main", tag, <<0>>)
                ELSE ItemUnsigned("Main", tag, value)
=============================================================================
