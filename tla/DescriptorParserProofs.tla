----------------------- MODULE DescriptorParserProofs -----------------------
(***************************************************************************)
(* FieldsTile of DescriptorParser, and AcceptsBalanced and                 *)
(* FieldsAsDeclared of DescriptorStreams, for every width of a byte and    *)
(* all inputs.                                                             *)
(*                                                                         *)
(* For FieldsTile, what a field holds and how sizes add up do not matter:  *)
(* SaturatingAdd and SizeBits are not expanded anywhere.  AcceptsBalanced  *)
(* rests on what the lexer makes of what the encoder wrote, item by item,  *)
(* and on where each item of a stream lies, which takes an induction over  *)
(* its length: NaturalsByStep, for sets, since the induction theorem for   *)
(* operators is beyond the provers.  FieldsAsDeclared also rests on the    *)
(* values, which the lexer reads back as the encoder cut them into bytes   *)
(* (LexValue); the parser's state is what the items read by then tell      *)
(* (Told).                                                                 *)
(***************************************************************************)
EXTENDS DescriptorStreams, WellFoundedInduction, SequenceTheorems,
        FiniteSetTheorems, TLAPS

\* Reports are records of their kind, an ID and some fields.
ReportsOf(D, F) == [kind : Kinds, report_id : D, fields : Seq(F)]

ReportsShape == \E D, F : reports \in Seq(ReportsOf(D, F))

TileInv == ReportsShape /\ FieldsTile

-----------------------------------------------------------------------------
\* The fields fs of a report tile it, and `end` is where the next one goes.
TilesTo(fs, end) ==
  LET End(n) == SaturatingAdd(fs[n].bit_offset, SizeBits(fs[n]))
  IN /\ fs # <<>> /\ fs[1].bit_offset = 0
     /\ \A n \in 2..Len(fs) : fs[n].bit_offset = End(n - 1)
     /\ end = End(Len(fs))

\* One field, at bit 0.
LEMMA FirstField ==
  ASSUME NEW f, f.bit_offset = 0
  PROVE  TilesTo(<<f>>, SaturatingAdd(0, SizeBits(f)))
BY DEF TilesTo

\* A field put where the last one ends.
LEMMA NextField ==
  ASSUME NEW F, NEW fs \in Seq(F), NEW f, NEW end,
         TilesTo(fs, end), f.bit_offset = end
  PROVE  TilesTo(Append(fs, f), SaturatingAdd(end, SizeBits(f)))
<1> DEFINE gs == Append(fs, f)
           End(ss, n) == SaturatingAdd(ss[n].bit_offset, SizeBits(ss[n]))
<1>1. /\ gs \in Seq(F \cup {f})
      /\ Len(gs) = Len(fs) + 1
      /\ gs[Len(gs)] = f
      /\ \A n \in 1..Len(fs) : gs[n] = fs[n]
  OBVIOUS
<1>2. Len(fs) \in Nat \ {0}
  BY DEF TilesTo
<1>3. gs # <<>> /\ gs[1].bit_offset = 0
  BY <1>1, <1>2 DEF TilesTo
<1>4. ASSUME NEW n \in 2..Len(gs)
      PROVE  gs[n].bit_offset = End(gs, n - 1)
  <2>1. gs[n - 1] = fs[n - 1] /\ n - 1 \in 1..Len(fs)
    BY <1>1, <1>2
  <2>2. CASE n = Len(gs)
    BY <2>1, <2>2, <1>1, <1>2 DEF TilesTo
  <2>3. CASE n # Len(gs)
    BY <2>1, <2>3, <1>1, <1>2 DEF TilesTo
  <2> QED
    BY <2>2, <2>3
<1>5. SaturatingAdd(end, SizeBits(f)) = End(gs, Len(gs))
  BY <1>1
<1> QED
  BY <1>3, <1>4, <1>5 DEF TilesTo

-----------------------------------------------------------------------------
\* FieldsTile, of any reports and offsets.
Tile(rs, offs) ==
  /\ \A i, j \in DOMAIN rs : KeyOf(rs[i]) = KeyOf(rs[j]) => i = j
  /\ DOMAIN offs = {KeyOf(rs[i]) : i \in DOMAIN rs}
  /\ \A i \in DOMAIN rs : TilesTo(rs[i].fields, offs[KeyOf(rs[i])])

\* The offsets after field f was put under key, at `offset`.
Advanced(offs, key, offset, f) ==
  [k \in DOMAIN offs \cup {key} |->
     IF k = key THEN SaturatingAdd(offset, SizeBits(f)) ELSE offs[k]]

\* Append, for a sequence of elements of a wider set.
LEMMA AppendWider ==
  ASSUME NEW S, NEW T, S \subseteq T, NEW s \in Seq(S), NEW e \in T
  PROVE  /\ Append(s, e) \in Seq(T)
         /\ Len(s) \in Nat /\ DOMAIN s = 1..Len(s)
         /\ DOMAIN Append(s, e) = 1..(Len(s) + 1)
         /\ Append(s, e)[Len(s) + 1] = e
         /\ \A i \in 1..Len(s) : Append(s, e)[i] = s[i]
<1>1. s \in Seq(T)
  BY SMT
<1> QED
  BY <1>1, SMT

\* The first field of a report makes the report.
LEMMA NewReport ==
  ASSUME NEW D, NEW F, NEW rs \in Seq(ReportsOf(D, F)), NEW offs, Tile(rs, offs),
         NEW kind \in Kinds, NEW id, <<kind, id>> \notin DOMAIN offs,
         NEW f, f.bit_offset = 0
  PROVE  LET new == [kind |-> kind, report_id |-> id, fields |-> <<f>>]
         IN /\ Append(rs, new) \in Seq(ReportsOf(D \cup {id}, F \cup {f}))
            /\ Tile(Append(rs, new), Advanced(offs, <<kind, id>>, 0, f))
<1> DEFINE key == <<kind, id>>
           new == [kind |-> kind, report_id |-> id, fields |-> <<f>>]
           rs2 == Append(rs, new)
           offs2 == Advanced(offs, key, 0, f)
           n == Len(rs)
<1>1. new \in ReportsOf(D \cup {id}, F \cup {f})
  BY DEF ReportsOf
<1>2. ReportsOf(D, F) \subseteq ReportsOf(D \cup {id}, F \cup {f})
  BY DEF ReportsOf
<1>3. /\ rs2 \in Seq(ReportsOf(D \cup {id}, F \cup {f}))
      /\ n \in Nat /\ DOMAIN rs = 1..n /\ DOMAIN rs2 = 1..(n + 1)
      /\ rs2[n + 1] = new
      /\ \A i \in 1..n : rs2[i] = rs[i]
  <2> DEFINE RF == ReportsOf(D, F)
             RF2 == ReportsOf(D \cup {id}, F \cup {f})
  <2>1. RF \subseteq RF2 /\ rs \in Seq(RF) /\ new \in RF2
    BY <1>1, <1>2
  <2> HIDE DEF new, RF, RF2
  <2>2. /\ Append(rs, new) \in Seq(RF2)
        /\ Len(rs) \in Nat /\ DOMAIN rs = 1..Len(rs)
        /\ DOMAIN Append(rs, new) = 1..(Len(rs) + 1)
        /\ Append(rs, new)[Len(rs) + 1] = new
        /\ \A i \in 1..Len(rs) : Append(rs, new)[i] = rs[i]
    BY <2>1, AppendWider
  <2> QED
    BY <2>2 DEF RF2
<1>4. KeyOf(new) = key /\ new.fields = <<f>>
  BY DEF KeyOf
<1>5. \A i \in 1..n : KeyOf(rs[i]) \in DOMAIN offs /\ KeyOf(rs[i]) # key
  BY <1>3 DEF Tile
<1>6. /\ DOMAIN offs2 = DOMAIN offs \cup {key}
      /\ offs2[key] = SaturatingAdd(0, SizeBits(f))
      /\ \A k \in DOMAIN offs : k # key => offs2[k] = offs[k]
  BY DEF Advanced
<1> HIDE DEF key, new, rs2, offs2, n
<1>7. \A i, j \in DOMAIN rs2 : KeyOf(rs2[i]) = KeyOf(rs2[j]) => i = j
  BY <1>3, <1>4, <1>5 DEF Tile
<1>8. DOMAIN offs2 = {KeyOf(rs2[i]) : i \in DOMAIN rs2}
  <2>1. DOMAIN offs = {KeyOf(rs[i]) : i \in 1..n}
    BY <1>3 DEF Tile
  <2> QED
    BY <2>1, <1>3, <1>4, <1>6
<1>9. ASSUME NEW i \in DOMAIN rs2
      PROVE  TilesTo(rs2[i].fields, offs2[KeyOf(rs2[i])])
  <2>1. CASE i = n + 1
    BY <2>1, <1>3, <1>4, <1>6, FirstField
  <2>2. CASE i \in 1..n
    BY <2>2, <1>3, <1>5, <1>6 DEF Tile
  <2> QED
    BY <2>1, <2>2, <1>3
<1>10. Tile(rs2, offs2)
  BY <1>7, <1>8, <1>9 DEF Tile
<1> QED
  BY <1>3, <1>10 DEF rs2, offs2, new, key

\* A further field goes to the report of its key.
LEMMA FurtherField ==
  ASSUME NEW D, NEW F, NEW rs \in Seq(ReportsOf(D, F)), NEW offs, Tile(rs, offs),
         NEW m \in DOMAIN rs, NEW f, f.bit_offset = offs[KeyOf(rs[m])]
  PROVE  LET rs2 == [rs EXCEPT ![m].fields = Append(@, f)]
         IN /\ rs2 \in Seq(ReportsOf(D, F \cup {f}))
            /\ Tile(rs2, Advanced(offs, KeyOf(rs[m]), offs[KeyOf(rs[m])], f))
<1> DEFINE key == KeyOf(rs[m])
           r2 == [rs[m] EXCEPT !.fields = Append(@, f)]
           rs2 == [rs EXCEPT ![m] = r2]
           offs2 == Advanced(offs, key, offs[key], f)
           RF == ReportsOf(D, F)
           RF2 == ReportsOf(D, F \cup {f})
<1>1. rs[m] \in RF
  OBVIOUS
<1>2. rs[m].fields \in Seq(F)
  BY <1>1 DEF ReportsOf
<1>3. Append(rs[m].fields, f) \in Seq(F \cup {f})
  BY <1>2, AppendWider
<1>4. r2 = [kind |-> rs[m].kind, report_id |-> rs[m].report_id,
            fields |-> Append(rs[m].fields, f)]
  <2>1. rs[m] \in [kind : Kinds, report_id : D, fields : Seq(F)]
    BY <1>1 DEF ReportsOf
  <2>2. \A x : [rs[m] EXCEPT !.fields = x] =
                 [kind |-> rs[m].kind, report_id |-> rs[m].report_id, fields |-> x]
    BY <2>1
  <2> QED
    BY <2>2, Zenon
<1>5. r2 \in RF2 /\ KeyOf(r2) = key /\ r2.fields = Append(rs[m].fields, f)
  BY <1>1, <1>3, <1>4 DEF ReportsOf, KeyOf
<1>6. RF \subseteq RF2
  BY DEF ReportsOf
<1> HIDE DEF r2, RF, RF2
<1>7. /\ rs2 \in Seq(RF2)
      /\ DOMAIN rs2 = DOMAIN rs
      /\ rs2[m] = r2
      /\ \A i \in DOMAIN rs : i # m => rs2[i] = rs[i]
  <2>1. rs \in Seq(RF)
    BY DEF RF
  <2> QED
    BY <2>1, <1>5, <1>6
<1>8. key \in DOMAIN offs
  BY DEF Tile
<1>9. /\ DOMAIN offs2 = DOMAIN offs
      /\ offs2[key] = SaturatingAdd(offs[key], SizeBits(f))
      /\ \A k \in DOMAIN offs : k # key => offs2[k] = offs[k]
  BY <1>8 DEF Advanced
<1>10. TilesTo(r2.fields, offs2[key])
  <2>1. TilesTo(rs[m].fields, offs[key])
    BY DEF Tile
  <2> QED
    BY <2>1, <1>2, <1>5, <1>9, NextField
<1> HIDE DEF rs2, offs2
<1>11. \A i \in DOMAIN rs : KeyOf(rs2[i]) = KeyOf(rs[i])
  BY <1>5, <1>7
<1>12. Tile(rs2, offs2)
  <2>1. \A i, j \in DOMAIN rs2 : KeyOf(rs2[i]) = KeyOf(rs2[j]) => i = j
    BY <1>7, <1>11 DEF Tile
  <2>2. DOMAIN offs2 = {KeyOf(rs2[i]) : i \in DOMAIN rs2}
    BY <1>7, <1>9, <1>11 DEF Tile
  <2>3. ASSUME NEW i \in DOMAIN rs2
        PROVE  TilesTo(rs2[i].fields, offs2[KeyOf(rs2[i])])
    <3>1. CASE i = m
      BY <3>1, <1>5, <1>7, <1>10
    <3>2. CASE i # m
      BY <3>2, <1>7, <1>9, <1>11 DEF Tile
    <3> QED
      BY <3>1, <3>2
  <2> QED
    BY <2>1, <2>2, <2>3 DEF Tile
<1> QED
  BY <1>7, <1>12 DEF rs2, offs2, r2, RF2

-----------------------------------------------------------------------------
\* FieldsTile is Tile of the parser's reports and offsets.
LEMMA FieldsTileMeans == FieldsTile <=> Tile(reports, offsets)
BY Zenon DEF FieldsTile, Tile, TilesTo, ReportKey, KeyOf

\* A parser that has read nothing has no reports and no offsets.
LEMMA InitTiles == Init => TileInv
<1> SUFFICES ASSUME Init PROVE TileInv
  OBVIOUS
<1>1. reports = <<>> /\ DOMAIN offsets = {} /\ DOMAIN reports = {}
  BY DEF Init
<1>2. ReportsShape
  BY <1>1 DEF ReportsShape
<1>3. FieldsTile
  BY <1>1, FieldsTileMeans DEF Tile
<1> QED
  BY <1>2, <1>3 DEF TileInv

\* SameReport holds the report under the new field's key: one at most, and
\* one exactly when that key has an offset.
LEMMA SameReportIsKey ==
  ASSUME Tile(reports, offsets), NEW kind \in Kinds
  PROVE  /\ \A i \in SameReport(kind) :
              i \in DOMAIN reports /\ KeyOf(reports[i]) = <<kind, globals["ReportId"]>>
         /\ (\E i : i \in SameReport(kind)) <=> <<kind, globals["ReportId"]>> \in DOMAIN offsets
         /\ \A i, j \in SameReport(kind) : i = j
<1>1. SameReport(kind) =
        {i \in DOMAIN reports : KeyOf(reports[i]) = <<kind, globals["ReportId"]>>}
  BY DEF SameReport, KeyOf
<1> QED
  BY <1>1 DEF Tile

\* add_field, which makes a report or extends the one under its key.
LEMMA AddFieldTiles ==
  ASSUME TileInv, NEW kind \in Kinds, AddField(kind)
  PROVE  TileInv'
<1> DEFINE id == globals["ReportId"]
           key == <<kind, id>>
           offset == IF key \in DOMAIN offsets THEN offsets[key] ELSE 0
           f == NewField(Unsigned(item), offset)
           new == [kind |-> kind, report_id |-> id, fields |-> <<f>>]
<1>1. Tile(reports, offsets)
  BY FieldsTileMeans DEF TileInv
<1>2. PICK D, F : reports \in Seq(ReportsOf(D, F))
  BY DEF TileInv, ReportsShape
<1>3. f.bit_offset = offset
  BY DEF NewField
<1>4. offsets' = Advanced(offsets, key, offset, f)
  BY DEF AddField, Advanced
<1>5. /\ \A i \in SameReport(kind) : i \in DOMAIN reports /\ KeyOf(reports[i]) = key
      /\ (\E i : i \in SameReport(kind)) <=> key \in DOMAIN offsets
      /\ \A i, j \in SameReport(kind) : i = j
  BY <1>1, SameReportIsKey
<1>6. (\E DD, FF : reports' \in Seq(ReportsOf(DD, FF))) /\ Tile(reports', offsets')
  <2>1. CASE SameReport(kind) = {}
    <3>1. key \notin DOMAIN offsets
      BY <2>1, <1>5
    <3>2. offset = 0
      BY <3>1
    <3>3. reports' = Append(reports, new)
      BY <2>1 DEF AddField
    <3> HIDE DEF f
    <3> QED
      BY <3>1, <3>2, <3>3, <1>1, <1>2, <1>3, <1>4, NewReport
  <2>2. CASE SameReport(kind) # {}
    <3>1. key \in DOMAIN offsets
      BY <2>2, <1>5
    <3>2. PICK m \in SameReport(kind) : reports' = [reports EXCEPT ![m].fields = Append(@, f)]
      <4>1. PICK i \in SameReport(kind) : \A j \in SameReport(kind) : i = j
        BY <3>1, <1>5
      <4>2. i \in 1..Len(reports)
        BY <1>2, <1>5
      <4>3. \E k \in SameReport(kind) : \A j \in SameReport(kind) : k <= j
        BY <4>1, <4>2
      <4> QED
        BY <4>3, <2>2, Zenon DEF AddField
    <3>3. m \in DOMAIN reports /\ KeyOf(reports[m]) = key
      BY <1>5
    <3>4. offset = offsets[key]
      BY <3>1
    <3> HIDE DEF f
    <3> QED
      BY <3>2, <3>3, <3>4, <1>1, <1>2, <1>3, <1>4, FurtherField
  <2> QED
    BY <2>1, <2>2
<1>7. ReportsShape'
  BY <1>6 DEF ReportsShape
<1>8. FieldsTile'
  BY <1>6, Zenon DEF FieldsTile, Tile, TilesTo, ReportKey, KeyOf
<1> QED
  BY <1>7, <1>8 DEF TileInv

-----------------------------------------------------------------------------
\* No other item touches the reports.
LEMMA OthersKeepReports ==
  ASSUME TileInv, UNCHANGED <<reports, offsets>>
  PROVE  TileInv'
<1>1. ReportsShape'
  BY DEF TileInv, ReportsShape
<1>2. FieldsTile'
  BY Zenon DEF TileInv, FieldsTile, ReportKey
<1> QED
  BY <1>1, <1>2 DEF TileInv

\* One step for each way the parser treats an item.
LEMMA StepTiles == TileInv /\ [Next]_vars => TileInv'
<1> SUFFICES ASSUME TileInv, [Next]_vars PROVE TileInv'
  OBVIOUS
<1>1. ASSUME NEW kind \in Kinds, AddField(kind) PROVE TileInv'
  BY <1>1, AddFieldTiles
<1>2. CASE LexError \/ SkipItem \/ Unmatched \/ Finish
  BY <1>2, OthersKeepReports DEF LexError, SkipItem, Unmatched, Finish, parsed
<1>3. CASE GlobalItem \/ Push \/ Pop \/ LocalItem
  BY <1>3, OthersKeepReports DEF GlobalItem, Push, Pop, LocalItem, parsed
<1>4. CASE OpenCollection
  BY <1>4, OthersKeepReports DEF OpenCollection, parsed
<1>5. CASE CloseCollection
  BY <1>5, OthersKeepReports DEF CloseCollection
<1>6. CASE UNCHANGED vars
  BY <1>6, OthersKeepReports DEF vars
<1> QED
  BY <1>1, <1>2, <1>3, <1>4, <1>5, <1>6 DEF Next

\* Whatever the width of a byte and whatever is parsed: while the parser runs
\* and after it, reports are told apart by kind and ID, and the fields of each
\* lie one after the other from bit 0 to its running offset (add_field).
THEOREM FieldsAlwaysTile == Spec => []FieldsTile
<1>1. TileInv => FieldsTile
  BY DEF TileInv
<1> QED
  BY InitTiles, StepTiles, <1>1, PTL DEF Spec

-----------------------------------------------------------------------------
(* AcceptsBalanced.                                                        *)

\* A set that holds 0, and with each number the next, holds them all.
LEMMA NaturalsByStep ==
  ASSUME NEW S, 0 \in S, \A n \in Nat : n \in S => n + 1 \in S
  PROVE  Nat \subseteq S
<1> SUFFICES ASSUME Nat \ S # {} PROVE FALSE
  OBVIOUS
<1> DEFINE R == {ss \in Nat \X Nat : ss[1] < ss[2]}
           T == Nat \ S
<1>1. \A x, y \in Nat : x < y => <<x, y>> \in R
  OBVIOUS
<1>2. IsWellFoundedOn(R, Nat)
  BY NatLessThanWellFounded, Zenon DEF OpToRel
<1>3. T \subseteq Nat /\ T # {}
  OBVIOUS
<1> HIDE DEF R, T
<1>4. PICK x \in T : \A y \in T : ~ (<<y, x>> \in R)
  BY <1>2, <1>3, WFMin
<1>5. x \in Nat /\ x # 0
  BY <1>4 DEF T
<1>6. x - 1 \in Nat /\ x - 1 < x /\ (x - 1) + 1 = x
  BY <1>5
<1>7. x - 1 \in S
  BY <1>1, <1>3, <1>4, <1>6 DEF T
<1> QED
  BY <1>4, <1>6, <1>7 DEF T

-----------------------------------------------------------------------------
(* The items of a stream, one after the other.                             *)

\* What FlattenSeq builds up.
FlatOf(s, n, f) ==
  f = [i \in 1..n |-> IF i = 1 THEN s[i] ELSE f[i - 1] \o s[i]]

\* FlattenSeq's function exists, for any number of parts.
LEMMA FlatExists ==
  ASSUME NEW s, NEW N \in Nat
  PROVE  \E f : FlatOf(s, N, f)
<1> DEFINE G == {n \in Nat : \E f : FlatOf(s, n, f)}
<1>1. 0 \in G
  <2>1. FlatOf(s, 0, [i \in {} |-> i])
    BY DEF FlatOf
  <2> QED
    BY <2>1
<1>2. ASSUME NEW n \in Nat, n \in G PROVE n + 1 \in G
  <2>1. PICK f : FlatOf(s, n, f)
    BY <1>2
  <2> DEFINE last == IF n = 0 THEN s[1] ELSE f[n] \o s[n + 1]
             g == [i \in 1..(n + 1) |-> IF i = n + 1 THEN last ELSE f[i]]
  <2>2. ASSUME NEW i \in 1..(n + 1)
        PROVE  g[i] = IF i = 1 THEN s[i] ELSE g[i - 1] \o s[i]
    <3>1. CASE i = n + 1
      BY <3>1
    <3>2. CASE i # n + 1
      <4>1. i \in 1..n /\ g[i] = f[i]
        BY <3>2
      <4>2. f[i] = IF i = 1 THEN s[i] ELSE f[i - 1] \o s[i]
        BY <2>1, <4>1 DEF FlatOf
      <4>3. i # 1 => g[i - 1] = f[i - 1]
        BY <4>1
      <4> QED
        BY <4>1, <4>2, <4>3
    <3> QED
      BY <3>1, <3>2
  <2>3. g = [i \in 1..(n + 1) |-> g[i]]
    OBVIOUS
  <2> HIDE DEF g
  <2>4. FlatOf(s, n + 1, g)
    BY <2>2, <2>3 DEF FlatOf
  <2> QED
    BY <2>4
<1> HIDE DEF G
<1>3. Nat \subseteq G
  BY <1>1, <1>2, NaturalsByStep
<1> QED
  BY <1>3 DEF G

\* Part i of s lies from at[i - 1] on in the whole.
LaidOut(s, whole, at) ==
  /\ at \in [0..Len(s) -> Nat]
  /\ at[0] = 0 /\ at[Len(s)] = Len(whole)
  /\ \A i, j \in 0..Len(s) : i <= j => at[i] <= at[j]
  /\ \A i \in 1..Len(s) :
       /\ at[i] = at[i - 1] + Len(s[i])
       /\ \A j \in 1..Len(s[i]) : whole[at[i - 1] + j] = s[i][j]

\* FlattenSeq puts the parts one after the other.
LEMMA FlattenLays ==
  ASSUME NEW S, NEW s \in Seq(Seq(S))
  PROVE  /\ FlattenSeq(s) \in Seq(S)
         /\ \E at : LaidOut(s, FlattenSeq(s), at)
<1>0. Len(s) \in Nat /\ \A i \in 1..Len(s) : s[i] \in Seq(S) /\ Len(s[i]) \in Nat
  OBVIOUS
<1>1. CASE Len(s) = 0
  <2>1. s = <<>> /\ FlattenSeq(s) = s
    BY <1>1 DEF FlattenSeq
  <2>2. LaidOut(s, <<>>, [i \in 0..0 |-> 0])
    BY <2>1, <1>1 DEF LaidOut
  <2> QED
    BY <2>1, <2>2
<1>2. CASE Len(s) # 0
  <2> DEFINE N == Len(s)
             f == CHOOSE f : FlatOf(s, N, f)
  <2>1. FlatOf(s, N, f)
    BY <1>0, FlatExists
  <2>2. FlattenSeq(s) = f[N]
    BY <1>2, Zenon DEF FlattenSeq, FlatOf
  <2> HIDE DEF f
  <2>3. /\ f[1] = s[1]
        /\ \A i \in 2..N : f[i] = f[i - 1] \o s[i]
    <3>1. \A i \in 1..N : f[i] = IF i = 1 THEN s[i] ELSE f[i - 1] \o s[i]
      <4> DEFINE e(i) == IF i = 1 THEN s[i] ELSE f[i - 1] \o s[i]
      <4>1. f = [i \in 1..N |-> e(i)]
        BY <2>1 DEF FlatOf
      <4> HIDE DEF e
      <4>2. \A i \in 1..N : f[i] = e(i)
        BY <4>1
      <4> QED
        BY <4>2 DEF e
    <3>2. 1 \in 1..N /\ \A i \in 2..N : i \in 1..N /\ i # 1
      BY <1>0, <1>2
    <3> QED
      BY <3>1, <3>2, Zenon
  <2> DEFINE Fine(n) ==
               /\ f[n] \in Seq(S) /\ Len(f[n]) \in Nat
               /\ \A k \in 1..n : /\ f[k] \in Seq(S)
                                  /\ Len(f[k]) \in Nat /\ Len(f[k]) <= Len(f[n])
                                  /\ \A j \in 1..Len(f[k]) : f[n][j] = f[k][j]
             G == {n \in Nat : n + 1 \in 1..N => Fine(n + 1)}
  <2>4. 0 \in G
    <3>1. f[1] \in Seq(S) /\ Len(f[1]) \in Nat
      BY <1>0, <1>2, <2>3
    <3>2. \A k \in 1..1 : k = 1
      OBVIOUS
    <3>3. Fine(1)
      BY <3>1, <3>2
    <3> QED
      BY <3>3
  <2>5. ASSUME NEW n \in Nat, n \in G PROVE n + 1 \in G
    <3> SUFFICES ASSUME n + 2 \in 1..N PROVE Fine(n + 2)
      <4>1. (n + 1) + 1 = n + 2
        OBVIOUS
      <4> QED
        BY <4>1
    <3>1. n + 1 \in 1..N /\ n + 2 \in 2..N /\ (n + 2) - 1 = n + 1
      BY <1>0
    <3>2. Fine(n + 1)
      BY <2>5, <3>1
    <3> DEFINE a == f[n + 1]  b == s[n + 2]  c == f[n + 2]
    <3>3. a \in Seq(S) /\ b \in Seq(S) /\ Len(a) \in Nat /\ Len(b) \in Nat
      BY <1>0, <3>1, <3>2
    <3>4. c = a \o b
      BY <2>3, <3>1
    <3>5. /\ c \in Seq(S) /\ Len(c) = Len(a) + Len(b)
          /\ \A i \in 1..(Len(a) + Len(b)) :
               c[i] = IF i <= Len(a) THEN a[i] ELSE b[i - Len(a)]
      <4> HIDE DEF a, b, c
      <4> QED
        BY <3>3, <3>4, ConcatProperties
    <3>8. Len(c) \in Nat
      <4> HIDE DEF a, b, c
      <4> QED
        BY <3>3, <3>5
    <3>6. \A j \in 1..Len(a) : c[j] = a[j]
      <4> HIDE DEF a, b, c
      <4> QED
        BY <3>3, <3>5
    <3>7. ASSUME NEW k \in 1..(n + 2)
          PROVE  /\ f[k] \in Seq(S)
                 /\ Len(f[k]) \in Nat /\ Len(f[k]) <= Len(c)
                 /\ \A j \in 1..Len(f[k]) : c[j] = f[k][j]
      <4>1. CASE k = n + 2
        <5>1. f[k] = c
          BY <4>1
        <5> HIDE DEF a, b, c
        <5> QED
          BY <5>1, <3>5, <3>8
      <4>2. CASE k # n + 2
        <5>1. k \in 1..(n + 1)
          BY <4>2
        <5>2. /\ f[k] \in Seq(S)
              /\ Len(f[k]) \in Nat /\ Len(f[k]) <= Len(a)
              /\ \A j \in 1..Len(f[k]) : a[j] = f[k][j]
          BY <3>2, <5>1
        <5> HIDE DEF a, b, c
        <5> QED
          BY <5>2, <3>3, <3>5, <3>6
      <4> QED
        BY <4>1, <4>2
    <3> QED
      BY <3>5, <3>7, <3>8
  <2> HIDE DEF G
  <2>6. Nat \subseteq G
    BY <2>4, <2>5, NaturalsByStep
  <2>7. ASSUME NEW n \in 1..N PROVE Fine(n)
    <3>1. n - 1 \in Nat /\ (n - 1) + 1 = n
      OBVIOUS
    <3>2. n - 1 \in G
      BY <2>6, <3>1
    <3> QED
      BY <3>1, <3>2 DEF G
  <2> DEFINE at == [i \in 0..N |-> IF i = 0 THEN 0 ELSE Len(f[i])]
  <2> HIDE DEF Fine
  <2>8. /\ f[N] \in Seq(S)
        /\ \A k \in 1..N : /\ f[k] \in Seq(S)
                           /\ Len(f[k]) \in Nat
                           /\ \A j \in 1..Len(f[k]) : f[N][j] = f[k][j]
    BY <1>0, <1>2, <2>7 DEF Fine
  <2>9. \A k, m \in 1..N : k <= m => Len(f[k]) <= Len(f[m])
    BY <1>0, <2>7 DEF Fine
  <2>10. at \in [0..N -> Nat] /\ at[0] = 0 /\ at[N] = Len(f[N])
    BY <1>0, <1>2, <2>8
  <2>11. \A i, j \in 0..N : i <= j => at[i] <= at[j]
    BY <1>0, <2>8, <2>9
  <2>12. ASSUME NEW i \in 1..N
         PROVE  /\ at[i] = at[i - 1] + Len(s[i])
                /\ \A j \in 1..Len(s[i]) : f[N][at[i - 1] + j] = s[i][j]
    <3>1. CASE i = 1
      <4>1. f[i] = s[i] /\ at[i - 1] = 0 /\ at[i] = Len(s[i])
        BY <3>1, <2>3
      <4> HIDE DEF at
      <4>2. \A j \in 1..Len(s[i]) : f[N][j] = s[i][j]
        BY <4>1, <2>8
      <4>3. \A j \in 1..Len(s[i]) : at[i - 1] + j = j
        BY <4>1
      <4>4. at[i] = at[i - 1] + Len(s[i])
        BY <4>1, <1>0
      <4> QED
        BY <4>2, <4>3, <4>4
    <3>2. CASE i # 1
      <4>1. i \in 2..N /\ i - 1 \in 1..N
        BY <3>2
      <4> DEFINE a == f[i - 1]  b == s[i]  c == f[i]
      <4>2. a \in Seq(S) /\ b \in Seq(S) /\ Len(a) \in Nat /\ Len(b) \in Nat /\ c = a \o b
        BY <1>0, <2>3, <2>8, <4>1
      <4>3. at[i] = Len(c) /\ at[i - 1] = Len(a)
        BY <4>1
      <4>4. \A j \in 1..Len(c) : f[N][j] = c[j]
        BY <2>8
      <4> HIDE DEF a, b, c
      <4>5. /\ Len(c) = Len(a) + Len(b)
            /\ \A j \in 1..(Len(a) + Len(b)) :
                 c[j] = IF j <= Len(a) THEN a[j] ELSE b[j - Len(a)]
        BY <4>2, ConcatProperties
      <4>6. \A j \in 1..Len(b) : f[N][Len(a) + j] = b[j]
        <5> TAKE j \in 1..Len(b)
        <5>1. /\ Len(a) + j \in 1..(Len(a) + Len(b)) /\ ~(Len(a) + j <= Len(a))
              /\ (Len(a) + j) - Len(a) = j
          BY <4>2
        <5> QED
          BY <5>1, <4>4, <4>5
      <4> QED
        BY <4>3, <4>5, <4>6 DEF b
    <3> QED
      BY <3>1, <3>2
  <2> HIDE DEF at
  <2>13. LaidOut(s, f[N], at)
    BY <2>10, <2>11, <2>12 DEF LaidOut
  <2> QED
    BY <2>2, <2>8, <2>13
<1> QED
  BY <1>1, <1>2

-----------------------------------------------------------------------------
(* What the lexer makes of what the encoder wrote.                         *)

IsSeq(s) == \E S : s \in Seq(S)

\* The bytes of a value: as many as asked for, whatever they are.
LEMMA LeBytesLen ==
  ASSUME NEW value, NEW len \in 0..4
  PROVE  /\ IsSeq(LeBytes(value, len))
         /\ Len(LeBytes(value, len)) = len
<1> DEFINE b == <<value % U8, (value \div U8) % U8, (value \div U16) % U8,
                  (value \div (U8 * U16)) % U8>>
           S == {b[1], b[2], b[3], b[4]}
<1>1. \A i \in 1..4 : i \in {1, 2, 3, 4}
  OBVIOUS
<1>2. LeBytes(value, len) = SubSeq(b, 1, len)
  BY DEF LeBytes
<1> HIDE DEF b
<1>3. \A i \in 1..len : b[i] \in S
  BY <1>1
<1> HIDE DEF S
<1>4. /\ SubSeq(b, 1, len) \in Seq(S)
      /\ Len(SubSeq(b, 1, len)) = IF 1 <= len THEN len - 1 + 1 ELSE 0
  BY <1>3, SubSeqProperties
<1>5. IF 1 <= len THEN len - 1 + 1 = len ELSE 0 = len
  OBVIOUS
<1>6. Len(SubSeq(b, 1, len)) = len
  BY <1>4, <1>5
<1>7. IsSeq(SubSeq(b, 1, len))
  BY <1>4 DEF IsSeq
<1> QED
  BY <1>2, <1>6, <1>7

\* The sizes of a payload.
Sizes == {0, 1, 2, 4}

\* An item's prefix takes its tag and type back, and the size of its payload.
Prefixed(e, code, type, size) ==
  /\ IsSeq(e)
  /\ code \in 0..15 /\ type \in 0..3 /\ size \in 0..3
  /\ e[1] = code * 16 + type * 4 + size
  /\ Len(e) = 1 + (IF size = 3 THEN 4 ELSE size)

\* PushItem puts the prefix before the payload.
LEMMA PushItemPrefixes ==
  ASSUME NEW type, NEW tag, NEW data, IsSeq(data),
         Code(type, tag) \in 0..15, TypeCode[type] \in 0..3, Len(data) \in Sizes
  PROVE  Prefixed(PushItem(type, tag, data), Code(type, tag), TypeCode[type],
                  IF Len(data) = 4 THEN 3 ELSE Len(data))
<1> DEFINE size == IF Len(data) = 4 THEN 3 ELSE Len(data)
           p == Code(type, tag) * 16 + TypeCode[type] * 4 + size
           e == <<p>> \o data
<1>1. PushItem(type, tag, data) = e
  BY DEF PushItem
<1>2. size \in 0..3 /\ Len(data) = (IF size = 3 THEN 4 ELSE size) /\ Len(data) \in Nat
  <2>1. \A n \in Sizes :
          LET m == IF n = 4 THEN 3 ELSE n
          IN n \in Nat /\ m \in 0..3 /\ n = (IF m = 3 THEN 4 ELSE m)
    BY DEF Sizes
  <2> QED
    BY <2>1, Zenon
<1>3. PICK S : data \in Seq(S)
  BY DEF IsSeq
<1>4. p = Code(type, tag) * 16 + TypeCode[type] * 4 + size
  OBVIOUS
<1> HIDE DEF p, size
<1> DEFINE T == S \cup {p}
<1>5. <<p>> \in Seq(T) /\ data \in Seq(T) /\ Len(<<p>>) = 1 /\ <<p>>[1] = p
  <2>1. p \in T /\ S \subseteq T
    OBVIOUS
  <2> HIDE DEF T
  <2>2. data \in Seq(T)
    BY <1>3, <2>1, SeqMonotonic
  <2> QED
    BY <2>1, <2>2
<1> DEFINE one == <<p>>
<1>6. one \in Seq(T) /\ data \in Seq(T) /\ Len(one) = 1 /\ one[1] = p /\ e = one \o data
  BY <1>5
<1> HIDE DEF T, one, e
<1>7. /\ e \in Seq(T) /\ Len(e) = 1 + Len(data)
      /\ \A i \in 1..(1 + Len(data)) : e[i] = IF i <= 1 THEN one[i] ELSE data[i - 1]
  BY <1>6, ConcatProperties
<1>8. e[1] = p
  BY <1>2, <1>6, <1>7
<1>9. Prefixed(e, Code(type, tag), TypeCode[type], size)
  BY <1>2, <1>4, <1>7, <1>8 DEF Prefixed, IsSeq
<1> QED
  BY <1>1, <1>9 DEF size

\* An unsigned or a signed value takes one of them.
LEMMA ValueLens ==
  ASSUME NEW value
  PROVE  UnsignedLen(value) \in Sizes /\ SignedLen(value) \in Sizes
<1>1. UnsignedLen(value) \in Sizes
  BY DEF UnsignedLen, Sizes
<1>2. SignedLen(value) \in Sizes
  BY DEF SignedLen, Sizes
<1> QED
  BY <1>1, <1>2

\* The tags in use have codes of four bits, and the types of two.
LEMMA CodeRanges ==
  /\ \A t \in DOMAIN GlobalTag : Code("Global", t) = GlobalTag[t] /\ GlobalTag[t] \in 0..11
  /\ \A t \in DOMAIN LocalTag : Code("Local", t) = LocalTag[t] /\ LocalTag[t] \in 0..10
  /\ \A t \in DOMAIN MainTag : Code("Main", t) = MainTag[t] /\ MainTag[t] \in 8..12
  /\ TypeCode["Main"] = 0 /\ TypeCode["Global"] = 1 /\ TypeCode["Local"] = 2
  /\ TypeCode["Reserved"] = 3
  /\ DOMAIN TypeCode = {"Main", "Global", "Local", "Reserved"}
<1>1. \A t \in DOMAIN GlobalTag : Code("Global", t) = GlobalTag[t] /\ GlobalTag[t] \in 0..11
  BY DEF Code, GlobalTag
<1>2. \A t \in DOMAIN LocalTag : Code("Local", t) = LocalTag[t] /\ LocalTag[t] \in 0..10
  BY DEF Code, LocalTag
<1>3. \A t \in DOMAIN MainTag : Code("Main", t) = MainTag[t] /\ MainTag[t] \in 8..12
  BY DEF Code, MainTag
<1>4. /\ TypeCode["Main"] = 0 /\ TypeCode["Global"] = 1 /\ TypeCode["Local"] = 2
      /\ TypeCode["Reserved"] = 3
      /\ DOMAIN TypeCode = {"Main", "Global", "Local", "Reserved"}
  BY DEF TypeCode
<1> QED
  BY <1>1, <1>2, <1>3, <1>4

\* No two tags of a type have the same code.
LEMMA CodesDiffer ==
  /\ \A t, u \in DOMAIN GlobalTag : GlobalTag[t] = GlobalTag[u] => t = u
  /\ \A t, u \in DOMAIN LocalTag : LocalTag[t] = LocalTag[u] => t = u
  /\ \A t, u \in DOMAIN MainTag : MainTag[t] = MainTag[u] => t = u
<1>1. \A t, u \in DOMAIN GlobalTag : GlobalTag[t] = GlobalTag[u] => t = u
  BY DEF GlobalTag
<1>2. \A t, u \in DOMAIN LocalTag : LocalTag[t] = LocalTag[u] => t = u
  BY DEF LocalTag
<1>3. \A t, u \in DOMAIN MainTag : MainTag[t] = MainTag[u] => t = u
  BY DEF MainTag
<1> QED
  BY <1>1, <1>2, <1>3

\* The code of an item that is not long.
CodeOf(c) == IF c.type = "Reserved" THEN c.value ELSE Code(c.type, c.tag)

\* An encoding that is the prefix of item c and its payload.
ShortEncoding(c) ==
  \E size \in 0..3 :
    /\ Prefixed(EncodeItem(c), CodeOf(c), TypeCode[c.type], size)
    /\ c.type = "Reserved" => size = 0

\* The codes of an item the builder can write.
LEMMA CallCodes ==
  ASSUME NEW c \in Calls, c.type \notin {"Long", "Reserved"}
  PROVE  /\ CodeOf(c) = Code(c.type, c.tag) /\ CodeOf(c) \in 0..15
         /\ TypeCode[c.type] \in 0..3
<1>1. CASE c.type = "Global"
  <2>1. c.tag \in DOMAIN GlobalTag
    BY <1>1 DEF Calls
  <2> QED
    BY <1>1, <2>1, CodeRanges DEF CodeOf
<1>2. CASE c.type = "Local"
  <2>1. c.tag \in DOMAIN LocalTag
    BY <1>2 DEF Calls
  <2> QED
    BY <1>2, <2>1, CodeRanges DEF CodeOf
<1>3. CASE c.type = "Main"
  <2>1. c.tag \in DOMAIN MainTag
    BY <1>3 DEF Calls
  <2> QED
    BY <1>3, <2>1, CodeRanges DEF CodeOf
<1> QED
  BY <1>1, <1>2, <1>3 DEF Calls

\* The builder's items are prefixes and payloads of 0, 1, 2 or 4 bytes.
LEMMA PushedIsShort ==
  ASSUME NEW c \in Calls, c.type \notin {"Long", "Reserved"},
         NEW data, IsSeq(data), Len(data) \in Sizes,
         EncodeItem(c) = PushItem(c.type, c.tag, data)
  PROVE  ShortEncoding(c)
<1>1. (IF Len(data) = 4 THEN 3 ELSE Len(data)) \in 0..3
  <2>1. \A n \in Sizes : (IF n = 4 THEN 3 ELSE n) \in 0..3
    BY DEF Sizes
  <2> QED
    BY <2>1, Zenon
<1>2. Prefixed(EncodeItem(c), CodeOf(c), TypeCode[c.type],
               IF Len(data) = 4 THEN 3 ELSE Len(data))
  BY CallCodes, PushItemPrefixes
<1> QED
  BY <1>1, <1>2, Zenon DEF ShortEncoding

\* So are those of the values of all sizes.
LEMMA ValueIsShort ==
  ASSUME NEW c \in Calls, c.type \notin {"Long", "Reserved"}, NEW value, NEW len \in Sizes,
         EncodeItem(c) = PushItem(c.type, c.tag, LeBytes(value, len))
  PROVE  ShortEncoding(c)
<1>1. len \in 0..4
  BY DEF Sizes
<1>2. IsSeq(LeBytes(value, len)) /\ Len(LeBytes(value, len)) \in Sizes
  BY <1>1, LeBytesLen
<1> QED
  BY <1>2, PushedIsShort

\* Those without a payload and with an empty byte, too.
LEMMA PlainIsShort ==
  ASSUME NEW c \in Calls, c.type \notin {"Long", "Reserved"},
         NEW data \in {<<>>, << 0 >>}, EncodeItem(c) = PushItem(c.type, c.tag, data)
  PROVE  ShortEncoding(c)
<1>1. IsSeq(data) /\ Len(data) \in {0, 1}
  <2>1. CASE data = <<>>
    <3>1. <<>> \in Seq(Int) /\ Len(<<>>) = 0
      OBVIOUS
    <3> QED
      BY <2>1, <3>1 DEF IsSeq
  <2>2. CASE data = << 0 >>
    <3>1. << 0 >> \in Seq(Int) /\ Len(<< 0 >>) = 1
      OBVIOUS
    <3> QED
      BY <2>2, <3>1 DEF IsSeq
  <2> QED
    BY <2>1, <2>2
<1>2. Len(data) \in Sizes
  BY <1>1 DEF Sizes
<1> QED
  BY <1>1, <1>2, PushedIsShort

\* The encoding of an item that is not long.
LEMMA EncodedShort ==
  ASSUME NEW c \in Calls, c.type # "Long"
  PROVE  ShortEncoding(c)
<1>1. CASE c.type = "Global"
  <2>1. EncodeItem(c) = Global(c.tag, c.value)
    BY <1>1 DEF EncodeItem
  <2>2. \/ EncodeItem(c) = PushItem(c.type, c.tag, <<>>)
        \/ EncodeItem(c)
             = PushItem(c.type, c.tag, LeBytes(c.value % U32, SignedLen(c.value)))
        \/ EncodeItem(c) = PushItem(c.type, c.tag, LeBytes(c.value, UnsignedLen(c.value)))
    BY <1>1, <2>1 DEF Global, ItemSigned, ItemUnsigned
  <2> QED
    BY <1>1, <2>2, ValueLens, ValueIsShort, PlainIsShort
<1>2. CASE c.type = "Local"
  <2>1. EncodeItem(c) = PushItem(c.type, c.tag, LeBytes(c.value, UnsignedLen(c.value)))
    BY <1>2 DEF EncodeItem, Local, ItemUnsigned
  <2> QED
    BY <1>2, <2>1, ValueLens, ValueIsShort
<1>3. CASE c.type = "Main"
  <2>1. EncodeItem(c) = Main(c.tag, c.value)
    BY <1>3 DEF EncodeItem
  <2>2. \/ EncodeItem(c) = PushItem(c.type, c.tag, <<>>)
        \/ EncodeItem(c) = PushItem(c.type, c.tag, << 0 >>)
        \/ EncodeItem(c) = PushItem(c.type, c.tag, LeBytes(c.value, UnsignedLen(c.value)))
    BY <1>3, <2>1 DEF Main, ItemUnsigned
  <2> QED
    BY <1>3, <2>2, ValueLens, ValueIsShort, PlainIsShort
<1>4. CASE c.type = "Reserved"
  <2>1. c.value \in 0..15
    BY <1>4 DEF Calls
  <2>2. EncodeItem(c) = <<c.value * 16 + 12>> /\ CodeOf(c) = c.value /\ TypeCode[c.type] = 3
    BY <1>4, CodeRanges DEF EncodeItem, CodeOf
  <2>3. <<c.value * 16 + 12>> \in Seq(Int) /\ Len(<<c.value * 16 + 12>>) = 1
    BY <2>1
  <2>4. Prefixed(EncodeItem(c), CodeOf(c), TypeCode[c.type], 0)
    BY <2>1, <2>2, <2>3 DEF Prefixed, IsSeq
  <2> QED
    BY <2>4 DEF ShortEncoding
<1> QED
  BY <1>1, <1>2, <1>3, <1>4 DEF Calls

\* The encoding of a long item.
LEMMA EncodedLong ==
  ASSUME NEW c \in Calls, c.type = "Long"
  PROVE  LET e == EncodeItem(c)
         IN /\ IsSeq(e) /\ c.value \in Nat
            /\ e[1] = LongPrefix /\ e[2] = c.value
            /\ Len(e) = 3 + c.value
<1> DEFINE head == <<LongPrefix, c.value, 0>>
           tail == [i \in 1..c.value |-> 192]
<1>1. c.value \in Nat
  BY DEF Calls
<1>2. EncodeItem(c) = head \o tail
  BY DEF EncodeItem
<1>3. head \in Seq(Nat) /\ Len(head) = 3 /\ head[1] = LongPrefix /\ head[2] = c.value
  BY <1>1 DEF LongPrefix
<1>4. tail \in Seq(Nat) /\ Len(tail) = c.value
  BY <1>1
<1> HIDE DEF head, tail
<1>5. /\ head \o tail \in Seq(Nat)
      /\ Len(head \o tail) = Len(head) + Len(tail)
      /\ \A i \in 1..(Len(head) + Len(tail)) :
           (head \o tail)[i] = IF i <= Len(head) THEN head[i] ELSE tail[i - Len(head)]
  BY <1>3, <1>4, ConcatProperties
<1>6. (head \o tail)[1] = LongPrefix /\ (head \o tail)[2] = c.value
  BY <1>1, <1>3, <1>4, <1>5
<1> QED
  BY <1>1, <1>2, <1>3, <1>4, <1>5, <1>6 DEF IsSeq

\* What is to be lexed starts with encoding e, or with a part of it.
Starts(bytes, e) ==
  /\ IsSeq(bytes) /\ Len(bytes) # 0
  /\ \A j \in 1..Len(e) : j <= Len(bytes) => bytes[j] = e[j]

\* The lexer sees through the prefix of an item that is not long.
LEMMA LexPrefix ==
  ASSUME NEW c \in Calls, c.type # "Long",
         NEW bytes, Starts(bytes, EncodeItem(c))
  PROVE  /\ bytes[1] # LongPrefix
         /\ bytes[1] \div 16 = CodeOf(c) /\ (bytes[1] \div 4) % 4 = TypeCode[c.type]
         /\ Len(EncodeItem(c)) = 1 + (IF bytes[1] % 4 = 3 THEN 4 ELSE bytes[1] % 4)
         /\ bytes[1] % 4 \in 0..3 /\ Len(bytes) \in Nat \ {0}
<1>1. PICK size \in 0..3 :
        /\ Prefixed(EncodeItem(c), CodeOf(c), TypeCode[c.type], size)
        /\ c.type = "Reserved" => size = 0
  BY EncodedShort DEF ShortEncoding
<1>2. Len(bytes) \in Nat \ {0}
  <2>1. PICK S : bytes \in Seq(S)
    BY DEF Starts, IsSeq
  <2> QED
    BY <2>1 DEF Starts
<1>3. Len(EncodeItem(c)) \in Nat \ {0}
  BY <1>1 DEF Prefixed
<1>4. bytes[1] = EncodeItem(c)[1]
  BY <1>2, <1>3 DEF Starts
<1>5. TypeCode[c.type] = 3 => c.type = "Reserved"
  BY CodeRanges DEF Calls
<1> DEFINE code == CodeOf(c)  type == TypeCode[c.type]  p == bytes[1]
<1>6. /\ code \in 0..15 /\ type \in 0..3 /\ p = code * 16 + type * 4 + size
      /\ type = 3 => size = 0
      /\ Len(EncodeItem(c)) = 1 + (IF size = 3 THEN 4 ELSE size)
  BY <1>1, <1>4, <1>5 DEF Prefixed
<1> HIDE DEF code, type, p
<1>7. /\ p % 4 = size /\ (p \div 4) % 4 = type /\ p \div 16 = code
      /\ p # LongPrefix
  <2>1. /\ p % 4 = size /\ (p \div 4) % 4 = type /\ p \div 16 = code
        /\ type = 3 /\ size = 0 => p # LongPrefix
        /\ type # 3 => p # LongPrefix
    <3>1. code \in 0..15 /\ type \in 0..3 /\ p = code * 16 + type * 4 + size
      BY <1>6
    <3> QED
      BY <3>1 DEF LongPrefix
  <2> QED
    BY <2>1, <1>6
<1> QED
  BY <1>2, <1>6, <1>7 DEF code, type, p

\* What is there of an encoding is lexed when it is all there, and an error
\* when it is not.
LEMMA LexLength ==
  ASSUME NEW c \in Calls, NEW bytes, Starts(bytes, EncodeItem(c))
  PROVE  /\ Truncated(bytes) <=> Len(bytes) < Len(EncodeItem(c))
         /\ Len(EncodeItem(c)) \in Nat \ {0}
         /\ ~Truncated(bytes) =>
              HeadItem(bytes).after = SubSeq(bytes, Len(EncodeItem(c)) + 1, Len(bytes))
<1> DEFINE e == EncodeItem(c)
<1>1. CASE c.type = "Long"
  <2>1. /\ c.value \in Nat
        /\ e[1] = LongPrefix /\ e[2] = c.value
        /\ Len(e) = 3 + c.value
    BY <1>1, EncodedLong
  <2>2. Len(bytes) \in Nat \ {0}
    <3>1. PICK S : bytes \in Seq(S)
      BY DEF Starts, IsSeq
    <3> QED
      BY <3>1 DEF Starts
  <2> HIDE DEF e
  <2>3. bytes[1] = LongPrefix /\ (2 <= Len(bytes) => bytes[2] = c.value)
    BY <2>1, <2>2 DEF Starts, e
  <2>4. Truncated(bytes) <=> Len(bytes) < 3 + c.value
    <3>1. CASE Len(bytes) < 3
      BY <3>1, <2>1, <2>2, <2>3 DEF Truncated
    <3>2. CASE ~ (Len(bytes) < 3)
      BY <3>2, <2>1, <2>2, <2>3 DEF Truncated
    <3> QED
      BY <3>1, <3>2
  <2>5. ~Truncated(bytes) =>
          HeadItem(bytes).after = SubSeq(bytes, 3 + c.value + 1, Len(bytes))
    <3>1. ASSUME ~Truncated(bytes) PROVE bytes[2] = c.value
      BY <3>1, <2>1, <2>2, <2>3, <2>4
    <3> QED
      BY <3>1, <2>3 DEF HeadItem
  <2> QED
    BY <2>1, <2>4, <2>5 DEF e
<1>2. CASE c.type # "Long"
  <2>1. /\ bytes[1] # LongPrefix
        /\ Len(e) = 1 + (IF bytes[1] % 4 = 3 THEN 4 ELSE bytes[1] % 4)
        /\ bytes[1] % 4 \in 0..3 /\ Len(bytes) \in Nat \ {0}
    BY <1>2, LexPrefix
  <2>2. Truncated(bytes) <=> Len(bytes) < Len(e)
    BY <2>1 DEF Truncated
  <2>3. HeadItem(bytes).after = SubSeq(bytes, Len(e) + 1, Len(bytes))
    BY <2>1 DEF HeadItem
  <2> QED
    BY <2>1, <2>2, <2>3
<1> QED
  BY <1>1, <1>2

\* The lexer tells every tag of every type as the encoder meant it.
LEMMA LexTag ==
  ASSUME NEW c \in Calls, NEW bytes, Starts(bytes, EncodeItem(c)), ~Truncated(bytes)
  PROVE  LET head == HeadItem(bytes)
         IN /\ \A t \in DOMAIN GlobalTag :
                 HasTag(head, "Global", t) <=> c.type = "Global" /\ c.tag = t
            /\ \A t \in DOMAIN LocalTag :
                 HasTag(head, "Local", t) <=> c.type = "Local" /\ c.tag = t
            /\ \A t \in DOMAIN MainTag :
                 HasTag(head, "Main", t) <=> c.type = "Main" /\ c.tag = t
<1> DEFINE head == HeadItem(bytes)
<1>1. CASE c.type = "Long"
  <2>1. c.value \in Nat /\ EncodeItem(c)[1] = LongPrefix /\ Len(EncodeItem(c)) = 3 + c.value
    BY <1>1, EncodedLong
  <2>2. Len(bytes) \in Nat \ {0}
    <3>1. PICK S : bytes \in Seq(S)
      BY DEF Starts, IsSeq
    <3> QED
      BY <3>1 DEF Starts
  <2>3. bytes[1] = LongPrefix
    BY <2>1, <2>2 DEF Starts
  <2>4. head.long = TRUE
    BY <2>3 DEF HeadItem
  <2> HIDE DEF head
  <2>5. \A type, tag : ~HasTag(head, type, tag)
    BY <2>4 DEF HasTag
  <2> QED
    BY <1>1, <2>5 DEF head
<1>2. CASE c.type # "Long"
  <2>1. /\ bytes[1] # LongPrefix
        /\ bytes[1] \div 16 = CodeOf(c) /\ (bytes[1] \div 4) % 4 = TypeCode[c.type]
    BY <1>2, LexPrefix
  <2>2. c.type \in DOMAIN TypeCode
    BY <1>2, CodeRanges DEF Calls
  <2>3. /\ head.long = FALSE /\ head.tag = CodeOf(c)
        /\ head.item_type = CHOOSE t \in DOMAIN TypeCode : TypeCode[t] = TypeCode[c.type]
    BY <2>1 DEF HeadItem
  <2>4. \A t, u \in DOMAIN TypeCode : TypeCode[t] = TypeCode[u] => t = u
    BY CodeRanges
  <2>5. head.item_type = c.type
    BY <2>2, <2>3, <2>4
  <2> HIDE DEF head
  <2>6. \A type, tag :
          HasTag(head, type, tag) <=> c.type = type /\ CodeOf(c) = Code(type, tag)
    BY <2>3, <2>5 DEF HasTag
  <2>7. ASSUME NEW t \in DOMAIN GlobalTag
        PROVE  HasTag(head, "Global", t) <=> c.type = "Global" /\ c.tag = t
    <3>1. c.type = "Global" => c.tag \in DOMAIN GlobalTag /\ CodeOf(c) = Code("Global", c.tag)
      BY DEF Calls, CodeOf
    <3> QED
      BY <2>6, <3>1, CodeRanges, CodesDiffer
  <2>8. ASSUME NEW t \in DOMAIN LocalTag
        PROVE  HasTag(head, "Local", t) <=> c.type = "Local" /\ c.tag = t
    <3>1. c.type = "Local" => c.tag \in DOMAIN LocalTag /\ CodeOf(c) = Code("Local", c.tag)
      BY DEF Calls, CodeOf
    <3> QED
      BY <2>6, <3>1, CodeRanges, CodesDiffer
  <2>9. ASSUME NEW t \in DOMAIN MainTag
        PROVE  HasTag(head, "Main", t) <=> c.type = "Main" /\ c.tag = t
    <3>1. c.type = "Main" => c.tag \in DOMAIN MainTag /\ CodeOf(c) = Code("Main", c.tag)
      BY DEF Calls, CodeOf
    <3> QED
      BY <2>6, <3>1, CodeRanges, CodesDiffer
  <2> QED
    BY <2>7, <2>8, <2>9 DEF head
<1> QED
  BY <1>1, <1>2

-----------------------------------------------------------------------------
(* What the parser has read of a stream.                                   *)

\* One item more.
LEMMA CountNext ==
  ASSUME NEW items, NEW n \in Nat, NEW tag
  PROVE  /\ Count(items, n, tag) \in Nat
         /\ Count(items, n + 1, tag) =
              Count(items, n, tag) + (IF IsItem(items, n + 1, tag) THEN 1 ELSE 0)
<1> DEFINE at(m) == {i \in 1..m : IsItem(items, i, tag)}
<1>1. IsFiniteSet(at(n)) /\ Cardinality(at(n)) \in Nat
  <2>1. IsFiniteSet(1..n)
    BY FS_Interval
  <2>2. at(n) \in SUBSET (1..n)
    OBVIOUS
  <2> HIDE DEF at
  <2> QED
    BY <2>1, <2>2, FS_Subset, FS_CardinalityType
<1>2. n + 1 \notin at(n)
  OBVIOUS
<1>3. IF IsItem(items, n + 1, tag) THEN at(n + 1) = at(n) \cup {n + 1}
      ELSE at(n + 1) = at(n)
  <2>1. 1..(n + 1) = (1..n) \cup {n + 1}
    OBVIOUS
  <2> QED
    BY <2>1
<1>4. Count(items, n, tag) = Cardinality(at(n))
      /\ Count(items, n + 1, tag) = Cardinality(at(n + 1))
  BY DEF Count
<1> HIDE DEF at
<1>5. Cardinality(at(n) \cup {n + 1}) = Cardinality(at(n)) + 1
  BY <1>1, <1>2, FS_AddElement
<1>6. CASE IsItem(items, n + 1, tag)
  BY <1>1, <1>3, <1>4, <1>5, <1>6
<1>7. CASE ~IsItem(items, n + 1, tag)
  BY <1>1, <1>3, <1>4, <1>7
<1> QED
  BY <1>6, <1>7

\* Nothing is counted before the first item.
LEMMA CountNone ==
  ASSUME NEW items, NEW tag
  PROVE  Count(items, 0, tag) = 0
<1>1. {i \in 1..0 : IsItem(items, i, tag)} = {}
  OBVIOUS
<1> QED
  BY <1>1, FS_EmptySet DEF Count

\* The place `at` of each item in the bytes of input x, of which `cut` are lost.
Stream(x, at) ==
  LET items == x.source.items
      N == Len(items)
  IN /\ items \in Seq(Calls) /\ N \in Nat
     /\ x.source.cut \in Nat
     /\ IsSeq(x.bytes) /\ Len(x.bytes) \in Nat
     /\ at \in [0..N -> Nat] /\ at[0] = 0
     /\ Len(x.bytes) = at[N] - x.source.cut
     /\ x.source.cut # 0 => N # 0 /\ at[N - 1] < Len(x.bytes)
     /\ \A i, j \in 0..N : i <= j => at[i] <= at[j]
     /\ \A i \in 1..N :
          /\ at[i] = at[i - 1] + Len(EncodeItem(items[i]))
          /\ \A j \in 1..Len(EncodeItem(items[i])) :
               at[i - 1] + j <= Len(x.bytes) =>
                 x.bytes[at[i - 1] + j] = EncodeItem(items[i])[j]

\* The encodings of items are sequences of one kind of thing.
LEMMA EncodedSeqs ==
  ASSUME NEW items \in Seq(Calls)
  PROVE  \E S : Encoded(items) \in Seq(Seq(S))
<1> DEFINE S == UNION {Range(EncodeItem(items[i])) : i \in 1..Len(items)}
<1>1. ASSUME NEW i \in 1..Len(items) PROVE EncodeItem(items[i]) \in Seq(S)
  <2>1. items[i] \in Calls
    OBVIOUS
  <2>2. IsSeq(EncodeItem(items[i]))
    <3>1. CASE items[i].type = "Long"
      BY <2>1, <3>1, EncodedLong
    <3>2. CASE items[i].type # "Long"
      BY <2>1, <3>2, EncodedShort DEF ShortEncoding, Prefixed
    <3> QED
      BY <3>1, <3>2
  <2>3. PICK T : EncodeItem(items[i]) \in Seq(T)
    BY <2>2 DEF IsSeq
  <2>4. EncodeItem(items[i]) \in Seq(Range(EncodeItem(items[i])))
    BY <2>3, SeqOfRange
  <2>5. Range(EncodeItem(items[i])) \subseteq S
    OBVIOUS
  <2> HIDE DEF S
  <2> QED
    BY <2>4, <2>5, SeqMonotonic
<1> HIDE DEF S
<1>2. Encoded(items) \in Seq(Seq(S))
  <2>1. Len(items) \in Nat
    OBVIOUS
  <2> QED
    BY <1>1, <2>1 DEF Encoded
<1> QED
  BY <1>2

\* The bytes of a stream are those of its items, one after the other.
LEMMA StreamLaysItems ==
  ASSUME NEW x \in Inputs, x.source.of = "stream"
  PROVE  \E at : Stream(x, at)
<1> DEFINE items == x.source.items
           cut == x.source.cut
           N == Len(items)
           whole == FlattenSeq(Encoded(items))
<1>1. /\ items \in Seq(Calls) /\ cut \in Nat
      /\ cut # 0 => items # <<>> /\ cut < Len(EncodeItem(items[N]))
      /\ x = StreamInput(items, cut)
  BY StreamsAssumption DEF StreamsAssumption
<1>2. x.bytes = SubSeq(whole, 1, Len(whole) - cut)
  BY <1>1 DEF StreamInput
<1>3. N \in Nat /\ (items # <<>> => N # 0)
  BY <1>1
<1>4. Len(Encoded(items)) = N /\ \A i \in 1..N : Encoded(items)[i] = EncodeItem(items[i])
  BY <1>3 DEF Encoded
<1>5. PICK S : Encoded(items) \in Seq(Seq(S))
  BY <1>1, EncodedSeqs
<1>6. whole \in Seq(S) /\ \E at : LaidOut(Encoded(items), whole, at)
  BY <1>5, FlattenLays
<1>7. PICK at : LaidOut(Encoded(items), whole, at)
  BY <1>6
<1> DEFINE W == Len(whole)
<1>8. W \in Nat /\ \A i \in 1..W : whole[i] \in S
  BY <1>6
<1>9. /\ at \in [0..N -> Nat] /\ at[0] = 0 /\ at[N] = W
      /\ \A i, j \in 0..N : i <= j => at[i] <= at[j]
      /\ \A i \in 1..N :
           /\ at[i] = at[i - 1] + Len(EncodeItem(items[i]))
           /\ \A j \in 1..Len(EncodeItem(items[i])) :
                whole[at[i - 1] + j] = EncodeItem(items[i])[j]
  BY <1>4, <1>7 DEF LaidOut
<1>10. cut # 0 => N # 0 /\ N - 1 \in 0..N /\ at[N - 1] < W - cut
  <2> SUFFICES ASSUME cut # 0 PROVE N # 0 /\ N - 1 \in 0..N /\ at[N - 1] < W - cut
    OBVIOUS
  <2>1. N # 0 /\ cut < Len(EncodeItem(items[N]))
    BY <1>1, <1>3
  <2>2. N \in 1..N /\ N - 1 \in 0..N
    BY <1>3, <2>1
  <2>3. at[N] = at[N - 1] + Len(EncodeItem(items[N])) /\ at[N - 1] \in Nat
    BY <1>9, <2>2
  <2> DEFINE l == Len(EncodeItem(items[N]))
  <2>4. W = at[N - 1] + l /\ cut < l /\ at[N - 1] \in Nat
    BY <1>9, <2>1, <2>3
  <2>5. l \in Int
    <3>1. items[N] \in Calls
      BY <1>1, <2>2
    <3>2. IsSeq(EncodeItem(items[N]))
      <4>1. CASE items[N].type = "Long"
        BY <3>1, <4>1, EncodedLong
      <4>2. CASE items[N].type # "Long"
        BY <3>1, <4>2, EncodedShort DEF ShortEncoding, Prefixed
      <4> QED
        BY <4>1, <4>2
    <3> QED
      BY <3>2 DEF IsSeq
  <2> HIDE DEF l, W, cut
  <2>6. at[N - 1] < W - cut
    BY <1>1, <1>8, <2>4, <2>5
  <2> QED
    BY <2>1, <2>2, <2>6
<1>11. W - cut \in Nat
  <2>1. cut # 0 => at[N - 1] \in Nat
    BY <1>9, <1>10
  <2> HIDE DEF W, cut
  <2> QED
    BY <1>1, <1>8, <1>10, <2>1
<1>12. /\ IsSeq(x.bytes) /\ Len(x.bytes) = W - cut
       /\ \A i \in 1..(W - cut) : x.bytes[i] = whole[i]
  <2> DEFINE m == W - cut
  <2>1. m \in Int /\ \A i \in 1..m : whole[i] \in S
    BY <1>1, <1>8, <1>11
  <2> HIDE DEF m
  <2>2. /\ SubSeq(whole, 1, m) \in Seq(S)
        /\ Len(SubSeq(whole, 1, m)) = IF 1 <= m THEN m - 1 + 1 ELSE 0
        /\ \A i \in 1..(m - 1 + 1) : SubSeq(whole, 1, m)[i] = whole[1 + i - 1]
    BY <2>1, SubSeqProperties
  <2>3. m \in Nat
    BY <1>11 DEF m
  <2>4. Len(SubSeq(whole, 1, m)) = m
    BY <2>2, <2>3
  <2>5. \A i \in 1..m : SubSeq(whole, 1, m)[i] = whole[i]
    BY <2>2, <2>3
  <2> QED
    BY <1>2, <2>2, <2>4, <2>5 DEF IsSeq, m
<1>13. ASSUME NEW i \in 1..N, NEW j \in 1..Len(EncodeItem(items[i])),
              at[i - 1] + j <= Len(x.bytes)
       PROVE  x.bytes[at[i - 1] + j] = EncodeItem(items[i])[j]
  <2>1. i - 1 \in 0..N /\ j \in Nat \ {0}
    BY <1>3
  <2>2. at[i - 1] \in Nat
    BY <1>9, <2>1
  <2>3. at[i - 1] + j \in 1..(W - cut)
    BY <1>11, <1>12, <1>13, <2>1, <2>2
  <2> QED
    BY <1>9, <1>12, <2>3
<1>14. Stream(x, at)
  BY <1>1, <1>3, <1>9, <1>10, <1>11, <1>12, <1>13 DEF Stream
<1> QED
  BY <1>14

\* A parser that has read n items has the next one before it, whole unless
\* what is lost is a part of it.
LEMMA Reading ==
  ASSUME NEW x, NEW at, Stream(x, at),
         NEW n \in 0..Len(x.source.items),
         x.source.cut # 0 => n # Len(x.source.items)
  PROVE  LET N == Len(x.source.items)
             c == x.source.items[n + 1]
             r == SubSeq(x.bytes, at[n] + 1, Len(x.bytes))
         IN /\ n = N => r = <<>>
            /\ n # N => /\ c \in Calls /\ n + 1 \in 1..N /\ n \in Nat /\ N \in Nat
                        /\ r # <<>> /\ Starts(r, EncodeItem(c))
                        /\ Truncated(r) => x.source.cut # 0
                        /\ ~Truncated(r) =>
                             /\ x.source.cut # 0 => n + 1 # N
                             /\ HeadItem(r).after
                                  = SubSeq(x.bytes, at[n + 1] + 1, Len(x.bytes))
<1> DEFINE N == Len(x.source.items)
           c == x.source.items[n + 1]
           cut == x.source.cut
           bytes == x.bytes
           B == Len(bytes)
           a == at[n]
           r == SubSeq(bytes, a + 1, B)
           L == Len(EncodeItem(c))
<1>0. /\ N \in Nat /\ B \in Nat /\ cut \in Nat
      /\ at \in [0..N -> Nat] /\ B = at[N] - cut
      /\ \A i, j \in 0..N : i <= j => at[i] <= at[j]
  BY DEF Stream
<1>1. N \in Nat /\ n \in Nat /\ n <= N /\ B \in Nat /\ cut \in Nat /\ a \in Nat
  <2> HIDE DEF N, B, cut
  <2>1. n \in 0..N
    BY DEF N
  <2> QED
    BY <1>0, <2>1
<1>2. PICK S : bytes \in Seq(S)
  BY DEF Stream, IsSeq
<1>3. CASE n = N
  <2>1. B = a
    BY <1>1, <1>3 DEF Stream
  <2>2. r = <<>>
    <3> HIDE DEF a, B, bytes
    <3> QED
      BY <1>1, <2>1, SubSeqEmpty
  <2> QED
    BY <1>3, <2>2
<1>4. CASE n # N
  <2>1. n + 1 \in 1..N /\ c \in Calls
    BY <1>1, <1>4 DEF Stream
  <2>2. at[n + 1] = a + L /\ at[n + 1] \in Nat /\ (n + 1) - 1 = n
    BY <1>1, <2>1 DEF Stream
  <2>3. cut = 0 => at[n + 1] <= B
    <3>1. n + 1 \in 0..N /\ N \in 0..N /\ n + 1 <= N
      BY <1>1, <2>1
    <3>2. at[n + 1] <= at[N] /\ at[N] \in Nat
      BY <1>0, <3>1
    <3> HIDE DEF N, B, cut
    <3> QED
      BY <1>0, <3>2
  <2>4. cut # 0 /\ n + 1 # N => at[n + 1] < B
    <3> SUFFICES ASSUME cut # 0, n + 1 # N PROVE at[n + 1] < B
      OBVIOUS
    <3>1. n + 1 <= N - 1 /\ N - 1 \in 0..N /\ n + 1 \in 0..N
      <4>1. N \in Nat /\ n \in Nat /\ n <= N /\ n # N /\ n + 1 # N
        BY <1>1, <1>4
      <4> HIDE DEF N
      <4> QED
        BY <4>1
    <3>2. at[n + 1] <= at[N - 1] /\ at[N - 1] < B /\ at[N - 1] \in Nat
      BY <3>1 DEF Stream
    <3> QED
      BY <1>1, <2>2, <3>2
  <2>5. cut # 0 /\ n + 1 = N => a < B /\ B < at[n + 1]
    <3>1. cut # 0 => at[N - 1] < B
      BY DEF Stream
    <3> HIDE DEF N, B, cut
    <3>2. n + 1 = N => N - 1 = n
      BY <1>1
    <3>3. cut # 0 /\ n + 1 = N => B < at[n + 1]
      BY <1>0, <2>2
    <3> QED
      BY <3>1, <3>2, <3>3
  <2>6. \A j \in 1..L : a + j <= B => bytes[a + j] = EncodeItem(c)[j]
    BY <2>1, <2>2 DEF Stream
  <2>7. L \in Nat /\ (L # 0 => a < B)
    <3>1. IsSeq(EncodeItem(c))
      <4>1. CASE c.type = "Long"
        BY <2>1, <4>1, EncodedLong
      <4>2. CASE c.type # "Long"
        BY <2>1, <4>2, EncodedShort DEF ShortEncoding, Prefixed
      <4> QED
        BY <4>1, <4>2
    <3>2. L \in Nat
      BY <3>1 DEF IsSeq
    <3> HIDE DEF L, a, B, cut
    <3>3. L # 0 => a < B
      BY <3>2, <1>1, <2>2, <2>3, <2>4, <2>5
    <3> QED
      BY <3>2, <3>3
  <2>8. L # 0
    <3>1. CASE c.type = "Long"
      BY <2>1, <3>1, EncodedLong
    <3>2. CASE c.type # "Long"
      BY <2>1, <3>2, EncodedShort DEF ShortEncoding, Prefixed
    <3> QED
      BY <3>1, <3>2
  <2>9. /\ r \in Seq(S) /\ Len(r) = B - a /\ Len(r) \in Nat \ {0}
        /\ \A j \in 1..(B - a) : r[j] = bytes[a + j]
    <3>1. \A i \in (a + 1)..B : bytes[i] \in S
      BY <1>1, <1>2
    <3> HIDE DEF a, B, bytes
    <3>2. a + 1 \in Int /\ B \in Int /\ a < B
      BY <1>1, <2>7, <2>8
    <3>3. /\ r \in Seq(S)
          /\ Len(r) = IF a + 1 <= B THEN B - (a + 1) + 1 ELSE 0
          /\ \A j \in 1..(B - (a + 1) + 1) : r[j] = bytes[(a + 1) + j - 1]
      BY <3>1, <3>2, SubSeqProperties
    <3> HIDE DEF r
    <3>4. Len(r) = B - a /\ Len(r) \in Nat \ {0}
      BY <1>1, <3>2, <3>3
    <3>5. \A j \in 1..(B - a) : r[j] = bytes[a + j]
      <4> TAKE j \in 1..(B - a)
      <4>1. j \in 1..(B - (a + 1) + 1) /\ (a + 1) + j - 1 = a + j
        BY <1>1
      <4> QED
        BY <3>3, <4>1
    <3> QED
      BY <3>3, <3>4, <3>5
  <2> HIDE DEF L, a, B, bytes, cut, r, c
  <2>10. Starts(r, EncodeItem(c))
    <3>1. \A j \in 1..L : j <= Len(r) => r[j] = EncodeItem(c)[j]
      <4> TAKE j \in 1..L
      <4>1. ASSUME j <= Len(r) PROVE j \in 1..(B - a) /\ a + j <= B
        BY <1>1, <2>7, <2>9, <4>1
      <4> QED
        BY <2>6, <2>9, <4>1
    <3>2. IsSeq(r) /\ Len(r) # 0
      BY <2>9 DEF IsSeq
    <3> QED
      BY <3>1, <3>2 DEF Starts, L
  <2>11. /\ Truncated(r) <=> Len(r) < L
         /\ ~Truncated(r) => HeadItem(r).after = SubSeq(r, L + 1, Len(r))
    BY <2>1, <2>10, LexLength DEF L
  <2>12. Truncated(r) => cut # 0
    BY <1>1, <2>2, <2>3, <2>7, <2>9, <2>11
  <2>13. ~Truncated(r) => (cut # 0 => n + 1 # N)
    BY <1>1, <2>2, <2>5, <2>7, <2>9, <2>11
  <2>14. ASSUME ~Truncated(r)
         PROVE  HeadItem(r).after = SubSeq(bytes, at[n + 1] + 1, B)
    <3>1. SubSeq(r, L + 1, Len(r)) = SubSeq(bytes, at[n + 1] + 1, B)
      <4>1. ~ (Len(r) < L)
        BY <2>11, <2>14
      <4>2. CASE Len(r) = L
        <5>1. L < L + 1 /\ B < at[n + 1] + 1
          BY <1>1, <2>2, <2>7, <2>9, <4>2
        <5>2. SubSeq(r, L + 1, Len(r)) = <<>>
          BY <2>7, <4>2, <5>1, SubSeqEmpty
        <5>3. SubSeq(bytes, at[n + 1] + 1, B) = <<>>
          BY <1>1, <2>2, <5>1, SubSeqEmpty
        <5> QED
          BY <5>2, <5>3
      <4>3. CASE Len(r) # L
        <5>1. /\ a + 1 \in 1..B /\ B \in 1..B /\ B - (a + 1) + 1 = Len(r)
              /\ L + 1 \in 1..Len(r) /\ Len(r) \in 1..Len(r)
              /\ (a + 1) + (L + 1) - 1 = at[n + 1] + 1
              /\ (a + 1) + Len(r) - 1 = B
          BY <1>1, <2>2, <2>7, <2>8, <2>9, <4>1, <4>3
        <5> DEFINE i == a + 1  m == L + 1  k == Len(r)
        <5>2. /\ i \in 1..Len(bytes) /\ B \in 1..Len(bytes) /\ m \in 1..(B - i + 1)
              /\ k \in 1..(B - i + 1) /\ i + m - 1 = at[n + 1] + 1 /\ i + k - 1 = B
          BY <5>1 DEF B
        <5> HIDE DEF i, m, k
        <5>3. SubSeq(SubSeq(bytes, i, B), m, k) = SubSeq(bytes, i + m - 1, i + k - 1)
          BY <1>2, <5>2, SubSeqOfSubSeq
        <5>4. SubSeq(r, m, k) = SubSeq(bytes, at[n + 1] + 1, B)
          BY <5>2, <5>3 DEF r, i
        <5> QED
          BY <5>4 DEF m, k
      <4> QED
        BY <4>2, <4>3
    <3> QED
      BY <2>11, <2>14, <3>1
  <2>15. r # <<>>
    BY <2>9
  <2> QED
    BY <1>1, <1>4, <2>1, <2>10, <2>12, <2>13, <2>14, <2>15 DEF r, a, B, bytes, cut, c
<1> QED
  BY <1>3, <1>4

\* The parser has read n items of its stream.
HasRead(n) ==
  LET N == Len(input.source.items)
  IN /\ n \in 0..N
     /\ input.source.cut # 0 => n # N
     /\ \E at : /\ Stream(input, at)
                /\ rest = SubSeq(input.bytes, at[n] + 1, Len(input.bytes))

\* What is open after n items: as many states and collections as they began
\* and have not ended, and they never ended more than they began.
Nested(n) ==
  LET items == input.source.items
  IN /\ Len(global_stack) = Count(items, n, "Push") - Count(items, n, "Pop")
     /\ Len(collection_stack)
          = Count(items, n, "Collection") - Count(items, n, "EndCollection")
     /\ \A m \in 1..n :
          /\ Count(items, m, "Pop") <= Count(items, m, "Push")
          /\ Count(items, m, "EndCollection") <= Count(items, m, "Collection")

BalanceInv ==
  /\ input \in Inputs
  /\ IsSeq(global_stack) /\ IsSeq(collection_stack)
  /\ AcceptsBalanced
  /\ input.source.of = "stream" /\ status = "parsing" =>
       \E n : HasRead(n) /\ Nested(n)

\* The tags that begin or end something belong to one type.
LEMMA TagsOfTypes ==
  ASSUME NEW c \in Calls
  PROVE  /\ c.tag \in {"Push", "Pop"} => c.type = "Global"
         /\ c.tag \in {"Collection", "EndCollection"} => c.type = "Main"
BY DEF Calls, GlobalTag, LocalTag, MainTag

\* Item c of the stream, as the parser sees it.
Seen(c) ==
  /\ HasTag(item, "Global", "Push") <=> c.tag = "Push"
  /\ HasTag(item, "Global", "Pop") <=> c.tag = "Pop"
  /\ HasTag(item, "Main", "Collection") <=> c.tag = "Collection"
  /\ HasTag(item, "Main", "EndCollection") <=> c.tag = "EndCollection"
  /\ \A t \in DOMAIN GlobalTag : HasTag(item, "Global", t) => c.tag = t
  /\ \A t \in DOMAIN MainTag : HasTag(item, "Main", t) => c.tag = t
  /\ \A t \in DOMAIN LocalTag :
       HasTag(item, "Local", t) =>
         c.tag \notin {"Push", "Pop", "Collection", "EndCollection"}

\* The next item of a stream is seen as what it is, and after it the parser has
\* read one item more.
LEMMA ReadsNext ==
  ASSUME NEW n, HasRead(n), Lexed
  PROVE  LET c == input.source.items[n + 1]
         IN /\ n \in Nat /\ n + 1 \in 1..Len(input.source.items)
            /\ c \in Calls /\ Starts(rest, EncodeItem(c)) /\ ~Truncated(rest)
            /\ Seen(c)
            /\ rest' = item.after /\ input' = input => HasRead(n + 1)'
<1> DEFINE N == Len(input.source.items)
           c == input.source.items[n + 1]
<1>1. n \in 0..N /\ (input.source.cut # 0 => n # N)
  BY DEF HasRead
<1>2. PICK at : Stream(input, at) /\ rest = SubSeq(input.bytes, at[n] + 1, Len(input.bytes))
  BY DEF HasRead
<1>3. rest # <<>> /\ ~Truncated(rest)
  BY DEF Lexed
<1>4. /\ n = N => rest = <<>>
      /\ n # N => /\ c \in Calls /\ n + 1 \in 1..N /\ n \in Nat /\ N \in Nat
                  /\ Starts(rest, EncodeItem(c))
                  /\ ~Truncated(rest) =>
                       /\ input.source.cut # 0 => n + 1 # N
                       /\ HeadItem(rest).after
                            = SubSeq(input.bytes, at[n + 1] + 1, Len(input.bytes))
  BY <1>1, <1>2, Reading
<1>5. /\ c \in Calls /\ n + 1 \in 1..N /\ n \in Nat /\ N \in Nat
      /\ Starts(rest, EncodeItem(c))
      /\ input.source.cut # 0 => n + 1 # N
      /\ item.after = SubSeq(input.bytes, at[n + 1] + 1, Len(input.bytes))
  BY <1>3, <1>4 DEF item
<1>6. /\ \A t \in DOMAIN GlobalTag : HasTag(item, "Global", t) <=> c.type = "Global" /\ c.tag = t
      /\ \A t \in DOMAIN LocalTag : HasTag(item, "Local", t) <=> c.type = "Local" /\ c.tag = t
      /\ \A t \in DOMAIN MainTag : HasTag(item, "Main", t) <=> c.type = "Main" /\ c.tag = t
  BY <1>3, <1>5, LexTag DEF item
<1>7. /\ {"Push", "Pop"} \subseteq DOMAIN GlobalTag
      /\ {"Collection", "EndCollection"} \subseteq DOMAIN MainTag
  BY DEF GlobalTag, MainTag
<1>8. Seen(c)
  <2> HIDE DEF c
  <2>1. /\ c.tag \in {"Push", "Pop"} => c.type = "Global"
        /\ c.tag \in {"Collection", "EndCollection"} => c.type = "Main"
    BY <1>5, TagsOfTypes
  <2>2. /\ HasTag(item, "Global", "Push") <=> c.tag = "Push"
        /\ HasTag(item, "Global", "Pop") <=> c.tag = "Pop"
    BY <1>6, <1>7, <2>1
  <2>3. /\ HasTag(item, "Main", "Collection") <=> c.tag = "Collection"
        /\ HasTag(item, "Main", "EndCollection") <=> c.tag = "EndCollection"
    BY <1>6, <1>7, <2>1
  <2>4. \A t \in DOMAIN LocalTag :
          HasTag(item, "Local", t) =>
            c.tag \notin {"Push", "Pop", "Collection", "EndCollection"}
    BY <1>6, <2>1
  <2> QED
    BY <1>6, <2>2, <2>3, <2>4 DEF Seen
<1>9. ASSUME rest' = item.after, input' = input PROVE HasRead(n + 1)'
  <2>1. n + 1 \in 0..N
    BY <1>5
  <2>2. Stream(input', at)
    BY <1>2, <1>9
  <2>3. rest' = SubSeq(input'.bytes, at[n + 1] + 1, Len(input'.bytes))
    BY <1>5, <1>9
  <2> QED
    BY <1>5, <1>9, <2>1, <2>2, <2>3 DEF HasRead
<1> QED
  BY <1>3, <1>5, <1>8, <1>9

\* What is open after one item more.
LEMMA NestsNext ==
  ASSUME NEW n \in Nat, Nested(n), input' = input,
         Len(global_stack') \in Nat, Len(collection_stack') \in Nat,
         LET tag == input.source.items[n + 1].tag
         IN /\ Len(global_stack') = Len(global_stack)
                 + (IF tag = "Push" THEN 1 ELSE 0) - (IF tag = "Pop" THEN 1 ELSE 0)
            /\ Len(collection_stack') = Len(collection_stack)
                 + (IF tag = "Collection" THEN 1 ELSE 0)
                 - (IF tag = "EndCollection" THEN 1 ELSE 0)
  PROVE  Nested(n + 1)'
<1> DEFINE items == input.source.items
           tag == items[n + 1].tag
           C(m, t) == Count(items, m, t)
           One(t) == IF tag = t THEN 1 ELSE 0
<1>1. \A t : C(n, t) \in Nat /\ C(n + 1, t) = C(n, t) + One(t) /\ One(t) \in Nat
  <2> TAKE t
  <2>1. /\ C(n, t) \in Nat
        /\ C(n + 1, t) = C(n, t) + (IF IsItem(items, n + 1, t) THEN 1 ELSE 0)
    BY CountNext
  <2>2. One(t) = (IF IsItem(items, n + 1, t) THEN 1 ELSE 0) /\ One(t) \in {0, 1}
    BY DEF IsItem
  <2> QED
    BY <2>1, <2>2
<1>2. /\ Len(global_stack) = C(n, "Push") - C(n, "Pop")
      /\ Len(collection_stack) = C(n, "Collection") - C(n, "EndCollection")
      /\ \A m \in 1..n : /\ C(m, "Pop") <= C(m, "Push")
                         /\ C(m, "EndCollection") <= C(m, "Collection")
  BY DEF Nested
<1>3. /\ Len(global_stack') = Len(global_stack) + One("Push") - One("Pop")
      /\ Len(collection_stack')
           = Len(collection_stack) + One("Collection") - One("EndCollection")
  OBVIOUS
<1> HIDE DEF One
<1>4. \A t : C(n + 1, t) \in Nat
  BY <1>1
<1> HIDE DEF C
<1> DEFINE pushed == Len(global_stack')  opened == Len(collection_stack')
<1>5. pushed = C(n + 1, "Push") - C(n + 1, "Pop")
  <2>1. /\ C(n, "Push") \in Nat /\ C(n + 1, "Push") = C(n, "Push") + One("Push")
        /\ C(n, "Pop") \in Nat /\ C(n + 1, "Pop") = C(n, "Pop") + One("Pop")
        /\ One("Push") \in Nat /\ One("Pop") \in Nat
    BY <1>1
  <2>2. /\ Len(global_stack) = C(n, "Push") - C(n, "Pop")
        /\ pushed = Len(global_stack) + One("Push") - One("Pop")
    BY <1>2, <1>3
  <2>3. \A p, q, a, b \in Nat : (p - q) + a - b = (p + a) - (q + b)
    OBVIOUS
  <2> HIDE DEF pushed
  <2>4. pushed = (C(n, "Push") - C(n, "Pop")) + One("Push") - One("Pop")
    BY <2>2
  <2>5. (C(n, "Push") - C(n, "Pop")) + One("Push") - One("Pop")
          = (C(n, "Push") + One("Push")) - (C(n, "Pop") + One("Pop"))
    BY <2>1, <2>3
  <2> QED
    BY <2>1, <2>4, <2>5
<1>6. opened = C(n + 1, "Collection") - C(n + 1, "EndCollection")
  <2>1. /\ C(n, "Collection") \in Nat /\ C(n + 1, "Collection") = C(n, "Collection") + One("Collection")
        /\ C(n, "EndCollection") \in Nat /\ C(n + 1, "EndCollection") = C(n, "EndCollection") + One("EndCollection")
        /\ One("Collection") \in Nat /\ One("EndCollection") \in Nat
    BY <1>1
  <2>2. /\ Len(collection_stack) = C(n, "Collection") - C(n, "EndCollection")
        /\ opened = Len(collection_stack) + One("Collection") - One("EndCollection")
    BY <1>2, <1>3
  <2>3. \A p, q, a, b \in Nat : (p - q) + a - b = (p + a) - (q + b)
    OBVIOUS
  <2> HIDE DEF opened
  <2>4. opened = (C(n, "Collection") - C(n, "EndCollection")) + One("Collection") - One("EndCollection")
    BY <2>2
  <2>5. (C(n, "Collection") - C(n, "EndCollection")) + One("Collection") - One("EndCollection")
          = (C(n, "Collection") + One("Collection")) - (C(n, "EndCollection") + One("EndCollection"))
    BY <2>1, <2>3
  <2> QED
    BY <2>1, <2>4, <2>5
<1>7. pushed \in Nat /\ opened \in Nat
  OBVIOUS
<1>8. /\ C(n + 1, "Pop") <= C(n + 1, "Push")
      /\ C(n + 1, "EndCollection") <= C(n + 1, "Collection")
  <2> HIDE DEF pushed, opened
  <2> QED
    BY <1>4, <1>5, <1>6, <1>7
<1>9. \A m \in 1..(n + 1) : /\ C(m, "Pop") <= C(m, "Push")
                            /\ C(m, "EndCollection") <= C(m, "Collection")
  <2>1. \A m \in 1..(n + 1) : m = n + 1 \/ m \in 1..n
    OBVIOUS
  <2> QED
    BY <1>2, <1>8, <2>1
<1> QED
  BY <1>5, <1>6, <1>9 DEF Nested, C

\* The stacks of a parser that goes on: the rest of the invariant follows from
\* how the item read changes their heights.
LEMMA GoesOn ==
  ASSUME BalanceInv, Lexed, rest' = item.after, UNCHANGED <<input, status>>,
         IsSeq(global_stack'), IsSeq(collection_stack'),
         NEW g, NEW k,
         \A c : Seen(c) => /\ g = (IF c.tag = "Push" THEN 1 ELSE 0)
                                    - (IF c.tag = "Pop" THEN 1 ELSE 0)
                           /\ k = (IF c.tag = "Collection" THEN 1 ELSE 0)
                                    - (IF c.tag = "EndCollection" THEN 1 ELSE 0),
         Len(global_stack') = Len(global_stack) + g,
         Len(collection_stack') = Len(collection_stack) + k
  PROVE  BalanceInv'
<1>1. status = "parsing"
  BY DEF Lexed
<1>2. AcceptsBalanced'
  BY <1>1 DEF AcceptsBalanced
<1>3. ASSUME input.source.of = "stream" PROVE \E n : HasRead(n)' /\ Nested(n)'
  <2>1. PICK n : HasRead(n) /\ Nested(n)
    BY <1>1, <1>3 DEF BalanceInv
  <2> DEFINE c == input.source.items[n + 1]
  <2>2. n \in Nat /\ Seen(c) /\ HasRead(n + 1)'
    BY <2>1, ReadsNext
  <2>3. /\ Len(global_stack) \in Nat /\ Len(collection_stack) \in Nat
        /\ Len(global_stack') \in Nat /\ Len(collection_stack') \in Nat
    BY DEF BalanceInv, IsSeq
  <2>4. /\ g = (IF c.tag = "Push" THEN 1 ELSE 0) - (IF c.tag = "Pop" THEN 1 ELSE 0)
        /\ k = (IF c.tag = "Collection" THEN 1 ELSE 0)
                 - (IF c.tag = "EndCollection" THEN 1 ELSE 0)
    BY <2>2
  <2>5. \A h, p, q \in Int : h + (p - q) = h + p - q
    OBVIOUS
  <2>6. /\ Len(global_stack') = Len(global_stack)
             + (IF c.tag = "Push" THEN 1 ELSE 0) - (IF c.tag = "Pop" THEN 1 ELSE 0)
        /\ Len(collection_stack') = Len(collection_stack)
             + (IF c.tag = "Collection" THEN 1 ELSE 0)
             - (IF c.tag = "EndCollection" THEN 1 ELSE 0)
    <3> HIDE DEF c
    <3> QED
      BY <2>3, <2>4, <2>5
  <2>7. Nested(n + 1)'
    BY <2>1, <2>2, <2>3, <2>6, NestsNext
  <2> QED
    BY <2>2, <2>7
<1> QED
  BY <1>2, <1>3 DEF BalanceInv

-----------------------------------------------------------------------------
(* One lemma for each way the parser stops or goes on.                     *)

\* A parser that stops keeps the invariant when it is right to.
LEMMA Stops ==
  ASSUME BalanceInv, status' \in {"done", "error"},
         UNCHANGED <<input, global_stack, collection_stack>>,
         input.source.of = "stream" =>
           (status' = "done" <=> WellFormed(input.source.items, input.source.cut))
  PROVE  BalanceInv'
<1>1. AcceptsBalanced'
  BY DEF AcceptsBalanced
<1> QED
  BY <1>1 DEF BalanceInv, IsSeq

\* A header that promises more than there is: something was lost.
LEMMA LexErrorBalances ==
  ASSUME BalanceInv, LexError PROVE BalanceInv'
<1>1. /\ status = "parsing" /\ rest # <<>> /\ Truncated(rest) /\ status' = "error"
      /\ UNCHANGED <<input, global_stack, collection_stack>>
  BY DEF LexError
<1>2. ASSUME input.source.of = "stream" PROVE input.source.cut # 0
  <2>1. PICK n : HasRead(n)
    BY <1>1, <1>2 DEF BalanceInv
  <2>2. n \in 0..Len(input.source.items)
        /\ (input.source.cut # 0 => n # Len(input.source.items))
    BY <2>1 DEF HasRead
  <2>3. PICK at : Stream(input, at) /\ rest = SubSeq(input.bytes, at[n] + 1, Len(input.bytes))
    BY <2>1 DEF HasRead
  <2>4. /\ n = Len(input.source.items) => rest = <<>>
        /\ n # Len(input.source.items) => (Truncated(rest) => input.source.cut # 0)
    BY <2>2, <2>3, Reading
  <2> QED
    BY <1>1, <2>4
<1> QED
  BY <1>1, <1>2, Stops DEF WellFormed

\* Something ended that was not begun: the item read ends more than was begun.
LEMMA UnmatchedBalances ==
  ASSUME BalanceInv, Unmatched PROVE BalanceInv'
<1>1. /\ Lexed /\ status = "parsing" /\ status' = "error"
      /\ \/ HasTag(item, "Global", "Pop") /\ global_stack = <<>>
         \/ HasTag(item, "Main", "EndCollection") /\ collection_stack = <<>>
      /\ UNCHANGED <<input, global_stack, collection_stack>>
  BY DEF Unmatched, Lexed
<1>2. ASSUME input.source.of = "stream"
      PROVE  ~WellFormed(input.source.items, input.source.cut)
  <2>1. PICK n : HasRead(n) /\ Nested(n)
    BY <1>1, <1>2 DEF BalanceInv
  <2> DEFINE items == input.source.items
  <2>2. /\ n \in Nat /\ n + 1 \in 1..Len(items) /\ Seen(items[n + 1])
    BY <1>1, <2>1, ReadsNext
  <2>3. \A t : /\ Count(items, n, t) \in Nat
               /\ Count(items, n + 1, t)
                    = Count(items, n, t) + (IF items[n + 1].tag = t THEN 1 ELSE 0)
    BY <2>2, CountNext DEF IsItem
  <2>4. n + 1 \in DOMAIN items
    <3>1. items \in Seq(Calls)
      BY <2>1 DEF HasRead, Stream
    <3> QED
      BY <2>2, <3>1
  <2>5. CASE HasTag(item, "Global", "Pop") /\ global_stack = <<>>
    <3>1. items[n + 1].tag = "Pop" /\ Len(global_stack) = 0
      BY <2>2, <2>5 DEF Seen
    <3>2. Count(items, n, "Push") - Count(items, n, "Pop") = 0
      BY <2>1, <3>1 DEF Nested
    <3>3. ~ (Count(items, n + 1, "Pop") <= Count(items, n + 1, "Push"))
      <4>1. /\ Count(items, n + 1, "Pop") = Count(items, n, "Pop") + 1
            /\ Count(items, n + 1, "Push") = Count(items, n, "Push")
            /\ Count(items, n, "Pop") \in Nat /\ Count(items, n, "Push") \in Nat
        BY <2>3, <3>1
      <4> QED
        BY <3>2, <4>1
    <3> QED
      BY <2>4, <3>3 DEF WellFormed
  <2>6. CASE HasTag(item, "Main", "EndCollection") /\ collection_stack = <<>>
    <3>1. items[n + 1].tag = "EndCollection" /\ Len(collection_stack) = 0
      BY <2>2, <2>6 DEF Seen
    <3>2. Count(items, n, "Collection") - Count(items, n, "EndCollection") = 0
      BY <2>1, <3>1 DEF Nested
    <3>3. ~ (Count(items, n + 1, "EndCollection") <= Count(items, n + 1, "Collection"))
      <4>1. /\ Count(items, n + 1, "EndCollection") = Count(items, n, "EndCollection") + 1
            /\ Count(items, n + 1, "Collection") = Count(items, n, "Collection")
            /\ Count(items, n, "EndCollection") \in Nat
            /\ Count(items, n, "Collection") \in Nat
        BY <2>3, <3>1
      <4> QED
        BY <3>2, <4>1
    <3> QED
      BY <2>4, <3>3 DEF WellFormed
  <2> QED
    BY <1>1, <2>5, <2>6
<1> QED
  BY <1>1, <1>2, Stops

\* The end of the descriptor, with or without open collections.
LEMMA FinishBalances ==
  ASSUME BalanceInv, Finish PROVE BalanceInv'
<1>1. /\ status = "parsing" /\ rest = <<>>
      /\ status' = IF collection_stack = <<>> THEN "done" ELSE "error"
      /\ UNCHANGED <<input, global_stack, collection_stack>>
  BY DEF Finish
<1>2. ASSUME input.source.of = "stream"
      PROVE  collection_stack = <<>> <=> WellFormed(input.source.items, input.source.cut)
  <2>1. PICK n : HasRead(n) /\ Nested(n)
    BY <1>1, <1>2 DEF BalanceInv
  <2> DEFINE items == input.source.items
             N == Len(items)
  <2>2. n \in 0..N /\ (input.source.cut # 0 => n # N)
    BY <2>1 DEF HasRead
  <2>3. PICK at : Stream(input, at) /\ rest = SubSeq(input.bytes, at[n] + 1, Len(input.bytes))
    BY <2>1 DEF HasRead
  <2>4. n # N => rest # <<>>
    BY <2>2, <2>3, Reading
  <2>5. n = N /\ input.source.cut = 0
    BY <1>1, <2>2, <2>4
  <2>6. items \in Seq(Calls) /\ DOMAIN items = 1..N /\ N \in Nat
    BY <2>3 DEF Stream
  <2>7. /\ Len(collection_stack)
             = Count(items, N, "Collection") - Count(items, N, "EndCollection")
        /\ \A m \in DOMAIN items :
             /\ Count(items, m, "Pop") <= Count(items, m, "Push")
             /\ Count(items, m, "EndCollection") <= Count(items, m, "Collection")
    BY <2>1, <2>5, <2>6 DEF Nested
  <2>8. /\ Count(items, N, "Collection") \in Nat
        /\ Count(items, N, "EndCollection") \in Nat
    BY <2>6, CountNext
  <2>9. collection_stack = <<>> <=> Len(collection_stack) = 0
    BY DEF BalanceInv, IsSeq
  <2>10. collection_stack = <<>>
           <=> Count(items, N, "EndCollection") = Count(items, N, "Collection")
    BY <2>7, <2>8, <2>9
  <2> QED
    BY <2>5, <2>7, <2>10 DEF WellFormed
<1> QED
  BY <1>1, <1>2, Stops

\* Items that neither begin nor end anything.
LEMMA OthersBalance ==
  ASSUME BalanceInv, SkipItem \/ GlobalItem \/ LocalItem \/ \E kind \in Kinds : AddField(kind)
  PROVE  BalanceInv'
<1> DEFINE Ends(c) == c.tag \in {"Push", "Pop", "Collection", "EndCollection"}
<1>1. /\ Lexed /\ rest' = item.after
      /\ UNCHANGED <<input, status, global_stack, collection_stack>>
  BY DEF SkipItem, GlobalItem, LocalItem, AddField
<1>2. ASSUME NEW c, Seen(c) PROVE ~Ends(c)
  <2>1. CASE SkipItem
    <3>1. /\ "Push" \in DOMAIN GlobalTag /\ "Pop" \in DOMAIN GlobalTag
          /\ "Collection" \in DOMAIN MainTag /\ "EndCollection" \in DOMAIN MainTag
      BY DEF GlobalTag, MainTag
    <3> QED
      BY <1>2, <2>1, <3>1 DEF SkipItem, Known, Seen
  <2>2. CASE GlobalItem
    <3>1. PICK t \in GlobalNames : HasTag(item, "Global", t)
      BY <2>2 DEF GlobalItem
    <3>2. t \in DOMAIN GlobalTag /\ t \notin {"Push", "Pop", "Collection", "EndCollection"}
      BY DEF GlobalNames, GlobalTag
    <3> QED
      BY <1>2, <3>1, <3>2 DEF Seen
  <2>3. CASE LocalItem
    BY <1>2, <2>3 DEF LocalItem, Seen
  <2>4. CASE \E kind \in Kinds : AddField(kind)
    <3>1. PICK kind \in Kinds : HasTag(item, "Main", kind)
      BY <2>4 DEF AddField
    <3>2. kind \in DOMAIN MainTag /\ kind \notin {"Push", "Pop", "Collection", "EndCollection"}
      BY DEF Kinds, MainTag
    <3> QED
      BY <1>2, <3>1, <3>2 DEF Seen
  <2> QED
    BY <2>1, <2>2, <2>3, <2>4
<1>3. /\ IsSeq(global_stack') /\ IsSeq(collection_stack')
      /\ Len(global_stack') = Len(global_stack) + 0
      /\ Len(collection_stack') = Len(collection_stack) + 0
  BY <1>1 DEF BalanceInv, IsSeq
<1>4. \A c : Seen(c) =>
        /\ 0 = (IF c.tag = "Push" THEN 1 ELSE 0) - (IF c.tag = "Pop" THEN 1 ELSE 0)
        /\ 0 = (IF c.tag = "Collection" THEN 1 ELSE 0)
                 - (IF c.tag = "EndCollection" THEN 1 ELSE 0)
  BY <1>2
<1> HIDE DEF Ends
<1> QED
  BY <1>1, <1>3, <1>4, GoesOn

\* A stack with one element more, and one without its last.
LEMMA Stacks ==
  ASSUME NEW s, IsSeq(s), NEW e
  PROVE  /\ IsSeq(Append(s, e)) /\ Len(Append(s, e)) = Len(s) + 1
         /\ s # <<>> => /\ IsSeq(Front(s)) /\ Len(Front(s)) = Len(s) - 1
                        /\ Len(s) \in Nat \ {0}
<1>1. PICK S : s \in Seq(S)
  BY DEF IsSeq
<1> DEFINE T == S \cup {e}
<1>2. s \in Seq(T) /\ e \in T
  <2>1. S \subseteq T
    OBVIOUS
  <2> HIDE DEF T
  <2>2. s \in Seq(T)
    BY <1>1, <2>1, SeqMonotonic
  <2> QED
    BY <2>2 DEF T
<1> HIDE DEF T
<1>3. IsSeq(Append(s, e)) /\ Len(Append(s, e)) = Len(s) + 1
  BY <1>2, AppendProperties DEF IsSeq
<1>4. ASSUME s # <<>>
      PROVE  IsSeq(Front(s)) /\ Len(Front(s)) = Len(s) - 1 /\ Len(s) \in Nat \ {0}
  <2>1. Len(s) \in Nat \ {0}
    BY <1>1, <1>4
  <2>2. \A i \in 1..(Len(s) - 1) : s[i] \in S
    BY <1>1, <2>1
  <2> DEFINE m == Len(s) - 1
  <2>3. m \in Nat
    BY <2>1
  <2> HIDE DEF m
  <2>4. /\ SubSeq(s, 1, m) \in Seq(S)
        /\ Len(SubSeq(s, 1, m)) = IF 1 <= m THEN m - 1 + 1 ELSE 0
    BY <2>2, <2>3, SubSeqProperties DEF m
  <2>5. Len(SubSeq(s, 1, m)) = m
    BY <2>3, <2>4
  <2>6. Front(s) = SubSeq(s, 1, m)
    BY DEF Front, m
  <2> QED
    BY <2>1, <2>4, <2>5, <2>6 DEF IsSeq, m
<1> QED
  BY <1>3, <1>4

\* Push opens a state.
LEMMA PushBalances ==
  ASSUME BalanceInv, Push PROVE BalanceInv'
<1>1. /\ Lexed /\ HasTag(item, "Global", "Push") /\ rest' = item.after
      /\ global_stack' = Append(global_stack, globals)
      /\ UNCHANGED <<input, status, collection_stack>>
  BY DEF Push
<1>2. /\ IsSeq(global_stack') /\ IsSeq(collection_stack')
      /\ Len(global_stack') = Len(global_stack) + 1
      /\ Len(collection_stack') = Len(collection_stack) + 0
  <2>1. IsSeq(global_stack) /\ IsSeq(collection_stack) /\ Len(collection_stack) \in Nat
    BY DEF BalanceInv, IsSeq
  <2> QED
    BY <1>1, <2>1, Stacks
<1>3. \A c : Seen(c) => c.tag = "Push"
  BY <1>1 DEF Seen
<1>4. \A c : Seen(c) =>
        /\ 1 = (IF c.tag = "Push" THEN 1 ELSE 0) - (IF c.tag = "Pop" THEN 1 ELSE 0)
        /\ 0 = (IF c.tag = "Collection" THEN 1 ELSE 0)
                 - (IF c.tag = "EndCollection" THEN 1 ELSE 0)
  BY <1>3
<1> QED
  BY <1>1, <1>2, <1>4, GoesOn

\* Pop ends the last state that is open.
LEMMA PopBalances ==
  ASSUME BalanceInv, Pop PROVE BalanceInv'
<1>1. /\ Lexed /\ HasTag(item, "Global", "Pop") /\ rest' = item.after
      /\ global_stack # <<>> /\ global_stack' = Front(global_stack)
      /\ UNCHANGED <<input, status, collection_stack>>
  BY DEF Pop
<1>2. /\ IsSeq(global_stack') /\ IsSeq(collection_stack')
      /\ Len(global_stack') = Len(global_stack) + (-1)
      /\ Len(collection_stack') = Len(collection_stack) + 0
  <2>1. IsSeq(global_stack) /\ IsSeq(collection_stack) /\ Len(collection_stack) \in Nat
    BY DEF BalanceInv, IsSeq
  <2>2. /\ IsSeq(global_stack') /\ Len(global_stack') = Len(global_stack) - 1
        /\ Len(global_stack) \in Nat
    BY <1>1, <2>1, Stacks
  <2> QED
    BY <1>1, <2>1, <2>2
<1>3. \A c : Seen(c) => c.tag = "Pop"
  BY <1>1 DEF Seen
<1>4. \A c : Seen(c) =>
        /\ -1 = (IF c.tag = "Push" THEN 1 ELSE 0) - (IF c.tag = "Pop" THEN 1 ELSE 0)
        /\ 0 = (IF c.tag = "Collection" THEN 1 ELSE 0)
                 - (IF c.tag = "EndCollection" THEN 1 ELSE 0)
  BY <1>3
<1> QED
  BY <1>1, <1>2, <1>4, GoesOn

\* Collection opens one.
LEMMA OpenBalances ==
  ASSUME BalanceInv, OpenCollection PROVE BalanceInv'
<1>1. /\ Lexed /\ HasTag(item, "Main", "Collection") /\ rest' = item.after
      /\ \E e : collection_stack' = Append(collection_stack, e)
      /\ UNCHANGED <<input, status, global_stack>>
  BY DEF OpenCollection
<1>2. /\ IsSeq(global_stack') /\ IsSeq(collection_stack')
      /\ Len(global_stack') = Len(global_stack) + 0
      /\ Len(collection_stack') = Len(collection_stack) + 1
  <2>1. IsSeq(global_stack) /\ IsSeq(collection_stack) /\ Len(global_stack) \in Nat
    BY DEF BalanceInv, IsSeq
  <2> QED
    BY <1>1, <2>1, Stacks
<1>3. \A c : Seen(c) => c.tag = "Collection"
  BY <1>1 DEF Seen
<1>4. \A c : Seen(c) =>
        /\ 0 = (IF c.tag = "Push" THEN 1 ELSE 0) - (IF c.tag = "Pop" THEN 1 ELSE 0)
        /\ 1 = (IF c.tag = "Collection" THEN 1 ELSE 0)
                 - (IF c.tag = "EndCollection" THEN 1 ELSE 0)
  BY <1>3
<1> QED
  BY <1>1, <1>2, <1>4, GoesOn

\* End Collection ends the last one that is open.
LEMMA CloseBalances ==
  ASSUME BalanceInv, CloseCollection PROVE BalanceInv'
<1> DEFINE left == Front(collection_stack)
<1>1. /\ Lexed /\ HasTag(item, "Main", "EndCollection") /\ rest' = item.after
      /\ collection_stack # <<>>
      /\ \/ collection_stack' = left
         \/ \E e : collection_stack' = [left EXCEPT ![Len(left)].children = e]
      /\ UNCHANGED <<input, status, global_stack>>
  BY DEF CloseCollection
<1>2. /\ IsSeq(global_stack') /\ IsSeq(collection_stack')
      /\ Len(global_stack') = Len(global_stack) + 0
      /\ Len(collection_stack') = Len(collection_stack) + (-1)
  <2>1. IsSeq(global_stack) /\ IsSeq(collection_stack) /\ Len(global_stack) \in Nat
    BY DEF BalanceInv, IsSeq
  <2>2. IsSeq(left) /\ Len(left) = Len(collection_stack) - 1 /\ Len(collection_stack) \in Nat
    BY <1>1, <2>1, Stacks
  <2> HIDE DEF left
  <2>3. IsSeq(collection_stack') /\ Len(collection_stack') = Len(left)
    <3>1. CASE collection_stack' = left
      BY <2>2, <3>1
    <3>2. ASSUME NEW e, collection_stack' = [left EXCEPT ![Len(left)].children = e]
          PROVE  IsSeq(collection_stack') /\ Len(collection_stack') = Len(left)
      <4>1. PICK S : left \in Seq(S)
        BY <2>2 DEF IsSeq
      <4> DEFINE d == [left[Len(left)] EXCEPT !.children = e]
      <4>2. collection_stack' = [left EXCEPT ![Len(left)] = d]
        BY <3>2
      <4> HIDE DEF d
      <4> DEFINE T == S \cup {d}
      <4>3. left \in Seq(T) /\ d \in T
        <5>1. S \subseteq T
          OBVIOUS
        <5> HIDE DEF T
        <5>2. left \in Seq(T)
          BY <4>1, <5>1, SeqMonotonic
        <5> QED
          BY <5>2 DEF T
      <4> HIDE DEF T
      <4>4. CASE Len(left) \in 1..Len(left)
        BY <4>2, <4>3, <4>4, ExceptSeq DEF IsSeq
      <4>5. CASE Len(left) \notin 1..Len(left)
        <5>1. collection_stack' = left
          BY <4>2, <4>3, <4>5
        <5> QED
          BY <5>1, <2>2
      <4> QED
        BY <4>4, <4>5
    <3> QED
      BY <1>1, <3>1, <3>2
  <2> QED
    BY <1>1, <2>1, <2>2, <2>3
<1>3. \A c : Seen(c) => c.tag = "EndCollection"
  BY <1>1 DEF Seen
<1>4. \A c : Seen(c) =>
        /\ 0 = (IF c.tag = "Push" THEN 1 ELSE 0) - (IF c.tag = "Pop" THEN 1 ELSE 0)
        /\ -1 = (IF c.tag = "Collection" THEN 1 ELSE 0)
                  - (IF c.tag = "EndCollection" THEN 1 ELSE 0)
  BY <1>3
<1> HIDE DEF left
<1> QED
  BY <1>1, <1>2, <1>4, GoesOn

\* A parser that has read nothing has the whole stream before it.
LEMMA InitBalances == Init => BalanceInv
<1> SUFFICES ASSUME Init PROVE BalanceInv
  OBVIOUS
<1>1. /\ input \in Inputs /\ rest = input.bytes /\ status = "parsing"
      /\ global_stack = <<>> /\ collection_stack = <<>>
  BY DEF Init
<1>2. IsSeq(global_stack) /\ IsSeq(collection_stack)
      /\ Len(global_stack) = 0 /\ Len(collection_stack) = 0
  <2>1. <<>> \in Seq(Int) /\ Len(<<>>) = 0
    OBVIOUS
  <2> QED
    BY <1>1, <2>1 DEF IsSeq
<1>3. AcceptsBalanced
  BY <1>1 DEF AcceptsBalanced
<1>4. ASSUME input.source.of = "stream" PROVE HasRead(0) /\ Nested(0)
  <2>1. PICK at : Stream(input, at)
    BY <1>1, <1>4, StreamLaysItems
  <2>2. PICK S : input.bytes \in Seq(S)
    BY <2>1 DEF Stream, IsSeq
  <2>3. at[0] + 1 = 1
    BY <2>1 DEF Stream
  <2>4. rest = SubSeq(input.bytes, at[0] + 1, Len(input.bytes))
    BY <1>1, <2>2, <2>3, SubSeqFull
  <2>5. 0 \in 0..Len(input.source.items)
        /\ (input.source.cut # 0 => 0 # Len(input.source.items))
    BY <2>1 DEF Stream
  <2>6. HasRead(0)
    BY <2>1, <2>4, <2>5 DEF HasRead
  <2>7. Nested(0)
    BY <1>2, CountNone DEF Nested
  <2> QED
    BY <2>6, <2>7
<1> QED
  BY <1>1, <1>2, <1>3, <1>4 DEF BalanceInv

\* One step for each way the parser treats an item.
LEMMA StepBalances == BalanceInv /\ [Next]_vars => BalanceInv'
<1> SUFFICES ASSUME BalanceInv, [Next]_vars PROVE BalanceInv'
  OBVIOUS
<1>1. CASE UNCHANGED vars
  <2>1. UNCHANGED <<input, rest, status, global_stack, collection_stack>>
    BY <1>1 DEF vars
  <2>2. AcceptsBalanced' /\ IsSeq(global_stack)' /\ IsSeq(collection_stack)'
    BY <2>1 DEF BalanceInv, AcceptsBalanced, IsSeq
  <2>3. ASSUME NEW n, HasRead(n), Nested(n) PROVE HasRead(n)' /\ Nested(n)'
    BY <2>1, <2>3 DEF HasRead, Nested
  <2> QED
    BY <2>1, <2>2, <2>3 DEF BalanceInv
<1>2. CASE Next
  BY <1>2, LexErrorBalances, UnmatchedBalances, FinishBalances, OthersBalance,
     PushBalances, PopBalances, OpenBalances, CloseBalances DEF Next
<1> QED
  BY <1>1, <1>2

\* Whatever the width of a byte and whatever the stream of items, cut short or
\* not: ReportDescriptor::parse says Ok to those whose collections all end and
\* in which nothing ends that was not begun, and an error to the others.
THEOREM BalancedAlwaysAccepted == Spec => []AcceptsBalanced
<1>1. BalanceInv => AcceptsBalanced
  BY DEF BalanceInv
<1> QED
  BY InitBalances, StepBalances, <1>1, PTL DEF Spec

-----------------------------------------------------------------------------
(* What the parser reads of a value that the encoder wrote.                *)

\* Quotient and remainder of any two numbers.
LEMMA DivFacts ==
  ASSUME NEW a \in Int, NEW d \in Nat, d > 0
  PROVE  /\ a \div d \in Int /\ (a % d) \in 0..(d - 1)
         /\ a = d * (a \div d) + (a % d)
OBVIOUS

\* There is one way to divide.
LEMMA DivUnique ==
  ASSUME NEW a \in Int, NEW d \in Nat, d > 0, NEW q \in Int, NEW r \in 0..(d - 1),
         a = d * q + r
  PROVE  a \div d = q /\ a % d = r
OBVIOUS

\* Dividing by one number after the other is dividing by their product.
LEMMA DivTwice ==
  ASSUME NEW a \in Int, NEW d \in Nat, d > 0, NEW e \in Nat, e > 0
  PROVE  /\ d * e \in Nat /\ d * e > 0
         /\ a \div (d * e) = (a \div d) \div e
         /\ a % (d * e) = (a % d) + d * ((a \div d) % e)
<1> DEFINE q == a \div d  r == a % d  s == q \div e  t == q % e
<1>1. q \in Int /\ r \in 0..(d - 1) /\ a = d * q + r
  BY DivFacts
<1>2. s \in Int /\ t \in 0..(e - 1) /\ q = e * s + t
  BY <1>1, DivFacts
<1> HIDE DEF q, r, s, t
<1>3. d * e \in Nat /\ d * e > 0
  OBVIOUS
<1>4. a = (d * e) * s + (r + d * t)
  <2>1. d * (e * s + t) = (d * e) * s + d * t
    BY <1>2
  <2> QED
    BY <1>1, <1>2, <2>1
<1>5. r + d * t \in 0..(d * e - 1)
  <2>1. d * t \in Nat /\ d * t + d <= d * e
    BY <1>2
  <2> QED
    BY <1>1, <2>1, <1>3
<1>6. a \div (d * e) = s /\ a % (d * e) = r + d * t
  BY <1>2, <1>3, <1>4, <1>5, DivUnique
<1> QED
  BY <1>3, <1>6 DEF q, r, s, t

\* The widths are numbers, each wider than the one before.
LEMMA Widths ==
  /\ U8 \in Nat /\ U16 \in Nat /\ U32 \in Nat
  /\ 1 < U8 /\ U8 < U16 /\ U16 < U32
  /\ U16 = U8 * U8 /\ U32 = U16 * U16
<1>1. U8 \in Nat /\ U8 > 1
  BY ByteAssumption
<1>2. U16 \in Nat /\ U16 > U8 /\ U16 = U8 * U8
  BY <1>1 DEF U16
<1>3. U32 \in Nat /\ U32 > U16 /\ U32 = U16 * U16
  <2>1. U32 = U16 * U16
    BY DEF U32
  <2> QED
    BY <1>1, <1>2, <2>1
<1> QED
  BY <1>1, <1>2, <1>3

\* Byte i of a value, least significant first.
Byte(v, i) ==
  CASE i = 1 -> v % U8
    [] i = 2 -> (v \div U8) % U8
    [] i = 3 -> (v \div U16) % U8
    [] i = 4 -> (v \div (U8 * U16)) % U8

\* Two bytes make its value modulo U16, and four modulo U32.
LEMMA BytesMake ==
  ASSUME NEW v \in Int
  PROVE  /\ \A i \in 1..4 : Byte(v, i) \in 0..(U8 - 1)
         /\ v % U8 = Byte(v, 1)
         /\ v % U16 = Byte(v, 1) + U8 * Byte(v, 2)
         /\ v % U32 = (Byte(v, 1) + U8 * Byte(v, 2))
                        + U16 * (Byte(v, 3) + U8 * Byte(v, 4))
<1>1. /\ Byte(v, 1) = v % U8 /\ Byte(v, 2) = (v \div U8) % U8
      /\ Byte(v, 3) = (v \div U16) % U8 /\ Byte(v, 4) = (v \div (U8 * U16)) % U8
  BY DEF Byte
<1> DEFINE w == v \div U16
<1>2. U8 \in Nat /\ U8 > 0 /\ U16 \in Nat /\ U16 > 0
  BY Widths
<1>3. w \in Int /\ v \div U8 \in Int
  BY <1>2, DivFacts
<1>4. \A x \in Int : x % U16 = (x % U8) + U8 * ((x \div U8) % U8)
  <2>1. \A x \in Int : x % (U8 * U8) = (x % U8) + U8 * ((x \div U8) % U8)
    BY <1>2, DivTwice
  <2> QED
    BY <2>1 DEF U16
<1>5. v % U16 = (v % U8) + U8 * ((v \div U8) % U8)
  BY <1>4
<1>6. w % U16 = (w % U8) + U8 * ((w \div U8) % U8)
  BY <1>3, <1>4
<1>7. v % U32 = (v % U16) + U16 * (w % U16)
  <2>1. v % (U16 * U16) = (v % U16) + U16 * ((v \div U16) % U16)
    BY <1>2, DivTwice
  <2> QED
    BY <2>1 DEF U32
<1>8. v \div (U8 * U16) = w \div U8 /\ w \div U8 \in Int
  <2>1. U8 * U16 = U16 * U8
    BY <1>2
  <2>2. v \div (U16 * U8) = (v \div U16) \div U8
    BY <1>2, DivTwice
  <2>3. w \div U8 \in Int
    BY <1>2, <1>3, DivFacts
  <2> QED
    BY <2>1, <2>2, <2>3
<1>9. \A i \in 1..4 : Byte(v, i) \in 0..(U8 - 1)
  <2>1. \A x \in Int : (x % U8) \in 0..(U8 - 1)
    BY <1>2, DivFacts
  <2>2. \A i \in 1..4 : i = 1 \/ i = 2 \/ i = 3 \/ i = 4
    OBVIOUS
  <2> QED
    BY <1>1, <1>3, <1>8, <2>1, <2>2
<1> HIDE DEF w
<1>10. v % U32 = (Byte(v, 1) + U8 * Byte(v, 2)) + U16 * (Byte(v, 3) + U8 * Byte(v, 4))
  BY <1>1, <1>5, <1>6, <1>7, <1>8 DEF w
<1> QED
  BY <1>1, <1>5, <1>9, <1>10

\* A payload of len bytes that are those of v.
Carries(head, v, len) ==
  /\ Len(head.data) = len
  /\ \A i \in 1..len : head.data[i] = Byte(v, i)

\* What RawItem::unsigned makes of it.
LEMMA UnsignedCarried ==
  ASSUME NEW head, NEW v \in 0..(U32 - 1), Carries(head, v, UnsignedLen(v))
  PROVE  Unsigned(head) = v
<1> USE Widths
<1> DEFINE n == UnsignedLen(v)
           b == [i \in 1..4 |-> IF i <= Len(head.data) THEN head.data[i] ELSE 0]
<1>1. Unsigned(head) = b[1] + U8 * b[2] + U16 * (b[3] + U8 * b[4])
  BY DEF Unsigned
<1>2. Len(head.data) = n /\ n \in {0, 1, 2, 4} /\ \A i \in 1..n : head.data[i] = Byte(v, i)
  BY ValueLens DEF Carries, Sizes
<1>3. ASSUME NEW i \in 1..4
      PROVE  b[i] = IF i <= n THEN Byte(v, i) ELSE 0
  <2> HIDE DEF n
  <2>1. b[i] = IF i <= n THEN head.data[i] ELSE 0
    BY <1>2, Zenon
  <2>2. i <= n => i \in 1..n
    BY <1>2
  <2> QED
    BY <1>2, <2>1, <2>2, Zenon
<1>4. v \in Int /\ v % U32 = v
  <2>1. v = U32 * 0 + v
    OBVIOUS
  <2> QED
    BY <2>1, DivUnique
<1>5. /\ b[1] = (IF 1 <= n THEN Byte(v, 1) ELSE 0) /\ b[2] = (IF 2 <= n THEN Byte(v, 2) ELSE 0)
      /\ b[3] = (IF 3 <= n THEN Byte(v, 3) ELSE 0) /\ b[4] = (IF 4 <= n THEN Byte(v, 4) ELSE 0)
  <2> HIDE DEF b, n
  <2> QED
    BY <1>3
<1>6. /\ \A i \in 1..4 : Byte(v, i) \in 0..(U8 - 1)
      /\ v % U8 = Byte(v, 1)
      /\ v % U16 = Byte(v, 1) + U8 * Byte(v, 2)
      /\ v = (Byte(v, 1) + U8 * Byte(v, 2)) + U16 * (Byte(v, 3) + U8 * Byte(v, 4))
  BY <1>4, BytesMake
<1> HIDE DEF b
<1>7. CASE v = 0
  <2>1. n = 0
    BY <1>7 DEF UnsignedLen
  <2> HIDE DEF n
  <2> QED
    BY <1>1, <1>5, <1>7, <2>1
<1>8. CASE v \in 1..(U8 - 1)
  <2>1. n = 1
    BY <1>8 DEF UnsignedLen
  <2>2. v % U8 = v
    <3>1. v = U8 * 0 + v
      OBVIOUS
    <3> QED
      BY <1>8, <3>1, DivUnique
  <2> HIDE DEF n
  <2> QED
    BY <1>1, <1>5, <1>6, <1>8, <2>1, <2>2
<1>9. CASE v \in U8..(U16 - 1)
  <2>1. n = 2
    BY <1>9 DEF UnsignedLen
  <2>2. v % U16 = v
    <3>1. v = U16 * 0 + v
      OBVIOUS
    <3> QED
      BY <1>9, <3>1, DivUnique
  <2> HIDE DEF n
  <2> QED
    BY <1>1, <1>5, <1>6, <1>9, <2>1, <2>2
<1>10. CASE v \in U16..(U32 - 1)
  <2>1. n = 4
    BY <1>10 DEF UnsignedLen
  <2> HIDE DEF n
  <2> QED
    BY <1>1, <1>5, <1>6, <2>1
<1> QED
  BY <1>7, <1>8, <1>9, <1>10

\* Two's complement gives a value back that its width holds.
LEMMA SignExtends ==
  ASSUME NEW v \in Int, NEW w \in Nat, w > 0, FitsSigned(v, w)
  PROVE  SignExtend(v % w, w) = v
<1>1. -w <= 2 * v /\ 2 * v < w
  BY DEF FitsSigned
<1>2. CASE v >= 0
  <2>1. v = w * 0 + v /\ v \in 0..(w - 1)
    BY <1>1, <1>2
  <2>2. v % w = v
    BY <2>1, DivUnique
  <2> QED
    BY <1>1, <2>2 DEF SignExtend
<1>3. CASE v < 0
  <2>1. v = w * (-1) + (v + w) /\ v + w \in 0..(w - 1)
    BY <1>1, <1>3
  <2>2. v % w = v + w
    BY <2>1, DivUnique
  <2> QED
    BY <1>1, <2>2 DEF SignExtend
<1> QED
  BY <1>2, <1>3

\* A remainder keeps its remainder by a divisor.
LEMMA ModTwice ==
  ASSUME NEW a \in Int, NEW d \in Nat, d > 0, NEW e \in Nat, e > 0
  PROVE  (a % (d * e)) % d = a % d
<1> DEFINE r == a % d  t == (a \div d) % e
<1>1. r \in 0..(d - 1) /\ t \in Int
  BY DivFacts
<1>2. a % (d * e) = d * t + r
  BY DivTwice, <1>1
<1> HIDE DEF r, t
<1>3. d * t + r \in Int
  BY <1>1
<1>4. (d * t + r) % d = r
  BY <1>1, <1>3, DivUnique
<1> QED
  BY <1>2, <1>4 DEF r

\* A value taken modulo U32 keeps its bytes.
LEMMA BytesModulo ==
  ASSUME NEW v \in Int
  PROVE  /\ v % U32 \in 0..(U32 - 1)
         /\ (v % U32) % U8 = v % U8 /\ (v % U32) % U16 = v % U16
         /\ (v % U32) % U32 = v % U32
<1>1. U8 \in Nat /\ U8 > 0 /\ U16 \in Nat /\ U16 > 0 /\ U32 \in Nat /\ U32 > 0
  BY Widths
<1>2. v % U32 \in 0..(U32 - 1) /\ v % U32 \in Int
  BY <1>1, DivFacts
<1>3. (v % U32) % U16 = v % U16
  <2>1. U32 = U16 * U16
    BY Widths
  <2> QED
    BY <1>1, <2>1, ModTwice
<1>4. (v % U32) % U8 = v % U8
  <2>1. U32 = U8 * (U8 * U16) /\ U8 * U16 \in Nat /\ U8 * U16 > 0
    BY Widths
  <2> DEFINE e == U8 * U16
  <2>2. U32 = U8 * e /\ e \in Nat /\ e > 0
    BY <2>1
  <2> HIDE DEF e
  <2> QED
    BY <1>1, <2>2, ModTwice
<1>5. (v % U32) % U32 = v % U32
  <2> DEFINE w == v % U32
  <2>1. w \in 0..(U32 - 1)
    BY <1>2
  <2> HIDE DEF w
  <2>2. w = U32 * 0 + w
    BY <1>1, <2>1
  <2>3. w % U32 = w
    BY <1>1, <2>1, <2>2, DivUnique
  <2> QED
    BY <2>3 DEF w
<1> QED
  BY <1>2, <1>3, <1>4, <1>5

\* What RawItem::signed makes of what item_signed wrote.
LEMMA SignedCarried ==
  ASSUME NEW head, NEW v \in Int, FitsSigned(v, U32), Carries(head, v % U32, SignedLen(v))
  PROVE  Signed(head) = v
<1> USE Widths
<1> DEFINE w == v % U32
           n == SignedLen(v)
<1>1. /\ w \in 0..(U32 - 1) /\ w \in Int
      /\ w % U8 = v % U8 /\ w % U16 = v % U16 /\ w % U32 = v % U32
  BY BytesModulo
<1>2. Len(head.data) = n /\ n \in {0, 1, 2, 4} /\ \A i \in 1..n : head.data[i] = Byte(w, i)
  BY ValueLens DEF Carries, Sizes
<1> HIDE DEF w
<1>3. /\ w % U8 = Byte(w, 1)
      /\ w % U16 = Byte(w, 1) + U8 * Byte(w, 2)
      /\ w % U32 = (Byte(w, 1) + U8 * Byte(w, 2)) + U16 * (Byte(w, 3) + U8 * Byte(w, 4))
      /\ \A i \in 1..4 : Byte(w, i) \in 0..(U8 - 1)
  BY <1>1, BytesMake
<1>4. CASE v = 0
  <2>1. n = 0
    BY <1>4 DEF SignedLen, FitsSigned
  <2> HIDE DEF n
  <2> QED
    BY <1>2, <1>4, <2>1 DEF Signed
<1>5. CASE v # 0 /\ FitsSigned(v, U8)
  <2>1. n = 1
    BY <1>5 DEF SignedLen
  <2> HIDE DEF n
  <2>2. Signed(head) = SignExtend(v % U8, U8)
    BY <1>1, <1>2, <1>3, <2>1 DEF Signed
  <2> QED
    BY <1>5, <2>2, SignExtends
<1>6. CASE v # 0 /\ ~FitsSigned(v, U8) /\ FitsSigned(v, U16)
  <2>1. n = 2
    BY <1>6 DEF SignedLen
  <2> HIDE DEF n
  <2>2. Signed(head) = SignExtend(v % U16, U16)
    BY <1>1, <1>2, <1>3, <2>1 DEF Signed
  <2> QED
    BY <1>6, <2>2, SignExtends
<1>7. CASE v # 0 /\ ~FitsSigned(v, U8) /\ ~FitsSigned(v, U16)
  <2>1. n = 4
    BY <1>7 DEF SignedLen
  <2> HIDE DEF n
  <2> DEFINE b == [i \in 1..4 |-> IF i <= Len(head.data) THEN head.data[i] ELSE 0]
  <2>2. Unsigned(head) = b[1] + U8 * b[2] + U16 * (b[3] + U8 * b[4])
    BY DEF Unsigned
  <2>3. b[1] = Byte(w, 1) /\ b[2] = Byte(w, 2) /\ b[3] = Byte(w, 3) /\ b[4] = Byte(w, 4)
    BY <1>2, <2>1
  <2> HIDE DEF b
  <2>4. Unsigned(head) = v % U32
    BY <1>1, <1>3, <2>2, <2>3
  <2>5. Signed(head) = SignExtend(v % U32, U32)
    BY <1>2, <2>1, <2>4 DEF Signed
  <2> QED
    BY <2>5, SignExtends
<1> QED
  BY <1>4, <1>5, <1>6, <1>7

\* The bytes of a value are the first ones of it.
LEMMA LeBytesAre ==
  ASSUME NEW value, NEW len \in 0..4
  PROVE  \A i \in 1..len : LeBytes(value, len)[i] = Byte(value, i)
<1> DEFINE b == <<value % U8, (value \div U8) % U8, (value \div U16) % U8,
                  (value \div (U8 * U16)) % U8>>
           S == {b[1], b[2], b[3], b[4]}
<1>1. \A i \in 1..4 : i \in {1, 2, 3, 4}
  OBVIOUS
<1>2. LeBytes(value, len) = SubSeq(b, 1, len)
  BY DEF LeBytes
<1>3. \A i \in 1..4 : b[i] = Byte(value, i)
  BY <1>1 DEF Byte
<1> HIDE DEF b
<1>4. \A i \in 1..len : b[i] \in S
  BY <1>1
<1> HIDE DEF S
<1>5. \A i \in 1..(len - 1 + 1) : SubSeq(b, 1, len)[i] = b[1 + i - 1]
  BY <1>4, SubSeqProperties
<1>6. ASSUME NEW i \in 1..len PROVE SubSeq(b, 1, len)[i] = b[i]
  <2>1. i \in 1..(len - 1 + 1) /\ 1 + i - 1 = i
    OBVIOUS
  <2> QED
    BY <1>5, <2>1
<1>7. \A i \in 1..len : i \in 1..4
  OBVIOUS
<1> QED
  BY <1>2, <1>3, <1>6, <1>7

\* A payload comes after its prefix.
LEMMA PushItemData ==
  ASSUME NEW type, NEW tag, NEW data, IsSeq(data)
  PROVE  \A i \in 1..Len(data) : PushItem(type, tag, data)[1 + i] = data[i]
<1> DEFINE p == Code(type, tag) * 16 + TypeCode[type] * 4
                  + (IF Len(data) = 4 THEN 3 ELSE Len(data))
           one == <<p>>
<1>1. PushItem(type, tag, data) = one \o data
  BY DEF PushItem
<1>2. PICK S : data \in Seq(S)
  BY DEF IsSeq
<1> HIDE DEF p
<1> DEFINE T == S \cup {p}
<1>3. p \in T /\ S \subseteq T
  OBVIOUS
<1> HIDE DEF T
<1>4. data \in Seq(T)
  BY <1>2, <1>3, SeqMonotonic
<1>5. one \in Seq(T) /\ Len(one) = 1
  BY <1>3
<1> HIDE DEF one
<1>6. \A i \in 1..(Len(one) + Len(data)) :
        (one \o data)[i] = IF i <= Len(one) THEN one[i] ELSE data[i - Len(one)]
  BY <1>4, <1>5, ConcatProperties
<1>7. ASSUME NEW i \in 1..Len(data) PROVE (one \o data)[1 + i] = data[i]
  <2>1. Len(data) \in Nat
    BY <1>4
  <2>2. 1 + i \in 1..(Len(one) + Len(data)) /\ ~ (1 + i <= Len(one)) /\ (1 + i) - Len(one) = i
    BY <1>5, <2>1
  <2> QED
    BY <1>6, <2>2
<1> QED
  BY <1>1, <1>7

\* The lexer finds the payload that the encoder put there.
LEMMA LexData ==
  ASSUME NEW c \in Calls, c.type \notin {"Long", "Reserved"},
         NEW data, IsSeq(data), Len(data) \in Sizes,
         EncodeItem(c) = PushItem(c.type, c.tag, data),
         NEW bytes, Starts(bytes, EncodeItem(c)), ~Truncated(bytes)
  PROVE  /\ Len(HeadItem(bytes).data) = Len(data)
         /\ \A i \in 1..Len(data) : HeadItem(bytes).data[i] = data[i]
<1> DEFINE e == EncodeItem(c)
           n == Len(data)
           p == bytes[1]
           size == IF p % 4 = 3 THEN 4 ELSE p % 4
<1>1. /\ p # LongPrefix /\ Len(e) = 1 + size
      /\ p % 4 \in 0..3 /\ Len(bytes) \in Nat \ {0}
  BY LexPrefix
<1>2. ~ (Len(bytes) < Len(e))
  BY LexLength
<1>3. HeadItem(bytes).data = SubSeq(bytes, 1 + 1, 1 + size)
  BY <1>1 DEF HeadItem
<1>4. Len(e) = 1 + n /\ n \in 0..4
  <2>1. Code(c.type, c.tag) \in 0..15 /\ TypeCode[c.type] \in 0..3
    BY CallCodes
  <2>2. Prefixed(e, Code(c.type, c.tag), TypeCode[c.type], IF n = 4 THEN 3 ELSE n)
    BY <2>1, PushItemPrefixes
  <2>3. n \in {0, 1, 2, 4}
    BY DEF Sizes
  <2> HIDE DEF e, n
  <2> QED
    BY <2>2, <2>3 DEF Prefixed
<1>5. \A i \in 1..n : e[1 + i] = data[i]
  BY PushItemData
<1>6. size \in 0..4
  BY <1>1
<1> HIDE DEF size
<1>7. size = n
  <2> HIDE DEF e, n
  <2> QED
    BY <1>1, <1>4, <1>6
<1>8. \A j \in 1..Len(e) : j <= Len(bytes) => bytes[j] = e[j]
  BY DEF Starts
<1> HIDE DEF e, n, p
<1>9. ASSUME NEW i \in 1..n PROVE bytes[1 + i] = data[i]
  <2>1. 1 + i \in 1..Len(e) /\ 1 + i <= Len(bytes)
    BY <1>1, <1>2, <1>4
  <2> QED
    BY <1>5, <1>8, <2>1
<1> DEFINE S == {bytes[j] : j \in (1 + 1)..(1 + n)}
<1>10. \A j \in (1 + 1)..(1 + n) : bytes[j] \in S
  OBVIOUS
<1> HIDE DEF S
<1> DEFINE d == SubSeq(bytes, 1 + 1, 1 + n)
<1>11. /\ Len(d) = IF 1 + 1 <= 1 + n THEN (1 + n) - (1 + 1) + 1 ELSE 0
       /\ \A i \in 1..((1 + n) - (1 + 1) + 1) : d[i] = bytes[(1 + 1) + i - 1]
  <2>1. 1 + 1 \in Int /\ 1 + n \in Int
    BY <1>4
  <2> QED
    BY <1>10, <2>1, SubSeqProperties
<1>12. Len(d) = n
  <2> HIDE DEF d
  <2> QED
    BY <1>4, <1>11
<1>13. ASSUME NEW i \in 1..n PROVE d[i] = data[i]
  <2>1. i \in 1..((1 + n) - (1 + 1) + 1) /\ (1 + 1) + i - 1 = 1 + i
    BY <1>4
  <2> QED
    BY <1>9, <1>11, <2>1
<1> QED
  BY <1>3, <1>7, <1>12, <1>13 DEF n

\* A value in an item is carried in as many bytes as the encoder took.
LEMMA LexCarries ==
  ASSUME NEW c \in Calls, c.type \notin {"Long", "Reserved"}, NEW value, NEW len \in Sizes,
         EncodeItem(c) = PushItem(c.type, c.tag, LeBytes(value, len)),
         NEW bytes, Starts(bytes, EncodeItem(c)), ~Truncated(bytes)
  PROVE  Carries(HeadItem(bytes), value, len)
<1> DEFINE data == LeBytes(value, len)
<1>1. len \in 0..4
  BY DEF Sizes
<1>2. /\ IsSeq(data) /\ Len(data) = len
      /\ \A i \in 1..len : data[i] = Byte(value, i)
  BY <1>1, LeBytesLen, LeBytesAre
<1> HIDE DEF data
<1>3. /\ Len(HeadItem(bytes).data) = Len(data)
      /\ \A i \in 1..Len(data) : HeadItem(bytes).data[i] = data[i]
  <2>1. EncodeItem(c) = PushItem(c.type, c.tag, data)
    BY DEF data
  <2> QED
    BY <1>2, <2>1, LexData
<1> QED
  BY <1>2, <1>3 DEF Carries

\* Items whose payload means nothing to the parser.
Plain == {"Push", "Pop", "EndCollection"}

\* RawItem::signed and unsigned give back the value that the builder encoded
\* in 0, 1, 2 or 4 bytes, for every value of 32 bits and every tag that has one.
THEOREM LexValue ==
  ASSUME NEW c \in Calls, c.type \notin {"Long", "Reserved"}, c.tag \notin Plain,
         NEW bytes, Starts(bytes, EncodeItem(c)), ~Truncated(bytes)
  PROVE  /\ c.tag \in SignedTags => Signed(HeadItem(bytes)) = c.value
         /\ c.tag \notin SignedTags => Unsigned(HeadItem(bytes)) = c.value
<1> DEFINE head == HeadItem(bytes)
<1>1. c.value \in Values(c.tag)
  BY DEF Calls
<1>2. CASE c.tag \in SignedTags
  <2>1. c.value \in Int /\ FitsSigned(c.value, U32)
    BY <1>1, <1>2 DEF Values
  <2>2. c.type = "Global"
    BY <1>2 DEF Calls, SignedTags, LocalTag, MainTag
  <2>3. EncodeItem(c)
          = PushItem(c.type, c.tag, LeBytes(c.value % U32, SignedLen(c.value)))
    BY <1>2, <2>2 DEF EncodeItem, Global, ItemSigned, Plain
  <2>4. Carries(head, c.value % U32, SignedLen(c.value))
    BY <2>3, ValueLens, LexCarries
  <2>5. Signed(head) = c.value
    BY <2>1, <2>4, SignedCarried
  <2> QED
    BY <1>2, <2>5
<1>3. CASE c.tag \notin SignedTags
  <2>1. c.value \in 0..(U32 - 1)
    BY <1>1, <1>3 DEF Values
  <2>2. CASE EncodeItem(c)
              = PushItem(c.type, c.tag, LeBytes(c.value, UnsignedLen(c.value)))
    <3>1. Carries(head, c.value, UnsignedLen(c.value))
      BY <2>2, ValueLens, LexCarries
    <3> QED
      BY <1>3, <2>1, <3>1, UnsignedCarried
  <2>3. CASE c.value = 0 /\ EncodeItem(c) = PushItem(c.type, c.tag, << 0 >>)
    <3> DEFINE data == << 0 >>
               b == [i \in 1..4 |-> IF i <= Len(head.data) THEN head.data[i] ELSE 0]
    <3>1. IsSeq(data) /\ Len(data) = 1 /\ data[1] = 0 /\ 1 \in Sizes
      <4>1. data \in Seq(Int) /\ Len(data) = 1 /\ data[1] = 0
        OBVIOUS
      <4> QED
        BY <4>1 DEF IsSeq, Sizes
    <3>2. EncodeItem(c) = PushItem(c.type, c.tag, data)
      BY <2>3
    <3> HIDE DEF data
    <3>3. /\ Len(head.data) = Len(data)
          /\ \A i \in 1..Len(data) : head.data[i] = data[i]
      BY <3>1, <3>2, LexData
    <3> HIDE DEF head
    <3>4. Len(head.data) = 1 /\ head.data[1] = 0
      BY <3>1, <3>3
    <3>5. b[1] = 0 /\ b[2] = 0 /\ b[3] = 0 /\ b[4] = 0
      BY <3>4
    <3>6. Unsigned(head) = b[1] + U8 * b[2] + U16 * (b[3] + U8 * b[4])
      BY DEF Unsigned
    <3> HIDE DEF b
    <3>7. Unsigned(head) = 0
      BY <3>5, <3>6, Widths
    <3> QED
      BY <1>3, <2>3, <3>7 DEF head
  <2>4. \/ EncodeItem(c) = PushItem(c.type, c.tag, LeBytes(c.value, UnsignedLen(c.value)))
        \/ c.value = 0 /\ EncodeItem(c) = PushItem(c.type, c.tag, << 0 >>)
    <3>1. CASE c.type = "Global"
      BY <1>3, <3>1 DEF EncodeItem, Global, ItemUnsigned, Plain
    <3>2. CASE c.type = "Local"
      BY <3>2 DEF EncodeItem, Local, ItemUnsigned
    <3>3. CASE c.type = "Main"
      <4>1. EncodeItem(c) = Main(c.tag, c.value)
        BY <3>3 DEF EncodeItem
      <4>2. c.tag # "EndCollection"
        BY DEF Plain
      <4> QED
        BY <3>3, <4>1, <4>2 DEF Main, ItemUnsigned
    <3> QED
      BY <3>1, <3>2, <3>3 DEF Calls
  <2> QED
    BY <2>2, <2>3, <2>4
<1> QED
  BY <1>2, <1>3

-----------------------------------------------------------------------------
(* What one item more declares.                                            *)

\* A tag belongs to one type.
LEMMA TypeOfTag ==
  ASSUME NEW c \in Calls
  PROVE  /\ c.type = "Global" <=> c.tag \in DOMAIN GlobalTag
         /\ c.type = "Local" <=> c.tag \in DOMAIN LocalTag
         /\ c.type = "Main" <=> c.tag \in DOMAIN MainTag
BY DEF Calls, GlobalTag, LocalTag, MainTag

\* The highest of some numbers is the one that no other exceeds.
LEMMA HighestIs ==
  ASSUME NEW S, S \subseteq Int, NEW x \in S, \A y \in S : y <= x
  PROVE  Highest(S) = x
<1>1. Highest(S) \in S /\ \A m \in S : m <= Highest(S)
  BY DEF Highest
<1>2. Highest(S) \in Int /\ x \in Int
  BY <1>1
<1>3. Highest(S) <= x /\ x <= Highest(S)
  BY <1>1
<1> QED
  BY <1>2, <1>3

\* A number above all others takes the last place and leaves them theirs.
LEMMA PlaceNext ==
  ASSUME NEW n \in Nat, NEW S, S \subseteq 1..n
  PROVE  /\ Cardinality(S) \in Nat
         /\ Cardinality(S \cup {n + 1}) = Cardinality(S) + 1
         /\ Place(S \cup {n + 1}, n + 1) = Cardinality(S) + 1
         /\ \A j \in S : /\ Place(S \cup {n + 1}, j) = Place(S, j)
                         /\ Place(S, j) \in 1..Cardinality(S)
<1>1. IsFiniteSet(S) /\ Cardinality(S) \in Nat
  <2>1. IsFiniteSet(1..n)
    BY FS_Interval
  <2>2. S \in SUBSET (1..n)
    OBVIOUS
  <2> QED
    BY <2>1, <2>2, FS_Subset, FS_CardinalityType
<1>2. n + 1 \notin S
  OBVIOUS
<1>3. Cardinality(S \cup {n + 1}) = Cardinality(S) + 1
  BY <1>1, <1>2, FS_AddElement
<1>4. {k \in S \cup {n + 1} : k <= n + 1} = S \cup {n + 1}
  <2>1. \A k \in S \cup {n + 1} : k <= n + 1
    <3>1. \A k \in 1..n : k <= n + 1
      OBVIOUS
    <3>2. n + 1 <= n + 1
      OBVIOUS
    <3> QED
      BY <3>1, <3>2
  <2> QED
    BY <2>1
<1>5. ASSUME NEW j \in S
      PROVE  /\ Place(S \cup {n + 1}, j) = Place(S, j)
             /\ Place(S, j) \in 1..Cardinality(S)
  <2> DEFINE upTo == {k \in S : k <= j}
  <2>1. {k \in S \cup {n + 1} : k <= j} = upTo
    OBVIOUS
  <2>2. upTo \subseteq S /\ j \in upTo
    OBVIOUS
  <2>3. Place(S \cup {n + 1}, j) = Cardinality(upTo) /\ Place(S, j) = Cardinality(upTo)
    BY <2>1 DEF Place
  <2> HIDE DEF upTo
  <2>4. IsFiniteSet(upTo) /\ Cardinality(upTo) <= Cardinality(S) /\ Cardinality(upTo) \in Nat
    BY <1>1, <2>2, FS_Subset, FS_CardinalityType
  <2>5. Cardinality(upTo) # 0
    BY <2>2, <2>4, FS_EmptySet
  <2> QED
    BY <1>1, <2>3, <2>4, <2>5
<1> QED
  BY <1>1, <1>3, <1>4, <1>5 DEF Place

\* Push goes one deeper, Pop one less deep.
LEMMA DepthNext ==
  ASSUME NEW items, NEW n \in Nat
  PROVE  /\ Depth(items, n) \in Int
         /\ Depth(items, n + 1)
              = Depth(items, n) + (CASE items[n + 1].tag = "Push" -> 1
                                     [] items[n + 1].tag = "Pop" -> -1
                                     [] OTHER -> 0)
<1> DEFINE C(m, t) == Count(items, m, t)
<1>1. \A t : /\ C(n, t) \in Nat
             /\ C(n + 1, t) = C(n, t) + (IF items[n + 1].tag = t THEN 1 ELSE 0)
  BY CountNext DEF IsItem
<1>2. /\ Depth(items, n) = C(n, "Push") - C(n, "Pop")
      /\ Depth(items, n + 1) = C(n + 1, "Push") - C(n + 1, "Pop")
  BY DEF Depth
<1> HIDE DEF C
<1> DEFINE tag == items[n + 1].tag
<1>3. CASE tag = "Push"
  <2>1. C(n + 1, "Push") = C(n, "Push") + 1 /\ C(n + 1, "Pop") = C(n, "Pop")
    BY <1>1, <1>3
  <2> QED
    BY <1>1, <1>2, <1>3, <2>1
<1>4. CASE tag = "Pop"
  <2>1. C(n + 1, "Push") = C(n, "Push") /\ C(n + 1, "Pop") = C(n, "Pop") + 1
    BY <1>1, <1>4
  <2> QED
    BY <1>1, <1>2, <1>4, <2>1
<1>5. CASE tag \notin {"Push", "Pop"}
  <2>1. C(n + 1, "Push") = C(n, "Push") /\ C(n + 1, "Pop") = C(n, "Pop")
    BY <1>1, <1>5
  <2> QED
    BY <1>1, <1>2, <1>5, <2>1
<1> QED
  BY <1>3, <1>4, <1>5

\* Where among the first n items a global has been set that is still in force.
InForce(items, n, tag) ==
  {j \in 1..n : /\ IsItem(items, j, tag)
                /\ \A k \in j..n : Depth(items, k) >= Depth(items, j)}

\* The global at the next item is the highest of these.
LEMMA GlobalInForce ==
  ASSUME NEW items, NEW n \in Nat, NEW tag
  PROVE  GlobalAt(items, n + 1, tag)
           = LET set == InForce(items, n, tag)
                 value == items[Highest(set)].value
             IN IF set = {} THEN DefaultGlobals[tag]
                ELSE IF tag = "ReportId" THEN value % U8
                ELSE IF tag = "UsagePage" THEN value % U16
                ELSE value
<1>1. (n + 1) - 1 = n
  OBVIOUS
<1>2. {j \in 1..((n + 1) - 1) :
         /\ IsItem(items, j, tag)
         /\ \A k \in j..((n + 1) - 1) : Depth(items, k) >= Depth(items, j)}
        = InForce(items, n, tag)
  BY <1>1 DEF InForce
<1> QED
  BY <1>2, Zenon DEF GlobalAt

\* An item that neither sets a global nor goes less deep leaves it in force.
LEMMA GlobalStays ==
  ASSUME NEW items, NEW n \in Nat, NEW tag, items[n + 1].tag \notin {tag, "Pop"}
  PROVE  GlobalAt(items, (n + 1) + 1, tag) = GlobalAt(items, n + 1, tag)
<1>1. \A m \in Nat : Depth(items, m) \in Int
  BY DepthNext
<1>2. Depth(items, n + 1) >= Depth(items, n)
  BY DepthNext
<1>3. ASSUME NEW j \in 1..n, \A k \in j..n : Depth(items, k) >= Depth(items, j),
             NEW k \in j..(n + 1)
      PROVE  Depth(items, k) >= Depth(items, j)
  <2>1. CASE k \in j..n
    BY <1>3, <2>1
  <2>2. CASE k = n + 1
    <3>1. Depth(items, n) >= Depth(items, j) /\ j \in Nat
      BY <1>3
    <3> QED
      BY <1>1, <1>2, <2>2, <3>1
  <2> QED
    BY <2>1, <2>2
<1>4. InForce(items, n + 1, tag) = InForce(items, n, tag)
  <2>1. ~IsItem(items, n + 1, tag)
    BY DEF IsItem
  <2>2. InForce(items, n, tag) \subseteq InForce(items, n + 1, tag)
    BY <1>3 DEF InForce
  <2>3. InForce(items, n + 1, tag) \subseteq InForce(items, n, tag)
    <3>1. ASSUME NEW j \in InForce(items, n + 1, tag) PROVE j \in InForce(items, n, tag)
      <4>1. /\ j \in 1..(n + 1) /\ IsItem(items, j, tag)
            /\ \A k \in j..(n + 1) : Depth(items, k) >= Depth(items, j)
        BY DEF InForce
      <4>2. j # n + 1
        BY <2>1, <4>1
      <4>3. j \in 1..n /\ \A k \in j..n : k \in j..(n + 1)
        BY <4>1, <4>2
      <4> QED
        BY <4>1, <4>3 DEF InForce
    <3> QED
      BY <3>1
  <2> QED
    BY <2>2, <2>3
<1>5. n + 1 \in Nat
  OBVIOUS
<1> QED
  BY <1>4, <1>5, GlobalInForce

\* An item that sets a global puts it in force.
LEMMA GlobalSet ==
  ASSUME NEW items, NEW n \in Nat, NEW tag, items[n + 1].tag = tag
  PROVE  GlobalAt(items, (n + 1) + 1, tag)
           = LET value == items[n + 1].value
             IN IF tag = "ReportId" THEN value % U8
                ELSE IF tag = "UsagePage" THEN value % U16
                ELSE value
<1> DEFINE set == InForce(items, n + 1, tag)
<1>1. Depth(items, n + 1) \in Int
  BY DepthNext
<1>2. (n + 1)..(n + 1) = {n + 1}
  OBVIOUS
<1>3. n + 1 \in set
  <2>1. \A k \in (n + 1)..(n + 1) : Depth(items, k) >= Depth(items, n + 1)
    BY <1>1, <1>2
  <2> QED
    BY <2>1 DEF InForce, IsItem
<1>4. set \subseteq Int /\ \A y \in set : y <= n + 1
  BY DEF InForce
<1> HIDE DEF set
<1>5. Highest(set) = n + 1
  BY <1>3, <1>4, HighestIs
<1>6. set # {}
  BY <1>3
<1> DEFINE value == items[Highest(set)].value
<1>7. GlobalAt(items, (n + 1) + 1, tag)
        = IF set = {} THEN DefaultGlobals[tag]
          ELSE IF tag = "ReportId" THEN value % U8
          ELSE IF tag = "UsagePage" THEN value % U16
          ELSE value
  <2>1. n + 1 \in Nat
    OBVIOUS
  <2> QED
    BY <2>1, GlobalInForce DEF set
<1>8. value = items[n + 1].value
  BY <1>5
<1> QED
  BY <1>6, <1>7, <1>8

\* Pop puts in force again what was in force at its Push, item p.
LEMMA GlobalRestored ==
  ASSUME NEW items, NEW n \in Nat, NEW tag, tag \notin {"Push", "Pop"},
         items[n + 1].tag = "Pop",
         NEW p \in 1..n, items[p].tag = "Push", Depth(items, p) = Depth(items, n),
         \A m \in p..n : Depth(items, m) >= Depth(items, p)
  PROVE  GlobalAt(items, (n + 1) + 1, tag) = GlobalAt(items, p, tag)
<1> DEFINE D(m) == Depth(items, m)
           q == p - 1
<1>1. q \in Nat /\ q + 1 = p /\ q < n
  OBVIOUS
<1>2. \A m \in Nat : D(m) \in Int
  BY DepthNext
<1>3. D(n + 1) = D(n) - 1
  BY DepthNext, <1>2
<1>4. D(p) = D(q) + 1
  <2> HIDE DEF q
  <2>1. D(q + 1) = D(q) + 1
    BY <1>1, <1>2, DepthNext
  <2> QED
    BY <1>1, <2>1
<1>5. D(p) = D(n) /\ \A m \in p..n : D(m) >= D(p)
  OBVIOUS
<1>6. ~IsItem(items, n + 1, tag) /\ ~IsItem(items, p, tag)
  BY DEF IsItem
<1> HIDE DEF q, D
<1>7. ASSUME NEW j \in 1..q, \A k \in j..q : D(k) >= D(j), NEW k \in j..(n + 1)
      PROVE  D(k) >= D(j)
  <2>1. D(q) >= D(j) /\ D(j) \in Int /\ D(q) \in Int /\ D(k) \in Int
    BY <1>1, <1>2, <1>7
  <2>2. CASE k \in j..q
    BY <1>7, <2>2
  <2>3. CASE k \in p..n
    BY <1>1, <1>2, <1>4, <1>5, <2>1, <2>3
  <2>4. CASE k = n + 1
    BY <1>1, <1>2, <1>3, <1>4, <1>5, <2>1, <2>4
  <2> QED
    BY <1>1, <2>2, <2>3, <2>4
<1>8. ASSUME NEW j \in 1..(n + 1), j # n + 1, \A k \in j..(n + 1) : D(k) >= D(j)
      PROVE  j \in 1..q
  <2>1. D(n + 1) >= D(j) /\ D(j) \in Int /\ D(n) \in Int
    BY <1>2, <1>8
  <2>2. ~ (j \in p..n)
    BY <1>3, <1>5, <2>1
  <2> QED
    BY <1>1, <1>8, <2>2
<1>9. InForce(items, n + 1, tag) = InForce(items, q, tag)
  <2>1. \A m : InForce(items, m, tag)
          = {j \in 1..m : IsItem(items, j, tag) /\ \A k \in j..m : D(k) >= D(j)}
    BY DEF InForce, D
  <2>2. ASSUME NEW j \in InForce(items, n + 1, tag) PROVE j \in InForce(items, q, tag)
    <3>1. /\ j \in 1..(n + 1) /\ IsItem(items, j, tag)
          /\ \A k \in j..(n + 1) : D(k) >= D(j)
      BY <2>1
    <3>2. j # n + 1
      BY <1>6, <3>1
    <3>3. j \in 1..q
      BY <1>8, <3>1, <3>2
    <3>4. \A k \in j..q : k \in j..(n + 1)
      BY <1>1
    <3> QED
      BY <2>1, <3>1, <3>3, <3>4
  <2>3. ASSUME NEW j \in InForce(items, q, tag) PROVE j \in InForce(items, n + 1, tag)
    <3>1. j \in 1..q /\ IsItem(items, j, tag) /\ \A k \in j..q : D(k) >= D(j)
      BY <2>1
    <3>2. \A k \in j..(n + 1) : D(k) >= D(j)
      BY <1>7, <3>1
    <3>3. j \in 1..(n + 1)
      BY <1>1, <3>1
    <3> QED
      BY <2>1, <3>1, <3>2, <3>3
  <2> QED
    BY <2>2, <2>3
<1>10. GlobalAt(items, (n + 1) + 1, tag) = GlobalAt(items, q + 1, tag)
  <2>1. n + 1 \in Nat
    OBVIOUS
  <2> QED
    BY <1>1, <1>9, <2>1, GlobalInForce
<1> QED
  BY <1>1, <1>10

\* The local items given since the last main item, after one item more.
LEMMA LocalsNext ==
  ASSUME NEW items, NEW n \in Nat, NEW tag,
         items[n + 1].tag = tag => items[n + 1].type # "Main"
  PROVE  /\ LocalsOf(items, n + 1, tag) \subseteq 1..n
         /\ items[n + 1].type = "Main" => LocalsOf(items, (n + 1) + 1, tag) = {}
         /\ items[n + 1].type # "Main" /\ items[n + 1].tag = tag =>
              LocalsOf(items, (n + 1) + 1, tag) = LocalsOf(items, n + 1, tag) \cup {n + 1}
         /\ items[n + 1].type # "Main" /\ items[n + 1].tag # tag =>
              LocalsOf(items, (n + 1) + 1, tag) = LocalsOf(items, n + 1, tag)
<1> DEFINE Given(m) == {j \in 1..m : /\ IsItem(items, j, tag)
                                     /\ \A k \in j..m : items[k].type # "Main"}
<1>1. \A m \in Nat : LocalsOf(items, m + 1, tag) = Given(m)
  <2> TAKE m \in Nat
  <2>1. (m + 1) - 1 = m
    OBVIOUS
  <2> QED
    BY <2>1 DEF LocalsOf, IsMain
<1>2. n + 1 \in Nat /\ Given(n) \subseteq 1..n
  OBVIOUS
<1>3. CASE items[n + 1].type = "Main"
  <2>1. ASSUME NEW j \in Given(n + 1) PROVE FALSE
    <3>1. j \in 1..(n + 1) /\ \A k \in j..(n + 1) : items[k].type # "Main"
      OBVIOUS
    <3>2. n + 1 \in j..(n + 1)
      BY <3>1
    <3> QED
      BY <1>3, <3>1, <3>2
  <2>2. Given(n + 1) = {}
    BY <2>1
  <2> HIDE DEF Given
  <2> QED
    BY <1>1, <1>2, <1>3, <2>2
<1>4. CASE items[n + 1].type # "Main"
  <2>1. \A j \in 1..n : (\A k \in j..n : items[k].type # "Main")
                          <=> (\A k \in j..(n + 1) : items[k].type # "Main")
    <3> TAKE j \in 1..n
    <3>1. \A k \in j..(n + 1) : k \in j..n \/ k = n + 1
      OBVIOUS
    <3>2. \A k \in j..n : k \in j..(n + 1)
      OBVIOUS
    <3> QED
      BY <1>4, <3>1, <3>2
  <2>2. \A k \in (n + 1)..(n + 1) : items[k].type # "Main"
    <3>1. \A k \in (n + 1)..(n + 1) : k = n + 1
      OBVIOUS
    <3> QED
      BY <1>4, <3>1
  <2>3. \A j \in 1..(n + 1) : j \in 1..n \/ j = n + 1
    OBVIOUS
  <2>4. \A j \in 1..n : j \in 1..(n + 1)
    OBVIOUS
  <2>5. ASSUME NEW j
        PROVE  j \in Given(n + 1) <=>
                 j \in Given(n) \/ (j = n + 1 /\ IsItem(items, n + 1, tag))
    BY <2>1, <2>2, <2>3, <2>4
  <2>6. IsItem(items, n + 1, tag) <=> items[n + 1].tag = tag
    BY DEF IsItem
  <2> HIDE DEF Given
  <2>7. Given(n + 1) = IF items[n + 1].tag = tag THEN Given(n) \cup {n + 1} ELSE Given(n)
    BY <2>5, <2>6
  <2> QED
    BY <1>1, <1>2, <1>4, <2>7
<1> QED
  BY <1>3, <1>4

-----------------------------------------------------------------------------
(* The parser's state, told from the items it has read.                    *)

\* The globals in force at item i.
GlobalsAt(items, i) == [t \in GlobalNames |-> GlobalAt(items, i, t)]

\* The globals saved by the Pushes that are open after n items, in their order:
\* each is open since it went that deep.
StackIs(s, items, n) ==
  /\ IsSeq(s) /\ Len(s) = Depth(items, n)
  /\ \A k \in 1..Len(s) : \E p \in 1..n :
       /\ items[p].tag = "Push" /\ Depth(items, p) = k
       /\ \A m \in p..n : Depth(items, m) >= k
       /\ s[k] = GlobalsAt(items, p)

\* The locals given since the last main item among the first n.
LocalsAre(l, items, n) ==
  /\ IsSeq(l.usages) /\ UsagesDeclared(l.usages, items, n + 1)
  /\ l = [usages |-> l.usages,
          usage_minimum |-> LocalAt(items, n + 1, "UsageMinimum"),
          usage_maximum |-> LocalAt(items, n + 1, "UsageMaximum")]

-----------------------------------------------------------------------------
\* Before the first item.
LEMMA NothingDeclared ==
  ASSUME NEW items
  PROVE  /\ GlobalsAt(items, 1) = DefaultGlobals
         /\ StackIs(<< >>, items, 0)
         /\ LocalsAre(DefaultLocals, items, 0)
         /\ ReportsDeclared(<< >>, items, 0)
<1>1. 0 + 1 = 1 /\ 1..0 = {} /\ 1 - 1 = 0
  OBVIOUS
<1>2. \A t : GlobalAt(items, 1, t) = DefaultGlobals[t]
  <2> TAKE t
  <2>1. InForce(items, 0, t) = {}
    BY <1>1 DEF InForce
  <2>2. 0 \in Nat
    OBVIOUS
  <2>3. GlobalAt(items, 0 + 1, t) = DefaultGlobals[t]
    BY <2>1, <2>2, GlobalInForce
  <2> QED
    BY <1>1, <2>3
<1>3. GlobalsAt(items, 1) = DefaultGlobals
  <2>1. DefaultGlobals = [t \in GlobalNames |-> DefaultGlobals[t]]
    BY DEF DefaultGlobals
  <2> QED
    BY <1>2, <2>1 DEF GlobalsAt
<1>4. IsSeq(<< >>) /\ Len(<< >>) = 0
  <2>1. << >> \in Seq(Int) /\ Len(<< >>) = 0
    OBVIOUS
  <2> QED
    BY <2>1 DEF IsSeq
<1>5. StackIs(<< >>, items, 0)
  <2>1. Depth(items, 0) = 0
    <3>1. \A t : Count(items, 0, t) = 0
      BY CountNone
    <3> QED
      BY <3>1 DEF Depth
  <2> QED
    BY <1>1, <1>4, <2>1 DEF StackIs
<1>6. LocalsAre(DefaultLocals, items, 0)
  <2>1. \A t : LocalsOf(items, 0 + 1, t) = {}
    BY <1>1 DEF LocalsOf
  <2>2. \A t : LocalAt(items, 0 + 1, t) = None
    BY <2>1 DEF LocalAt
  <2>3. UsagesDeclared(<< >>, items, 0 + 1)
    BY <1>4, <2>1, FS_EmptySet DEF UsagesDeclared
  <2> QED
    BY <1>4, <2>2, <2>3 DEF LocalsAre, DefaultLocals
<1>7. ReportsDeclared(<< >>, items, 0)
  <2>1. DOMAIN << >> = {}
    OBVIOUS
  <2>2. FieldItems(items, 0) = {}
    BY <1>1 DEF FieldItems
  <2> QED
    BY <2>1, <2>2 DEF ReportsDeclared
<1> QED
  BY <1>3, <1>5, <1>6, <1>7

-----------------------------------------------------------------------------
(* The globals and their stack after one item more.                        *)

\* An item that sets no global and pops nothing.
LEMMA GlobalsKept ==
  ASSUME NEW items, NEW n \in Nat, items[n + 1].tag \notin GlobalNames \cup {"Pop"}
  PROVE  GlobalsAt(items, (n + 1) + 1) = GlobalsAt(items, n + 1)
<1>1. \A t \in GlobalNames : GlobalAt(items, (n + 1) + 1, t) = GlobalAt(items, n + 1, t)
  BY GlobalStays
<1> QED
  BY <1>1 DEF GlobalsAt

\* A global item sets its own global alone.
LEMMA GlobalsOneSet ==
  ASSUME NEW items, NEW n \in Nat, NEW tag \in GlobalNames, items[n + 1].tag = tag
  PROVE  GlobalsAt(items, (n + 1) + 1)
           = [GlobalsAt(items, n + 1) EXCEPT ![tag] = GlobalAt(items, (n + 1) + 1, tag)]
<1>1. tag # "Pop"
  BY DEF GlobalNames
<1>2. \A t \in GlobalNames : t # tag =>
        GlobalAt(items, (n + 1) + 1, t) = GlobalAt(items, n + 1, t)
  BY <1>1, GlobalStays
<1> QED
  BY <1>2 DEF GlobalsAt

\* An item that neither pushes nor pops.
LEMMA StackKept ==
  ASSUME NEW items, NEW n \in Nat, items[n + 1].tag \notin {"Push", "Pop"},
         NEW s, StackIs(s, items, n)
  PROVE  StackIs(s, items, n + 1)
<1>1. Depth(items, n + 1) = Depth(items, n) /\ Depth(items, n) \in Int
  BY DepthNext
<1>2. Len(s) = Depth(items, n)
  BY DEF StackIs
<1>3. ASSUME NEW k \in 1..Len(s)
      PROVE  \E p \in 1..(n + 1) :
               /\ items[p].tag = "Push" /\ Depth(items, p) = k
               /\ \A m \in p..(n + 1) : Depth(items, m) >= k
               /\ s[k] = GlobalsAt(items, p)
  <2>1. PICK p \in 1..n : /\ items[p].tag = "Push" /\ Depth(items, p) = k
                          /\ \A m \in p..n : Depth(items, m) >= k
                          /\ s[k] = GlobalsAt(items, p)
    BY DEF StackIs
  <2>2. Depth(items, n + 1) >= k
    BY <1>1, <1>2
  <2>3. \A m \in p..(n + 1) : m \in p..n \/ m = n + 1
    OBVIOUS
  <2>4. p \in 1..(n + 1)
    OBVIOUS
  <2> QED
    BY <2>1, <2>2, <2>3, <2>4
<1> QED
  BY <1>1, <1>3 DEF StackIs

\* Push saves the globals in force.
LEMMA StackPushed ==
  ASSUME NEW items, NEW n \in Nat, items[n + 1].tag = "Push",
         NEW s, StackIs(s, items, n)
  PROVE  StackIs(Append(s, GlobalsAt(items, n + 1)), items, n + 1)
<1> DEFINE g == GlobalsAt(items, n + 1)
           s2 == Append(s, g)
<1>1. Depth(items, n + 1) = Depth(items, n) + 1 /\ Depth(items, n) \in Int
  BY DepthNext
<1>2. IsSeq(s) /\ Len(s) = Depth(items, n)
  BY DEF StackIs
<1>3. IsSeq(s2) /\ Len(s2) = Len(s) + 1
  BY <1>2, Stacks
<1>4. /\ \A k \in 1..Len(s) : s2[k] = s[k]
      /\ s2[Len(s) + 1] = g /\ Len(s) \in Nat
  <2>1. PICK S : s \in Seq(S)
    BY <1>2 DEF IsSeq
  <2> HIDE DEF g
  <2> QED
    BY <2>1
<1>5. ASSUME NEW k \in 1..Len(s2)
      PROVE  \E p \in 1..(n + 1) :
               /\ items[p].tag = "Push" /\ Depth(items, p) = k
               /\ \A m \in p..(n + 1) : Depth(items, m) >= k
               /\ s2[k] = GlobalsAt(items, p)
  <2> HIDE DEF s2
  <2>1. CASE k = Len(s) + 1
    <3>1. \A m \in (n + 1)..(n + 1) : m = n + 1
      OBVIOUS
    <3>2. n + 1 \in 1..(n + 1)
      OBVIOUS
    <3> QED
      BY <1>1, <1>2, <1>4, <2>1, <3>1, <3>2
  <2>2. CASE k \in 1..Len(s)
    <3>1. PICK p \in 1..n : /\ items[p].tag = "Push" /\ Depth(items, p) = k
                            /\ \A m \in p..n : Depth(items, m) >= k
                            /\ s[k] = GlobalsAt(items, p)
      BY <2>2 DEF StackIs
    <3>2. Depth(items, n + 1) >= k
      BY <1>1, <1>2, <2>2
    <3>3. \A m \in p..(n + 1) : m \in p..n \/ m = n + 1
      OBVIOUS
    <3>4. p \in 1..(n + 1)
      OBVIOUS
    <3>5. s2[k] = s[k]
      BY <1>4, <2>2
    <3> QED
      BY <3>1, <3>2, <3>3, <3>4, <3>5
  <2> QED
    BY <1>3, <1>4, <2>1, <2>2
<1> HIDE DEF s2
<1>6. Len(s2) = Depth(items, n + 1)
  BY <1>1, <1>2, <1>3
<1>7. StackIs(s2, items, n + 1)
  BY <1>3, <1>5, <1>6 DEF StackIs
<1> QED
  BY <1>7 DEF s2

\* Pop puts in force what the last open Push saved.
LEMMA StackPopped ==
  ASSUME NEW items, NEW n \in Nat, items[n + 1].tag = "Pop",
         NEW s, StackIs(s, items, n), s # << >>
  PROVE  /\ StackIs(Front(s), items, n + 1)
         /\ Last(s) = GlobalsAt(items, (n + 1) + 1)
<1> DEFINE s2 == Front(s)
<1>1. Depth(items, n + 1) = Depth(items, n) - 1 /\ Depth(items, n) \in Int
  BY DepthNext
<1>2. IsSeq(s) /\ Len(s) = Depth(items, n)
  BY DEF StackIs
<1>3. IsSeq(s2) /\ Len(s2) = Len(s) - 1 /\ Len(s) \in Nat \ {0}
  BY <1>2, Stacks
<1>4. \A k \in 1..Len(s2) : s2[k] = s[k]
  <2>1. PICK S : s \in Seq(S)
    BY <1>2 DEF IsSeq
  <2> QED
    BY <1>3, <2>1 DEF Front
<1> HIDE DEF s2
<1>5. ASSUME NEW k \in 1..Len(s2)
      PROVE  \E p \in 1..(n + 1) :
               /\ items[p].tag = "Push" /\ Depth(items, p) = k
               /\ \A m \in p..(n + 1) : Depth(items, m) >= k
               /\ s2[k] = GlobalsAt(items, p)
  <2>1. k \in 1..Len(s) /\ k <= Len(s) - 1
    BY <1>3
  <2>2. PICK p \in 1..n : /\ items[p].tag = "Push" /\ Depth(items, p) = k
                          /\ \A m \in p..n : Depth(items, m) >= k
                          /\ s[k] = GlobalsAt(items, p)
    BY <2>1 DEF StackIs
  <2>3. Depth(items, n + 1) >= k
    BY <1>1, <1>2, <2>1
  <2>4. \A m \in p..(n + 1) : m \in p..n \/ m = n + 1
    OBVIOUS
  <2>5. p \in 1..(n + 1)
    OBVIOUS
  <2>6. s2[k] = s[k]
    BY <1>4
  <2> QED
    BY <2>2, <2>3, <2>4, <2>5, <2>6
<1>6. Len(s2) = Depth(items, n + 1)
  BY <1>1, <1>2, <1>3
<1>7. StackIs(s2, items, n + 1)
  BY <1>3, <1>5, <1>6 DEF StackIs
<1>8. Last(s) = GlobalsAt(items, (n + 1) + 1)
  <2>1. Len(s) \in 1..Len(s)
    BY <1>3
  <2>2. PICK p \in 1..n : /\ items[p].tag = "Push" /\ Depth(items, p) = Len(s)
                          /\ \A m \in p..n : Depth(items, m) >= Len(s)
                          /\ s[Len(s)] = GlobalsAt(items, p)
    BY <2>1 DEF StackIs
  <2>3. /\ Depth(items, p) = Depth(items, n)
        /\ \A m \in p..n : Depth(items, m) >= Depth(items, p)
    BY <1>2, <2>2
  <2>4. ASSUME NEW t \in GlobalNames
        PROVE  GlobalAt(items, (n + 1) + 1, t) = GlobalAt(items, p, t)
    <3>1. t \notin {"Push", "Pop"}
      BY DEF GlobalNames
    <3> QED
      BY <2>2, <2>3, <3>1, GlobalRestored
  <2>5. GlobalsAt(items, (n + 1) + 1) = GlobalsAt(items, p)
    BY <2>4 DEF GlobalsAt
  <2> QED
    BY <2>2, <2>5 DEF Last
<1> QED
  BY <1>7, <1>8 DEF s2

-----------------------------------------------------------------------------
(* The locals after one item more.                                         *)

\* The end of a usage range, after one item more.
LEMMA LocalAtNext ==
  ASSUME NEW items, NEW n \in Nat, NEW tag,
         items[n + 1].tag = tag => items[n + 1].type # "Main"
  PROVE  LocalAt(items, (n + 1) + 1, tag) =
           IF items[n + 1].type = "Main" THEN None
           ELSE IF items[n + 1].tag = tag THEN items[n + 1].value
           ELSE LocalAt(items, n + 1, tag)
<1> DEFINE at == LocalsOf(items, n + 1, tag)
           at2 == LocalsOf(items, (n + 1) + 1, tag)
<1>1. /\ at \subseteq 1..n
      /\ items[n + 1].type = "Main" => at2 = {}
      /\ items[n + 1].type # "Main" /\ items[n + 1].tag = tag => at2 = at \cup {n + 1}
      /\ items[n + 1].type # "Main" /\ items[n + 1].tag # tag => at2 = at
  BY LocalsNext, Zenon
<1>2. /\ LocalAt(items, n + 1, tag) = IF at = {} THEN None ELSE items[Highest(at)].value
      /\ LocalAt(items, (n + 1) + 1, tag)
           = IF at2 = {} THEN None ELSE items[Highest(at2)].value
  BY DEF LocalAt
<1> HIDE DEF at, at2
<1>3. CASE items[n + 1].type = "Main"
  BY <1>1, <1>2, <1>3
<1>4. CASE items[n + 1].type # "Main" /\ items[n + 1].tag = tag
  <2>1. at2 = at \cup {n + 1}
    BY <1>1, <1>4
  <2>2. at2 \subseteq Int /\ n + 1 \in at2 /\ \A y \in at2 : y <= n + 1
    <3>1. \A y \in 1..n : y \in Int /\ y <= n + 1
      OBVIOUS
    <3>2. n + 1 \in Int /\ n + 1 <= n + 1
      OBVIOUS
    <3> QED
      BY <1>1, <2>1, <3>1, <3>2
  <2>3. Highest(at2) = n + 1
    BY <2>2, HighestIs
  <2>4. at2 # {}
    BY <2>1
  <2> QED
    BY <1>2, <1>4, <2>3, <2>4
<1>5. CASE items[n + 1].type # "Main" /\ items[n + 1].tag # tag
  BY <1>1, <1>2, <1>5
<1> QED
  BY <1>3, <1>4, <1>5

\* The usages, after an item that is none.
LEMMA UsagesKept ==
  ASSUME NEW items, NEW n \in Nat, items[n + 1].type # "Main",
         items[n + 1].tag # "Usage",
         NEW usages, UsagesDeclared(usages, items, n + 1)
  PROVE  UsagesDeclared(usages, items, (n + 1) + 1)
<1>1. LocalsOf(items, (n + 1) + 1, "Usage") = LocalsOf(items, n + 1, "Usage")
  <2>1. items[n + 1].tag = "Usage" => items[n + 1].type # "Main"
    OBVIOUS
  <2> QED
    BY <2>1, LocalsNext, Zenon
<1> QED
  BY <1>1 DEF UsagesDeclared

\* A usage goes to the end of them, with the page in force where it is given.
LEMMA UsageAppended ==
  ASSUME NEW items, NEW n \in Nat, items[n + 1].type # "Main",
         items[n + 1].tag = "Usage",
         NEW usages, IsSeq(usages), UsagesDeclared(usages, items, n + 1)
  PROVE  UsagesDeclared(Append(usages, UsageAt(items, n + 1, items[n + 1].value)),
                        items, (n + 1) + 1)
<1> DEFINE at == LocalsOf(items, n + 1, "Usage")
           at2 == LocalsOf(items, (n + 1) + 1, "Usage")
           u == UsageAt(items, n + 1, items[n + 1].value)
           usages2 == Append(usages, u)
<1>1. at \subseteq 1..n /\ at2 = at \cup {n + 1}
  <2>1. items[n + 1].tag = "Usage" => items[n + 1].type # "Main"
    OBVIOUS
  <2> QED
    BY <2>1, LocalsNext, Zenon
<1>2. /\ Len(usages) = Cardinality(at)
      /\ \A j \in at : usages[Place(at, j)] = UsageAt(items, j, items[j].value)
  BY DEF UsagesDeclared
<1> HIDE DEF at, at2, u
<1>3. /\ Cardinality(at) \in Nat
      /\ Cardinality(at2) = Cardinality(at) + 1
      /\ Place(at2, n + 1) = Cardinality(at) + 1
      /\ \A j \in at : /\ Place(at2, j) = Place(at, j)
                       /\ Place(at, j) \in 1..Cardinality(at)
  BY <1>1, PlaceNext
<1>4. /\ Len(usages2) = Len(usages) + 1 /\ usages2[Len(usages) + 1] = u
      /\ \A k \in 1..Len(usages) : usages2[k] = usages[k]
  <2>1. PICK S : usages \in Seq(S)
    BY DEF IsSeq
  <2> QED
    BY <2>1
<1> HIDE DEF usages2
<1>5. Len(usages2) = Cardinality(at2)
  BY <1>2, <1>3, <1>4
<1>6. ASSUME NEW j \in at2
      PROVE  usages2[Place(at2, j)] = UsageAt(items, j, items[j].value)
  <2>1. CASE j = n + 1
    BY <1>2, <1>3, <1>4, <2>1 DEF u
  <2>2. CASE j \in at
    BY <1>2, <1>3, <1>4, <2>2
  <2> QED
    BY <1>1, <2>1, <2>2
<1>7. UsagesDeclared(usages2, items, (n + 1) + 1)
  BY <1>5, <1>6 DEF UsagesDeclared, at2
<1> QED
  BY <1>7 DEF usages2, u

\* A main item takes the locals: the next one starts without any.
LEMMA LocalsCleared ==
  ASSUME NEW items, NEW n \in Nat, items[n + 1] \in Calls, items[n + 1].type = "Main"
  PROVE  LocalsAre(DefaultLocals, items, n + 1)
<1>1. items[n + 1].tag \notin {"Usage", "UsageMinimum", "UsageMaximum"}
  BY TypeOfTag DEF MainTag
<1>2. /\ LocalAt(items, (n + 1) + 1, "UsageMinimum") = None
      /\ LocalAt(items, (n + 1) + 1, "UsageMaximum") = None
  BY <1>1, LocalAtNext
<1>3. LocalsOf(items, (n + 1) + 1, "Usage") = {}
  BY <1>1, LocalsNext
<1>4. IsSeq(<< >>) /\ Len(<< >>) = 0
  <2>1. << >> \in Seq(Int) /\ Len(<< >>) = 0
    OBVIOUS
  <2> QED
    BY <2>1 DEF IsSeq
<1>5. UsagesDeclared(<< >>, items, (n + 1) + 1)
  BY <1>3, <1>4, FS_EmptySet DEF UsagesDeclared
<1> QED
  BY <1>2, <1>4, <1>5 DEF LocalsAre, DefaultLocals

\* A local item, or an item that is neither local nor main: the locals follow.
LEMMA LocalsFollow ==
  ASSUME NEW items, NEW n \in Nat, items[n + 1].type # "Main",
         NEW l, LocalsAre(l, items, n)
  PROVE  LET c == items[n + 1]
         IN LocalsAre(CASE c.tag = "Usage" ->
                             [l EXCEPT !.usages = Append(@, UsageAt(items, n + 1, c.value))]
                        [] c.tag = "UsageMinimum" -> [l EXCEPT !.usage_minimum = c.value]
                        [] c.tag = "UsageMaximum" -> [l EXCEPT !.usage_maximum = c.value]
                        [] OTHER -> l,
                      items, n + 1)
<1> DEFINE c == items[n + 1]
           us == l.usages
           lo(m) == LocalAt(items, m, "UsageMinimum")
           hi(m) == LocalAt(items, m, "UsageMaximum")
<1>1. /\ IsSeq(us) /\ UsagesDeclared(us, items, n + 1)
      /\ l = [usages |-> us, usage_minimum |-> lo(n + 1), usage_maximum |-> hi(n + 1)]
  BY DEF LocalsAre
<1>2. /\ lo((n + 1) + 1) = IF c.tag = "UsageMinimum" THEN c.value ELSE lo(n + 1)
      /\ hi((n + 1) + 1) = IF c.tag = "UsageMaximum" THEN c.value ELSE hi(n + 1)
  BY LocalAtNext
<1> DEFINE us2 == IF c.tag = "Usage" THEN Append(us, UsageAt(items, n + 1, c.value)) ELSE us
<1>3. IsSeq(us2) /\ UsagesDeclared(us2, items, (n + 1) + 1)
  <2>1. CASE c.tag = "Usage"
    <3>1. UsagesDeclared(Append(us, UsageAt(items, n + 1, c.value)), items, (n + 1) + 1)
      BY <1>1, <2>1, UsageAppended
    <3>2. IsSeq(Append(us, UsageAt(items, n + 1, c.value)))
      BY <1>1, Stacks
    <3> QED
      BY <2>1, <3>1, <3>2
  <2>2. CASE c.tag # "Usage"
    BY <1>1, <2>2, UsagesKept
  <2> QED
    BY <2>1, <2>2
<1> DEFINE l2 == CASE c.tag = "Usage" ->
                        [l EXCEPT !.usages = Append(@, UsageAt(items, n + 1, c.value))]
                   [] c.tag = "UsageMinimum" -> [l EXCEPT !.usage_minimum = c.value]
                   [] c.tag = "UsageMaximum" -> [l EXCEPT !.usage_maximum = c.value]
                   [] OTHER -> l
           is2 == [usages |-> us2, usage_minimum |-> lo((n + 1) + 1),
                   usage_maximum |-> hi((n + 1) + 1)]
<1>4. l2 = is2
  <2>1. \A x, y, z, e :
          /\ [[usages |-> x, usage_minimum |-> y, usage_maximum |-> z] EXCEPT !.usages = e]
               = [usages |-> e, usage_minimum |-> y, usage_maximum |-> z]
          /\ [[usages |-> x, usage_minimum |-> y, usage_maximum |-> z] EXCEPT !.usage_minimum = e]
               = [usages |-> x, usage_minimum |-> e, usage_maximum |-> z]
          /\ [[usages |-> x, usage_minimum |-> y, usage_maximum |-> z] EXCEPT !.usage_maximum = e]
               = [usages |-> x, usage_minimum |-> y, usage_maximum |-> e]
    OBVIOUS
  <2> HIDE DEF c, us, lo, hi
  <2>2. CASE c.tag = "Usage"
    <3>1. l2 = [l EXCEPT !.usages = Append(us, UsageAt(items, n + 1, c.value))]
      BY <2>2 DEF us
    <3> QED
      BY <1>1, <1>2, <2>1, <2>2, <3>1
  <2>3. CASE c.tag = "UsageMinimum"
    BY <1>1, <1>2, <2>1, <2>3
  <2>4. CASE c.tag = "UsageMaximum"
    BY <1>1, <1>2, <2>1, <2>4
  <2>5. CASE c.tag \notin {"Usage", "UsageMinimum", "UsageMaximum"}
    BY <1>1, <1>2, <2>5
  <2> QED
    BY <2>2, <2>3, <2>4, <2>5
<1>5. LocalsAre(is2, items, n + 1)
  <2> HIDE DEF us2, lo, hi
  <2>1. is2.usages = us2
    OBVIOUS
  <2> QED
    BY <1>3, <2>1 DEF LocalsAre, lo, hi
<1> QED
  BY <1>4, <1>5

-----------------------------------------------------------------------------
(* The reports after one item more.                                        *)

\* An item that makes no field.
LEMMA ReportsKept ==
  ASSUME NEW items, NEW n \in Nat, items[n + 1].tag \notin Kinds,
         NEW rs, ReportsDeclared(rs, items, n)
  PROVE  ReportsDeclared(rs, items, n + 1)
<1>1. FieldItems(items, n + 1) = FieldItems(items, n)
  <2>1. \A i : i \in 1..(n + 1) <=> i \in 1..n \/ i = n + 1
    OBVIOUS
  <2> QED
    BY <2>1 DEF FieldItems
<1>2. \A key : FieldItemsOf(items, n + 1, key) = FieldItemsOf(items, n, key)
  BY <1>1 DEF FieldItemsOf
<1> QED
  BY <1>1, <1>2 DEF ReportsDeclared

\* An item that makes a field makes it for the report of its key.
LEMMA FieldItemsNext ==
  ASSUME NEW items, NEW n \in Nat, items[n + 1].tag \in Kinds
  PROVE  /\ FieldItems(items, n + 1) = FieldItems(items, n) \cup {n + 1}
         /\ \A key : /\ FieldItemsOf(items, n, key) \subseteq 1..n
                     /\ FieldItemsOf(items, n + 1, key) =
                          IF key = KeyAt(items, n + 1)
                          THEN FieldItemsOf(items, n, key) \cup {n + 1}
                          ELSE FieldItemsOf(items, n, key)
<1>1. FieldItems(items, n + 1) = FieldItems(items, n) \cup {n + 1}
  <2>1. \A i : i \in 1..(n + 1) <=> i \in 1..n \/ i = n + 1
    OBVIOUS
  <2> QED
    BY <2>1 DEF FieldItems
<1> QED
  BY <1>1 DEF FieldItemsOf, FieldItems

\* The fields of one report, with one more.
LEMMA FieldsExtended ==
  ASSUME NEW items, NEW n \in Nat, NEW at, at \subseteq 1..n,
         NEW fs, IsSeq(fs), Len(fs) = Cardinality(at),
         \A i \in at : Declares(items, i, fs[Place(at, i)]),
         NEW f, Declares(items, n + 1, f)
  PROVE  /\ Len(Append(fs, f)) = Cardinality(at \cup {n + 1})
         /\ \A i \in at \cup {n + 1} :
              Declares(items, i, Append(fs, f)[Place(at \cup {n + 1}, i)])
<1> DEFINE at2 == at \cup {n + 1}
           fs2 == Append(fs, f)
<1>1. /\ Cardinality(at) \in Nat
      /\ Cardinality(at2) = Cardinality(at) + 1
      /\ Place(at2, n + 1) = Cardinality(at) + 1
      /\ \A j \in at : /\ Place(at2, j) = Place(at, j)
                       /\ Place(at, j) \in 1..Cardinality(at)
  BY PlaceNext
<1>2. /\ Len(fs2) = Len(fs) + 1 /\ fs2[Len(fs) + 1] = f
      /\ \A k \in 1..Len(fs) : fs2[k] = fs[k]
  <2>1. PICK S : fs \in Seq(S)
    BY DEF IsSeq
  <2> QED
    BY <2>1
<1> HIDE DEF fs2
<1>3. ASSUME NEW i \in at2 PROVE Declares(items, i, fs2[Place(at2, i)])
  <2>1. CASE i = n + 1
    BY <1>1, <1>2, <2>1
  <2>2. CASE i \in at
    BY <1>1, <1>2, <2>2
  <2> QED
    BY <2>1, <2>2
<1>4. Len(fs2) = Cardinality(at2)
  BY <1>1, <1>2
<1> QED
  BY <1>3, <1>4 DEF fs2

\* A field of a report that was not there.
LEMMA ReportMade ==
  ASSUME NEW items, NEW n \in Nat, items[n + 1].tag \in Kinds,
         NEW rs, IsSeq(rs), ReportsDeclared(rs, items, n),
         NEW f, Declares(items, n + 1, f),
         NEW r, KeyOf(r) = KeyAt(items, n + 1), r.fields = <<f>>,
         \A i \in DOMAIN rs : KeyOf(rs[i]) # KeyOf(r)
  PROVE  ReportsDeclared(Append(rs, r), items, n + 1)
<1> DEFINE key == KeyAt(items, n + 1)
           At(k) == FieldItemsOf(items, n, k)
           At2(k) == FieldItemsOf(items, n + 1, k)
           Keys(m) == {KeyAt(items, i) : i \in FieldItems(items, m)}
           rs2 == Append(rs, r)
<1>1. /\ {KeyOf(rs[i]) : i \in DOMAIN rs} = Keys(n)
      /\ \A i \in DOMAIN rs :
           /\ Len(rs[i].fields) = Cardinality(At(KeyOf(rs[i])))
           /\ \A j \in At(KeyOf(rs[i])) :
                Declares(items, j, rs[i].fields[Place(At(KeyOf(rs[i])), j)])
  BY DEF ReportsDeclared
<1>2. /\ Keys(n + 1) = Keys(n) \cup {key}
      /\ \A k : At(k) \subseteq 1..n /\ At2(k) = IF k = key THEN At(k) \cup {n + 1} ELSE At(k)
  <2>1. FieldItems(items, n + 1) = FieldItems(items, n) \cup {n + 1}
    BY FieldItemsNext
  <2>2. Keys(n + 1) = Keys(n) \cup {key}
    BY <2>1
  <2>3. \A k : At(k) \subseteq 1..n /\ At2(k) = IF k = key THEN At(k) \cup {n + 1} ELSE At(k)
    BY FieldItemsNext, Zenon
  <2> QED
    BY <2>2, <2>3
<1>3. At(key) = {}
  BY <1>1 DEF FieldItemsOf
<1>4. /\ DOMAIN rs2 = DOMAIN rs \cup {Len(rs) + 1}
      /\ rs2[Len(rs) + 1] = r
      /\ \A i \in DOMAIN rs : rs2[i] = rs[i]
  <2>1. PICK S : rs \in Seq(S)
    BY DEF IsSeq
  <2> QED
    BY <2>1
<1> HIDE DEF rs2, At, At2, Keys, key
<1>5. {KeyOf(rs2[i]) : i \in DOMAIN rs2} = Keys(n + 1)
  BY <1>1, <1>2, <1>4 DEF key
<1>6. ASSUME NEW i \in DOMAIN rs2
      PROVE  LET fs == rs2[i].fields
             IN /\ Len(fs) = Cardinality(At2(KeyOf(rs2[i])))
                /\ \A j \in At2(KeyOf(rs2[i])) :
                     Declares(items, j, fs[Place(At2(KeyOf(rs2[i])), j)])
  <2>1. CASE i \in DOMAIN rs
    BY <1>1, <1>2, <1>4, <2>1 DEF key
  <2>2. CASE i = Len(rs) + 1
    <3> DEFINE no == << >>  one == <<f>>
    <3>1. IsSeq(no) /\ Len(no) = Cardinality({}) /\ Append(no, f) = one
      <4>1. << >> \in Seq(Int) /\ Len(<< >>) = 0 /\ Append(<< >>, f) = <<f>>
        OBVIOUS
      <4> QED
        BY <4>1, FS_EmptySet DEF IsSeq
    <3>2. {} \subseteq 1..n /\ {} \cup {n + 1} = {n + 1}
      OBVIOUS
    <3> HIDE DEF no, one
    <3>3. /\ Len(Append(no, f)) = Cardinality({} \cup {n + 1})
          /\ \A j \in {} \cup {n + 1} :
               Declares(items, j, Append(no, f)[Place({} \cup {n + 1}, j)])
      BY <3>1, <3>2, FieldsExtended
    <3>4. At2(KeyOf(rs2[i])) = {n + 1} /\ rs2[i].fields = one
      BY <1>2, <1>3, <1>4, <2>2 DEF key, one
    <3> QED
      BY <3>1, <3>2, <3>3, <3>4
  <2> QED
    BY <1>4, <2>1, <2>2
<1>7. ReportsDeclared(rs2, items, n + 1)
  BY <1>5, <1>6 DEF ReportsDeclared, At2, Keys
<1> QED
  BY <1>7 DEF rs2

\* A further field of a report.
LEMMA ReportExtended ==
  ASSUME NEW items, NEW n \in Nat, items[n + 1].tag \in Kinds,
         NEW D, NEW F, NEW rs \in Seq(ReportsOf(D, F)), ReportsDeclared(rs, items, n),
         \A i, j \in DOMAIN rs : KeyOf(rs[i]) = KeyOf(rs[j]) => i = j,
         NEW f, Declares(items, n + 1, f),
         NEW m \in DOMAIN rs, KeyOf(rs[m]) = KeyAt(items, n + 1)
  PROVE  ReportsDeclared([rs EXCEPT ![m].fields = Append(@, f)], items, n + 1)
<1> DEFINE key == KeyAt(items, n + 1)
           At(k) == FieldItemsOf(items, n, k)
           At2(k) == FieldItemsOf(items, n + 1, k)
           Keys(k) == {KeyAt(items, i) : i \in FieldItems(items, k)}
           rs2 == [rs EXCEPT ![m].fields = Append(@, f)]
<1>1. /\ {KeyOf(rs[i]) : i \in DOMAIN rs} = Keys(n)
      /\ \A i \in DOMAIN rs :
           /\ Len(rs[i].fields) = Cardinality(At(KeyOf(rs[i])))
           /\ \A j \in At(KeyOf(rs[i])) :
                Declares(items, j, rs[i].fields[Place(At(KeyOf(rs[i])), j)])
  BY DEF ReportsDeclared
<1>2. /\ Keys(n + 1) = Keys(n) \cup {key}
      /\ \A k : At(k) \subseteq 1..n /\ At2(k) = IF k = key THEN At(k) \cup {n + 1} ELSE At(k)
  <2>1. FieldItems(items, n + 1) = FieldItems(items, n) \cup {n + 1}
    BY FieldItemsNext
  <2>2. Keys(n + 1) = Keys(n) \cup {key}
    BY <2>1
  <2>3. \A k : At(k) \subseteq 1..n /\ At2(k) = IF k = key THEN At(k) \cup {n + 1} ELSE At(k)
    BY FieldItemsNext, Zenon
  <2> QED
    BY <2>2, <2>3
<1>3. rs[m] \in [kind : Kinds, report_id : D, fields : Seq(F)]
  <2>1. rs[m] \in ReportsOf(D, F)
    OBVIOUS
  <2> QED
    BY <2>1 DEF ReportsOf
<1>4. IsSeq(rs[m].fields)
  BY <1>3 DEF IsSeq
<1>5. /\ DOMAIN rs2 = DOMAIN rs
      /\ \A i \in DOMAIN rs : i # m => rs2[i] = rs[i]
      /\ KeyOf(rs2[m]) = KeyOf(rs[m]) /\ rs2[m].fields = Append(rs[m].fields, f)
  <2>1. \A e : [rs[m] EXCEPT !.fields = e]
                 = [kind |-> rs[m].kind, report_id |-> rs[m].report_id, fields |-> e]
    BY <1>3
  <2>2. rs2 = [rs EXCEPT ![m] = [rs[m] EXCEPT !.fields = Append(rs[m].fields, f)]]
    OBVIOUS
  <2>3. rs2[m] = [kind |-> rs[m].kind, report_id |-> rs[m].report_id,
                  fields |-> Append(rs[m].fields, f)]
    BY <2>1, <2>2
  <2>4. DOMAIN rs2 = DOMAIN rs /\ \A i \in DOMAIN rs : i # m => rs2[i] = rs[i]
    OBVIOUS
  <2> HIDE DEF rs2
  <2> QED
    BY <2>3, <2>4 DEF KeyOf
<1> HIDE DEF rs2, At, At2, Keys, key
<1>6. {KeyOf(rs2[i]) : i \in DOMAIN rs2} = Keys(n + 1)
  <2>1. key \in Keys(n)
    BY <1>1 DEF key
  <2>2. \A i \in DOMAIN rs : KeyOf(rs2[i]) = KeyOf(rs[i])
    BY <1>5
  <2> QED
    BY <1>1, <1>2, <1>5, <2>1, <2>2
<1>7. ASSUME NEW i \in DOMAIN rs2
      PROVE  LET fs == rs2[i].fields
             IN /\ Len(fs) = Cardinality(At2(KeyOf(rs2[i])))
                /\ \A j \in At2(KeyOf(rs2[i])) :
                     Declares(items, j, fs[Place(At2(KeyOf(rs2[i])), j)])
  <2>1. CASE i # m
    <3>1. rs2[i] = rs[i] /\ i \in DOMAIN rs /\ KeyOf(rs[i]) # key
      BY <1>5, <2>1 DEF key
    <3> QED
      BY <1>1, <1>2, <3>1
  <2>2. CASE i = m
    <3>1. At2(KeyOf(rs2[i])) = At(key) \cup {n + 1} /\ rs2[i].fields = Append(rs[m].fields, f)
      BY <1>2, <1>5, <2>2 DEF key
    <3>2. /\ At(key) \subseteq 1..n
          /\ Len(rs[m].fields) = Cardinality(At(key))
          /\ \A j \in At(key) : Declares(items, j, rs[m].fields[Place(At(key), j)])
      BY <1>1, <1>2 DEF key
    <3>3. /\ Len(Append(rs[m].fields, f)) = Cardinality(At(key) \cup {n + 1})
          /\ \A j \in At(key) \cup {n + 1} :
               Declares(items, j, Append(rs[m].fields, f)[Place(At(key) \cup {n + 1}, j)])
      BY <1>4, <3>2, FieldsExtended
    <3> QED
      BY <3>1, <3>3
  <2> QED
    BY <2>1, <2>2
<1>8. ReportsDeclared(rs2, items, n + 1)
  BY <1>6, <1>7 DEF ReportsDeclared, At2, Keys
<1> QED
  BY <1>8 DEF rs2

-----------------------------------------------------------------------------
(* FieldsAsDeclared.                                                       *)

\* The parser's state is what the first n of the items tell.
Told(items, n) ==
  /\ globals = GlobalsAt(items, n + 1)
  /\ StackIs(global_stack, items, n)
  /\ LocalsAre(locals, items, n)
  /\ ReportsDeclared(reports, items, n)

FieldsInv ==
  /\ TileInv
  /\ FieldsAsDeclared
  /\ input.source.of = "stream" /\ status = "parsing" =>
       \E n : HasRead(n) /\ Told(input.source.items, n)

\* The parser sees item c for what it is, and its value.
Sees(c) ==
  /\ c \in Calls
  /\ \A t \in DOMAIN GlobalTag : HasTag(item, "Global", t) <=> c.tag = t
  /\ \A t \in DOMAIN LocalTag : HasTag(item, "Local", t) <=> c.tag = t
  /\ \A t \in DOMAIN MainTag : HasTag(item, "Main", t) <=> c.tag = t
  /\ c.type \notin {"Long", "Reserved"} /\ c.tag \notin Plain =>
       /\ c.tag \in SignedTags => Signed(item) = c.value
       /\ c.tag \notin SignedTags => Unsigned(item) = c.value

\* Which tags are of which type.
LEMMA TagGroups ==
  /\ GlobalNames \subseteq DOMAIN GlobalTag /\ {"Push", "Pop"} \subseteq DOMAIN GlobalTag
  /\ {"Push", "Pop"} \cap GlobalNames = {}
  /\ {"Usage", "UsageMinimum", "UsageMaximum"} \subseteq DOMAIN LocalTag
  /\ Kinds \subseteq DOMAIN MainTag
  /\ {"Collection", "EndCollection"} \subseteq DOMAIN MainTag \ Kinds
  /\ DOMAIN GlobalTag \cap DOMAIN LocalTag = {}
  /\ DOMAIN GlobalTag \cap DOMAIN MainTag = {}
  /\ DOMAIN LocalTag \cap DOMAIN MainTag = {}
  /\ SignedTags \subseteq GlobalNames /\ {"UsagePage", "ReportId"} \subseteq GlobalNames \ SignedTags
  /\ Plain \cap (GlobalNames \cup DOMAIN LocalTag \cup Kinds) = {}
BY DEF GlobalNames, GlobalTag, LocalTag, MainTag, Kinds, SignedTags, Plain

\* The next item of a stream, lexed.
LEMMA NextSeen ==
  ASSUME NEW n, HasRead(n), Lexed
  PROVE  /\ n \in Nat /\ Sees(input.source.items[n + 1])
         /\ rest' = item.after /\ input' = input => HasRead(n + 1)'
<1> DEFINE c == input.source.items[n + 1]
<1>1. /\ n \in Nat /\ c \in Calls /\ Starts(rest, EncodeItem(c)) /\ ~Truncated(rest)
      /\ rest' = item.after /\ input' = input => HasRead(n + 1)'
  BY ReadsNext
<1> HIDE DEF c
<1>2. /\ \A t \in DOMAIN GlobalTag : HasTag(item, "Global", t) <=> c.type = "Global" /\ c.tag = t
      /\ \A t \in DOMAIN LocalTag : HasTag(item, "Local", t) <=> c.type = "Local" /\ c.tag = t
      /\ \A t \in DOMAIN MainTag : HasTag(item, "Main", t) <=> c.type = "Main" /\ c.tag = t
  BY <1>1, LexTag DEF item
<1>3. /\ c.type = "Global" <=> c.tag \in DOMAIN GlobalTag
      /\ c.type = "Local" <=> c.tag \in DOMAIN LocalTag
      /\ c.type = "Main" <=> c.tag \in DOMAIN MainTag
  BY <1>1, TypeOfTag
<1>4. c.type \notin {"Long", "Reserved"} /\ c.tag \notin Plain =>
        /\ c.tag \in SignedTags => Signed(item) = c.value
        /\ c.tag \notin SignedTags => Unsigned(item) = c.value
  BY <1>1, LexValue DEF item
<1>5. Sees(c)
  BY <1>1, <1>2, <1>3, <1>4 DEF Sees
<1> QED
  BY <1>1, <1>5 DEF c

\* A parser that goes on: what it knew of n items, it knows of one more.
LEMMA TellsOn ==
  ASSUME FieldsInv, TileInv', Lexed, rest' = item.after, UNCHANGED <<input, status>>,
         \A items : \A n \in Nat :
           Told(items, n) /\ Sees(items[n + 1]) => Told(items, n + 1)'
  PROVE  FieldsInv'
<1>1. status = "parsing" /\ status' = "parsing"
  BY DEF Lexed
<1>2. FieldsAsDeclared'
  BY <1>1 DEF FieldsAsDeclared
<1>3. ASSUME input.source.of = "stream"
      PROVE  \E n : HasRead(n)' /\ Told(input.source.items, n)'
  <2>1. PICK n : HasRead(n) /\ Told(input.source.items, n)
    BY <1>1, <1>3 DEF FieldsInv
  <2>2. n \in Nat /\ Sees(input.source.items[n + 1]) /\ HasRead(n + 1)'
    BY <2>1, NextSeen
  <2>3. PICK items : items = input.source.items
    OBVIOUS
  <2>4. Told(items, n) /\ Sees(items[n + 1])
    BY <2>1, <2>2, <2>3
  <2>5. Told(items, n + 1)'
    BY <2>2, <2>4
  <2>6. Told(input.source.items, n + 1)'
    <3>1. items = input'.source.items
      BY <2>3
    <3> QED
      BY <2>5, <3>1 DEF Told
  <2> QED
    BY <2>2, <2>6
<1> QED
  BY <1>1, <1>2, <1>3 DEF FieldsInv

-----------------------------------------------------------------------------
(* One lemma for each way the parser treats an item.                       *)

\* An unknown item, or one that is not short: nothing changes.
LEMMA SkipTells ==
  ASSUME FieldsInv, TileInv', SkipItem PROVE FieldsInv'
<1>1. /\ Lexed /\ ~Known /\ rest' = item.after
      /\ UNCHANGED <<input, status, globals, global_stack, locals, reports>>
  BY DEF SkipItem, parsed
<1>2. ASSUME NEW items, NEW n \in Nat, Told(items, n), Sees(items[n + 1])
      PROVE  Told(items, n + 1)'
  <2> DEFINE c == items[n + 1]
  <2>1. c.tag \notin DOMAIN GlobalTag \cup DOMAIN LocalTag \cup DOMAIN MainTag
    BY <1>1, <1>2 DEF Known, Sees
  <2>2. c \in Calls /\ c.type # "Main"
    BY <1>2, <2>1, TypeOfTag DEF Sees
  <2>3. /\ c.tag \notin GlobalNames \cup {"Pop", "Push"} /\ c.tag \notin Kinds
        /\ c.tag \notin {"Usage", "UsageMinimum", "UsageMaximum"}
    BY <2>1, TagGroups
  <2>4. GlobalsAt(items, (n + 1) + 1) = GlobalsAt(items, n + 1)
    BY <2>3, GlobalsKept
  <2>5. StackIs(global_stack, items, n + 1)
    BY <1>2, <2>3, StackKept DEF Told
  <2>6. LocalsAre(locals, items, n + 1)
    BY <1>2, <2>2, <2>3, LocalsFollow DEF Told
  <2>7. ReportsDeclared(reports, items, n + 1)
    BY <1>2, <2>3, ReportsKept DEF Told
  <2> QED
    BY <1>1, <1>2, <2>4, <2>5, <2>6, <2>7 DEF Told
<1> QED
  BY <1>1, <1>2, TellsOn

\* A global item leaves the locals and the reports, Push and Pop do too.
LEMMA GlobalLeaves ==
  ASSUME NEW items, NEW n \in Nat, Told(items, n), Sees(items[n + 1]),
         items[n + 1].tag \in DOMAIN GlobalTag
  PROVE  LocalsAre(locals, items, n + 1) /\ ReportsDeclared(reports, items, n + 1)
<1> DEFINE c == items[n + 1]
<1>1. c \in Calls /\ c.type # "Main"
  <2>1. c \in Calls
    BY DEF Sees
  <2> QED
    BY <2>1, TypeOfTag, TagGroups
<1>2. c.tag \notin Kinds /\ c.tag \notin {"Usage", "UsageMinimum", "UsageMaximum"}
  BY TagGroups
<1>3. LocalsAre(locals, items, n + 1)
  BY <1>1, <1>2, LocalsFollow DEF Told
<1>4. ReportsDeclared(reports, items, n + 1)
  BY <1>2, ReportsKept DEF Told
<1> QED
  BY <1>3, <1>4

\* A local item leaves the globals, their stack and the reports.
LEMMA LocalLeaves ==
  ASSUME NEW items, NEW n \in Nat, Told(items, n), Sees(items[n + 1]),
         items[n + 1].tag \in DOMAIN LocalTag
  PROVE  /\ GlobalsAt(items, (n + 1) + 1) = GlobalsAt(items, n + 1)
         /\ StackIs(global_stack, items, n + 1)
         /\ ReportsDeclared(reports, items, n + 1)
<1> DEFINE c == items[n + 1]
<1>1. c.tag \notin GlobalNames \cup {"Pop", "Push"} /\ c.tag \notin Kinds
  BY TagGroups
<1>2. GlobalsAt(items, (n + 1) + 1) = GlobalsAt(items, n + 1)
  BY <1>1, GlobalsKept
<1>3. StackIs(global_stack, items, n + 1)
  BY <1>1, StackKept DEF Told
<1>4. ReportsDeclared(reports, items, n + 1)
  BY <1>1, ReportsKept DEF Told
<1> QED
  BY <1>2, <1>3, <1>4

\* A main item takes the locals and leaves the globals and their stack.
LEMMA MainLeaves ==
  ASSUME NEW items, NEW n \in Nat, Told(items, n), Sees(items[n + 1]),
         items[n + 1].tag \in DOMAIN MainTag
  PROVE  /\ GlobalsAt(items, (n + 1) + 1) = GlobalsAt(items, n + 1)
         /\ StackIs(global_stack, items, n + 1)
         /\ LocalsAre(DefaultLocals, items, n + 1)
<1> DEFINE c == items[n + 1]
<1>1. c.tag \notin GlobalNames \cup {"Pop", "Push"}
  BY TagGroups
<1>2. GlobalsAt(items, (n + 1) + 1) = GlobalsAt(items, n + 1)
  BY <1>1, GlobalsKept
<1>3. StackIs(global_stack, items, n + 1)
  BY <1>1, StackKept DEF Told
<1>4. c \in Calls /\ c.type = "Main"
  <2>1. c \in Calls
    BY DEF Sees
  <2> QED
    BY <2>1, TypeOfTag
<1>5. LocalsAre(DefaultLocals, items, n + 1)
  BY <1>4, LocalsCleared
<1> QED
  BY <1>2, <1>3, <1>5

\* A global item sets its global to what the item says.
LEMMA GlobalItemTells ==
  ASSUME FieldsInv, TileInv', GlobalItem PROVE FieldsInv'
<1>1. /\ Lexed /\ rest' = item.after
      /\ UNCHANGED <<input, status, global_stack, locals, reports>>
  BY DEF GlobalItem, parsed
<1>2. PICK t \in GlobalNames : /\ HasTag(item, "Global", t)
                               /\ globals' = [globals EXCEPT ![t] = GlobalValue(t)]
  BY DEF GlobalItem
<1>3. ASSUME NEW items, NEW n \in Nat, Told(items, n), Sees(items[n + 1])
      PROVE  Told(items, n + 1)'
  <2> DEFINE c == items[n + 1]
  <2>1. t \in DOMAIN GlobalTag /\ t \notin Plain /\ t \notin {"Push", "Pop"}
    BY TagGroups
  <2>2. c.tag = t /\ c \in Calls
    BY <1>2, <1>3, <2>1 DEF Sees
  <2>3. c.type = "Global"
    BY <2>1, <2>2, TypeOfTag
  <2>4. /\ t \in SignedTags => Signed(item) = c.value
        /\ t \notin SignedTags => Unsigned(item) = c.value
    BY <1>3, <2>1, <2>2, <2>3 DEF Sees
  <2>5. GlobalAt(items, (n + 1) + 1, t)
          = IF t = "ReportId" THEN c.value % U8
            ELSE IF t = "UsagePage" THEN c.value % U16
            ELSE c.value
    BY <2>2, GlobalSet
  <2>6. GlobalValue(t) = GlobalAt(items, (n + 1) + 1, t)
    <3>1. {"UsagePage", "ReportId"} \cap SignedTags = {}
      BY TagGroups
    <3> HIDE DEF c
    <3> QED
      BY <2>4, <2>5, <3>1 DEF GlobalValue
  <2>7. globals' = GlobalsAt(items, (n + 1) + 1)
    <3>1. GlobalsAt(items, (n + 1) + 1)
            = [GlobalsAt(items, n + 1) EXCEPT ![t] = GlobalAt(items, (n + 1) + 1, t)]
      BY <2>2, GlobalsOneSet
    <3> QED
      BY <1>2, <1>3, <2>6, <3>1 DEF Told
  <2>8. StackIs(global_stack, items, n + 1)
    BY <1>3, <2>1, <2>2, StackKept DEF Told
  <2>9. LocalsAre(locals, items, n + 1) /\ ReportsDeclared(reports, items, n + 1)
    BY <1>3, <2>1, <2>2, GlobalLeaves
  <2> QED
    BY <1>1, <2>7, <2>8, <2>9 DEF Told
<1> QED
  BY <1>1, <1>3, TellsOn

\* Push saves the globals.
LEMMA PushTells ==
  ASSUME FieldsInv, TileInv', Push PROVE FieldsInv'
<1>1. /\ Lexed /\ HasTag(item, "Global", "Push") /\ rest' = item.after
      /\ global_stack' = Append(global_stack, globals)
      /\ UNCHANGED <<input, status, globals, locals, reports>>
  BY DEF Push, parsed
<1>2. ASSUME NEW items, NEW n \in Nat, Told(items, n), Sees(items[n + 1])
      PROVE  Told(items, n + 1)'
  <2> DEFINE c == items[n + 1]
  <2>1. c.tag = "Push" /\ c.tag \in DOMAIN GlobalTag
    BY <1>1, <1>2, TagGroups DEF Sees
  <2>2. c.tag \notin GlobalNames \cup {"Pop"}
    BY <2>1, TagGroups
  <2>3. GlobalsAt(items, (n + 1) + 1) = GlobalsAt(items, n + 1)
    BY <2>2, GlobalsKept
  <2>4. StackIs(global_stack, items, n) /\ globals = GlobalsAt(items, n + 1)
    BY <1>2 DEF Told
  <2>5. StackIs(Append(global_stack, GlobalsAt(items, n + 1)), items, n + 1)
    BY <2>1, <2>4, StackPushed
  <2>6. StackIs(global_stack', items, n + 1)
    BY <1>1, <2>4, <2>5
  <2>7. LocalsAre(locals, items, n + 1) /\ ReportsDeclared(reports, items, n + 1)
    BY <1>2, <2>1, GlobalLeaves
  <2> QED
    BY <1>1, <2>3, <2>4, <2>6, <2>7 DEF Told
<1> QED
  BY <1>1, <1>2, TellsOn

\* Pop puts the saved globals in force.
LEMMA PopTells ==
  ASSUME FieldsInv, TileInv', Pop PROVE FieldsInv'
<1>1. /\ Lexed /\ HasTag(item, "Global", "Pop") /\ rest' = item.after
      /\ global_stack # << >>
      /\ globals' = Last(global_stack) /\ global_stack' = Front(global_stack)
      /\ UNCHANGED <<input, status, locals, reports>>
  BY DEF Pop, parsed
<1>2. ASSUME NEW items, NEW n \in Nat, Told(items, n), Sees(items[n + 1])
      PROVE  Told(items, n + 1)'
  <2> DEFINE c == items[n + 1]
  <2>1. c.tag = "Pop" /\ c.tag \in DOMAIN GlobalTag
    BY <1>1, <1>2, TagGroups DEF Sees
  <2>2. StackIs(global_stack, items, n)
    BY <1>2 DEF Told
  <2>3. PICK s : s = global_stack
    OBVIOUS
  <2>4. /\ StackIs(Front(s), items, n + 1)
        /\ Last(s) = GlobalsAt(items, (n + 1) + 1)
    BY <1>1, <2>1, <2>2, <2>3, StackPopped
  <2>5. LocalsAre(locals, items, n + 1) /\ ReportsDeclared(reports, items, n + 1)
    BY <1>2, <2>1, GlobalLeaves
  <2> QED
    BY <1>1, <2>3, <2>4, <2>5 DEF Told
<1> QED
  BY <1>1, <1>2, TellsOn

\* A short usage takes the page in force at the next item.
LEMMA ExtendedIsDeclared ==
  ASSUME NEW items, NEW n \in Nat, Told(items, n), NEW raw
  PROVE  ExtendedUsage(raw) = UsageAt(items, n + 1, raw)
<1>1. globals["UsagePage"] = GlobalAt(items, n + 1, "UsagePage")
  <2>1. "UsagePage" \in GlobalNames
    BY TagGroups
  <2> QED
    BY <2>1 DEF Told, GlobalsAt
<1> QED
  BY <1>1 DEF ExtendedUsage, UsageAt

\* A local item adds a usage, or sets an end of the range.
LEMMA LocalItemTells ==
  ASSUME FieldsInv, TileInv', LocalItem PROVE FieldsInv'
<1>1. /\ Lexed /\ rest' = item.after
      /\ UNCHANGED <<input, status, globals, global_stack, reports>>
  BY DEF LocalItem, parsed
<1>2. PICK t \in DOMAIN LocalTag :
        /\ HasTag(item, "Local", t)
        /\ locals' =
             CASE t = "Usage" ->
                    [locals EXCEPT !.usages = Append(@, ExtendedUsage(Unsigned(item)))]
               [] t = "UsageMinimum" -> [locals EXCEPT !.usage_minimum = Unsigned(item)]
               [] t = "UsageMaximum" -> [locals EXCEPT !.usage_maximum = Unsigned(item)]
               [] OTHER -> locals
  BY DEF LocalItem
<1>3. ASSUME NEW items, NEW n \in Nat, Told(items, n), Sees(items[n + 1])
      PROVE  Told(items, n + 1)'
  <2> DEFINE c == items[n + 1]
  <2>1. c.tag = t /\ c \in Calls
    BY <1>2, <1>3 DEF Sees
  <2>2. c.type = "Local" /\ c.tag \notin Plain /\ c.tag \notin SignedTags
    BY <2>1, TypeOfTag, TagGroups
  <2>3. Unsigned(item) = c.value
    BY <1>3, <2>2 DEF Sees
  <2>4. ExtendedUsage(c.value) = UsageAt(items, n + 1, c.value)
    BY <1>3, ExtendedIsDeclared
  <2>5. LocalsAre(CASE c.tag = "Usage" ->
                         [locals EXCEPT !.usages = Append(@, UsageAt(items, n + 1, c.value))]
                    [] c.tag = "UsageMinimum" -> [locals EXCEPT !.usage_minimum = c.value]
                    [] c.tag = "UsageMaximum" -> [locals EXCEPT !.usage_maximum = c.value]
                    [] OTHER -> locals,
                  items, n + 1)
    <3>1. LocalsAre(locals, items, n) /\ c.type # "Main"
      BY <1>3, <2>2 DEF Told
    <3> QED
      BY <3>1, LocalsFollow
  <2>6. LocalsAre(locals', items, n + 1)
    <3> DEFINE l == locals
    <3> HIDE DEF c, l
    <3>1. CASE t = "Usage"
      BY <1>2, <2>1, <2>3, <2>4, <2>5, <3>1 DEF l
    <3>2. CASE t = "UsageMinimum"
      BY <1>2, <2>1, <2>3, <2>5, <3>2 DEF l
    <3>3. CASE t = "UsageMaximum"
      BY <1>2, <2>1, <2>3, <2>5, <3>3 DEF l
    <3>4. CASE t \notin {"Usage", "UsageMinimum", "UsageMaximum"}
      BY <1>2, <2>1, <2>5, <3>4 DEF l
    <3> QED
      BY <3>1, <3>2, <3>3, <3>4
  <2>7. /\ GlobalsAt(items, (n + 1) + 1) = GlobalsAt(items, n + 1)
        /\ StackIs(global_stack, items, n + 1)
        /\ ReportsDeclared(reports, items, n + 1)
    BY <1>3, <2>1, LocalLeaves
  <2> QED
    BY <1>1, <1>3, <2>6, <2>7 DEF Told
<1> QED
  BY <1>1, <1>3, TellsOn

\* Collections make no field.
LEMMA CollectionTells ==
  ASSUME FieldsInv, TileInv', OpenCollection \/ CloseCollection PROVE FieldsInv'
<1>1. /\ Lexed /\ rest' = item.after /\ locals' = DefaultLocals
      /\ UNCHANGED <<input, status, globals, global_stack, reports>>
      /\ HasTag(item, "Main", "Collection") \/ HasTag(item, "Main", "EndCollection")
  BY DEF OpenCollection, CloseCollection, parsed
<1>2. ASSUME NEW items, NEW n \in Nat, Told(items, n), Sees(items[n + 1])
      PROVE  Told(items, n + 1)'
  <2> DEFINE c == items[n + 1]
  <2>1. c.tag \in DOMAIN MainTag \ Kinds
    BY <1>1, <1>2, TagGroups DEF Sees
  <2>2. /\ GlobalsAt(items, (n + 1) + 1) = GlobalsAt(items, n + 1)
        /\ StackIs(global_stack, items, n + 1)
        /\ LocalsAre(DefaultLocals, items, n + 1)
    BY <1>2, <2>1, MainLeaves
  <2>3. ReportsDeclared(reports, items, n + 1)
    BY <1>2, <2>1, ReportsKept DEF Told
  <2> QED
    BY <1>1, <1>2, <2>2, <2>3 DEF Told
<1> QED
  BY <1>1, <1>2, TellsOn

\* The field that is made has what its main item declares.
LEMMA FieldDeclared ==
  ASSUME NEW items, NEW n \in Nat, Told(items, n),
         NEW offset
  PROVE  Declares(items, n + 1, NewField(items[n + 1].value, offset))
<1> DEFINE f == NewField(items[n + 1].value, offset)
           lo == LocalAt(items, n + 1, "UsageMinimum")
           hi == LocalAt(items, n + 1, "UsageMaximum")
<1>1. /\ f.flags = items[n + 1].value /\ f.usages = locals.usages
      /\ f.usage_range = UsageRange
      /\ f.globals = [t \in FieldGlobals |-> globals[t]]
  BY DEF NewField
<1>2. UsagesDeclared(locals.usages, items, n + 1)
  BY DEF Told, LocalsAre
<1>3. UsageRange = RangeDeclared(items, n + 1)
  <2>1. locals.usage_minimum = lo /\ locals.usage_maximum = hi
    <3>1. \A x, y, z : LET r == [usages |-> x, usage_minimum |-> y, usage_maximum |-> z]
                       IN r.usage_minimum = y /\ r.usage_maximum = z
      OBVIOUS
    <3>2. locals = [usages |-> locals.usages, usage_minimum |-> lo, usage_maximum |-> hi]
      BY DEF Told, LocalsAre
    <3> QED
      BY <3>1, <3>2
  <2>2. /\ ExtendedUsage(lo) = UsageAt(items, n + 1, lo)
        /\ ExtendedUsage(hi) = UsageAt(items, n + 1, hi)
    BY ExtendedIsDeclared
  <2>3. RangeDeclared(items, n + 1)
          = IF lo = None \/ hi = None THEN None
            ELSE <<UsageAt(items, n + 1, lo), UsageAt(items, n + 1, hi)>>
    BY DEF RangeDeclared
  <2> HIDE DEF lo, hi
  <2> QED
    BY <2>1, <2>2, <2>3 DEF UsageRange
<1>4. \A t \in FieldGlobals : f.globals[t] = GlobalAt(items, n + 1, t)
  BY <1>1 DEF FieldGlobals, Told, GlobalsAt
<1> HIDE DEF f
<1>5. Declares(items, n + 1, f)
  BY <1>1, <1>2, <1>3, <1>4 DEF Declares
<1> QED
  BY <1>5 DEF f

\* Input, Output or Feature: the field goes to the report of its kind and ID.
LEMMA AddFieldTells ==
  ASSUME FieldsInv, TileInv', NEW kind \in Kinds, AddField(kind) PROVE FieldsInv'
<1> DEFINE id == globals["ReportId"]
           key == <<kind, id>>
           offset == IF key \in DOMAIN offsets THEN offsets[key] ELSE 0
           f == NewField(Unsigned(item), offset)
           new == [kind |-> kind, report_id |-> id, fields |-> <<f>>]
<1>1. /\ Lexed /\ rest' = item.after /\ locals' = DefaultLocals
      /\ UNCHANGED <<input, status, globals, global_stack>>
      /\ HasTag(item, "Main", kind)
  BY DEF AddField
<1>2. Tile(reports, offsets)
  BY FieldsTileMeans DEF FieldsInv, TileInv
<1>3. PICK D, F : reports \in Seq(ReportsOf(D, F))
  BY DEF FieldsInv, TileInv, ReportsShape
<1>4. /\ \A i \in SameReport(kind) : i \in DOMAIN reports /\ KeyOf(reports[i]) = key
      /\ (\E i : i \in SameReport(kind)) <=> key \in DOMAIN offsets
      /\ \A i, j \in SameReport(kind) : i = j
  BY <1>2, SameReportIsKey
<1>5. /\ SameReport(kind) = {} => reports' = Append(reports, new)
      /\ SameReport(kind) # {} =>
           \E m \in SameReport(kind) : reports' = [reports EXCEPT ![m].fields = Append(@, f)]
  <2>1. SameReport(kind) = {} => reports' = Append(reports, new)
    BY DEF AddField
  <2>2. ASSUME SameReport(kind) # {}
        PROVE  \E m \in SameReport(kind) :
                 reports' = [reports EXCEPT ![m].fields = Append(@, f)]
    <3>1. PICK i \in SameReport(kind) : \A j \in SameReport(kind) : i = j
      BY <2>2, <1>4
    <3>2. i \in 1..Len(reports)
      BY <1>3, <1>4
    <3>3. \E k \in SameReport(kind) : \A j \in SameReport(kind) : k <= j
      BY <3>1, <3>2
    <3> QED
      BY <3>3, <2>2, Zenon DEF AddField
  <2> QED
    BY <2>1, <2>2
<1>6. ASSUME NEW items, NEW n \in Nat, Told(items, n), Sees(items[n + 1])
      PROVE  Told(items, n + 1)'
  <2> DEFINE c == items[n + 1]
  <2>1. c.tag = kind /\ c.tag \in DOMAIN MainTag /\ c \in Calls
    BY <1>1, <1>6, TagGroups DEF Sees
  <2>2. c.type = "Main" /\ c.tag \notin Plain /\ c.tag \notin SignedTags
    BY <2>1, TypeOfTag, TagGroups
  <2>3. Unsigned(item) = c.value
    BY <1>6, <2>2 DEF Sees
  <2>4. Declares(items, n + 1, f)
    <3>1. Declares(items, n + 1, NewField(c.value, offset))
      BY <1>6, FieldDeclared
    <3> QED
      BY <2>3, <3>1
  <2>5. KeyAt(items, n + 1) = key
    <3>1. "ReportId" \in GlobalNames
      BY TagGroups
    <3> QED
      BY <1>6, <2>1, <3>1 DEF KeyAt, Told, GlobalsAt
  <2>6. ReportsDeclared(reports, items, n)
    BY <1>6 DEF Told
  <2>7. PICK rs : rs = reports
    OBVIOUS
  <2> HIDE DEF f, c
  <2>8. ReportsDeclared(reports', items, n + 1)
    <3>1. CASE SameReport(kind) = {}
      <4>1. \A i \in DOMAIN rs : KeyOf(rs[i]) # key
        <5>1. key \notin DOMAIN offsets
          BY <1>4, <3>1
        <5> QED
          BY <1>2, <2>7, <5>1 DEF Tile
      <4>2. KeyOf(new) = key /\ new.fields = <<f>>
        BY DEF KeyOf
      <4>3. IsSeq(rs)
        BY <1>3, <2>7 DEF IsSeq
      <4>4. items[n + 1].tag \in Kinds
        BY <2>1 DEF c
      <4> HIDE DEF new, key
      <4>5. ReportsDeclared(Append(rs, new), items, n + 1)
        BY <2>4, <2>5, <2>6, <2>7, <4>1, <4>2, <4>3, <4>4, ReportMade
      <4> QED
        BY <1>5, <2>7, <3>1, <4>5
    <3>2. CASE SameReport(kind) # {}
      <4>1. PICK m \in SameReport(kind) : reports' = [reports EXCEPT ![m].fields = Append(@, f)]
        BY <1>5, <3>2
      <4>2. m \in DOMAIN rs /\ KeyOf(rs[m]) = key
        BY <1>4, <2>7
      <4>3. \A i, j \in DOMAIN rs : KeyOf(rs[i]) = KeyOf(rs[j]) => i = j
        BY <1>2, <2>7 DEF Tile
      <4>4. rs \in Seq(ReportsOf(D, F)) /\ ReportsDeclared(rs, items, n)
        BY <1>3, <2>6, <2>7
      <4>5. items[n + 1].tag \in Kinds
        BY <2>1 DEF c
      <4> HIDE DEF key
      <4>6. ReportsDeclared([rs EXCEPT ![m].fields = Append(@, f)], items, n + 1)
        BY <2>4, <2>5, <4>2, <4>3, <4>4, <4>5, ReportExtended
      <4> QED
        BY <2>7, <4>1, <4>6
    <3> QED
      BY <3>1, <3>2
  <2>9. /\ GlobalsAt(items, (n + 1) + 1) = GlobalsAt(items, n + 1)
        /\ StackIs(global_stack, items, n + 1)
        /\ LocalsAre(DefaultLocals, items, n + 1)
    BY <1>6, <2>1, MainLeaves DEF c
  <2> QED
    BY <1>1, <1>6, <2>8, <2>9 DEF Told
<1> QED
  BY <1>1, <1>6, TellsOn

\* The end: what was read is all there is.
LEMMA FinishTells ==
  ASSUME FieldsInv, TileInv', Finish PROVE FieldsInv'
<1>1. /\ status = "parsing" /\ rest = << >> /\ status' \in {"done", "error"}
      /\ UNCHANGED <<input, reports>>
  BY DEF Finish, parsed
<1>2. ASSUME input.source.of = "stream"
      PROVE  ReportsDeclared(reports, input.source.items, Len(input.source.items))
  <2>1. PICK n : HasRead(n) /\ Told(input.source.items, n)
    BY <1>1, <1>2 DEF FieldsInv
  <2> DEFINE N == Len(input.source.items)
  <2>2. n \in 0..N /\ (input.source.cut # 0 => n # N)
    BY <2>1 DEF HasRead
  <2>3. PICK at : Stream(input, at) /\ rest = SubSeq(input.bytes, at[n] + 1, Len(input.bytes))
    BY <2>1 DEF HasRead
  <2>4. n # N => rest # << >>
    BY <2>2, <2>3, Reading
  <2>5. n = N
    BY <1>1, <2>4
  <2> QED
    BY <2>1, <2>5 DEF Told
<1>3. FieldsAsDeclared'
  <2>1. PICK items : items = input.source.items
    OBVIOUS
  <2>2. items = input'.source.items /\ input'.source.of = input.source.of
    BY <1>1, <2>1
  <2>3. input.source.of = "stream" => ReportsDeclared(reports', items, Len(items))
    BY <1>1, <1>2, <2>1
  <2> QED
    BY <2>2, <2>3 DEF FieldsAsDeclared
<1> QED
  BY <1>1, <1>3 DEF FieldsInv

\* A parser that has read nothing.
LEMMA InitTells == Init => FieldsInv
<1> SUFFICES ASSUME Init PROVE FieldsInv
  OBVIOUS
<1>1. /\ input \in Inputs /\ rest = input.bytes /\ status = "parsing"
      /\ globals = DefaultGlobals /\ global_stack = << >> /\ locals = DefaultLocals
      /\ reports = << >>
  BY DEF Init
<1>2. TileInv
  BY InitTiles
<1>3. FieldsAsDeclared
  BY <1>1 DEF FieldsAsDeclared
<1>4. ASSUME input.source.of = "stream"
      PROVE  HasRead(0) /\ Told(input.source.items, 0)
  <2>1. PICK at : Stream(input, at)
    BY <1>1, <1>4, StreamLaysItems
  <2>2. PICK S : input.bytes \in Seq(S)
    BY <2>1 DEF Stream, IsSeq
  <2>3. at[0] + 1 = 1
    BY <2>1 DEF Stream
  <2>4. rest = SubSeq(input.bytes, at[0] + 1, Len(input.bytes))
    BY <1>1, <2>2, <2>3, SubSeqFull
  <2>5. 0 \in 0..Len(input.source.items)
        /\ (input.source.cut # 0 => 0 # Len(input.source.items))
    BY <2>1 DEF Stream
  <2>6. HasRead(0)
    BY <2>1, <2>4, <2>5 DEF HasRead
  <2>7. 0 + 1 = 1
    OBVIOUS
  <2>8. Told(input.source.items, 0)
    BY <1>1, <2>7, NothingDeclared DEF Told
  <2> QED
    BY <2>6, <2>8
<1> QED
  BY <1>2, <1>3, <1>4 DEF FieldsInv

\* One step for each way the parser treats an item.
LEMMA StepTells == FieldsInv /\ [Next]_vars => FieldsInv'
<1> SUFFICES ASSUME FieldsInv, [Next]_vars PROVE FieldsInv'
  OBVIOUS
<1>1. TileInv'
  BY StepTiles DEF FieldsInv
<1>2. CASE LexError \/ Unmatched
  <2>1. status' = "error"
    BY <1>2 DEF LexError, Unmatched
  <2> QED
    BY <1>1, <2>1 DEF FieldsInv, FieldsAsDeclared
<1>3. CASE UNCHANGED vars
  <2>1. UNCHANGED <<input, rest, status, globals, global_stack, locals, reports>>
    BY <1>3 DEF vars
  <2>2. FieldsAsDeclared'
    BY <2>1 DEF FieldsInv, FieldsAsDeclared
  <2>3. ASSUME NEW n, HasRead(n), Told(input.source.items, n)
        PROVE  HasRead(n)' /\ Told(input.source.items, n)'
    BY <2>1, <2>3 DEF HasRead, Told
  <2> QED
    BY <1>1, <2>1, <2>2, <2>3 DEF FieldsInv
<1>4. ASSUME NEW kind \in Kinds, AddField(kind) PROVE FieldsInv'
  BY <1>1, <1>4, AddFieldTells
<1> QED
  BY <1>1, <1>2, <1>3, <1>4, SkipTells, GlobalItemTells, PushTells, PopTells,
     LocalItemTells, CollectionTells, FinishTells DEF Next

\* Whatever the width of a byte and whatever the stream of items that is
\* accepted: the reports of ReportDescriptor::parse are those that its items
\* declare, and each field has the flags of its main item, the globals that
\* were in force there after every Push and Pop, and the usages given since
\* the main item before it, each with the value that the builder encoded.
THEOREM FieldsAlwaysAsDeclared == Spec => []FieldsAsDeclared
<1>1. FieldsInv => FieldsAsDeclared
  BY DEF FieldsInv
<1> QED
  BY InitTells, StepTells, <1>1, PTL DEF Spec
=============================================================================
