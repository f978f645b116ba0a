------------------------------- MODULE UiPack --------------------------------
(***************************************************************************)
(* The binary instruction data (uica-data): encode_uipack writes a pack    *)
(* into one file of sections - header, strings, records, ports, blobs -    *)
(* that refer to each other by offset, UiPackView reads it back record by  *)
(* record, and UiPackViewIndex finds records by mnemonic.                  *)
(*                                                                         *)
(* A file is a sequence of cells of four bytes.  A string is a sequence of *)
(* cells too; its first one is its mnemonic.  An option is <<>> or <<v>>.  *)
(* Reading outside the file is an error of the evaluation, as the panic is *)
(* one of the program.                                                     *)
(***************************************************************************)
EXTENDS Integers, Sequences, FiniteSets, SequencesExt, FiniteSetsExt, Functions, Folds, Bitwise

\* instruction records to choose from (see Load for their fields), lists of ports, the number of records, and the cells
\* that damage may write
CONSTANT Setups

VARIABLES
  setup,        \* one of Setups, fixed in a behaviour
  pack,         \* [all, alu: ports, records]
  file,         \* what encode_uipack made of it, or <<>>
  damaged       \* the cell that was changed or the first one that was cut off, or 0
vars == <<setup, pack, file, damaged>>

Schema == <<4, 4>>
Arch == <<5>>
Version == 9
HeaderSize == 18
RecordSize == 24
Absent == -1        \* u32::MAX as an offset
NotInterned == -999   \* offset_of fails; no value has this number

\* what Then yields for v, which is computed once
Given(v, Then(_)) == Then(v)

-----------------------------------------------------------------------------
(* Strings.  Maps are written in the order of their keys.                  *)
Before(s, t) ==
  \/ \E i \in DOMAIN t : /\ \A j \in 1..i - 1 : j \in DOMAIN s /\ s[j] = t[j]
                         /\ (i \in DOMAIN s => s[i] < t[i])
Keys(f) == SetToSortSeq(DOMAIN f, Before)
Pairs(f) == [i \in DOMAIN Keys(f) |-> <<Keys(f)[i], f[Keys(f)[i]]>>]

\* a list of ports is one string, the names joined by commas
Comma == 0
Join(names) == FlattenSeq([i \in DOMAIN names |-> IF i = 1 THEN names[i] ELSE <<Comma>> \o names[i]])
SplitPortList(s) ==
  IF s = <<>> THEN <<>>
  ELSE FoldLeft(LAMBDA l, c : IF c = Comma THEN Append(l, <<>>) ELSE Append(Front(l), Append(Last(l), c)), <<<<>>>>, s)

\* An operand: name, type, bits, flags, flags read, flags written, base, index, scale, displacement, role.
OperandStrings(o) == <<o[1], o[2]>> \o o[4] \o o[5] \o o[6] \o o[7] \o o[8] \o o[11]
\* Mutant: one of the strings is not collected.
BlobStringsNoRole(r) ==
  FlattenSeq([i \in DOMAIN r.operands |-> LET o == r.operands[i] IN <<o[1], o[2]>> \o o[4] \o o[5] \o o[6] \o o[7] \o o[8]])
  \o FlattenSeq([i \in DOMAIN r.latencies |-> <<r.latencies[i][1], r.latencies[i][2]>>])
  \o Keys(r.variants)
  \o r.fusible \o FlattenSeq(Pairs(r.attrs))
BlobStrings(r) ==
  FlattenSeq([i \in DOMAIN r.operands |-> OperandStrings(r.operands[i])])
  \o FlattenSeq([i \in DOMAIN r.latencies |-> <<r.latencies[i][1], r.latencies[i][2]>>])
  \o FlattenSeq([i \in DOMAIN Keys(r.variants) |->
       LET k == Keys(r.variants)[i]  p == r.variants[k][6] IN <<k>> \o (IF p = <<>> THEN <<>> ELSE Keys(p[1]))])
  \o r.fusible \o FlattenSeq(Pairs(r.attrs))
\* every string once, in the order of its first use
StringTable(p) ==
  LET used == <<Schema, Arch, Join(p.all), Join(p.alu)>>
              \o FlattenSeq([i \in DOMAIN p.records |->
                   LET r == p.records[i] IN <<r.iform, r.string>> \o Keys(r.ports) \o BlobStrings(r)])
      first == SelectSeq([i \in DOMAIN used |-> i], LAMBDA i : used[i] \notin {used[j] : j \in 1..i - 1}) IN
  [i \in DOMAIN first |-> used[first[i]]]
StringCells(t) == FlattenSeq([i \in DOMAIN t |-> <<Len(t[i])>> \o t[i]])
OffsetOf(t, s) ==
  IF Contains(t, s) THEN Len(StringCells(SubSeq(t, 1, SelectInSeq(t, LAMBDA x : x = s) - 1))) ELSE NotInterned

-----------------------------------------------------------------------------
(* Blobs are lists of items, their number first; an item is a sequence of  *)
(* fields of some kinds.                                                   *)
OperandKinds == <<"string", "string", "bits", "strings", "strings", "strings", "string?", "string?", "number?", "wide?", "string?">>
LatencyKinds == <<"string", "string", "number", "latency options">>
VariantKinds == <<"string", "variant options">>
\* uops, retire slots, MITE, MS, TP, ports, divider cycles, complex decoder, simple decoders
VariantOptions == <<"number", "number", "number", "number", "wide", "ports", "number", "boolean", "number">>
Options(kind) == IF kind = "latency options" THEN [i \in 1..4 |-> "number"] ELSE VariantOptions
OperandBits == 4   \* read, write, implicit, is_agen

Bits(S) == FoldSet(LAMBDA b, w : w + 2^b, 0, S)
Bit(w, b) == (w \div 2^b) % 2 = 1

EncodeStrings(t, l) == <<Len(l)>> \o [i \in DOMAIN l |-> OffsetOf(t, l[i])]
EncodePorts(t, f) == <<Cardinality(DOMAIN f)>> \o FlattenSeq([i \in DOMAIN Keys(f) |-> <<OffsetOf(t, Keys(f)[i]), f[Keys(f)[i]]>>])
EncodeOption(kind, v) ==
  CASE kind = "ports" -> <<>>
    [] kind = "wide" -> IF v = <<>> THEN <<0, 0>> ELSE v[1]
    [] kind = "boolean" -> IF v = <<TRUE>> THEN <<1>> ELSE <<0>>
    [] OTHER -> IF v = <<>> THEN <<0>> ELSE v
\* which options are there, their values or zeros, the ports last
OptionBits(v) == Bits({i - 1 : i \in {j \in DOMAIN v : v[j] # <<>>}})
EncodeOptions(t, kinds, v) ==
  <<OptionBits(v)>> \o FlattenSeq([i \in DOMAIN kinds |-> EncodeOption(kinds[i], v[i])])
  \o (IF Len(kinds) < 9 THEN <<>> ELSE IF v[6] = <<>> THEN <<0>> ELSE EncodePorts(t, v[6][1]))
EncodeField(t, kind, v) ==
  CASE kind = "string" -> <<OffsetOf(t, v)>>
    [] kind = "number" -> <<v>>
    [] kind = "bits" -> <<Bits(v)>>
    [] kind = "strings" -> EncodeStrings(t, v)
    [] kind = "string?" -> IF v = <<>> THEN <<Absent>> ELSE <<OffsetOf(t, v[1])>>
    [] kind = "number?" -> IF v = <<>> THEN <<0, 0>> ELSE <<1, v[1]>>
    [] kind = "wide?" -> IF v = <<>> THEN <<0, 0, 0>> ELSE <<1>> \o v[1]
    [] OTHER -> EncodeOptions(t, Options(kind), v)
EncodeItems(t, kinds, items) ==
  <<Len(items)>> \o FlattenSeq([i \in DOMAIN items |->
     FlattenSeq([k \in DOMAIN kinds |-> EncodeField(t, kinds[k], items[i][k])])])
Blobs(t, r) ==
  <<EncodeItems(t, OperandKinds, r.operands), EncodeItems(t, LatencyKinds, r.latencies),
    EncodeItems(t, VariantKinds, Pairs(r.variants)), EncodeStrings(t, r.fusible),
    EncodeItems(t, <<"string", "string">>, Pairs(r.attrs))>>

-----------------------------------------------------------------------------
(* The file.  Offsets count from 0.                                        *)
AlignUp(n) == n + (n % 2)
Zeros(n) == [i \in 1..n |-> 0]
Total(lens) == FoldLeft(LAMBDA a, b : a + b, 0, lens)
Lengths(seqs) == [i \in DOMAIN seqs |-> Len(seqs[i])]

\* FNV-1a, on cells, scaled to 16 bits; its own cells count as zero.  The hash of cells i to j that starts from h.
ChecksumAt == {7, 8}
HashBits == 16
RECURSIVE Hash(_, _, _, _)
Hash(f, h, i, j) ==
  IF i = j THEN ((h ^^ (IF i \in ChecksumAt THEN 0 ELSE f[i] % 2^HashBits)) * 403) % 2^HashBits
  ELSE LET m == (i + j) \div 2 IN CHOOSE x \in {Hash(f, first, m + 1, j) : first \in {Hash(f, h, i, m)}} : TRUE
Checksum(f) == Hash(f, 33541, 1, Len(f))

Entry(t, r, portsStart, at, blobs) ==
  LET placed == FlattenSeq([k \in DOMAIN blobs |-> <<at + Total(Lengths(SubSeq(blobs, 1, k - 1))), Len(blobs[k])>>])
      tp == IF r.tp = <<>> THEN <<0, 0>> ELSE r.tp[1]
      flags == Bits(r.flags \cup (IF r.tp = <<>> THEN {} ELSE {0})) IN
  <<OffsetOf(t, r.iform), OffsetOf(t, r.string), portsStart, Cardinality(DOMAIN r.ports)>>
  \o SubSeq(r.numbers, 1, 4) \o tp \o <<flags>> \o SubSeq(placed, 1, 4) \o SubSeq(r.numbers, 5, 7) \o SubSeq(placed, 5, 10)
\* the number of port entries of the records before one
PortsBefore(p, i) == Total([j \in 1..i - 1 |-> Cardinality(DOMAIN p.records[j].ports)])
\* what is placed, and where each section begins
Sections(p, t) ==
  [strings |-> StringCells(t), blobs |-> [i \in DOMAIN p.records |-> Blobs(t, p.records[i])] \o <<>>,
   ports |-> FlattenSeq([i \in DOMAIN p.records |-> Tail(EncodePorts(t, p.records[i].ports))])]
Starts(n, s) ==
  LET records == AlignUp(HeaderSize + Len(s.strings))
      ports == AlignUp(records + n * RecordSize) IN
  [records |-> records, ports |-> ports, blobs |-> AlignUp(ports + Len(s.ports))]
Padded(cells, from, to) == cells \o Zeros(to - from - Len(cells))
File(p, t, s, at) ==
  LET n == Len(p.records)
      blobsBefore(i) == Total([j \in 1..i - 1 |-> Total(Lengths(s.blobs[j]))])
      entries == FlattenSeq([i \in 1..n |-> Entry(t, p.records[i], PortsBefore(p, i), at.blobs + blobsBefore(i), s.blobs[i])])
      header == <<85, 73, Version * 100 + HeaderSize, 1, at.blobs + blobsBefore(n + 1), 0, 0, 0, OffsetOf(t, Arch),
                  HeaderSize, Len(s.strings), at.records, n, at.ports, Len(s.ports) \div 2,
                  OffsetOf(t, Schema), OffsetOf(t, Join(p.all)), OffsetOf(t, Join(p.alu))>> IN
  header \o Padded(s.strings, HeaderSize, at.records) \o Padded(entries, at.records, at.ports)
         \o Padded(s.ports, at.ports, at.blobs) \o FlattenSeq([i \in 1..n |-> FlattenSeq(s.blobs[i])])
Encoded(p, t, s) ==
  IF \E i \in DOMAIN p.records : p.records[i].arch # Arch \/ \E k \in DOMAIN s.blobs[i] : Contains(s.blobs[i][k], NotInterned)
  THEN <<>>
  ELSE Given(File(p, t, s, Starts(Len(p.records), s)), LAMBDA f : [f EXCEPT ![7] = Checksum(f)])
Encode(p) == Given(StringTable(p), LAMBDA t : Encoded(p, t, Sections(p, t)))

-----------------------------------------------------------------------------
(* Reading blobs.  A reader yields <<>>, an error, or the value it read    *)
(* and the place behind it.                                                *)
StringAt(strings, at) ==
  IF at < 0 \/ at + 1 > Len(strings) THEN <<>>
  ELSE LET n == strings[at + 1] IN IF n < 0 \/ at + 1 + n > Len(strings) THEN <<>> ELSE <<SubSeq(strings, at + 2, at + 1 + n)>>
\* the strings at some offsets, <<>> if one cannot be read
StringsAt(strings, offsets) ==
  LET read == [i \in DOMAIN offsets |-> StringAt(strings, offsets[i])] IN
  IF Contains(read, <<>>) THEN <<>> ELSE <<[i \in DOMAIN read |-> read[i][1]]>>
AsMap(keys, values) == [k \in ToSet(keys) |-> values[CHOOSE i \in DOMAIN keys : keys[i] = k]]
\* pairs of a string and a value; a key given twice is an error
MapAt(strings, cells) ==
  LET n == Len(cells) \div 2 IN
  Given(StringsAt(strings, [i \in 1..n |-> cells[2 * i - 1]]), LAMBDA keys :
    IF keys = <<>> \/ ~IsInjective(keys[1]) THEN <<>> ELSE <<AsMap(keys[1], [i \in 1..n |-> cells[2 * i]])>>)
Remaining(blob, at) == Len(blob) - at + 1
Cells(blob, at, n) == SubSeq(blob, at, at + n - 1)

DecodeStrings(strings, blob, at) ==
  IF Remaining(blob, at) < 1 \/ blob[at] \notin 0..Remaining(blob, at) - 1 THEN <<>>
  ELSE LET l == StringsAt(strings, Cells(blob, at + 1, blob[at])) IN IF l = <<>> THEN <<>> ELSE <<l[1], at + 1 + blob[at]>>

\* the cells of the options but the ports, in their order; the time takes two
OptionCells(kinds) == IF Len(kinds) = 9 THEN <<1, 1, 1, 1, 2, 0, 1, 1, 1>> ELSE <<1, 1, 1, 1>>
DecodeOptions(strings, kinds, blob, at) ==
  LET n == Len(kinds)
      widths == OptionCells(kinds)
      fixed == 1 + Total(widths) + (IF n = 9 THEN 1 ELSE 0)
      there(i) == Bit(blob[at], i - 1)
      cells(i) == Cells(blob, at + 1 + Total(SubSeq(widths, 1, i - 1)), widths[i])
      count == IF n = 9 THEN blob[at + fixed - 1] ELSE 0
      ports == MapAt(strings, Cells(blob, at + fixed, 2 * count))
      value(i) == CASE kinds[i] = "ports" -> ports[1]
                    [] kinds[i] = "wide" -> cells(i)
                    [] kinds[i] = "boolean" -> cells(i) = <<1>>
                    [] OTHER -> cells(i)[1] IN
  IF \/ Remaining(blob, at) < fixed
     \/ blob[at] \notin 0..2^n - 1
     \/ \E i \in 1..n : ~there(i) /\ cells(i) # Zeros(widths[i])
     \/ \E i \in 1..n : kinds[i] = "boolean" /\ cells(i)[1] \notin {0, 1}
     \/ n = 9 /\ ~there(6) /\ count # 0
     \/ count \notin 0..(Remaining(blob, at) - fixed) \div 2
     \/ ports = <<>>
  THEN <<>>
  ELSE <<[i \in 1..n |-> IF there(i) THEN <<value(i)>> ELSE <<>>], at + fixed + 2 * count>>

\* whether a value is there, and its n cells
DecodeOptional(blob, at, n) ==
  IF Remaining(blob, at) < 1 + n \/ blob[at] \notin {0, 1} THEN <<>>
  ELSE <<IF blob[at] = 0 THEN <<>> ELSE <<IF n = 1 THEN blob[at + 1] ELSE Cells(blob, at + 1, n)>>, at + 1 + n>>
DecodeField(strings, kind, blob, at) ==
  LET short == Remaining(blob, at) < 1
      string == IF short THEN <<>> ELSE StringAt(strings, blob[at]) IN
  CASE kind = "number" -> IF short THEN <<>> ELSE <<blob[at], at + 1>>
    [] kind = "bits" -> IF short \/ blob[at] \notin 0..2^OperandBits - 1 THEN <<>>
                        ELSE <<{b \in 0..OperandBits - 1 : Bit(blob[at], b)}, at + 1>>
    [] kind = "string" -> IF string = <<>> THEN <<>> ELSE <<string[1], at + 1>>
    [] kind = "string?" -> IF ~short /\ blob[at] = Absent THEN <<<<>>, at + 1>> ELSE IF string = <<>> THEN <<>> ELSE <<string, at + 1>>
    [] kind = "strings" -> DecodeStrings(strings, blob, at)
    [] kind = "number?" -> DecodeOptional(blob, at, 1)
    [] kind = "wide?" -> DecodeOptional(blob, at, 2)
    [] OTHER -> DecodeOptions(strings, Options(kind), blob, at)
\* Runs a reader that extends a list.
Then(r, Read(_)) ==
  IF r = <<>> THEN <<>>
  ELSE Given(Read(r[2]), LAMBDA next : IF next = <<>> THEN <<>> ELSE <<Append(r[1], next[1]), next[2]>>)
DecodeItem(strings, kinds, blob, at) ==
  FoldLeft(LAMBDA r, kind : LET Field(place) == DecodeField(strings, kind, blob, place) IN Then(r, Field), <<<<>>, at>>, kinds)
\* the cells of an item without strings and ports
SmallestItem(kinds) == CASE kinds = OperandKinds -> 14 [] kinds = LatencyKinds -> 8 [] kinds = VariantKinds -> 12 [] OTHER -> Len(kinds)
DecodeItems(strings, kinds, blob) ==
  IF blob = <<>> THEN <<>>
  ELSE IF blob[1] \notin 0..(Len(blob) - 1) \div SmallestItem(kinds) THEN <<>>
  ELSE LET Item(at) == DecodeItem(strings, kinds, blob, at) IN
       Given(FoldLeft(LAMBDA items, i : Then(items, Item), <<<<>>, 2>>, [i \in 1..blob[1] |-> i]), LAMBDA r :
         IF r = <<>> THEN <<>> ELSE IF r[2] # Len(blob) + 1 THEN <<>> ELSE <<r[1]>>)
\* an empty blob is an empty map or list
MapOf(items) ==
  LET column(c) == [i \in DOMAIN items[1] |-> items[1][i][c]] IN
  IF items = <<>> THEN <<>>
  ELSE IF IsInjective(column(1)) THEN <<AsMap(column(1), column(2))>> ELSE <<>>
DecodeMap(strings, kinds, blob) == IF blob = <<>> THEN <<<<>>>> ELSE MapOf(DecodeItems(strings, kinds, blob))
DecodeList(strings, blob) ==
  IF blob = <<>> THEN <<<<>>>>
  ELSE Given(DecodeStrings(strings, blob, 1), LAMBDA r :
         IF r = <<>> THEN <<>> ELSE IF r[2] = Len(blob) + 1 THEN <<r[1]>> ELSE <<>>)

-----------------------------------------------------------------------------
(* Reading a file: the header and its strings first, a record when it is   *)
(* asked for.                                                              *)
Section(f, at, count, stride) == at >= HeaderSize /\ count >= 0 /\ at + count * stride <= Len(f)
HeaderAccepted(f, verify) ==
  /\ Len(f) >= HeaderSize
  /\ SubSeq(f, 1, 6) = <<85, 73, Version * 100 + HeaderSize, 1, Len(f), 0>>
  /\ Section(f, f[10], f[11], 1) /\ Section(f, f[12], f[13], RecordSize) /\ Section(f, f[14], f[15], 2)
  /\ f[12] % 2 = 0 /\ f[14] % 2 = 0
  /\ f[9] \in 0..f[11] - 1 /\ f[16] \in 0..f[11] - 1
  /\ verify => <<f[7], f[8]>> = <<Checksum(f), 0>>
Strings(f) == Cells(f, f[10] + 1, f[11])
HeaderStrings(f) == StringsAt(Strings(f), <<f[9], f[16], f[17], f[18]>>)
Opens(f, verify) == HeaderAccepted(f, verify) /\ HeaderStrings(f) # <<>>

RecordEntry(f, i) == Cells(f, f[12] + 1 + (i - 1) * RecordSize, RecordSize)
RecordOpens(f, e) == StringsAt(Strings(f), SubSeq(e, 1, 2)) # <<>> /\ e[3] \in 0..f[15] /\ e[4] \in 0..f[15] - e[3]
BlobInFile(f, at, size) == at >= 0 /\ size >= 0 /\ at + size <= Len(f)
Flags == 0..9
BlobPlaces == <<12, 14, 19, 21, 23>>
BlobOf(f, e, k) == Cells(f, e[BlobPlaces[k]] + 1, e[BlobPlaces[k] + 1])
\* ports, operands, latencies, variants, fusible and attributes, each <<>> if it cannot be read
RecordParts(f, e, strings) ==
  <<MapAt(strings, Cells(f, f[14] + 1 + 2 * e[3], 2 * e[4])),
    DecodeItems(strings, OperandKinds, BlobOf(f, e, 1)), DecodeItems(strings, LatencyKinds, BlobOf(f, e, 2)),
    DecodeMap(strings, VariantKinds, BlobOf(f, e, 3)), DecodeList(strings, BlobOf(f, e, 4)),
    DecodeMap(strings, <<"string", "string">>, BlobOf(f, e, 5))>>
RecordFrom(f, e, strings, parts) ==
  IF Contains(parts, <<>>) THEN <<>>
  ELSE <<[arch |-> HeaderStrings(f)[1][1], iform |-> StringAt(strings, e[1])[1], string |-> StringAt(strings, e[2])[1],
          ports |-> parts[1][1], numbers |-> SubSeq(e, 5, 8) \o SubSeq(e, 16, 18),
          tp |-> IF Bit(e[11], 0) THEN <<SubSeq(e, 9, 10)>> ELSE <<>>, flags |-> {b \in Flags \ {0} : Bit(e[11], b)},
          operands |-> parts[2][1], latencies |-> parts[3][1], variants |-> parts[4][1], fusible |-> parts[5][1],
          attrs |-> parts[6][1]]>>
ReadEntry(f, e, strings) ==
  IF ~RecordOpens(f, e) THEN <<>>
  \* an empty optional blob is not looked up
  ELSE IF \E k \in 1..5 : LET at == BlobPlaces[k] IN ~BlobInFile(f, e[at], e[at + 1]) /\ (k <= 2 \/ e[at + 1] # 0) THEN <<>>
  ELSE RecordFrom(f, e, strings, RecordParts(f, e, strings))
ReadRecord(f, i) == ReadEntry(f, RecordEntry(f, i), Strings(f))
Loaded(header, records) ==
  IF Contains(records, <<>>) THEN <<>>
  ELSE <<[all |-> SplitPortList(header[3]), alu |-> SplitPortList(header[4]), records |-> [i \in DOMAIN records |-> records[i][1]]]>>
Load(f, verify) ==
  IF ~Opens(f, verify) THEN <<>>
  ELSE Loaded(HeaderStrings(f)[1], [i \in 1..f[13] |-> ReadRecord(f, i)] \o <<>>)

-----------------------------------------------------------------------------
(* The index.  A mnemonic is the first cell of a string; an alias stands   *)
(* for another mnemonic (JE for JZ).                                       *)
Alias == 61
AliasOf == 62
Mnemonic(s) == IF s = <<>> THEN <<>> ELSE IF Head(s) = Alias THEN <<AliasOf>> ELSE <<Head(s)>>
Add(index, m, i) == (m :> Append(IF m \in DOMAIN index THEN index[m] ELSE <<>>, i)) @@ index
AddNames(index, r, i) ==
  LET named == Add(index, Mnemonic(r.string), i) IN
  IF Mnemonic(r.string) = Mnemonic(r.iform) THEN named ELSE Add(named, Mnemonic(r.iform), i)
Index(records) == FoldLeft(LAMBDA index, i : AddNames(index, records[i], i), <<>>, [i \in DOMAIN records |-> i])
RecordIndicesForMnemonic(records, s) ==
  LET index == Index(records)  m == Mnemonic(s) IN IF m \in DOMAIN index THEN index[m] ELSE <<>>

-----------------------------------------------------------------------------
Init ==
  /\ setup \in Setups
  /\ pack \in [all : setup.portLists, alu : setup.portLists, records : {<<>>}]
  /\ file = <<>>
  /\ damaged = 0
AddRecord(r) ==
  /\ file = <<>> /\ Len(pack.records) < setup.maxRecords
  /\ pack' = [pack EXCEPT !.records = Append(@, r)]
  /\ UNCHANGED <<setup, file, damaged>>
Write ==
  /\ file = <<>>
  /\ file' = Encode(pack) /\ file' # <<>>
  /\ UNCHANGED <<setup, pack, damaged>>
\* the environment: a cell is changed or the end is lost
Damage(i, v) ==
  /\ damaged = 0 /\ file[i] # v
  /\ file' = [file EXCEPT ![i] = v] /\ damaged' = i
  /\ UNCHANGED <<setup, pack>>
Cut(n) ==
  /\ damaged = 0
  /\ file' = SubSeq(file, 1, n) /\ damaged' = n + 1
  /\ UNCHANGED <<setup, pack>>
Next ==
  \/ \E r \in setup.records : AddRecord(r)
  \/ Write
  \/ \E i \in DOMAIN file, v \in setup.damages : Damage(i, v)
  \/ setup.damages # {} /\ \E n \in 1..Len(file) - 1 : Cut(n)
Spec == Init /\ [][Next]_vars


-----------------------------------------------------------------------------
(* What is written can be read, and damage does no more harm than it must. *)

OfOneArch == \A i \in DOMAIN pack.records : pack.records[i].arch = Arch

\* Every pack of one architecture can be written - each string an encoder looks up was interned - and what is read from
\* the file is the pack: no option lost, no list cut, no offset into a neighbour.
RoundTrip == OfOneArch => Load(Encode(pack), TRUE) = <<pack>>

\* The verified load refuses a file of which any cell has changed or the end is missing.
DamageRefused == damaged # 0 => ~Opens(file, TRUE)

\* Without verification a changed cell behind the strings reaches one record at most; the others read as written.
DamageContained ==
  damaged # 0 /\ Opens(file, FALSE) /\ damaged > file[10] + file[11] =>
    Cardinality({i \in DOMAIN pack.records : ReadRecord(file, i) # <<pack.records[i]>>}) <= 1

\* Looking up a mnemonic finds exactly the records of which the string or the iform begins with it or an alias, each
\* once and in the order of the pack, on which the choice among them depends.
IndexExact ==
  \A i \in DOMAIN pack.records : \A s \in {pack.records[i].string, pack.records[i].iform} :
    RecordIndicesForMnemonic(pack.records, s) =
      SelectSeq([j \in DOMAIN pack.records |-> j],
                LAMBDA j : Mnemonic(s) \in {Mnemonic(pack.records[j].string), Mnemonic(pack.records[j].iform)})

\* A pack survives being written and read, and damage is seen or contained.
PackSound == (file = <<>> => RoundTrip /\ IndexExact) /\ DamageRefused /\ DamageContained
=============================================================================
