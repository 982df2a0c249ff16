----------------------------- MODULE Mv2sFormat ------------------------------
(***************************************************************************)
(* What an .mv2s file holds and how it is read back: header pages, tables  *)
(* of contents, footers (src/src/core/mv2s_format.cpp) and the put records *)
(* of the ring (BuildWalPutFramePayload, DecodeWalMutationPayload).        *)
(*                                                                         *)
(* A page is the sequence of its fields in the order of their offsets, a   *)
(* table of contents one cell per frame and one for what comes behind the  *)
(* frames.  An optional field is a sequence of at most one value.  A hash  *)
(* is what it was taken of.  A string is a name, Size its bytes.           *)
(*                                                                         *)
(* Left out: fields that are constant in every file this program writes    *)
(* (tags, encodings, index manifests, segments, ticket), timestamps, the   *)
(* two cursors of the ring and supersession links, which other modules     *)
(* follow, and counts that do not fit 32 bits.                             *)
(***************************************************************************)
EXTENDS Integers, Sequences, SequencesExt, FiniteSetsExt

CONSTANTS
  KeyOrder,    \* the metadata keys in the order of std::string's <
  Size,        \* bytes of each string
  LabelsOf,    \* the parts of a string between commas that are not empty
  MaxString,   \* kMaxStringBytes
  MaxCount     \* kMaxArrayCount

ASSUME FormatAssumption ==
  /\ {"kind", "labels"} \subseteq ToSet(KeyOrder)
  /\ Size \in [DOMAIN Size -> Nat]
  /\ DOMAIN LabelsOf = DOMAIN Size
  /\ {MaxString, MaxCount} \subseteq Nat

NotEmpty(s) == Size[s] > 0
Short(s) == Size[s] <= MaxString
ShortSeq(ss) == \A i \in DOMAIN ss : Short(ss[i])

Entries(meta) ==
  LET keys == SelectSeq(KeyOrder, LAMBDA k : k \in DOMAIN meta)
  IN  [i \in DOMAIN keys |-> <<keys[i], meta[keys[i]]>>]

MetaField(meta) == IF DOMAIN meta = {} THEN <<>> ELSE <<Entries(meta)>>

MetaOf(field) ==
  IF field = <<>> THEN <<>>
  ELSE LET entries == field[1]
           keys == {entries[i][1] : i \in DOMAIN entries}
       IN  [k \in keys |-> (CHOOSE e \in ToSet(entries) : e[1] = k)[2]]

\* Keys must be distinct, strings short and entries few.
MetaReadable(field) ==
  field # <<>> =>
    LET entries == field[1]
    IN  /\ Len(entries) <= MaxCount
        /\ \A i \in DOMAIN entries : Short(entries[i][1]) /\ Short(entries[i][2])
        /\ \A i, j \in DOMAIN entries : i # j => entries[i][1] # entries[j][1]

-----------------------------------------------------------------------------
(***************************************************************************)
(* Frames in a table of contents.                                          *)
(***************************************************************************)
KindField(kind) == SelectSeq(kind, NotEmpty)

\* A slip: the metadata of deleted frames is not written.
EncodedFrameActiveMeta(f) ==
  [id |-> f.id, kind |-> KindField(f.kind), off |-> f.off, len |-> f.len,
   sum |-> f.sum, stored |-> f.stored,
   meta |-> IF f.status = 0 THEN MetaField(f.meta) ELSE <<>>,
   labels |-> f.labels, status |-> f.status]

\* A plain payload's stored checksum is its checksum.
EncodedFrame(f) ==
  [id |-> f.id, kind |-> KindField(f.kind), off |-> f.off, len |-> f.len,
   sum |-> f.sum,
   stored |-> IF f.stored = <<>> /\ f.len > 0 THEN <<f.sum>> ELSE f.stored,
   meta |-> MetaField(f.meta), labels |-> f.labels, status |-> f.status]

DecodedFrame(e) ==
  [id |-> e.id, kind |-> e.kind, off |-> e.off, len |-> e.len, sum |-> e.sum,
   stored |-> e.stored, meta |-> MetaOf(e.meta), labels |-> e.labels,
   status |-> e.status]

FrameReadable(e, index) ==
  /\ e.id = index - 1
  /\ ShortSeq(e.kind)
  /\ MetaReadable(e.meta)
  /\ Len(e.labels) <= MaxCount
  /\ ShortSeq(e.labels)
  /\ e.status \in {0, 1}
  /\ e.len > 0 => e.stored # <<>>

\* The cells of a table of contents; the checksum covers all but itself.
EncodeTocV1(frames) ==
  LET body == [i \in DOMAIN frames |-> EncodedFrame(frames[i])]
  IN  Append(body, [tail |-> TRUE, checksum |-> body])

ComputeTocChecksum(cells) == Front(cells)

TocHashMatches(cells, hash) ==
  /\ "tail" \in DOMAIN Last(cells)
  /\ Last(cells).checksum = ComputeTocChecksum(cells)
  /\ Last(cells).checksum = hash

TocReadable(cells) ==
  /\ Len(cells) - 1 <= MaxCount
  /\ \A i \in 1 .. Len(cells) - 1 : FrameReadable(cells[i], i)

DecodeToc(cells) == [i \in 1 .. Len(cells) - 1 |-> DecodedFrame(cells[i])]

-----------------------------------------------------------------------------
(***************************************************************************)
(* Footers.  No checksum covers the generation and the sequence number.    *)
(***************************************************************************)
EncodeFooter(toc, gen, cseq) ==
  [magic |-> "MV2SFOOT", toc_len |-> Len(toc), toc_hash |-> Last(toc).checksum,
   gen |-> gen, cseq |-> cseq]

TocBefore(data, i) == SubSeq(data, i - data[i].toc_len, i - 1)

TryReadFooterAt(data, i) ==
  /\ i \in DOMAIN data
  /\ "magic" \in DOMAIN data[i]
  /\ data[i].toc_len < i
  /\ TocHashMatches(TocBefore(data, i), data[i].toc_hash)

Newer(data, i, j) ==
  \/ data[i].gen > data[j].gen
  \/ data[i].gen = data[j].gen /\ i > j

\* The one to load of the footers the header, its snapshot and a scan find.
SelectPreferredFooter(data, found) ==
  CHOOSE i \in found : \A j \in found \ {i} : Newer(data, i, j)

ScanForLatestFooter(data) == {i \in DOMAIN data : TryReadFooterAt(data, i)}

-----------------------------------------------------------------------------
(***************************************************************************)
(* Header pages.                                                           *)
(***************************************************************************)
Covered(fields) == RemoveAt(fields, 7)
ComputeHeaderChecksum(fields) == Covered(fields)

\* magic, page generation, file generation, footer, sequence, hash of the
\* table of contents, checksum, replay snapshot.
EncodeHeaderPage(p) ==
  LET snapshot == [gen |-> p.gen, cseq |-> p.cseq, footer |-> p.footer]
      fields == <<"MV2S", p.hpgen, p.gen, p.footer, p.cseq, p.toc_hash, <<>>,
                  IF p.snapshot THEN <<snapshot>> ELSE <<>>>>
  IN  [fields EXCEPT ![7] = ComputeHeaderChecksum(fields)]

HeaderReadable(page) ==
  /\ page[1] = "MV2S"
  /\ page[7] = ComputeHeaderChecksum(page)
  /\ page[4] > 0
  /\ page[8] # <<>> => page[8][1].footer > 0

DecodeHeaderPage(page) ==
  [hpgen |-> page[2], gen |-> page[3], footer |-> page[4], cseq |-> page[5],
   snapshot |-> page[8]]

\* What a write leaves that stops after its first n fields.
Torn(new, old, n) == SubSeq(new, 1, n) \o SubSeq(old, n + 1, Len(old))

-----------------------------------------------------------------------------
(***************************************************************************)
(* Put records of the ring.                                                *)
(***************************************************************************)
\* The kind and the labels of a frame come from its metadata.
KindOf(meta) ==
  IF "kind" \in DOMAIN meta THEN SelectSeq(<<meta["kind"]>>, NotEmpty) ELSE <<>>

LabelsFrom(meta) ==
  IF "labels" \in DOMAIN meta THEN LabelsOf[meta["labels"]] ELSE <<>>

PutAllowed(meta) ==
  /\ Len(LabelsFrom(meta)) <= MaxCount
  /\ Cardinality(DOMAIN meta) <= MaxCount

BuildWalPutFramePayload(id, meta, off, bytes) ==
  [op |-> "putFrame", id |-> id, kind |-> KindField(KindOf(meta)),
   labels |-> LabelsFrom(meta), meta |-> MetaField(meta),
   off |-> off, len |-> Len(bytes), sum |-> bytes, stored |-> bytes]

BuildWalDeletePayload(id) == [op |-> "deleteFrame", id |-> id]

RecordReadable(r) ==
  r.op = "putFrame" =>
    /\ ShortSeq(r.kind)
    /\ Len(r.labels) <= MaxCount
    /\ ShortSeq(r.labels)
    /\ MetaReadable(r.meta)

\* The frame Commit and FrameMetas make of a put record.
FrameOfPut(r) ==
  [id |-> r.id, kind |-> r.kind, off |-> r.off, len |-> r.len, sum |-> r.sum,
   stored |-> IF r.len > 0 THEN <<r.stored>> ELSE <<>>, meta |-> MetaOf(r.meta), labels |-> r.labels,
   status |-> 0]
==============================================================================
