----------------------------- MODULE StoreFiles ------------------------------
(***************************************************************************)
(* A store file written and read back field by field (Mv2sFormat), and the *)
(* tool that rewrites it, src/tools/mv2s_vacuum.cpp.  One process at a     *)
(* time, the program or the tool, has one store open for writing; it may   *)
(* die in the middle of any write of more than one field.                  *)
(*                                                                         *)
(* The ring keeps every record: its geometry is WalRing's subject, its     *)
(* reuse WaxStore's.  The 64 bytes of a footer are written or not.         *)
(***************************************************************************)
EXTENDS Mv2sFormat

CONSTANTS
  Inputs,         \* what the program puts: [content, meta]
  TornAt,         \* fields of a header page after which its write may stop
  BatchSize,      \* kBatchSize
  MaxFrames,      \* bound on the puts of the program
  MaxCells,       \* bound on the cells of the data area when a put starts
  MaxGeneration,  \* bound on the commits of the program's store
  MaxDeletes,     \* bound on its deletes
  MaxRuns,        \* bound on the runs of the tool; nothing is put after the first
  MaxDeaths       \* bound on the deaths of a process

ASSUME FilesAssumption ==
  /\ {BatchSize, MaxFrames, MaxCells, MaxGeneration, MaxDeletes,
      MaxRuns, MaxDeaths} \subseteq Nat \ {0}
  /\ TornAt \subseteq 0 .. 7

VARIABLES
  disk,    \* what is at each path
  path,    \* the store that is open for writing
  stage,   \* what the process is doing: "none" when there is none
  mem,     \* the members of the open store
  vacuum,  \* what the tool has read and done
  want,    \* what the program has put into the store at "source"
  runs,    \* how often the tool has been started
  deaths   \* how often a process has died

vars == <<disk, path, stage, mem, vacuum, want, runs, deaths>>

Paths == {"source", "tmp", "bak", "copy"}
NoFile == <<>>
NoMem == <<>>
NoVacuum == <<>>

-----------------------------------------------------------------------------
(***************************************************************************)
(* A file, and LoadState on it.                                            *)
(***************************************************************************)
Page(hpgen, gen, footer, cseq, hash, snapshot) ==
  EncodeHeaderPage([hpgen |-> hpgen, gen |-> gen, footer |-> footer,
                    cseq |-> cseq, toc_hash |-> hash, snapshot |-> snapshot])

Created ==
  LET toc == EncodeTocV1(<<>>)
  IN  [a |-> Page(1, 0, 2, 0, <<>>, FALSE), b |-> Page(0, 0, 2, 0, <<>>, FALSE),
       data |-> Append(toc, EncodeFooter(toc, 0, 0)), ring |-> <<>>]

Pages(f) == {p \in {f.a, f.b} : HeaderReadable(p)}

Selected(f) ==
  IF HeaderReadable(f.a) /\ HeaderReadable(f.b)
    THEN IF DecodeHeaderPage(f.a).hpgen >= DecodeHeaderPage(f.b).hpgen
           THEN f.a ELSE f.b
    ELSE CHOOSE p \in Pages(f) : TRUE

Footer(f) == SelectPreferredFooter(f.data, ScanForLatestFooter(f.data))
Toc(f) == TocBefore(f.data, Footer(f))

\* Pending records are taken up to the first that cannot be decoded.
Pending(f) ==
  LET newer == SelectSeq(f.ring, LAMBDA r : r.seq > f.data[Footer(f)].cseq)
      bad == {i \in DOMAIN newer : ~RecordReadable(newer[i].m)}
  IN  IF bad = {} THEN newer ELSE SubSeq(newer, 1, Min(bad) - 1)

IsPut(r) == r.m.op = "putFrame"
PutsOf(records) == {r.m : r \in {q \in ToSet(records) : IsPut(q)}}

\* The last cell that a set of frames or puts needs, at least low.
EndOf(items, low) == Max({low} \cup {x.off : x \in {y \in items : y.len > 0}})

Apply(frames, records) ==
  LET puts == SelectSeq(records, IsPut)
      all == frames \o [i \in DOMAIN puts |-> FrameOfPut(puts[i].m)]
      gone == {r.m.id : r \in {q \in ToSet(records) : ~IsPut(q)}}
  IN  [i \in DOMAIN all |->
        IF i - 1 \in gone THEN [all[i] EXCEPT !.status = 1] ELSE all[i]]

RangesValid(frames, footer) ==
  \A i, j \in DOMAIN frames :
    frames[i].len > 0 =>
      /\ frames[i].off < footer
      /\ frames[j].len > 0 /\ i # j => frames[i].off # frames[j].off

Loadable(f) ==
  /\ f # NoFile
  /\ Pages(f) # {}
  /\ ScanForLatestFooter(f.data) # {}
  /\ TocReadable(Toc(f))
  /\ RangesValid(DecodeToc(Toc(f)), Footer(f))
  /\ EndOf(PutsOf(Pending(f)), Footer(f)) <= Len(f.data)

LastSeq(f) == Max({f.data[Footer(f)].cseq} \cup {r.seq : r \in ToSet(f.ring)})

Loaded(f) ==
  [frames |-> DecodeToc(Toc(f)), pending |-> Pending(f),
   gen |-> f.data[Footer(f)].gen,
   hpgen |-> DecodeHeaderPage(Selected(f)).hpgen,
   foff |-> Footer(f), last |-> LastSeq(f),
   dirty |-> LastSeq(f) > f.data[Footer(f)].cseq, local |-> FALSE]

\* A frame as the store's readers see it: FrameMetas and FrameContent.
Seen(f, frame) ==
  [bytes |-> IF frame.len = 0 THEN <<>>
             ELSE IF "bytes" \in DOMAIN f.data[frame.off]
               THEN f.data[frame.off].bytes ELSE <<"garbage">>,
   kind |-> frame.kind, labels |-> frame.labels, meta |-> frame.meta,
   status |-> frame.status]

View(f, frames) == [i \in DOMAIN frames |-> Seen(f, frames[i])]
Committed(f) == View(f, DecodeToc(Toc(f)))
Held(f) == View(f, Apply(DecodeToc(Toc(f)), Pending(f)))

\* Open cuts off what is behind the last footer and the pending payloads.
Repaired(f) ==
  [f EXCEPT !.data = SubSeq(@, 1, EndOf(PutsOf(Pending(f)), Footer(f)))]

-----------------------------------------------------------------------------
\* An earlier run of the tool has left its backup.
Init ==
  /\ disk = [p \in Paths |-> IF p \in {"source", "bak"} THEN Created ELSE NoFile]
  /\ path = "source"
  /\ stage = "none"
  /\ mem = NoMem
  /\ vacuum = NoVacuum
  /\ want = <<>>
  /\ runs = 0
  /\ deaths = 0

\* The program opens its store, or creates one where there is none.
Start ==
  /\ stage = "none"
  /\ path' = "source"
  /\ stage' = "idle"
  /\ vacuum' = NoVacuum
  /\ \/ /\ disk["source"] = NoFile
        /\ disk' = [disk EXCEPT !["source"] = Created]
        /\ mem' = Loaded(Created)
        /\ want' = <<>>
     \/ /\ Loadable(disk["source"])
        /\ disk' = [disk EXCEPT !["source"] = Repaired(@)]
        /\ mem' = Loaded(disk["source"])
        /\ UNCHANGED want
  /\ UNCHANGED <<runs, deaths>>

\* The payload is written before the ring is touched; a put of too much
\* metadata is refused between the two.
PutRecord(content, meta, id) ==
  BuildWalPutFramePayload(id, meta, Len(disk[path].data) + 1, content)

NextId == Len(Apply(mem.frames, mem.pending))

WithPayload(content) ==
  IF content = <<>> THEN disk[path].data
  ELSE Append(disk[path].data, [bytes |-> content])

Remembered(m) ==
  [mem EXCEPT !.pending = Append(@, [seq |-> mem.last + 1, m |-> m]),
              !.last = @ + 1, !.dirty = TRUE, !.local = TRUE]

Put(content, meta) ==
  /\ stage = "idle"
  /\ path = "source"
  /\ Len(want) < MaxFrames /\ runs = 0
  /\ Len(disk[path].data) < MaxCells
  /\ LET m == PutRecord(content, meta, NextId)
     IN  IF PutAllowed(meta)
         THEN /\ disk' = [disk EXCEPT ![path].data = WithPayload(content),
                                      ![path].ring =
                                        Append(@, [seq |-> mem.last + 1, m |-> m])]
              /\ mem' = Remembered(m)
              /\ want' = Append(want,
                           [bytes |-> content, kind |-> KindOf(meta),
                            labels |-> LabelsFrom(meta), meta |-> meta, status |-> 0])
         ELSE /\ disk' = [disk EXCEPT ![path].data = WithPayload(content)]
              /\ UNCHANGED <<mem, want>>
  /\ UNCHANGED <<path, stage, vacuum, runs, deaths>>

Deleted == {i \in DOMAIN want : want[i].status = 1}

Delete(id) ==
  /\ stage = "idle"
  /\ path = "source"
  /\ id < NextId /\ id < Len(want)
  /\ Cardinality(Deleted) < MaxDeletes
  /\ want[id + 1].status = 0
  /\ LET m == BuildWalDeletePayload(id)
     IN  /\ disk' = [disk EXCEPT ![path].ring =
                       Append(@, [seq |-> mem.last + 1, m |-> m])]
         /\ mem' = Remembered(m)
  /\ want' = [want EXCEPT ![id + 1].status = 1]
  /\ UNCHANGED <<path, stage, vacuum, runs, deaths>>

-----------------------------------------------------------------------------
(***************************************************************************)
(* Commit, and the writes a process may die in.                            *)
(***************************************************************************)
\* Commit reads the table of contents it extends back from the file.
Base == TocBefore(disk[path].data, mem.foff)
NewFrames == Apply(DecodeToc(Base), mem.pending)
NewToc == EncodeTocV1(NewFrames)
TocPlace == EndOf(ToSet(NewFrames), mem.foff) + 1
FooterPlace == TocPlace + Len(NewToc)
NewPage(hpgen) ==
  Page(hpgen, mem.gen + 1, FooterPlace, mem.last, Last(NewToc).checksum, TRUE)

PutCells(cells, at) ==
  LET old == disk[path].data
      end == Max({Len(old), at + Len(cells) - 1})
  IN  [i \in 1 .. end |-> IF i \in at .. at + Len(cells) - 1
                          THEN cells[i - at + 1] ELSE old[i]]

Commit ==
  /\ stage = "idle"
  /\ mem.dirty
  /\ path = "source" => mem.gen < MaxGeneration
  /\ TocReadable(Base)
  /\ stage' = "toc"
  /\ UNCHANGED <<disk, path, mem, vacuum, want, runs, deaths>>

WriteToc ==
  /\ stage = "toc"
  /\ disk' = [disk EXCEPT ![path].data = PutCells(NewToc, TocPlace)]
  /\ stage' = "footer"
  /\ UNCHANGED <<path, mem, vacuum, want, runs, deaths>>

\* The footer, and the file cut behind it.
WriteFooter ==
  /\ stage = "footer"
  /\ disk' = [disk EXCEPT ![path].data =
                Append(SubSeq(@, 1, FooterPlace - 1),
                       EncodeFooter(NewToc, mem.gen + 1, mem.last))]
  /\ stage' = "pageA"
  /\ UNCHANGED <<path, mem, vacuum, want, runs, deaths>>

WritePageA ==
  /\ stage = "pageA"
  /\ disk' = [disk EXCEPT ![path].a = NewPage(mem.hpgen + 1)]
  /\ stage' = "pageB"
  /\ UNCHANGED <<path, mem, vacuum, want, runs, deaths>>

WritePageB ==
  /\ stage = "pageB"
  /\ disk' = [disk EXCEPT ![path].b = NewPage(mem.hpgen)]
  /\ mem' = [frames |-> NewFrames, pending |-> <<>>, gen |-> mem.gen + 1,
             hpgen |-> mem.hpgen + 1, foff |-> FooterPlace, last |-> mem.last,
             dirty |-> FALSE, local |-> FALSE]
  /\ stage' = IF vacuum = NoVacuum THEN "idle" ELSE "copied"
  /\ UNCHANGED <<path, vacuum, want, runs, deaths>>

Ends ==
  /\ stage' = "none"
  /\ mem' = NoMem
  /\ vacuum' = NoVacuum
  /\ path' = "source"

Close ==
  /\ stage = "idle"
  /\ path = "source"
  /\ ~(mem.dirty /\ mem.local)
  /\ Ends
  /\ UNCHANGED <<disk, want, runs, deaths>>

Dies ==
  /\ deaths < MaxDeaths
  /\ deaths' = deaths + 1
  /\ Ends

DiesInToc ==
  /\ path = "source"
  /\ stage = "toc"
  /\ \E n \in 0 .. Len(NewToc) - 1 :
       disk' = [disk EXCEPT ![path].data = PutCells(SubSeq(NewToc, 1, n), TocPlace)]
  /\ Dies
  /\ UNCHANGED <<want, runs>>

DiesInPage ==
  /\ path = "source"
  /\ stage \in {"pageA", "pageB"}
  /\ \E n \in TornAt :
       \/ /\ stage = "pageA"
          /\ disk' = [disk EXCEPT ![path].a = Torn(NewPage(mem.hpgen + 1), @, n)]
       \/ /\ stage = "pageB"
          /\ disk' = [disk EXCEPT ![path].b = Torn(NewPage(mem.hpgen), @, n)]
  /\ Dies
  /\ UNCHANGED <<want, runs>>

ProgramDies ==
  /\ path = "source"
  /\ stage \in {"idle", "footer"}
  /\ Dies
  /\ UNCHANGED <<disk, want, runs>>

\* Nobody opens the store an unfinished run of the tool leaves behind; at "tmp"
\* it keeps later runs from starting.
ToolDies ==
  /\ path # "source"
  /\ disk' = IF stage = "replace" THEN disk
             ELSE [disk EXCEPT ![path] = IF path = "tmp" THEN Created ELSE NoFile]
  /\ Dies
  /\ UNCHANGED <<want, runs>>

-----------------------------------------------------------------------------
(***************************************************************************)
(* The vacuum: frames of the source that are not deleted are put into a    *)
(* new store a batch at a time, which is committed once.                   *)
(***************************************************************************)
StartVacuum(in_place) ==
  /\ stage = "none"
  /\ runs < MaxRuns
  /\ Loadable(disk["source"])
  /\ path' = IF in_place THEN "tmp" ELSE "copy"
  /\ disk[path'] = NoFile
  /\ disk' = [disk EXCEPT !["source"] = Repaired(@), ![path'] = Created]
  /\ mem' = Loaded(Created)
  /\ vacuum' = [metas |-> Committed(disk["source"]), next |-> 1, batch |-> <<>>]
  /\ stage' = "copy"
  /\ runs' = runs + 1
  /\ UNCHANGED <<want, deaths>>

\* PutBatch of frames of the source, under new ids.
PutBatch(frames) ==
  LET stored == SelectSeq(frames, LAMBDA s : s.bytes # <<>>)
      cell(i) == Len(SelectSeq(SubSeq(frames, 1, i), LAMBDA s : s.bytes # <<>>))
      records == [i \in DOMAIN frames |->
        [seq |-> mem.last + i,
         m |-> BuildWalPutFramePayload(NextId + i - 1, frames[i].meta,
                 Len(disk[path].data) + cell(i), frames[i].bytes)]]
  IN  /\ disk' = [disk EXCEPT
           ![path].data = @ \o [i \in DOMAIN stored |-> [bytes |-> stored[i].bytes]],
           ![path].ring = @ \o records]
      /\ mem' = [mem EXCEPT !.pending = @ \o records, !.last = @ + Len(records),
                            !.dirty = TRUE, !.local = TRUE]

\* A slip: a batch is put again with the next one.
AfterBatchKept(batch) == batch

AfterBatch(batch) == <<>>

\* One turn of the loop.  A batch is put when it is full or the last frame has
\* been added to it; a deleted frame is skipped before that is looked at.
CopyFrame ==
  LET i == vacuum.next
      batch == Append(vacuum.batch, vacuum.metas[i])
  IN  /\ stage = "copy"
      /\ i \in DOMAIN vacuum.metas
      /\ \/ /\ vacuum.metas[i].status # 0
            /\ vacuum' = [vacuum EXCEPT !.next = @ + 1]
            /\ UNCHANGED <<disk, mem>>
         \/ /\ vacuum.metas[i].status = 0
            /\ Len(batch) < BatchSize /\ i < Len(vacuum.metas)
            /\ vacuum' = [vacuum EXCEPT !.next = @ + 1, !.batch = batch]
            /\ UNCHANGED <<disk, mem>>
         \/ /\ vacuum.metas[i].status = 0
            /\ Len(batch) >= BatchSize \/ i = Len(vacuum.metas)
            /\ PutBatch(batch)
            /\ vacuum' = [vacuum EXCEPT !.next = @ + 1, !.batch = AfterBatch(batch)]
      /\ UNCHANGED <<path, stage, want, runs, deaths>>

\* Commit returns at once when nothing was put.
CopyDone ==
  /\ stage = "copy"
  /\ vacuum.next \notin DOMAIN vacuum.metas
  /\ stage' = IF mem.dirty THEN "toc" ELSE "copied"
  /\ UNCHANGED <<disk, path, mem, vacuum, want, runs, deaths>>

\* A copy made elsewhere is not followed any further.
Copied ==
  /\ stage = "copied"
  /\ path = "copy"
  /\ disk' = [disk EXCEPT !["copy"] = NoFile]
  /\ Ends
  /\ UNCHANGED <<want, runs, deaths>>

\* A slip: an older backup is removed after the source has taken its name.
BackupThenRemove ==
  /\ stage = "copied"
  /\ path = "tmp"
  /\ disk' = [disk EXCEPT !["source"] = NoFile,
                          !["bak"] = IF @ = NoFile THEN disk["source"] ELSE NoFile]
  /\ stage' = "replace"
  /\ UNCHANGED <<path, mem, vacuum, want, runs, deaths>>

\* An older backup is removed and the source takes its name.
Backup ==
  /\ stage = "copied"
  /\ path = "tmp"
  /\ disk' = [disk EXCEPT !["source"] = NoFile, !["bak"] = disk["source"]]
  /\ stage' = "replace"
  /\ UNCHANGED <<path, mem, vacuum, want, runs, deaths>>

\* The renames may fail: the older backup is gone, the copy stays at "tmp".  When
\* the second fails the tool ends as it does when it dies there.
BackupFails ==
  /\ stage = "copied"
  /\ path = "tmp"
  /\ disk' = [disk EXCEPT !["bak"] = NoFile, !["tmp"] = Created]
  /\ Ends
  /\ UNCHANGED <<want, runs, deaths>>

Replace ==
  /\ stage = "replace"
  /\ disk' = [disk EXCEPT !["source"] = disk["tmp"], !["tmp"] = NoFile]
  /\ want' = Held(disk["tmp"])
  /\ Ends
  /\ UNCHANGED <<runs, deaths>>

Next ==
  \/ Start
  \/ \E input \in Inputs : Put(input.content, input.meta)
  \/ \E id \in 0 .. MaxFrames - 1 : Delete(id)
  \/ Commit
  \/ WriteToc
  \/ WriteFooter
  \/ WritePageA
  \/ WritePageB
  \/ Close
  \/ DiesInToc
  \/ DiesInPage
  \/ ProgramDies
  \/ ToolDies
  \/ \E in_place \in BOOLEAN : StartVacuum(in_place)
  \/ CopyFrame
  \/ CopyDone
  \/ Copied
  \/ Backup
  \/ BackupFails
  \/ Replace

Spec == Init /\ [][Next]_vars

-----------------------------------------------------------------------------
\* No string the program put, and no store, is longer than what a reader accepts.
AllShort ==
  /\ Len(want) <= MaxCount
  /\ \A i \in DOMAIN want :
       /\ ShortSeq(want[i].kind)
       /\ ShortSeq(want[i].labels)
       /\ \A k \in DOMAIN want[i].meta : Short(k) /\ Short(want[i].meta[k])

\* Whatever was put comes back: at every step, in the middle of every write,
\* the file at "source" can be loaded and shows every frame with the payload,
\* kind, labels, metadata and status the program gave it (Commit, EncodeTocV1,
\* DecodeToc, LoadState), unless a string, or the number of frames, which Commit
\* does not check, was more than can be read or both header pages were cut short:
\* Commit writes page A first even when page B is the one that an earlier death
\* left unreadable.
ReadsBack ==
  disk["source"] # NoFile /\ AllShort /\ Pages(disk["source"]) # {} =>
    /\ Loadable(disk["source"])
    /\ Held(disk["source"]) = want

\* What mv2s_vacuum.cpp promises: it copies all active frames with their metadata
\* (line 14), whatever their number is and wherever deleted ones stand among them.
Active(frames) == SelectSeq(frames, LAMBDA s : s.status = 0)

VacuumKeepsActive ==
  stage = "copied" =>
    /\ Loadable(disk[path])
    /\ Committed(disk[path]) = Active(vacuum.metas)

\* What it copies, it copies once, in order and with payload and metadata, over
\* any boundary of its batches: no frame that is deleted, none twice, and none
\* behind one that is missing; and all when the last frame is active.
VacuumCopiesOnce ==
  stage = "copied" =>
    LET copy == Committed(disk[path])
        active == Active(vacuum.metas)
    IN  /\ Loadable(disk[path])
        /\ IsPrefix(copy, active)
        /\ vacuum.metas # <<>> /\ Last(vacuum.metas).status = 0 => copy = active

\* Between the two renames of a vacuum, or when the tool dies or fails there,
\* nothing is at "source"; the backup then still holds every frame.
BackupHolds ==
  disk["source"] = NoFile /\ AllShort =>
    /\ Loadable(disk["bak"])
    /\ Held(disk["bak"]) = want
    /\ Loadable(disk["tmp"])
==============================================================================
