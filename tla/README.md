# Verification of archive-forensic

TLA+ models, model-checking runs and machine-checked proofs for
`archive-core` (the crate under `core/`): the library that recognises packed
evidence (gzip, bzip2, tar, zip, 7z), peels it layer by layer and hands out its
bytes, in memory or behind seekable handles.

Paths below are relative to the repository (`core/src/...`).

## 1. The system

The library is sequential: every operation is a call that runs on its caller's
thread and keeps no state in the background. What makes it hard is not
concurrency but **hostile and damaged input, resource caps, partial failures
and cursors**: recursion over data that may contain itself, budgets summed over
a whole tree, reads that come back short, streams that break off, temp files
that must not outlive a failure, lengths that a header declares and the stream
does not hold.

| component | state | operations | called by |
|---|---|---|---|
| format detection, `detect.rs` | none | `sniff(name, head)` | everything |
| bare peel, `peel.rs` | none | `peel_bytes`, `decode_gzip`, `decode_bzip2` | resolve, archive layer, VFS adapter |
| archive reader, `archive.rs` | format, member table, backend with the packed bytes | `open`, `entries`, `read`, `stream_member`, `member_access` | resolve, plan, executor, VFS adapter |
| recursive resolve, `resolve.rs` | the pending calls, the running totals (`Budget`), the nodes so far | `resolve` | the library's user |
| archive layer, `archive_layer.rs` | none | `peel_archive` | the image-opening consumer |
| access plan, `plan.rs` | none | `detect` and the segment-set classification | executor, reassembly |
| temp spill, `execute.rs` + `archive.rs` | a temp file being filled, then owned by a handle | `spill`, both `copy_capped` | executor |
| seekable handles, `execute.rs` | one cursor each | `Read` and `Seek` of `SubRange`, `ZranBacked`, `TempBacked` | the user, `ConcatSource` |
| reassembly, `reassemble.rs` | segments with their offsets, total, cursor | `ConcatSource::new/read/seek`, `segment_sources`, `reassemble` | the user |
| VFS adapter, `vfs.rs` | none; the sources it hands out keep their bytes | `probe`, `open`, `read_all` | a forensic-vfs resolver |

Interactions: `resolve` drives `sniff`, `peel_bytes`, `Archive::open` and
`Archive::read` recursively. `peel_archive_seekable` runs `detect` and then one
of the access routes (window, zran index, temp spill). `reassemble` runs
`detect`, the access route of every segment, and stitches the handles with
`ConcatSource`, which holds the handles' cursors as well as its own.

What has to be right, by component:

- **resolve**: terminates on every input, cyclic packing included; no guard is
  exceeded over the *whole* recursion; nothing is handed out uncharged; the
  overshoot of the after-the-fact charge is bounded; the answer is the packing
  tree's leaves in document order or the first error, never half of either.
- **spill**: `Ok` means the whole stream and `TooLarge` is no false alarm, also
  at the cap itself; the temp volume never takes more than one byte past the
  cap; no file outlives a failed call; endless streams end.
- **ConcatSource**: whatever mix of short reads, failed reads and seeks, and
  wherever the handles' own cursors were left, the caller sees one image.
- **plan / executor**: a set is all of the archive's files, in segment order, each
  once; every handle has the length it claims and is under the caps the module's
  header promises; a failure at the k-th segment leaves no temp file.
- **peel_archive**: agrees with its seekable twin wherever both read the same
  format from their input.
- **handles**: what a caller reads between two seeks is one piece of what the handle
  holds, and no cursor leaves its window.
- **VFS adapter**: what a source delivers is what is opened, and opening layer by
  layer, in any order, leads to the evidence `resolve` finds.

`PROJECT.json` lists every hazard found, at its line, with the properties that
cover it; those without a property say why.

## 2. The modules

    Formats <- Content <- Resolve, PackingTree <- ResolveAnswers <- MCResolve
                  ^                                   +--(refinement)--> ResolveSpec
                  +---- VfsOpener, PackingTree <- VfsEvidence <- MCVfs
                  +---- AccessPlan <- Executor
                  |                      ^--- Executor, ArchiveLayer <- Twins <- MCExecutor
                  +---- ArchiveLayer     |
                                     Reassembly <- MCReassembly --(refinement)--+
                                         |                                      v
    Handles <- ConcatSource <------ (INSTANCE)                           SeekableImage
       ^           ^-- MCConcat ----------------(refinement)--------------------^ ^
       +------ PeeledSource <- MCPeeled --------(refinement)----------------------+

    Spill <- MCSpill --(refinement)--> Extraction   (the step Executor takes)

    PackingTree_proofs <- Resolve_proofs, Vfs_proofs    Handles_proofs <- Concat_proofs, Peeled_proofs
    Executor_proofs (with Twins and AccessPlan)    Spill_proofs

**`Formats`** — `sniff` and the other name tests as operators. A name is the
sequence of its dot-separated pieces in lower case, as every test in the code is
an `ends_with` of an extension on the lower-cased name. The head of the data is
which magic it starts with and whether `ustar` stands at 257.

**`Content`** — what byte strings hold and what the readers answer. A *world*
maps each byte string to its magic, its size, what a decoder yields from it and,
for an archive, its members. The codecs are external: a stream decodes to
another byte string, or it is damaged (`NoBlob`), at once or after a good beginning
(`head`). Readers differ in how much of it they ask for. `PeelBytes` is `peel_bytes`
with both decoders and their cap: it decodes to the end, and damage anywhere is an
error. `Streamed` is what a lazy reader gets, the good beginning included: the tar
parser reads a packed tar through it (`ContainerStream`) and stops at the tar's end
block, so that a `.tar.gz` damaged behind it opens, lists and reads like a sound one.
`Opens`, `Entries` and `ReadMember` are the archive reader. `ReadMember` gives a *set* of results, because 7z is asked for a member
by name (`archive.rs:402`).

**`Resolve`** — `resolve_into` with its recursion made explicit: a stack of
frames, one per pending call, each with its data, name, depth and the member its
loop takes next. One action per thing a call does between two calls of itself:
`GuardDepth`, `PeelWrapper`, `OpenArchive`, `EntryOverBudget`, `DirMember`,
`FileMember`, `EndMembers`, `Leaf`. The recursive call in the wrapper branch is
the last thing that branch does, so it takes its caller's frame. An error
empties the stack (`?` in every pending call). Depth chains exist only to word
an error and are left out. `emitted` is a history variable.

**`Budget`** — the limits and the saturating addition they are held against.

**`PackingTree`** — the packing tree of an input as a list of events in document
order (so many bytes inflated, a member seen, a node found, an error), and the
answer they determine: that of the first event that breaks a limit or is an error,
or else all the nodes. There is no stack and no running budget in it. What is
recursive in the code is a function over numbers here: of the levels still allowed
(`Events`), of the members still to come (`LastMembers`), of the events counted
(`Tally`).

**`ResolveSpec`** — what `resolve` promises: for its input, in one step, the one
answer. **`ResolveAnswers`** puts `Resolve` beside the packing tree: what a caller
sees of a state (`Answered`) implements `ResolveSpec` with the tree's answer
(`AnswersAsPromised`), and `Transparent` compares the answers to a packed input and
to the same input unpacked.

**`Spill`** — one extraction to a temp file by any of the three routes (wrapper,
tar/zip member, 7z member through a `Vec`), as `io::copy` performs it: reads of
any size up to the buffer, a decoder that fails where its stream breaks off, a
temp volume that refuses the file, a write (part of it done), a flush or a seek.
`cap + 1` is u64 arithmetic. The archive has been opened: `Open` failures come
before `spill` is called and are not part of it.

**`SeekableImage`** — the abstract cursor over one image: a read gives a
non-empty piece of what follows unless there is nothing, or fails and moves
nothing; a seek stops at the end.

**`Extraction`** — what a spill is to its caller: one step, to a handle at the start
of the whole stream or to an error and no file. `Spill` is shown to implement it
(`OneStep`), which is what allows `Executor` to take a spill as one step.

**`Handles`** — the three kinds of seekable handle as values: what one holds, how far
a read of it may get (`ReadSizes`: a memory window gives all it can, a file or a
zran index may give less) and where a seek leads (`SeekTo`: a file goes anywhere,
the others stop at their length). A zran handle's length is the one its zip entry
declares, so its stream may hold less (`Missing`) or more.

**`PeeledSource`** — one handle in its caller's hands: reads, short reads, failed
reads and seeks, in any order.

**`ConcatSource`** — the stitched source over handles of the three kinds: `new()`'s
loop (`Place`), `seg_at` as what a binary search guarantees, the handle's own
seek and read, and the caller's reads and seeks in any order. `image`, `mark` and
`run` are history variables: what the handles hold, where the last seek led, what
was read since.

**`AccessPlan`** — `detect` as an operator from a world to a plan: route, format,
segment kind, and the members in order with their access. A segment number is
read off a piece of a name, of which `Shape` tells the marker before its closing
digits, their count and their value; two digits for EWF, at least two for a raw
split, any for a split VMDK, and no number past u64. The stable sort is said by
each file's place (`Rank`). `PeekHead` looks at what a stream begins like, so a
stream that breaks off later still has a head.

**`Executor`** — one call of `peel_archive_seekable` or of `reassemble` (which is
`segment_sources` and a name for what it gives): `Classify` makes the plan, then
one handle per segment by its access: `Window`, `CopyArchive` and `OpenEntry` for
zran (`pc = "open"` between them, the temp file with the packed archive already
there), `SpillMember`, or `SpillWrapper`. A failing step has an action of its own;
`Fail` drops the handles made before and their files. A spill is one step, by what
`Spill` shows of it. A zran entry is opened by *name* (`Namesakes`), and declares a
length its stream need not have.

**`Reassembly`** — `reassemble()` and what its caller does with the result: the steps
of `Executor` until there are handles, then those of `ConcatSource` over exactly
these handles, until the image and its temp files are dropped.

**`ArchiveLayer`** — `peel_archive`, as the set of answers it may give. **`Twins`**
compares them with the executor's (`TwinsAgree`).

**`VfsOpener`** — the forensic-vfs opener and a caller that opens layers in any order:
`read_all` as its reads (`ReadSome`, `EndRead`, `ReadFails`), then `OpenStream`,
`OpenMembers` with the loop over the members (`SkipDir`, `TakeMember`,
`EndMembers`), or `NotArchive`. A source that `probe` recognised and `open` refused is
remembered in the history variable `lost`. The caller's own source may answer short, fail, or
have fewer bytes than it reports; the in-memory sources the opener makes do none
of these. `tree` holds what is not opened yet, in document order. **`VfsEvidence`** sets
that tree beside the answer of `resolve` to the same bytes (`SameEvidence`), under any
name that adds nothing to what the content says (`Neutral`). One kind of source the
two do not agree on, and `Overlooked` says which: a packed tar whose stream does
not decode to its end, or not under `MAX_INFLATED`, though the tar in it is whole. By
name it is a container, read lazily; the opener, which sees no name, decodes all of
it and refuses. Everything else that is recognised is refused only where `resolve`
fails.

`MC*` modules hold the instances and the refinement mappings; `*_proofs` the
theorems.

## 3. The runs

| run | shows |
|---|---|
| `resolve` | wrappers of wrappers and tars under 13 names, and archives in archives, in trees and cycles, over tar, zip and 7z, bad members and declared sizes included, under 6 limits: budgets, charge, node count, overshoot, termination, the promised answer; that a read returns the member at its index as long as names differ; that a wrapped file answers as the unwrapped one |
| `resolve_twins` | *violation*: with two members of one name in a 7z, `read(i)` may return the other one |
| `resolve_multigzip` | *violation*: of a gzip file of two members, the first is answered as the whole |
| `spill` | every length against every cap below `u64::MAX`, every route, short reads and every failure: whole or refused, bounded, no orphan, returns, and one step to its caller |
| `spill_widest` | *violation*: at a cap of `u64::MAX`, `Ok` comes with an empty file |
| `concat` | every short read, failure and seek over lists of handles: stitched, no false end, a segment for every position, implements `SeekableImage`; where the lengths sum past u64, types and position hold |
| `reassembly` | archives of every format, member method and order of a split set, bad windows, bad CRCs and lying sizes, wrapped streams whole, broken at once and broken further on, six limits, every failure: sets whole and ordered, temp files owned, lengths true, index gate kept, twins agree; and raw split sets read through the stitched image: one image, the parts' data by number |
| `executor_cap` | *violation*: a zran handle over `max_total_inflated` |
| `executor_gaps` | *violation*: a raw split set without its number 2 becomes one image |
| `peeled` | one handle of each kind, read and sought in any order: contiguous, in its window, and, but for a file, one seekable image |
| `vfs` | a caller opening layers in any order, from a source that reads short or fails: what is read is whole, the tree it ends with is what `resolve` answers, where `resolve` answers nothing but an overlooked packed tar was refused, and every call returns; with packed tars damaged inside the tar, damaged behind it, and larger than `MAX_INFLATED` |
| `vfs_short` | *violation*: a source shorter than it reports is opened as if it ended there |

**Bounds.** They are scaled-down constants of the code, not cut-off behaviour.

- `MaxU64` is 12 for `Resolve`, 7 for the others: small enough that sums pass
  it, large enough that all other limits lie well below it.
- `MaxInflated` is 4, with streams of 0 to 9 bytes, so that one decompression
  falls below, at and above it.
- Worlds assign contents to three byte strings in every combination of a list
  per string. Three are enough for a wrapper in a wrapper in an archive, for two
  members of an archive that are themselves layers, for sharing and for cycles
  of length 1, 2 and 3.
- Limits: one that lets everything through, each of the three tight on its own,
  and all at `u64::MAX` (with depth 3), where only the depth guard is left.
- Spill: all lengths from 0 to two past `u64::MAX`, a buffer of 3, so that a copy
  takes several reads and ends inside, at and past a buffer.
- Concat: up to four handles of at most three bytes, empty ones at either end
  and in between, every byte of an image different so that a wrong one shows;
  reads of 0 to 3, seeks before the start, past the end and out of u64. Peeled:
  the same for one handle, with `MaxI64` 3 for the file positions.
- Executor: a checkpoint every 2 bytes, of 1 byte (the code: every 8 MiB, of
  128 KiB), `max_index_bytes` 1 and 9, caps 2, 3 and 7 against members of 2 to 6
  bytes and `MaxInflated` 4: each cap falls below, at and above a member. Sets of
  two and three segments are enough for an order, a directory in between, a
  failure with one and with two handles behind it, and equal numbers. Lists with
  lying sizes are left out for tar, where the size is what finds the next header.
- Reassembly: two read sizes (2 and 5: within a part, and across all of them) and
  four seeks. Only the images of the raw split sets are read (`MCNext`); for the
  other worlds `ConcatSource` over their handles is what `concat` already covers.
- Vfs: names without an extension, and `.tgz` or `.tar.gz` on what is one; `MaxOpens` calls of `open()`, enough for the deepest tree of the worlds to be
  opened to its leaves; tars of 2 to 9 bytes, below and past `MaxInflated`, packed once and
  twice, in streams that are whole, damaged in the tar or damaged behind it; sources that deliver all, nothing, or a tar's beginning.

`CHECK_DEADLOCK FALSE` everywhere: a call that has returned has nothing left to
do.

**Fairness.** `Resolve` has weak fairness on its next step, `Spill` on the steps of
the call (not on the owner dropping the handle), `Extraction` on the step that
answers, and `VfsOpener` on the steps of the call, failed reads of the source left
out: nothing in these calls waits for anything, so a call that can go on does.
The decoder and the temp volume answer every request, with bytes, an end or an
error, and a source that does not fail answers with a byte or with none; a device
that hangs for ever is outside the models. `ConcatSource` and `PeeledSource` assume
none: nothing makes a caller read; nor does `Executor`, whose properties are all
of safety (its loop is over a finite list, and what could hang is in `Spill`).

**Mutants.** Every property of a passing run names a change of a definition, as
a plausible bug would make it, that breaks it (a charge forgotten, a directory
uncounted, a name not stripped, a temp file kept, a handle not repositioned).
They stand before the definition they change, marked *Mutant*.

**Findings** (the violation runs):

1. `execute.rs:552` and `archive.rs:421`: `take(cap + 1)` with
   `max_total_inflated = u64::MAX` wraps to `take(0)` in a release build: the
   call answers `Ok` with nothing in the file. A debug build panics.
2. `archive.rs:402`: a 7z member is read by name, where `archive.rs:141` promises
   "the member at `index`".
3. `execute.rs:432-472`: `peel_zran` never looks at `max_total_inflated`, where
   `execute.rs:19` says every extraction is capped at it. A stored or a spilled
   member of that size is refused.
4. `plan.rs:286`: segments are sorted, and nothing looks for a gap or a number that
   occurs twice. `docs/PRD.md:53-56` promises one logical source, and to fail loud
   on malformed input.
5. `peel.rs:50`: `GzDecoder` ends with the first member of a gzip file of several;
   the rest is dropped and `Ok` answered, where `error.rs:1-2` says never to
   truncate silently.
6. `vfs.rs:146`: an empty read before the reported length is taken for the end, and
   a member list cut short with it is answered as complete. `docs/PRD.md:55-56`
   names the lying size among what fails loud.

**Met while modelling, and not a run of their own.** The properties or the worlds of
the passing runs leave these out where they matter, as named here.

- `reassemble.rs:99` saturates, `seg_at` at line 124 adds with `+`: with declared
  lengths past `u64::MAX` between them the return marked "cov:unreachable" at line
  136 is reached. It takes `max_index_bytes` far above its default, or a namesake of
  the member whose size was looked at (`Fits` in `ConcatSource`).
- `execute.rs:451-461`: the index gate takes the size by index, the entry is opened by
  name; of two namesakes the smaller may pass the gate and the larger be opened
  (no zip of `reassembly`'s worlds has namesakes; `NamesDiffer` in the proofs).
- `execute.rs:465`: a zran handle's length is the declared one; where the stream holds
  less, a read inside the image answers `Ok(0)` (`Missing` in `EofIsEnd`).
- `archive.rs:399`: a 7z member is refused past `MAX_INFLATED`, or for a declared size past
  it, where the caller's cap allows more (the exception `TooLargeIsTrue` makes for 7z).
- `archive.rs:219`: what a compressed stream holds behind its tar's end block, its checksum
  included, is never read, where the comment at lines 62-64 has a malformed outer layer
  surface while the tar is listed. A `.tar.gz` damaged there is answered `Ok`.
- `plan.rs:135-136`: a damaged stream of which not even the head decodes is
  `Direct`, the guard against a coincidental magic; the in-memory peel of the same bytes
  under a packed name says `Decode`. `TwinsAgree` compares calls that read the same format.
- `execute.rs:177`: a `TempBacked` handle seeks past its end, where the other two stop
  (the guard of `PeeledSource`'s `AnswersAsPromised`).
- `vfs.rs:73`: the opener sees no name, so that a packed tar is one stream,
  decoded to its end under `MAX_INFLATED`; by name it is a container, read lazily up to
  the tar's end and without a cap. Past that cap, and with damage behind the tar, the
  opener refuses what `resolve` opens (`Overlooked` in `SameEvidence`; the worlds of
  `MCVfs` have both).
- `resolve.rs:149`: a whole archive is listed before `max_entries` is asked of it.
- `execute.rs:553`: `io::copy` has one error for its two ends, so that a full temp
  volume is reported as a `Decode` of a sound wrapper (`Extraction!Errors`).
- `reassemble.rs:199`: every segment of a set has the whole cap to itself.

## 4. The proofs

All for every value of the constants, by TLAPS.

**`Resolve_proofs`** — for all worlds, names and limits, from `ContentAssumption`,
`ResolveAssumption` and `BudgetAssumption` (the constants are of their kind; an error
is not a byte string):

- `TypeCorrect`; `BudgetIsKept`; `NothingIsFree` (`EmittedIsCharged`);
  `NodesAreBounded` (`NodesAreCounted`); `OvershootIsBounded`. None of the properties is
  inductive: `SafeInv` adds `StackOK`, that only the last frame can be one that has
  not looked at its data and that no other is too deep. Without it, a step that
  returns from a call would expose a frame about which nothing is known, and the
  bytes of a call in waiting could not be accounted for. `OvershootBounded` rests on
  two lemmas on the readers, `PeelBytesBounded` and `ReadMemberBounded`.
- `MembersAreTheirOwn` (`ReadsMemberAtIndex`), where no 7z archive has two members of
  one name (`NamesDiffer`; finding 2 is what happens else). The property speaks of a
  caller and of the call above it; `Deeper`, that depths grow along the stack, is what
  keeps a wrapper's peel, which takes its caller's frame, from passing for such a call.
- `KeepsItsPromise`, under the same hypothesis: `Resolve` implements `ResolveSpec` with
  the packing tree's answer (`AnswersAsPromised`). The invariant `Promised` says that the
  events of the input are those already taken followed by those the calls on the
  stack still have to give. `Taken` ties the events that are past to the state: none of
  them breaks a limit, and the running totals, saturated or not, and the nodes so far
  are what they add up to. `Chain` gives each frame its share of what is to come
  (`ToCome`): all of a layer's events before its depth is looked at, those of the members
  from the next one on in its loop. Each action takes a beginning of that list off the
  last frame, or stops at the event that is the answer; there is one lemma for each
  (`GuardDepthKeeps` to `EndMembersKeeps`).
- `PackingIsTransparent` (`Transparent`), under `NamesDiffer` and `TarsLookLikeTars` (no tar
  begins with the magic of an archive of another kind, and one that begins like a gzip
  or bzip2 stream has its `ustar`). By `KeepsItsPromise` an `Ok` has the nodes
  of the packed input's events, none of which is an error or breaks a limit. Those are the
  inflated bytes and then the events of what is in it, one level down; a tree without an
  error is the same with a level more (`LevelsAgree`), and less is charged for it
  (`SameNodes`), so nothing breaks for the unpacked input either.

**`PackingTree_proofs`** — the lemmas on the tree that these rest on. The recursive
functions are shown to be what their definitions say (`Recursion`, from the
well-foundedness of the numbers: `EventsFacts`, `LastMembersFacts`, `TallyFacts`), and
`TakeInflated`, `TakeSeen`, `TakeFound`, `TakeBad` say of each kind of event how the
saturating counters of the code and the sums of the tree reach the same verdict.

**`Spill_proofs`** — `TypeCorrect`, `NoOrphanEver`, and, under `MaxU64 \notin Caps` (the
condition is exactly what finding 1 violates), `CapIsKept` (`OkIsWhole`),
`NoFalseAlarm` (`TooLargeIsTrue`), `SinkIsBounded` (`SinkBounded`) and `IsOneStep`, that
an extraction implements `Extraction!Safety`. The invariant `CapInv` adds `Flow`
(bytes read are in the file or in the buffer, and with what `Take` still allows
they make `cap + 1`) and `Verdict` (what reaches the check is a whole sound
stream, or `cap + 1` bytes of a longer one); `IsOneStep` also `Ready` (a call that
copies has its file; what it reads of a 7z member is within `MAX_INFLATED`).

**`Handles_proofs`** — what `ReadSizes` and `SeekTo` bound, for the next two.

**`Concat_proofs`** — `TypeCorrect`, `PositionIsBounded`, `ImageIsStitched`
(`Stitched`), `EndIsTrue` (`EofIsEnd`), `SegmentIsFound` (the "unreachable" return is
unreachable when the lengths fit in a u64) and `StepsAsPromised`: once `new()` is done,
every step is one of `SeekableImage` over `image`, or changes nothing a caller sees.
The invariant `ConcatInv` adds `Quiet` (nothing is read before `new()` is done) and
`Layout`: each segment lies in the image where its handle's bytes are, each starts
where the one before ends, the last ends the image; or the lengths do not fit and
the total is `u64::MAX`. From it, lemma `Located` shows that whatever index the search
returns is the segment that holds the position, empty segments or not, and
`ReadIsLogical` that the handle's bytes are the image's.

**`Peeled_proofs`** — `TypeCorrect`, `WindowIsKept` (`PosInWindow`), `ReadsAreContiguous`
(`Contiguous`) and `IsOneImage`: a window or a zran handle implements `SeekableImage`
(`AnswersAsPromised` as the run has it, since it assumes no fairness). The three
invariants together are inductive.

**`Vfs_proofs`** — `TypeCorrect`, by `Trees` (what is in the tree, and what is
extracted for it, is a source the opener made or the caller's own), and
`SourcesAreReadWhole` (`WholeIsRead`): whatever reads come back short, `read_all` ends
only with every byte, as long as the source has what it reports; `Reads` bounds the
offset by what is delivered. And `EvidenceIsTheSame` (`SameEvidence`), under two
hypotheses:

- `NamesDiffer`, as above: the opener reads members by their index, too.
- `NamesAreNeutral`: a member's name, by which `resolve` goes and of which the opener
  sees nothing, tells no format and loses no extension with a layer, or calls a
  compressed tar what it is. The proof is what asked for the second half of the first
  case: `a.tar.z` tells no format, but what is under it is called `a.tar`.

Nothing is assumed of the streams: packed tars may be damaged anywhere and of any
size.

The invariant `Evidence` says what the walk has come to in terms of the packing tree's
events. `Leads`: if `n` levels below the sources of the tree there is no error, there is
none `n` plus the opened layers below the caller's own, and the files are the same;
and where the caller's own source passes, every item of the tree does, and only
`Overlooked` ones were refused. To pass (`Passes`) is to be free of errors in the
packing tree (`Sound`), or to be a packed tar whose tar is: the opener, having no
name, would call the second an error, `resolve` with the name would not. Every step that
refuses a source shows that it is `Refusable`: it does not pass, or it is overlooked.
`Extracting` says the same of an archive in the middle of the
loop, of what is extracted and the members still to come. A layer is taken out of the
middle of the tree at each step (`LeadsReplaced`), in any order: `resolve` goes depth
first, so the two are compared by depth, not step by step, and a level more changes
nothing where there is no error (`PlainAgrees`). `NeutralAgrees` carries the events of a
nameless layer over to those of a named one, which may be a level less deep;
`LeavesAreYield` ties them to the nodes of the answer.

**`Executor_proofs`** — of the plan:

- `OrderIsStable`: files have natural numbers, so that "precedes" is a strict linear
  order; a file's rank is one more than the number of files before it, so ranks
  follow the order and are different; an injection into `1 .. n` of `n` files meets
  every place (`FS_Injection`).
- `DetectIsSound`: whatever the bytes hold, `detect` gives a plan, and one that leads to
  members names all files of the archive, each once and in that order. Both assume
  `AccessPlanAssumption` (shapes have natural numbers) and nothing of `MaxU64` but
  that it is a number.

and of the calls that carry it out:

- `TypeCorrect`, `TempsAreOwned`, `LengthsAreAlwaysTrue`, and `SetsAreWhole` under
  `NamesDiffer` (no archive has two members of one name: finding 2, and the index gate
  below it, are what happens else). The invariant `SafeInv` adds `Planned`: while a
  call runs, its plan is the one `detect` made, it leads to members or to a stream, and
  no more handles are made than it has segments. Without it nothing is known
  of the entry a step looks at, not even that there is one. Every step that fails is
  `FailIsSafe`, every step that makes a handle `PushIsSafe`. `SetsAreWhole` needs one
  more conjunct, `Placed` (the k-th handle reads the member the k-th segment names).
- `IndexFits` (`IndexGateKept`), under `NamesDiffer` and `IndexIsBounded` (the cap on an
  index is below `u64::MAX`, where an estimate that saturates would pass the gate). The
  invariant `Gated` carries the gate's answer from `CopyArchive`, which asks it, to
  `OpenEntry`, which builds the index one step and one lookup by name later;
  `EstimateIsEnough` is the arithmetic, that an index has no more checkpoints than the
  estimate's rounded-up quotient.
- `TwinsDoAgree` (`TwinsAgree`), under `NamesDiffer` and `StoredIsWindow` (the window of a
  stored zip member holds what reading it gives). `Agreeing` says what each state of a
  peel call, with its first handle made or its failure decided, owes to the answers
  `peel_archive` may give; the archives' two member lists are the same by `detect`'s
  cases (`DetectArchiveCases`, `PeelIsPlanned`). A stream that breaks off after its head is
  refused by both (`BrokenRefused`).

**Only model-checked:** liveness (`Terminates`, `Returns` twice, the fairness half of
`OneStep`): out of the prover's reach. The refinement of `MCConcat`, whose mapping folds a
sequence (`StepsAsPromised` is its proof over `image`, which `new()` builds up); and
`ReadsTheSplitImage`, over the composition.

## 5. Not modelled, and why

- The codecs and archive parsers (`flate2`, `bzip2-rs`, `tar`, `sevenz-rust2`,
  `zip-forensic-core`): external; their answers are inputs. That `GzDecoder`
  yields the first member of a multi-member file is part of `Inflate`.
  A tar of a world has its end block, so that a good beginning that is a tar is a
  stream damaged behind it; a tar cut short is raw bytes with the `ustar` magic.
- Memory: `open` copies its input and lists a whole archive before a guard looks
  at it. The models hold no memory apart from the budgets.
  The opener's buffer, allocated by the length a source reports (`vfs.rs:139`), is left
  out for the same reason.
- `IndexOutOfRange`: callers inside the library take indices from the list they
  read; a tar whose second pass has fewer members than its first does not exist,
  both passes read the same bytes.
- Error wording, depth chains, `Debug` output, the test and fuzz drivers, the
  `forensic` scaffold.
- Debug builds: where arithmetic overflows, the models have the release build's
  wrap; a debug build panics there.

## 6. Plan

Done, in this order: `Formats`, `Content`, `Resolve` with `PackingTree` and
`ResolveSpec`; `Spill`; `ConcatSource` with `SeekableImage`; `AccessPlan`; `Executor`;
`ArchiveLayer` and `Twins`; `Handles` and `PeeledSource`; `Extraction`; `Reassembly`;
`VfsOpener`; and the proofs of section 4.

Open:

1. That `Executor`'s handles, `NamesDiffer` given, satisfy what `ConcatSource` assumes of
   its sources, so that `ImageIsStitched` carries over to `Reassembly`.
2. `Sniff` and `Shape` over real byte strings and digits, if the classification of
   segment names grows beyond what pieces of a name can say.
