# TLA+ models of agent-jsonl-compact

Formal models of `agent-jsonl-compact`, its session viewer (`src/query/`) and its exporter
(`src/runner.rs`), the TLC configurations that check them on small instances, and TLAPS proofs
of the results that matter most for every value of the constants.  Paths are relative to the
repository.

- [The system](#the-system)
- [Modules](#modules)
- [How the models correspond to the code](#how-the-models-correspond-to-the-code)
- [Runs and bounds](#runs-and-bounds)
- [Fairness](#fairness)
- [Proofs](#proofs)
- [Findings](#findings)
- [Observations](#observations)
- [What is not modelled](#what-is-not-modelled)
- [Plan](#plan)

Run a check with `tlc -config Viewer.cfg MCViewer`, a proof with
`tlapm SourceReader_proofs.tla`.

## The system

The program reads the session logs that coding agents (Codex, Claude Code, OpenCode) write:
JSONL files, one record per line, that **grow while they are read** and may be replaced.
It is single-threaded; concurrency comes from the file system.  Every invocation is a
process of its own that remembers nothing: what it must know about the previous one is in
the opaque cursor its caller passes back.

| Component | Source | State | Operations |
|---|---|---|---|
| Source reader | `src/query/reader.rs` | frozen snapshot end, checkpoint `complete_end` and its line count, bytes read, pending tail | `open`, `constrain_snapshot`, `scan_from`, `drain_to_newline` |
| Selector | `src/query/select.rs` | window of matches, retained neighbours, match infos, counters of what was dropped | `feed`, `retain`/`prune`, `can_stop`, `finish` |
| Query invocation | `src/query/runner.rs`, `cursor.rs` | per process: length, mtime and generation at open, session id, scan statistics; across processes: the cursor | `run_query`, `validate_cursor`, `render`, `cursor_failure` |
| Tool pairing | `src/query/toolpair.rs` | wanted keys, ids found, counts per side, re-entry pointers, pair states | `correlate` (two passes), the attach step of `run_query` |
| Session identity | `src/query/source.rs` | none | `discover_session_id` over the first 32 inspected lines, `discover_meta` |
| Normalizer | `src/query/normalize.rs`, `model.rs` | session id so far, mirror window, coverage counters | `normalize`, `rejected` |
| Session catalog | `src/query/sessions.rs`, `runner.rs` | stack of directories, files found, counts against the bounds, ids seen, whether the scan is partial | `scan`, `walk`, `prepare_sessions`, `resolve_input` |
| Fixed JSON exports | `src/query/export_v2.rs`, `records.rs` | a document read whole: its hash, its elements' ranges and lines | `probe`, `ExportDoc::open`, `ExportReader::scan_from` |
| Legacy exporter | `src/runner.rs`, `clean.rs`, `classify.rs`, `util.rs` | the `Cleaner` (session seen, last text, web searches), the kept events, the temporary file | `run`, `accept`, `check_destination`, `write_atomic` |
| Skills installer | `src/runner.rs` | files under the agents' homes | `install_skills_with_force` |
| Format detection | `src/detect.rs`, `src/query/detect.rs` | hits per format | `detect_format` over the leading records |
| Rendering | `src/render.rs`, `counter.rs` | none | text and counts of the kept events |
| Filters, output, command line | `filter.rs`, `output.rs`, `version.rs`, `cli.rs` | none | predicates, formatting, parsing |

How they interact: `run_query` stats the path, discovers the session id (one open of the
path), validates the cursor (another), opens a `SourceReader` bounded by the snapshot and
scans.  The scan calls back once per line; the callback normalizes the line into events and
feeds them to the `Selector`, which may stop the scan.  With `--with-pair`, `correlate` opens the
path twice more.  `run_query` then looks at the source again, and `render` cuts the
selected events to the byte budget and issues the cursors.  When the input is a fixed JSON export,
the same steps run over an `ExportDoc`, which is opened, read whole and scanned anew at each of
them.  `--session` finds the path first, by a scan of the catalog that `sessions` prints.

The exporter is another program in the same binary: it reads the log to its end, twice with
`--format auto`, cleans the events and writes up to three files through `write_atomic`;
`install-skills` writes one per agent in the same way.

What is hard here, and what the properties are about:

- the file is stat'ed, opened and read at different moments of one query, while an agent
  appends half records to it or another file takes its place;
- a checkpoint becomes the start of a later query: one byte too far loses a record for good,
  one line number off shows in every later pointer;
- a record may yield several events, be over the size cap, be malformed or still be being
  written, and a response may end at any of them for lack of budget or time;
- retention is bounded in two places (the selector, the pair ids) and must not change the
  answer or must disclose that it did;
- the client must never be led into a loop or a dead end by the cursors it is given;
- an export of a session is one document that is *rewritten*, not appended to, between any two of
  the up to five times one query opens it;
- the catalog walks a tree that changes, stops at six bounds, some for one root only, and must
  say so whenever it did not see everything;
- the exporter has no snapshot at all, its outputs may be interrupted at any system call, and their
  destinations may be links, folders, other users' files or the input itself.

`PROJECT.json` lists each of these as a hazard at its line, with the properties that cover it.

## Modules

| Module | Models |
|---|---|
| `SourceFile` | a file as bytes: which offsets hold a newline, appended to or cut short |
| `LineScan` | **abstract**: what a scan promises, line by line |
| `SourceReader` | `SourceReader`, one step per `fill_buf`; implements `LineScan` |
| `SourceReader_proofs` | its theorems, the refinement among them |
| `Selector` | `Selector` in head and tail mode, with context |
| `Selector_proofs` | its theorems |
| `Feed` | **abstract**: what a client that follows its cursors is promised, without pages, budgets, snapshots or retries |
| `SessionLog` | a log as records: kinds, half-written records, generations of the path |
| `Viewer` (`MCViewer`) | a client and the invocations it makes with the cursors it gets; composes `SessionLog`; implements `Feed` |
| `Viewer_proofs` | its theorems |
| `ToolPair` (`MCToolPair`) | the passes of `correlate` and what `run_query` does with them |
| `ToolPair_proofs` | its theorems |
| `Catalog` (`MCCatalog`) | `scan` and `walk` over a tree that changes; listing and resolution |
| `Catalog_proofs` | its theorems |
| `JsonScan` | the structural scanner of an export and its probe, symbol by symbol |
| `ExportPages` (`MCExportPages`) | a query over an export, and a client that follows its pages; implements `Feed`; composed with `JsonScan` in the MC module |
| `ExportPages_proofs` | its theorems |
| `Cleaner` | `detect_format`'s verdict, `classify`, `keep_set`, `accept`, as operators |
| `OutputFiles` | the destinations, the temporary file, other processes in the directory |
| `Exporter` (`MCExporter`) | the export and install commands; composes `OutputFiles` and `Cleaner` |
| `Exporter_proofs` | its theorems about types and outputs |
| `ExporterReading_proofs` | its theorems about how the log is read and cleaned; extends the former |

The modules are layers.  `SourceReader` is proved to implement `LineScan`, a scan that delivers the
complete lines of a frozen snapshot one at a time; `Viewer` and `ToolPair` then take records
one at a time as `LineScan` delivers them.  At the top, `Viewer` and `ExportPages` are both proved to implement `Feed`: a
source holds events in an order of its own, a growing log may gain some behind those it has, and a client is shown
the beginning of one source, part by part.  `Feed` says nothing of how a query gets there, so the two very different queries
(records read up to a boundary, a document read whole) can keep the same promise.  `Selector` is checked and proved by itself against "the
first (last) matches of the whole log"; `Viewer` and `ExportPages` then let a scan select the first
matches.  `ExportPages` takes the scanner and the probe as operator constants, `Structure` and `Plausible`, and `MCExportPages`
gives it the one of `JsonScan`, so that each document is really scanned.  The steps between the other layers
are by reading, not checked.

## How the models correspond to the code

`PROJECT.json` maps every definition to its lines.  The main ideas:

**SourceReader.**  The only bytes that matter are newlines.  `pc` says where `scan_from`
is: at the head of the loop (`"next"`), retaining a line (`"fill"`), draining an oversize
line (`"drain"`).  `from` is the argument of `scan_from`, `complete_end`, `complete_lines`, `lineno`, `snapshot_end` and
`max_record_bytes` are the fields of the same names; `retained` is the length of `raw`, `buffered` how
far the `BufReader` has read ahead.  `FillBuf(end)` is one `fill_buf`: it may end anywhere the
kernel chose to.  Three outcomes per read (newline in the window, none, boundary or end of
file) times two modes give six actions.  The callback may stop the scan at any line.
`Truncate` models a file cut under the reader.

**Selector.**  An event in hard scope is its ordinal, and the log, a sequence of `"match"`
and `"other"`, is fixed at the start, so that what was selected can be compared with what an
early stop left unread.  `RequestWindow` is the computation of the window in `run_query`
(one more than the page, the look-ahead).  `Retain` is `retain` with the `prune` it ends in.
`finish` measures context by positions in the retained list, as the code does, primary by
primary, refusing neighbours when the cap is reached.

**Viewer.**  Offsets are in half records, so a partial record has an odd length.  An invocation goes
`open` (length, mtime, generation, session id) → `validate` → `reader` → `scan` → `check` →
`render`, and `Disk` steps may come between any two.  `client.token` is the cursor with the
fields the code stores; `Accepts` is `validate_cursor` branch by branch.  The byte budget is any
number of rendered events (`Shown`), at least one when there is one, else `budget_too_small`.  A
client resumes the best cursor it got (page, retry, append, in that order), raises the record cap
after a retry cursor, and begins afresh when it is rejected or told that the source changed.
`emitted` is the history of what it was shown since.  The kinds of records are: one match (`hit`), two
(`double`), an event that does not match (`miss`), no event (`empty`), malformed (`bad`), a
session header (`meta`), and the over-limit ones (`huge`, which holds a match, `hollow`, which holds no
event, `hugemeta`).  Anchors, which authenticate the bytes before a checkpoint, differ between
generations and never between an old and a new length of one file.

**ToolPair.**  A record has a form (`plain`, `oversize`, `malformed`, `rejected` by a normalization limit)
and says that it is a call, a result or a session header.  `Query` stands for everything before
`correlate`: any set of tool events within the display cap plus the look-ahead, keyed with
the session the reading from its start gives them.  Each pass opens the file as it is at that
moment (`pass.lines`, bounded by the snapshot) and takes one record per step; `Grow` and
`Replace` come between.  `Recheck` is the second look at the source: `changed` exactly if the file
was replaced, since growth alone is no change.

**Catalog.**  A path is a sequence of names, at it is a node: nothing, a directory, one that cannot be
read, a link, or a file with the id, working directory and time `discover_meta` would find in it.
`OpenDirectory` takes the names of a directory once, no more than may still be visited and one, in
any choice; `VisitEntry` looks at one of them again by its path, as `symlink_metadata` does; `ReadFile`
is one turn of the loop of `scan`.  `Change` may come between any two steps and `TimePasses` ends
the time budget at any of them.  `untouched` is the history of what stayed in place since the command
began: what the answers must be right about.  A file is stat'ed and read in one step, and no root
lies inside another.  `prepare_sessions` scans Codex, then Claude; `resolve_input` one provider.

**JsonScan and ExportPages.**  A document is a sequence of symbols (brackets, quotes, escapes, blanks,
words), and `ScanDocument`, `SkipValue` and `Candidate` walk it as the byte loops do, with the end of the
input an outcome of its own (`Eof`).  `MCExportPages` puts documents together from pieces and notes where the
elements lie while doing so: `SpansExact` compares the scanner with that.  Each open of the path in
`ExportPages` (metadata, probes, session id, validation, reader) is a step that finds the document
of the moment, and reading a document is atomic.  The hash of a document is its place in the corpus.
`Rewrite` puts another document at the path, in place or as a new file; whether a longer one may
come *in place during a query* is the constant `Growing`, since the code takes that for growth.

**Exporter.**  `log` is a sequence of records and `tail` how much of the last one is on disk.
`NextLine` is `read_until`: at the end of the file it returns what is there, so that a record caught
half-written comes as a `front` and, if the agent goes on while the pass runs, a `rest`.  `DetectLine` and
`ConvertLine` take one line, `Accept` one event; `Check…`, `Gate` and the `Write…` actions take one system call
each.  A destination holds what someone put there: `old`, `new`, `part`, the `input` by another name, a
`link` or a `folder`.  `Fail` may happen at any step of a running command and drops the temporary, as `?`
does; `Kill` leaves it; `Meddle` is another process in the directory.  Records have the agent whose
schema they follow and a form; classification is kept to the kinds of events cleaning distinguishes.
`Settle` turns an earlier command's output into someone else's file.

## Runs and bounds

| Run | Shows | Bounds, and why they are enough |
|---|---|---|
| `reader` (`SourceReader.cfg`) | `CheckpointSafe`, `ReadOnce`, `ImplementsLineScan`, `ScanEnds` | files up to 5 bytes, buffer 2, cap 1 (a request of 0 is raised to it) and 2: lines of one to five bytes fall within a buffer, across two and three, below and above each cap, with the newline found in the read that passes the cap or a later one |
| `viewer` (`Viewer.cfg`) | `NoGapNoRepeat`, `AppendBehindInspected`, `CursorAccepted`, `PageProgress`, `OkLeadsOn` | a header and 3 further records of 7 kinds, pages of 1 and 2 events, searches that time out: a cursor at each place within and between records, followed by another invocation and another append |
| `viewer_live` (`ViewerLive.cfg`) | `EventuallyCaughtUp`, `ImplementsFeed`, `ExhaustedMeansConsumed` | a header and 2 records of the 4 awkward kinds in each of two files; no time budget, which is when `ExhaustedMeansConsumed` holds |
| `selector` (`Selector.cfg`) | `WindowIntact`, `SelectsTheWindow`, `ContextShownOrDisclosed` | logs of up to 8 events, windows 1–3, context 0–2, caps 2 and 4: the window is below, at and above the cap, and pruning happens with either kind of victim |
| `toolpair` (`ToolPair.cfg`) | `AbsenceProven`, `PairsExact`, `ReentryReaches`, `PairsFitAndShow` | logs of up to 4 records of two sessions and two call ids, one call id in both; caps 1 and 2 so that ids and display slots run out; one append or one replacement between any two steps |
| `catalog` (`Catalog.cfg`) | `ListingComplete`, `ResolutionExact`, `BoundsHeld` | 80 trees of six paths, two roots, two levels; depth 1, 3 entries, 2 bytes, 1 or 2 files per root, so that each bound is passed by some tree and just met by another; one change at any moment |
| `export_pages` (`ExportPages.cfg`) | `SpansExact`, `ProbeAdmits`, `PagesOfOneDocument`, `ImplementsFeed` | 17 documents, six of which replace each other up to 3 times: same length, longer, shorter, another session, torn, messages first; elements with 0, 1 and 2 events and above the cap; pages of 1 and 2 |
| `exporter` (`Exporter.cfg`) | `KeptIsClean`, `EveryRecordRead`, `FormatOfTheLog`, `NeverTorn`, `TemporariesRemoved`, `RefusedWritesNothing`, `WrittenInOrder`, `InputKept`, `SkillKept`, `RunEnds` | logs of up to 3 records that grow while they are read, a sample of 2; two destinations in every state, two commands, one change by another process |

The bounded values are `MaxSize` (file length), `MaxRecords` and `MaxGens` (records of a file, files at
the path; `SessionLog`), `MaxLog` (`Selector`) and `MaxRecords` with one append (`ToolPair`).
`RetainFloor` (64 in the code), `Slack` (8), `DiscoveryLines` (32) and `MaxEvents` (200) are
constants so that the cases at their limits happen in small logs.  So are `Window` (4 MiB), `MaxLength`
(128 MiB) and `MaxNesting` (256) of an export, `MaxDepth`, `MaxEntries`, `MaxBytes` and `MaxFileBytes` of the catalog, and
`Sample` (50) of the exporter.  `MaxChanges`, `MaxRewrites`, `MaxMeddling` and `MaxRuns` bound what other
processes do and how many commands follow each other; `MaxRecords` bounds the exporter's log.

The exporter's scenes are three families, because their product would only repeat itself: *conversions* of
all short logs with undisturbed outputs, *exports* of one fixed log into every state of two
destinations, *installations* likewise.  In the first the log stops growing once it has been read (nobody
looks at it again).

Four runs end in a counterexample, one per finding below: `viewer_retry`, `viewer_window`, `toolpair_resume`,
`export_growth`.  Each checks one sentence of the documentation or of a comment as a property.

What the properties say, in short:

- `CheckpointSafe`: the checkpoint is a line boundary inside the snapshot and its line count is exact.
- `ReadOnce`: every byte is accounted once, none beyond the boundary.
- `ImplementsLineScan`: every complete line is delivered once, in order, with its number and
  extent, oversize ones as uninspected.
- `NoGapNoRepeat`: a client that follows its cursors has been shown exactly the matches before the
  position it will resume from, each once, in order, with its true line number.
- `AppendBehindInspected`: an append cursor never stands behind an unread record.
- `CursorAccepted`: appends do not invalidate a cursor (when none lands within the validation itself).
- `PageProgress`: following page cursors always moves on.
- `OkLeadsOn`: a response that says `ok` leaves the client a page or an append cursor.
- `ImplementsFeed` (of `Viewer` and of `ExportPages`): every step of a client and its invocations is one of `Feed`, or
  none: a response only adds to what was shown, what was shown is the beginning of one source's events, a cursor is
  only followed into that source, and only a client that begins afresh is shown another.  `NoGapNoRepeat` speaks of a
  moment, this of the whole history; and it still speaks when a refusal has left no cursor to measure by.
- `ExhaustedMeansConsumed`: `exhausted` is only said when the snapshot was read to its end.
- `EventuallyCaughtUp`: whenever the agent pauses, the client is eventually shown everything.
- `WindowIntact`, `SelectsTheWindow`: bounded retention and the early stop do not change the answer.
- `ContextShownOrDisclosed`: context that is missing was counted as dropped.
- `AbsenceProven`: `pending_result` and `orphan` are only said when no counterpart is in the
  snapshot, unread records included.
- `PairsExact`, `ReentryReaches`, `PairsFitAndShow`: totals are exact, truncated ids are reachable from
  the re-entry pointer, and a pair called `paired` is shown within the display cap.
- `ListingComplete`: a listing that says `ok` has every session that stayed in place and passes the filter, and
  shows the newest.
- `ResolutionExact`: an id that is found is in that file and in no other that stayed in place, one that is not
  found is in none (`FoundExact`), and in a tree nobody changes, ambiguity is only said of two files that
  claim one id (`AmbiguityExact`).
- `BoundsHeld`: the scan keeps to its bounds, and by how much a later root may pass them.
- `SpansExact`: exactly the exports are opened, and what the reader serves are the elements of the top-level
  `messages`, at their offsets and lines and with their events.
- `ProbeAdmits`: the probe turns no export away that fits its window or whose messages the window cuts.
- `PagesOfOneDocument`: pages followed by their cursors show one document, its events once each, in order; and
  all of them when the response says `ok` and exhausted.
- `EveryRecordRead`, `KeptIsClean`: the conversion reads each record that was begun when it opened the log, and
  keeps exactly what was read less the repetitions, which are defined by place, not by a memory of what came before.
- `FormatOfTheLog`: a log of one agent is read under that agent's schema as soon as one of its records was
  complete within the sample.
- `NeverTorn`, `TemporariesRemoved`: no destination holds the beginning of an output, no temporary stays but a killed
  command's.
- `RefusedWritesNothing`, `WrittenInOrder`: all destinations are checked before the first is written; an interrupted
  export has replaced the first few.
- `InputKept`, `SkillKept`: the input is never replaced, an installed skill not without `--force`.

Each module has a type invariant; those of `Selector`, `Exporter` and `ExportPages`, and the bound on what the
selector retains (`RetainedBounded`), are proved for all constants; no run repeats them.

Each property has a mutant: the definition it would catch, changed as a slip in the code would
change it (the definitions whose comment says "Mutant of").  TLC finds the property violated
with each.

Deadlock is checked in the runs of `Viewer` and `ExportPages`, whose client always asks again.
`SourceReader`, `Selector`, `ToolPair` and `Catalog` describe one scan, selection or answer that ends, and `Exporter` a
bounded number of commands, so their runs do not check it.

## Fairness

`SourceReader`: `WF_vars(Scan)`.  The loop of `scan_from` runs on the only thread and does
not wait for anything; `fill_buf` on a file returns.  Nothing is assumed of the writer, and a
scan ends even if the writer never stops, because the boundary is fixed.

`Viewer`: `WF_vars(Query)`.  An invocation is straight-line code that runs to its end, and the
client asks again; nothing is assumed of the agent.  `TooSmall` (a budget in which nothing fits) can
happen once in a row, because the client then asks with a larger one; the code documents
this as the remedy (`runner.rs` 1436–1444).  `Replace` is bounded by `MaxGens`: a client of a file
that is replaced for ever need not catch up, and the property does not claim it.

`Exporter`: `WF_vars(Step)`, for the same reason as the reader's: the commands are straight-line code on one
thread.  `Fail`, `Kill`, `Start` and the other processes are not in it: nothing has to fail, and no user has to
run a second command.  The exporter has no boundary, so `RunEnds` is about a log that stops growing
sometime (`MaxRecords`); one that grows faster than it is read would be read for ever.

`Selector`, `ToolPair`, `Catalog` and `ExportPages` state no liveness: they are loops over a finite list, and what a
client of an export is owed is in `PagesOfOneDocument`.

## Proofs

The proof modules assume only the named assumptions on the constants (`MaxSizeAssumption`,
`SelectorAssumption`, those of `SourceReader`, `LogAssumption`, `ViewerAssumption`, `ToolPairAssumption`,
`PagesAssumption`, `CorpusAssumption`, `OutputAssumption`, `ExporterAssumption`, `SceneAssumption`,
`BoundAssumption`, `TreeAssumption` and `RequestAssumption`): the theorems hold for every file length, buffer
capacity, cap, log, window, context, corpus of exports, set of destinations, number of commands, tree and command
line.  Some hypotheses are not assumptions but stand in the theorems themselves.  Without `WindowFits`, `SessionSettled` and
`~MayTimeOut` of `Viewer_proofs`, `KeysReadAlike` of `ToolPair_proofs` and `~Growing` of `ExportPages_proofs` the
code does otherwise, as runs and Observations show; `ScannerExact` of `ExportPages_proofs` is what TLC checks of the scanner
(all below).

**`SourceReader_proofs`**: `TypeCorrect`, `ReadOnceHolds`, `CheckpointIsSafe`, `ReaderImplementsLineScan`.
The properties are not inductive: nothing in them says that the bytes between the checkpoint and the
read position hold no newline, so a step from an unreachable state could skip a line.  `IInv` adds
three parts.  `ScanPlace` says where the scan stands in its line, `DiskAhead` that as long as nothing
was removed the disk holds all that was read and a writer can only add newlines beyond it, and
`Accounting` that the byte counter is a function of the position.  `NextIInv` goes action by action;
`EndLineIInv` is the case two actions share.  The count of lines needs `Cardinality` of an initial
segment of `newlines`, hence the lemma `EndLineCounted` and the second induction `NextLinesCounted`.
The refinement follows from `IInv` by `StepSimulation`: `FillNewline` and `DrainNewline` map to `Deliver`, the boundary
steps to `DeliverTail` or `Finish`, the chunk steps to stuttering.

**`Selector_proofs`**: `SelectorTypes`, `RetentionIsBounded`, `WindowStaysIntact`, `SelectorIsCorrect`,
`ContextIsShown`.  `SInv`
strengthens the properties with `WindowOfLog` (the window is the set of the first, or last, matches of
what was fed, and full before it refuses one), the order of the window, and `Finished` (what `finish` leaves).
`RetainFacts` is the one fact about `prune` everything rests on: the cap holds afterwards, the new event
and, when the window fits the cap, every primary stays.  `FinishedWindow` turns "the window
of what was fed" into "the window of the log" when the scan stopped early.  For the context `ContextHeld`
is added: as long as none was dropped, every event fed is retained.  Then the positions `finish` measures in
are the ordinals, no neighbour is refused, and `can_stop` has waited for those behind the last primary.

**`Viewer_proofs`**: `ViewerTypeCorrect`, `AppendStandsBehindInspected`, `PagesMoveOn`, `ClientMissesNothing`,
`CursorsAreAccepted`, `ClientIsFed`, `OkResponsesLeadOn`, `ExhaustedWithinTime`, for every log and any way it grows, is replaced or is rewritten between and
during the invocations.  The invariant relates the scan to the cursor it began from: `Window` says that it
holds the first matches behind the cursor up to where it has come (`Through`), as many as the window takes,
so that the part of it a page shows ends where the next cursor begins (`ShowPart`, `ShowAll`), wherever
the byte budget cuts.  `TokenInv` places each cursor inside its own file with nothing over the cap before it,
`RunInv` says what is known when the file was replaced under the scan: nothing, and then the second check
withholds the cursor.  `ShowInv` carries `Shows` (what was shown is the matches before the cursor) from one
invocation to the next.  `CursorInv` says that the length and time a cursor carries are ones the log has had.
`ClientIsFed` is the refinement: `Held` is the file of the client's cursor, `EventsSoFar` the matches each file has.  `RenderPlace`
says of a response where what has been shown by then ends, from which both `NoGapNoRepeat` (`RenderShows`) and the step
of `Feed` (`RenderFeeds`, with `ShowsBeginning`) follow; `LogGrows` says that events only come behind those there were,
and `FeedStep` goes through the actions, all of which but `Start`, `Render`, `Reject` and the disk's map to
stuttering.  `StopInv` says why a scan stops: at the end, at an over-limit record, out of time, or with a window that
holds one match more than a page (`FedFills`).  With it `WholePage` shows that a response without page cursor that was
neither cut nor timed out has read to the end, hence `OkResponsesLeadOn` and `ExhaustedWithinTime`; why the latter
needs `~MayTimeOut` is under Observations.
Two hypotheses are needed besides.  `WindowFits`: a page has fewer events than the retention keeps; the run
`viewer_window` shows events lost without it.  `SessionSettled`: a log begins with the record that names its session,
or never names one; a cursor made before a late header is refused, which `validate_cursor` intends.

**`ToolPair_proofs`**: `ToolPairTypeCorrect`, `AbsenceIsProven`, `PairsAreExact`, `ReentryReachesAll`, `PairsAreShown`, for
every log, append and replacing file.  The invariant says what each pass has made of the snapshot while it is still at
the path (`SnapInv`): the events seen are the wanted ones of the records read, each under the session a reading
from the first record gives it, and one whose id was not stored lies at or behind the re-entry point of its
key (`ReadInv`); `PairInv` carries this into the answers.  That the first pass starts from the session id the
query discovered, and the query from its own offset, is where `KeysReadAlike` is needed (queries from the first
record, or a log of one session): the run `toolpair_resume` shows a resumed query answering from other keys.
`PairsAreShown` has no hypothesis.  `FetchInv` says that the second pass has fetched every target it has
read unless there are more targets than events allowed, and `BudgetFacts`, a counting argument over the ids,
that the budget `run_query` checks excludes that.

**`ExportPages_proofs`**: `PagesTypeCorrect`, which has no hypothesis, `PagesShowOneDocument` and `ExportClientIsFed`, for every corpus, any
rewrites between and during the invocations, every page size and any use of page and retry cursors.  An
invocation opens the path up to five times, and each open may find another document.  `RunInv` says that a
rewrite during the invocation stays visible to the check after the scan; this is false of an export that grows in
place, hence `~Growing`, and the run `export_growth` shows what happens then.  `BeginInv` holds what the session lookup and the cursor
validation established, as long as the document is the first one seen.  `ScanInv` says of a scan not found changed (`Trusted`) that
it reads that document, whole (`Reads`), and that the selection is all events from the token up to the next element, or
the first of them (`Holds`).  `WholeGrows` is one element's step, `WholeUpTo` and `WholeOfAll` what a full or
finished selection is of the document, and `ShownJoins` joins a page to what was shown before it without gap or
overlap.  A cursor resumed from stands at an element the cap lets through (`Resumable`), and a retry cursor is only
made for one above the cap, so the two never meet and a retry moves on.  `ScannerExact` says that the spans of each document that
opens are its elements.  `ExportClientIsFed` refines `Feed` as `Viewer` does, from `RenderPlace` and `Joined`: the sources are the
documents, which never grow, so that a response joins two pages only if both were cut from one document.  About the scanner itself, which is recursive, this is `SpansExact`, checked by TLC.

**`Exporter_proofs`**: `ExporterTypes`, and one theorem for each of `NeverTorn`, `TemporariesRemoved`,
`RefusedWritesNothing`, `WrittenInOrder`, `InputKept`, `SkillKept`.  None of these is inductive.  That no destination is
torn rests on where the temporary is: `TempInv` says it is absent unless the command is inside
`write_atomic`, and full from the flush on, so that the rename cannot put a part in place;
`LitterInv` counts what kills left.  `RefusedInv` says that while destinations are still checked nothing of
this command is in place, and that an export is refused in no other phase.  `InputInv` says that once all are checked
none of the remaining destinations is a name of the input; it is kept because other processes do
not link the input there.  `SkillInv` says that a write of an installation without `--force` is under way only
where the destination was absent, and `OrderInv` that exactly the destinations before `job.at` are new.
`TypeIInv` adds the types these need, the fields of the command line a phase depends on (`CallOK`) and the place in
the log (`LogInv`).  `NextTypes` and `NextOutputs` go action by action; the two action properties follow from the
invariant at the only step that renames.

**`ExporterReading_proofs`**: `ExporterEveryRecordRead`, `ExporterFormatOfTheLog`, `ExporterKeptIsClean`, for every log
and growth.  A record of
which a part was read was the last one then, so it lies behind all that were complete when the pass opened
the log: `PlaceInv` says so of the place a pass stands at, and that what was read of a record does not
shrink.  `LinesInv` then counts the lines got up to that place, `ScoreInv` the records scored: up to the records
complete at the start there is one line per record, which makes the sample of lines one of records.
`KeptIsClean` says of each event by its place <<k, i>>, the i-th of the k-th record read, whether it is a
repetition and where in the output it comes; this needs no recursion over the list.  `CleanIInv` states it
of the places accepted so far (`Accepted`; the queue holds the others), and `Remembers` that the three fields of
the `Cleaner` are what these places determine: is there a session event, which web searches, and which message has
none after it.  `RepetitionKnown` is the step that matters, `ListGrows` that an event behind all others
comes last and changes nothing before it.

**`Catalog_proofs`**: `CatalogTypes`, `CatalogBounds`, `CatalogListingComplete`, `CatalogResolutionExact`, for every tree,
every set of roots and bounds, and any number of changes.  `ListingComplete` speaks of the end of a command
only.  `CoverInv` is what holds on the way: a session in place lies below a root not yet come to or a
directory on the stack, at or below an entry of the directory at hand, among the files, or is a
candidate, or the scan is partial.  Each step of the scan moves a session from one of these to the next.
`DeclaredInv` adds that the root above it was not left out as absent, `FirstInv` that the first provider's
result is in `found` when the second is scanned.  `PlaceInv`, part of the types, says what each phase leaves behind it: an
empty stack once a root is done, no roots left once the files are read.  `WithinBounds` relates the entries visited
to the roots entered, so that each costs one more at most.  That the newest are shown is a pigeonhole argument
over the sorted candidates.  `FoundExact` needs the converse of `CoverInv`: `RootedInv` and
`CandidateInv` say that whatever is scanned lies below a root and that a candidate has the id of its file.
`AmbiguityExact` needs that no file is read twice: `ApartInv` says that the places still to be looked at are
pairwise apart (no one leads into another), `AtRootInv` that they lie below the present root, and `SeenInv`
that each id seen was in a file the scan does not come back to.  This is where the assumption that no root lies inside
another is used; the code reads such files twice (see Observations).
One lemma per action states its effect (`OpenDirectoryEffect`, `VisitEntryEffect`, …); the invariants cite these.

Not proved, only model-checked: liveness (`ScanEnds`, `EventuallyCaughtUp`, `RunEnds`), which is out of the
prover's reach; and `SpansExact` and `ProbeAdmits`, which are about the recursive operators of `JsonScan`:
no module that reaches it can hold a theorem.  `ExportPages` takes the scanner as a constant and does not.

## Findings

Disagreements between the code and its own documentation or comments, each shown by a run:

1. `viewer_retry`: a retry cursor on an over-limit record that yields no event is rejected with
   any cap (`runner.rs:1994`).
2. `viewer_window`: with `--limit` at or above `--max-events` ≥ 64 the look-ahead event is pruned, and a
   response that leaves a match undisplayed carries no page cursor (`runner.rs:894`).
3. `toolpair_resume`: a query resumed behind a second session header keys its events with the first
   session's id while the pair passes follow the change (`runner.rs:896`): a result that is there is
   reported as absent.
4. `export_growth`: an export rewritten in place by a longer one while a query runs passes for growth
   (`runner.rs:2119`): the answer is cut at the old length, or mixes two documents, and says `ok`, although
   the comment at 1066 says that a concurrent write, growth included, makes it partial.

## Observations

Met while modelling and proving, and not the subject of a run.  (`runner.rs` is `src/query/runner.rs` here.)  The
first three also disagree with the documentation; TLC finds each in the models as soon as the sentence quoted is
made a property (of `Viewer`'s cursors, of `ViewerLive.cfg` with `MayTimeOut = TRUE`, of `AbsenceProven` with form
`rejected`).

- A page of a page carries the length of the file at its own open (`runner.rs:1230`), so following page cursors reads
  what was appended meanwhile, where `docs/CLI.en.md:176,185` and the response's own `cursor_note` say they continue the
  same fixed snapshot.  No event is lost or repeated by it (`NoGapNoRepeat`, `ClientIsFed`).
- A search stopped by its time budget can say `exhausted` (`runner.rs:1723`), which `tests/viewer_e2e.rs:2183` and
  `docs/requirements/session_viewer_cli.md:161` reserve for a scan that reached the end.  Its status is `partial`
  (`OkLeadsOn`).
- A record rejected by a normalization limit is valid JSON, so the pair pass counts no gap for it
  (`toolpair.rs:183`) and a result in it is reported as `pending_result`, although the main scan counts the record as
  invalid and `docs/adr/0002-cursor-and-resource-boundaries.md:113-116` asks for `unknown_pair` then.
- An append between the stat at open and the mtime read of the validation makes a good cursor a
  `generation_mismatch` (`runner.rs:2022`); `CursorAccepted` is about appends at any other moment.
- Context is measured among the events still retained (`select.rs:267`): after pruning an event far from
  any match can be shown as its context.
- The re-entry pointer may name an event of the selected event's own side (`toolpair.rs:213`), which `ReentryReaches`
  allows since it is before the counterparts.
- A retry cursor on an over-cap element of an export that yields no event is rejected, as for a log.
- Two `--root`s one of which contains the other make every file below look like a duplicate id.
- `--scan-limit` bounds the files of each root and provider, where the head of `sessions.rs` (4–5) speaks of the
  files scanned.
- A session whose header is still being written is not listed.
- The probe of an export answers `NotExport` when its 4 MiB prefix ends between two top-level tokens
  (`export_v2.rs`): the branches meant for that case need `skip_ws` to fail, which it does not.
- With `--msg-chars`, two messages that become equal by being cut count as repeated (`clean.rs:141-158`);
  `README.en.md:70` speaks of identical bodies.
- A `SKILL.md` created between the look at it and the rename is replaced without `--force` (`src/runner.rs:497`).
- Two branches of `detect_format` (`detect.rs`) cannot be reached.

## What is not modelled

- **Regular expressions, filters, output formatting, rendering, argument parsing**: functions of one value
  without state; what they decide is a parameter (the kind of a record or of an event).
- **Token encoding, size limits and request fingerprints** (`cursor.rs`): the client presents the
  tokens it was given, with the options they were given for.
- **`--tail` and `--context` across pages**: in the code they take branches of
  `run_query` of their own; `Selector` covers tail mode and context within one query.
- **The normalizer's limits and mirror window, and the fields of an event**: only how many events a record
  yields, and for tool events whose they are, is modelled.
- **The viewer's format detection** (`src/query/detect.rs`): scores over the leading records, without
  state; its verdict is taken as given.  The exporter's is modelled.
- **Reading an export while it is written**: a document is read in one step; a torn one is a document of the
  corpus.  Likewise a file of the catalog is stat'ed and read in one step.
- **Other kinds of events and fields in `classify.rs`, `--elide-outputs`**: they do not change what is kept.
- **Scripts and release tooling**: outside the program.
- A session header after the first records, or after an over-limit one, changes what
  `discover_session_id` finds in a later query; `Viewer`'s runs begin with the header, `ToolPair`'s do not.
- A timeout is a choice at any step (`MayTimeOut`, `TimePasses`), not a clock.

## Plan

Done: reader, selector, cursors, pairing, catalog, fixed JSON exports, exporter and installer, and the feed that
invocations over logs and exports implement.  What is left:

1. `Normalizer`: session switches, limits and the bounded mirror window; a late header in `Viewer`.
2. `--tail` and `--context` across the pages of `Viewer`.
3. Proofs: every safety property the provers can reach is proved.  What the items above add to `Viewer` and a
   `Normalizer` comes with its theorems: `ClientIsFed` for `--tail`, and `CursorsAreAccepted` without
   `SessionSettled` once a late header is modelled.
