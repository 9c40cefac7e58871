----------------------------- MODULE SourceReader -----------------------------
(***************************************************************************)
(* SourceReader of src/query/reader.rs: one sequential scan of a session   *)
(* file through a BufReader, while the file may grow or be cut short.  One *)
(* step is one fill_buf of the inner loop (or of drain_to_newline) with    *)
(* what the code does with the bytes it got, so that the environment can   *)
(* act between any two reads.                                              *)
(***************************************************************************)
EXTENDS SourceFile, Sequences, FiniteSets

CONSTANTS BufCapacity,   \* capacity of the BufReader (64 KiB in the code)
          CapRequests    \* values of --max-record-bytes

ASSUME ReaderAssumption == /\ BufCapacity \in Nat \ {0}
                           /\ CapRequests \subseteq Nat

VARIABLES pc,                \* control point of the scan
          snapshot_end,      \* boundary fixed by open, lowered by constrain_snapshot
          max_record_bytes,
          from,              \* offset the scan started at
          complete_end,      \* offset of the next unread byte
          lineno,            \* physical lines counted
          complete_lines,    \* newline-terminated lines counted
          pending_tail,
          read_stream_bytes,
          retained,          \* length of `buf`, the record's retained prefix
          drained,           \* bytes consumed by drain_to_newline
          buffered,          \* end of the bytes the BufReader holds
          items              \* the LineItems handed to the callback

readerVars == <<snapshot_end, max_record_bytes, from>>
lineVars == <<complete_end, lineno, complete_lines, pending_tail>>
bufVars == <<retained, drained, buffered>>
scanVars == <<pc, readerVars, lineVars, read_stream_bytes, bufVars, items>>
vars == <<fileVars, scanVars>>

Kinds == {"line", "uninspected", "pending"}
ItemType == [kind : Kinds, raw_line : Nat, byte_start : Nat, byte_end : Nat]

TypeOK ==
  /\ FileTypeOK
  /\ pc \in {"closed", "opened", "next", "fill", "drain", "done"}
  /\ snapshot_end \in 0..MaxSize
  /\ max_record_bytes \in Nat \ {0}
  /\ from \in Nat
  /\ complete_end \in Nat
  /\ lineno \in Nat
  /\ complete_lines \in Nat
  /\ pending_tail \in BOOLEAN
  /\ read_stream_bytes \in Nat
  /\ retained \in Nat
  /\ drained \in Nat
  /\ buffered \in Nat
  /\ items \in Seq(ItemType)

Init ==
  /\ FileInit
  /\ pc = "closed"
  /\ snapshot_end = 0 /\ max_record_bytes = 1 /\ from = 0
  /\ complete_end = 0 /\ lineno = 0 /\ complete_lines = 0 /\ pending_tail = FALSE
  /\ read_stream_bytes = 0
  /\ retained = 0 /\ drained = 0 /\ buffered = 0
  /\ items = <<>>

\* Mutant of Open: the requested cap is taken as it is, zero included.
OpenUnclamped ==
  /\ pc = "closed"
  /\ pc' = "opened"
  /\ snapshot_end' = size
  /\ max_record_bytes' \in CapRequests
  /\ UNCHANGED <<fileVars, from, lineVars, read_stream_bytes, bufVars, items>>

\* SourceReader::open fixes the boundary at the present length of the file.
Open ==
  /\ pc = "closed"
  /\ pc' = "opened"
  /\ snapshot_end' = size
  /\ \E requested \in CapRequests :
       max_record_bytes' = IF requested < 1 THEN 1 ELSE requested
  /\ UNCHANGED <<fileVars, from, lineVars, read_stream_bytes, bufVars, items>>

\* constrain_snapshot: a resumed page lowers the boundary, nothing raises it.
ConstrainSnapshot ==
  /\ pc = "opened"
  /\ \E boundary \in 0..MaxSize : boundary < snapshot_end /\ snapshot_end' = boundary
  /\ UNCHANGED <<fileVars, pc, max_record_bytes, from, lineVars, read_stream_bytes,
                 bufVars, items>>

\* scan_from: callers pass 0 or a checkpoint just after a newline.
ScanFrom ==
  /\ pc = "opened"
  /\ \E start \in 0..MaxSize : LineStart(start) /\ from' = start
  /\ pc' = "next"
  /\ complete_end' = from' /\ lineno' = 0 /\ complete_lines' = 0
  /\ pending_tail' = FALSE
  /\ retained' = 0 /\ drained' = 0 /\ buffered' = from'
  /\ items' = <<>>
  /\ UNCHANGED <<fileVars, snapshot_end, max_record_bytes, read_stream_bytes>>

----------------------------------------------------------------------------
\* Offset of the next byte to examine: the line's start, plus the retained
\* prefix, plus what drain_to_newline consumed of it.
Position == complete_end + retained + drained

\* The outer while: one more line, or the boundary is reached.
NextLine ==
  /\ pc = "next"
  /\ pc' = IF complete_end < snapshot_end THEN "fill" ELSE "done"
  /\ retained' = 0 /\ drained' = 0
  /\ UNCHANGED <<fileVars, readerVars, lineVars, read_stream_bytes, buffered, items>>

\* fill_buf: bytes still buffered are served first; otherwise one read of at
\* most the buffer's capacity that may return fewer bytes than the file holds.
FillBuf(end) ==
  /\ IF buffered > Position
       THEN end = buffered
       ELSE Position < end /\ end <= size /\ end <= Position + BufCapacity
  /\ buffered' = end

\* Mutant of Window: the whole buffered chunk, past the boundary.
WindowUnbounded(end) == end

\* `want` bounds the window by the snapshot.
Window(end) == Lesser(end, snapshot_end)

\* fill_buf returned nothing, or the snapshot is exhausted: no newline found.
AtBoundary == Position >= snapshot_end \/ (buffered <= Position /\ size <= Position)

NewItem(kind, end) ==
  [kind |-> kind, raw_line |-> lineno + 1, byte_start |-> complete_end, byte_end |-> end]

\* A newline was found at n: the line is complete and goes to the callback,
\* which may stop the scan.
EndLine(kind, n, consumed) ==
  /\ read_stream_bytes' = read_stream_bytes + consumed
  /\ items' = Append(items, NewItem(kind, n + 1))
  /\ complete_end' = n + 1
  /\ lineno' = lineno + 1
  /\ complete_lines' = complete_lines + 1
  /\ retained' = 0 /\ drained' = 0
  /\ pc' \in {"next", "done"}
  /\ UNCHANGED <<fileVars, readerVars, pending_tail>>

\* Mutant of FillNewline: the cap is compared with the last window only.
FillNewlineByWindow ==
  /\ pc = "fill"
  /\ Position < snapshot_end
  /\ \E end \in 0..MaxSize : \E n \in newlines :
       /\ FillBuf(end)
       /\ IsFirstNewline(n, Position, Window(end))
       /\ EndLine(IF n + 1 - Position > max_record_bytes THEN "uninspected" ELSE "line",
                  n, n + 1 - Position)

\* Found within the retained bytes: Uninspected when the whole record is longer
\* than the cap.
FillNewline ==
  /\ pc = "fill"
  /\ Position < snapshot_end
  /\ \E end \in 0..MaxSize : \E n \in newlines :
       /\ FillBuf(end)
       /\ IsFirstNewline(n, Position, Window(end))
       /\ EndLine(IF n + 1 - complete_end > max_record_bytes
                    THEN "uninspected" ELSE "line",
                  n, n + 1 - Position)

\* No newline in the window: retain it, and stop retaining beyond the cap.
FillChunk ==
  /\ pc = "fill"
  /\ Position < snapshot_end
  /\ \E end \in 0..MaxSize :
       /\ FillBuf(end)
       /\ NoNewline(Position, Window(end))
       /\ retained' = Window(end) - complete_end
       /\ read_stream_bytes' = read_stream_bytes + (Window(end) - Position)
  /\ pc' = IF retained' > max_record_bytes THEN "drain" ELSE "fill"
  /\ UNCHANGED <<fileVars, readerVars, lineVars, drained, items>>

\* Mutant of FillBoundary: the unfinished bytes count as consumed.
FillBoundaryAdvancing ==
  /\ pc = "fill"
  /\ AtBoundary
  /\ pc' = "done"
  /\ pending_tail' = TRUE
  /\ lineno' = lineno + 1
  /\ complete_end' = Position
  /\ retained' = 0
  /\ items' = Append(items, NewItem("pending", complete_end))
  /\ UNCHANGED <<fileVars, readerVars, complete_lines, read_stream_bytes, drained,
                 buffered>>

\* The line has no newline in the snapshot: nothing, or a pending tail that
\* leaves the checkpoint where it is.
FillBoundary ==
  /\ pc = "fill"
  /\ AtBoundary
  /\ pc' = "done"
  /\ IF retained = 0
       THEN UNCHANGED <<pending_tail, lineno, items>>
       ELSE /\ pending_tail' = TRUE
            /\ lineno' = lineno + 1
            /\ items' = Append(items, NewItem("pending", complete_end))
  /\ UNCHANGED <<fileVars, readerVars, complete_end, complete_lines, read_stream_bytes,
                 bufVars>>

\* drain_to_newline: look for the end of an oversize record, keeping nothing.
DrainNewline ==
  /\ pc = "drain"
  /\ Position < snapshot_end
  /\ \E end \in 0..MaxSize : \E n \in newlines :
       /\ FillBuf(end)
       /\ IsFirstNewline(n, Position, Window(end))
       /\ EndLine("uninspected", n, drained + (n + 1 - Position))

\* Mutant of DrainChunk: the position is not moved over the drained bytes.
DrainChunkStuck ==
  /\ pc = "drain"
  /\ Position < snapshot_end
  /\ \E end \in 0..MaxSize : FillBuf(end) /\ NoNewline(Position, Window(end))
  /\ UNCHANGED <<fileVars, pc, readerVars, lineVars, read_stream_bytes, retained,
                 drained, items>>

DrainChunk ==
  /\ pc = "drain"
  /\ Position < snapshot_end
  /\ \E end \in 0..MaxSize :
       /\ FillBuf(end)
       /\ NoNewline(Position, Window(end))
       /\ drained' = drained + (Window(end) - Position)
  /\ UNCHANGED <<fileVars, pc, readerVars, lineVars, read_stream_bytes, retained, items>>

\* An oversize record still being written: a pending tail, and unlike the short
\* one it is not counted in lineno.
DrainBoundary ==
  /\ pc = "drain"
  /\ AtBoundary
  /\ pc' = "done"
  /\ pending_tail' = TRUE
  /\ read_stream_bytes' = read_stream_bytes + drained
  /\ items' = Append(items, NewItem("pending", complete_end))
  /\ UNCHANGED <<fileVars, readerVars, complete_end, lineno, complete_lines, bufVars>>

Scan ==
  \/ NextLine
  \/ FillNewline \/ FillChunk \/ FillBoundary
  \/ DrainNewline \/ DrainChunk \/ DrainBoundary

Disk == FileNext /\ UNCHANGED scanVars

Next == Open \/ ConstrainSnapshot \/ ScanFrom \/ Scan \/ Disk

\* The scan is a plain loop of the program's only thread: once started it keeps
\* taking steps.  Nothing is assumed of the writer.
Spec == Init /\ [][Next]_vars /\ WF_vars(Scan)

----------------------------------------------------------------------------
(***************************************************************************)
(* Properties.                                                             *)
(***************************************************************************)

Started == pc \notin {"closed", "opened"}

\* The checkpoint a cursor takes from a scan (complete_line_end and
\* complete_line_count, reader.rs 180-247) is a line boundary inside the frozen
\* snapshot, and the count is the number of lines that end before it: a later
\* page that numbers its lines from it numbers them as one whole scan would.
CheckpointSafe ==
  Started =>
    /\ complete_end = from \/ LineStart(complete_end)
    /\ complete_end <= snapshot_end \/ complete_end = from
    /\ complete_lines = Cardinality({n \in newlines : from <= n /\ n < complete_end})

\* However the reads fall, each byte of the snapshot is read and accounted at
\* most once and none beyond it (reader.rs 157-190, 202-206, 278-307).
ReadOnce ==
  Started =>
    /\ read_stream_bytes =
         (complete_end - from) + retained + (IF pc = "done" THEN drained ELSE 0)
    /\ from <= snapshot_end => from + read_stream_bytes <= snapshot_end

\* The refinement: chunked reads, retention limits and draining amount to the
\* line-by-line scan of LineScan.
phaseOf ==
  IF Started THEN (IF pc = "done" THEN "closed" ELSE "scanning") ELSE "idle"

Lines == INSTANCE LineScan WITH
           phase <- phaseOf, snapshot <- snapshot_end, cap <- max_record_bytes,
           next <- complete_end

\* SourceReader implements LineScan: the caller gets every line that ends in the
\* snapshot, in order, once, with its number and extent, oversize records as
\* Uninspected, and a pending tail only for bytes without a newline, while the
\* file grows or shrinks between any two reads.
ImplementsLineScan == Lines!Spec

\* A scan ends although the file may keep growing, because the boundary is fixed
\* at open (reader.rs 92-105) and every read makes progress.
ScanEnds == (pc = "next") ~> (pc = "done")
=============================================================================
