-------------------------- MODULE SourceReader_proofs --------------------------
(***************************************************************************)
(* Proofs about SourceReader, for every file, buffer capacity and cap.     *)
(*                                                                         *)
(* The inductive invariant IInv adds to the types where the scan stands:   *)
(* the bytes between the checkpoint and the read position hold no newline, *)
(* the position is inside the frozen snapshot, and as long as no byte was  *)
(* removed everything already read lies below the present length, so that  *)
(* a writer can only add newlines the scan has not passed.                 *)
(***************************************************************************)
EXTENDS SourceReader, FiniteSetTheorems, TLAPS

\* Where the disk stands relative to the scan while nothing was removed.
DiskAhead ==
  intact => /\ \A m \in newlines : m < size
            /\ snapshot_end <= size
            /\ buffered <= size
            /\ from <= size

\* Where the scan stands relative to its boundary.
ScanPlace ==
  Started =>
    /\ from <= complete_end
    /\ complete_end = from \/ (LineStart(complete_end) /\ complete_end <= snapshot_end)
    /\ LineStart(from)
    /\ \/ Position <= snapshot_end
       \/ complete_end = from /\ retained = 0 /\ drained = 0 /\ pc \in {"next", "done"}
    /\ pc \in {"next", "fill"} => drained = 0
    /\ pc = "next" => retained = 0
    /\ pc = "fill" => complete_end < snapshot_end
    /\ pc = "drain" => retained > max_record_bytes
    /\ pc \in {"fill", "drain"} => NoNewline(complete_end, Position)
    /\ pc # "done" => lineno = Len(items)

Accounting ==
  /\ ~Started => read_stream_bytes = 0
  /\ Started => read_stream_bytes =
       (complete_end - from) + retained + (IF pc = "done" THEN drained ELSE 0)

IInv == TypeOK /\ DiskAhead /\ ScanPlace /\ Accounting

\* The invariant holds before anything is opened.
LEMMA InitIInv == Init => IInv
  <1> SUFFICES ASSUME Init PROVE IInv
    OBVIOUS
  <1> USE MaxSizeAssumption DEF Init, FileInit
  <1>1. TypeOK
    <2>1. items \in Seq(ItemType)
      OBVIOUS
    <2>2. pending_tail \in BOOLEAN
      BY Zenon
    <2> QED BY <2>1, <2>2 DEF TypeOK, FileTypeOK
  <1>2. DiskAhead /\ ScanPlace /\ Accounting
    BY DEF DiskAhead, ScanPlace, Accounting, Started
  <1> QED BY <1>1, <1>2 DEF IInv

\* A newline found at n inside the window closes the line of the checkpoint.
LEMMA EndLineIInv ==
  ASSUME IInv, pc \in {"fill", "drain"}, Position < snapshot_end,
         NEW end \in 0..MaxSize, NEW n \in newlines,
         FillBuf(end), IsFirstNewline(n, Position, Window(end)),
         NEW kind \in Kinds, NEW consumed \in Nat,
         consumed = n + 1 - Position + (IF pc = "fill" THEN 0 ELSE drained),
         EndLine(kind, n, consumed)
  PROVE  IInv'
  <1> USE MaxSizeAssumption, ReaderAssumption DEF IInv, TypeOK, FileTypeOK
  <1>1. n \in Nat /\ n + 1 <= snapshot_end /\ n + 1 <= end /\ Position <= n
    BY DEF IsFirstNewline, Window, Lesser, Position
  <1>2. complete_end' = n + 1 /\ retained' = 0 /\ drained' = 0 /\ buffered' = end
    BY DEF EndLine, FillBuf
  <1>3. TypeOK'
    <2>1. NewItem(kind, n + 1) \in ItemType
      BY <1>1 DEF NewItem, ItemType
    <2>2. items' \in Seq(ItemType)
      BY <2>1 DEF EndLine
    <2> QED BY <1>1, <1>2, <2>2 DEF EndLine, fileVars, readerVars
  <1>4. DiskAhead'
    BY <1>1, <1>2 DEF DiskAhead, EndLine, fileVars, readerVars, FillBuf
  <1>5. ScanPlace'
    <2>1. LineStart(complete_end)'
      BY <1>2 DEF LineStart, EndLine, fileVars
    <2>2. Len(items') = Len(items) + 1
      BY DEF EndLine
    <2>3. LineStart(from)'
      BY DEF ScanPlace, Started, LineStart, EndLine, fileVars, readerVars
    <2> QED
      BY <1>1, <1>2, <2>1, <2>2, <2>3
      DEF ScanPlace, Started, EndLine, fileVars, readerVars, Position
  <1>6. Accounting'
    BY <1>1, <1>2 DEF Accounting, ScanPlace, Started, EndLine, readerVars, Position
  <1> QED BY <1>3, <1>4, <1>5, <1>6

\* Every step keeps it: one step of the proof per action of the module.
LEMMA NextIInv == IInv /\ [Next]_vars => IInv'
  <1> SUFFICES ASSUME IInv, [Next]_vars PROVE IInv'
    OBVIOUS
  <1> USE MaxSizeAssumption, ReaderAssumption
  <1>1. CASE Open
    <2> USE <1>1 DEF Open, fileVars, lineVars, bufVars
    <2>1. TypeOK'
      BY DEF IInv, TypeOK, FileTypeOK
    <2>2. DiskAhead' /\ ScanPlace' /\ Accounting'
      BY DEF IInv, TypeOK, FileTypeOK, DiskAhead, ScanPlace, Accounting, Started
    <2> QED BY <2>1, <2>2 DEF IInv
  <1>2. CASE ConstrainSnapshot
    <2> USE <1>2 DEF ConstrainSnapshot, fileVars, lineVars, bufVars
    <2>1. TypeOK'
      BY DEF IInv, TypeOK, FileTypeOK
    <2>2. DiskAhead' /\ ScanPlace' /\ Accounting'
      BY DEF IInv, TypeOK, FileTypeOK, DiskAhead, ScanPlace, Accounting, Started
    <2> QED BY <2>1, <2>2 DEF IInv
  <1>3. CASE ScanFrom
    <2> USE <1>3 DEF ScanFrom, fileVars
    <2>1. TypeOK'
      <3>1. items' \in Seq(ItemType)
        OBVIOUS
      <3>2. pending_tail' \in BOOLEAN
        BY Zenon
      <3> QED BY <3>1, <3>2 DEF IInv, TypeOK, FileTypeOK
    <2>2. LineStart(from)' /\ from' \in Nat
      BY DEF LineStart
    <2>3. DiskAhead'
      BY <2>2 DEF IInv, TypeOK, FileTypeOK, DiskAhead, LineStart
    <2>4. ScanPlace' /\ Accounting'
      BY <2>2 DEF IInv, TypeOK, FileTypeOK, ScanPlace, Accounting, Started, Position
    <2> QED BY <2>1, <2>3, <2>4 DEF IInv
  <1>4. CASE NextLine
    <2> USE <1>4 DEF NextLine, fileVars, readerVars, lineVars
    <2>1. TypeOK'
      BY DEF IInv, TypeOK, FileTypeOK
    <2>2. DiskAhead'
      BY DEF IInv, DiskAhead
    <2>3. ScanPlace'
      BY DEF IInv, TypeOK, FileTypeOK, ScanPlace, Started, Position, NoNewline, LineStart
    <2>4. Accounting'
      BY DEF IInv, TypeOK, ScanPlace, Accounting, Started
    <2> QED BY <2>1, <2>2, <2>3, <2>4 DEF IInv
  <1>5. CASE FillNewline
    <2>1. PICK end \in 0..MaxSize, n \in newlines :
            /\ FillBuf(end)
            /\ IsFirstNewline(n, Position, Window(end))
            /\ EndLine(IF n + 1 - complete_end > max_record_bytes
                         THEN "uninspected" ELSE "line", n, n + 1 - Position)
      BY <1>5 DEF FillNewline
    <2>2. n + 1 - Position \in Nat
      BY <2>1 DEF IInv, TypeOK, FileTypeOK, IsFirstNewline, Position
    <2>3. (IF n + 1 - complete_end > max_record_bytes
             THEN "uninspected" ELSE "line") \in Kinds
      BY DEF Kinds
    <2>4. n + 1 - Position = n + 1 - Position + (IF pc = "fill" THEN 0 ELSE drained)
      BY <1>5, <2>2 DEF FillNewline
    <2> QED BY <1>5, <2>1, <2>2, <2>3, <2>4, EndLineIInv DEF FillNewline
  <1>6. CASE FillChunk
    <2>1. PICK end \in 0..MaxSize :
            /\ FillBuf(end)
            /\ NoNewline(Position, Window(end))
            /\ retained' = Window(end) - complete_end
            /\ read_stream_bytes' = read_stream_bytes + (Window(end) - Position)
      BY <1>6 DEF FillChunk
    <2>2. /\ Started /\ pc = "fill" /\ drained = 0 /\ complete_end < snapshot_end
          /\ Position < snapshot_end /\ Position = complete_end + retained
      BY <1>6 DEF FillChunk, IInv, TypeOK, ScanPlace, Started, Position
    <2>3. /\ Window(end) \in Nat /\ Position < Window(end)
          /\ Window(end) <= snapshot_end /\ Window(end) <= end /\ buffered' = end
      BY <2>1, <2>2 DEF IInv, TypeOK, FileTypeOK, FillBuf, Window, Lesser, Position
    <2>4. retained' \in Nat /\ Position' = Window(end) /\ Started'
      BY <1>6, <2>1, <2>2, <2>3
      DEF FillChunk, IInv, TypeOK, Position, lineVars, Started
    <2>5. TypeOK'
      BY <1>6, <2>1, <2>2, <2>3, <2>4
      DEF FillChunk, IInv, TypeOK, FileTypeOK, fileVars, readerVars, lineVars
    <2>6. DiskAhead'
      BY <1>6, <2>1, <2>3
      DEF FillChunk, IInv, TypeOK, FileTypeOK, DiskAhead, FillBuf, fileVars, readerVars
    <2>7. NoNewline(complete_end, Position)'
      BY <1>6, <2>1, <2>2, <2>3, <2>4
      DEF FillChunk, IInv, TypeOK, FileTypeOK, ScanPlace, NoNewline, fileVars, lineVars
    <2>8. ScanPlace'
      BY <1>6, <2>2, <2>3, <2>4, <2>7
      DEF FillChunk, IInv, TypeOK, FileTypeOK, ScanPlace, LineStart, Started, fileVars, readerVars,
          lineVars
    <2>9. Accounting'
      <3>1. pc' # "done" /\ pc # "done" /\ complete_end' = complete_end /\ from' = from
        BY <1>6, <2>2 DEF FillChunk, readerVars, lineVars
      <3>2. read_stream_bytes = (complete_end - from) + retained
        BY <2>2, <3>1 DEF IInv, TypeOK, Accounting
      <3>3. read_stream_bytes' = (complete_end - from) + retained'
        BY <2>1, <2>2, <2>3, <3>2 DEF IInv, TypeOK
      <3> QED BY <2>4, <3>1, <3>3 DEF Accounting
    <2> QED BY <2>5, <2>6, <2>8, <2>9 DEF IInv
  <1>7. CASE FillBoundary
    <2> USE <1>7 DEF FillBoundary, fileVars, readerVars, bufVars
    <2>1. NewItem("pending", complete_end) \in ItemType
      BY DEF IInv, TypeOK, NewItem, ItemType, Kinds
    <2>2. TypeOK'
      <3>1. items' \in Seq(ItemType)
        BY <2>1 DEF IInv, TypeOK
      <3>2. pending_tail' \in BOOLEAN
        BY Zenon DEF IInv, TypeOK
      <3> QED BY <3>1, <3>2 DEF IInv, TypeOK, FileTypeOK
    <2>3. DiskAhead'
      BY DEF IInv, DiskAhead
    <2>4. ScanPlace'
      BY DEF IInv, TypeOK, FileTypeOK, ScanPlace, Started, Position, LineStart
    <2>5. Accounting'
      BY DEF IInv, TypeOK, ScanPlace, Accounting, Started
    <2> QED BY <2>2, <2>3, <2>4, <2>5 DEF IInv
  <1>8. CASE DrainNewline
    <2>1. PICK end \in 0..MaxSize, n \in newlines :
            /\ FillBuf(end)
            /\ IsFirstNewline(n, Position, Window(end))
            /\ EndLine("uninspected", n, drained + (n + 1 - Position))
      BY <1>8 DEF DrainNewline
    <2>2. drained + (n + 1 - Position) \in Nat
      BY <2>1 DEF IInv, TypeOK, FileTypeOK, IsFirstNewline, Position
    <2>3. drained + (n + 1 - Position)
            = n + 1 - Position + (IF pc = "fill" THEN 0 ELSE drained)
      BY <1>8 DEF DrainNewline, IInv, TypeOK, FileTypeOK, Position
    <2>4. "uninspected" \in Kinds
      BY DEF Kinds
    <2> QED BY <1>8, <2>1, <2>2, <2>3, <2>4, EndLineIInv DEF DrainNewline
  <1>9. CASE DrainChunk
    <2>1. PICK end \in 0..MaxSize :
            /\ FillBuf(end)
            /\ NoNewline(Position, Window(end))
            /\ drained' = drained + (Window(end) - Position)
      BY <1>9 DEF DrainChunk
    <2>2. /\ Window(end) \in Nat /\ Position < Window(end)
          /\ Window(end) <= snapshot_end /\ Window(end) <= end /\ buffered' = end
      BY <1>9, <2>1
      DEF DrainChunk, IInv, TypeOK, FileTypeOK, FillBuf, Window, Lesser, Position
    <2>3. drained' \in Nat /\ Position' = Window(end) /\ Started /\ Started'
      BY <1>9, <2>1, <2>2 DEF DrainChunk, IInv, TypeOK, Position, lineVars, Started
    <2>4. TypeOK'
      BY <1>9, <2>1, <2>2, <2>3
      DEF DrainChunk, IInv, TypeOK, FileTypeOK, fileVars, readerVars, lineVars
    <2>5. DiskAhead'
      BY <1>9, <2>1, <2>2
      DEF DrainChunk, IInv, TypeOK, FileTypeOK, DiskAhead, FillBuf, fileVars, readerVars
    <2>6. NoNewline(complete_end, Position)'
      BY <1>9, <2>1, <2>2, <2>3
      DEF DrainChunk, IInv, TypeOK, FileTypeOK, ScanPlace, NoNewline, Position, fileVars,
          lineVars
    <2>7. ScanPlace'
      BY <1>9, <2>2, <2>3, <2>6
      DEF DrainChunk, IInv, TypeOK, FileTypeOK, ScanPlace, LineStart, Started, fileVars, readerVars,
          lineVars
    <2>8. Accounting'
      BY <1>9, <2>3 DEF DrainChunk, IInv, TypeOK, Accounting, Started, readerVars, lineVars
    <2> QED BY <2>4, <2>5, <2>7, <2>8 DEF IInv
  <1>10. CASE DrainBoundary
    <2> USE <1>10 DEF DrainBoundary, fileVars, readerVars, bufVars
    <2>1. NewItem("pending", complete_end) \in ItemType
      BY DEF IInv, TypeOK, NewItem, ItemType, Kinds
    <2>2. TypeOK'
      <3>1. items' \in Seq(ItemType)
        BY <2>1 DEF IInv, TypeOK
      <3> QED BY <3>1 DEF IInv, TypeOK, FileTypeOK
    <2>3. DiskAhead'
      BY DEF IInv, DiskAhead
    <2>4. ScanPlace'
      BY DEF IInv, TypeOK, FileTypeOK, ScanPlace, Started, Position, LineStart
    <2>5. Accounting'
      BY DEF IInv, TypeOK, ScanPlace, Accounting, Started
    <2> QED BY <2>2, <2>3, <2>4, <2>5 DEF IInv
  <1>11. CASE Grow /\ UNCHANGED scanVars
    <2> USE <1>11 DEF Grow, scanVars, readerVars, lineVars, bufVars
    <2>1. PICK n \in (size + 1)..MaxSize : \E new \in SUBSET (size..(n - 1)) :
            size' = n /\ newlines' = newlines \cup new
      OBVIOUS
    <2>2. size' = n /\ \A m \in newlines' : m \in newlines \/ (size <= m /\ m < n)
      BY <2>1
    <2>3. TypeOK'
      BY <2>1, <2>2 DEF IInv, TypeOK, FileTypeOK
    <2>4. DiskAhead'
      BY <2>2 DEF IInv, TypeOK, FileTypeOK, DiskAhead
    <2>5. newlines \subseteq newlines'
      BY <2>1
    <2>6. ASSUME pc \in {"fill", "drain"} PROVE NoNewline(complete_end, Position)'
      BY <2>2, <2>6 DEF IInv, TypeOK, FileTypeOK, DiskAhead, ScanPlace, Started, NoNewline, Position
    <2>7. ScanPlace'
      BY <2>5, <2>6 DEF IInv, ScanPlace, Started, Position, LineStart
    <2>8. Accounting'
      BY DEF IInv, Accounting, Started
    <2> QED BY <2>3, <2>4, <2>7, <2>8 DEF IInv
  <1>12. CASE Truncate /\ UNCHANGED scanVars
    BY <1>12 DEF Truncate, scanVars, readerVars, lineVars, bufVars, IInv, TypeOK,
                 FileTypeOK, DiskAhead, ScanPlace, Accounting, Started, Position,
                 NoNewline, LineStart
  <1>13. CASE UNCHANGED vars
    BY <1>13 DEF vars, fileVars, scanVars, readerVars, lineVars, bufVars, IInv, TypeOK,
                 FileTypeOK, DiskAhead, ScanPlace, Accounting, Started, Position,
                 NoNewline, LineStart
  <1> QED
    BY <1>1, <1>2, <1>3, <1>4, <1>5, <1>6, <1>7, <1>8, <1>9, <1>10, <1>11, <1>12, <1>13
    DEF Next, Scan, Disk, FileNext

\* The inductive invariant holds of every reachable state.
LEMMA SpecIInv == Spec => []IInv
  BY InitIInv, NextIInv, PTL DEF Spec

----------------------------------------------------------------------------
\* TypeOK: every state of every scan has the types of the code's fields.
THEOREM TypeCorrect == Spec => []TypeOK
  BY SpecIInv, PTL DEF IInv

\* ReadOnce: whatever the sizes of the reads, no byte of the snapshot is read or
\* accounted twice and none beyond it (reader.rs 157-190, 278-307).
THEOREM ReadOnceHolds == Spec => []ReadOnce
  <1>1. IInv => ReadOnce
    BY DEF IInv, TypeOK, FileTypeOK, ScanPlace, Accounting, ReadOnce, Started, Position
  <1> QED BY <1>1, SpecIInv, PTL

----------------------------------------------------------------------------
\* The newlines the scan has passed.
Passed == {n \in newlines : from <= n /\ n < complete_end}

LinesCounted == Started => complete_lines = Cardinality(Passed)

\* The newlines the scan has passed are finitely many.
LEMMA PassedFinite ==
  ASSUME TypeOK PROVE IsFiniteSet(Passed)
  <1>1. IsFiniteSet(0..MaxSize)
    BY MaxSizeAssumption, FS_Interval
  <1>2. Passed \in SUBSET (0..MaxSize)
    BY DEF TypeOK, FileTypeOK, Passed
  <1> QED BY <1>1, <1>2, FS_Subset

\* A closed line adds exactly one newline to those passed.
LEMMA EndLineCounted ==
  ASSUME IInv, LinesCounted, Started, Position < snapshot_end,
         pc \in {"fill", "drain"},
         NEW end \in 0..MaxSize, NEW n \in newlines, NEW kind, NEW consumed,
         FillBuf(end), IsFirstNewline(n, Position, Window(end)),
         EndLine(kind, n, consumed)
  PROVE  LinesCounted'
  <1>1. /\ newlines' = newlines /\ from' = from /\ complete_end' = n + 1
        /\ complete_lines' = complete_lines + 1
    BY DEF EndLine, fileVars, readerVars
  <1>2. NoNewline(complete_end, n)
    BY DEF IInv, TypeOK, FileTypeOK, ScanPlace, NoNewline, IsFirstNewline, Position
  <1>3. from <= complete_end /\ complete_end <= n
    BY DEF IInv, TypeOK, FileTypeOK, ScanPlace, IsFirstNewline, Position
  <1>4. Passed' = Passed \cup {n} /\ n \notin Passed
    <2>1. n \in Nat /\ newlines \subseteq Nat /\ from \in Nat /\ complete_end \in Nat
      BY DEF IInv, TypeOK, FileTypeOK
    <2>2. Passed' = {m \in newlines : from <= m /\ m < n + 1}
      BY <1>1 DEF Passed
    <2>3. \A m \in newlines : (from <= m /\ m < n + 1)
                              <=> ((from <= m /\ m < complete_end) \/ m = n)
      BY <1>2, <1>3, <2>1 DEF NoNewline
    <2>4. Passed' = {m \in newlines : (from <= m /\ m < complete_end) \/ m = n}
      BY <2>2, <2>3
    <2>5. ~(n < complete_end)
      BY <1>3, <2>1
    <2> QED BY <2>4, <2>5 DEF Passed
  <1>5. IsFiniteSet(Passed)
    BY PassedFinite DEF IInv
  <1>6. Cardinality(Passed') = Cardinality(Passed) + 1
    BY <1>4, <1>5, FS_AddElement
  <1> QED BY <1>1, <1>6 DEF LinesCounted

\* complete_lines stays the number of newlines passed; the writer adds newlines
\* only beyond the checkpoint.
LEMMA NextLinesCounted == IInv /\ LinesCounted /\ [Next]_vars => LinesCounted'
  <1> SUFFICES ASSUME IInv, LinesCounted, [Next]_vars PROVE LinesCounted'
    OBVIOUS
  <1>1. CASE Open \/ ConstrainSnapshot
    BY <1>1 DEF Open, ConstrainSnapshot, LinesCounted, Started
  <1>2. CASE ScanFrom
    <2>1. complete_lines' = 0 /\ complete_end' = from' /\ from' \in Nat
          /\ newlines' = newlines /\ newlines \subseteq Nat
      BY <1>2 DEF ScanFrom, fileVars, IInv, TypeOK, FileTypeOK
    <2>2. Passed' = {m \in newlines : from' <= m /\ m < from'}
      BY <2>1 DEF Passed
    <2>3. Passed' = {}
      <3>1. \A m \in newlines : ~(from' <= m /\ m < from')
        BY <2>1
      <3> QED BY <2>2, <3>1
    <2> QED BY <2>1, <2>3, FS_EmptySet DEF LinesCounted
  <1>3. CASE NextLine \/ FillChunk \/ FillBoundary \/ DrainChunk \/ DrainBoundary
    <2>1. /\ Started /\ newlines' = newlines /\ from' = from
          /\ complete_end' = complete_end /\ complete_lines' = complete_lines
      BY <1>3 DEF NextLine, FillChunk, FillBoundary, DrainChunk, DrainBoundary, Started,
                  fileVars, readerVars, lineVars
    <2> QED BY <2>1 DEF LinesCounted, Passed
  <1>4. CASE FillNewline
    <2>1. Started /\ pc \in {"fill", "drain"} /\ Position < snapshot_end
      BY <1>4 DEF FillNewline, Started
    <2> QED BY <1>4, <2>1, EndLineCounted DEF FillNewline
  <1>5. CASE DrainNewline
    <2>1. Started /\ pc \in {"fill", "drain"} /\ Position < snapshot_end
      BY <1>5 DEF DrainNewline, Started
    <2> QED BY <1>5, <2>1, EndLineCounted DEF DrainNewline
  <1>6. CASE Grow /\ UNCHANGED scanVars
    <2> SUFFICES ASSUME Started PROVE LinesCounted'
      BY <1>6 DEF scanVars, LinesCounted, Started
    <2>1. complete_end <= size
      BY <1>6 DEF Grow, IInv, TypeOK, FileTypeOK, DiskAhead, ScanPlace
    <2>2. PICK last \in (size + 1)..MaxSize : \E new \in SUBSET (size..(last - 1)) :
            newlines' = newlines \cup new
      BY <1>6 DEF Grow
    <2> PICK new \in SUBSET (size..(last - 1)) : newlines' = newlines \cup new
      BY <2>2
    <2>3. Passed' = Passed
      <3>1. from' = from /\ complete_end' = complete_end
        BY <1>6 DEF scanVars, readerVars, lineVars
      <3>2. size \in Nat /\ complete_end \in Nat
        BY DEF IInv, TypeOK, FileTypeOK
      <3>3. \A m \in newlines' : m \in newlines \/ (m \in Nat /\ size <= m)
        <4>1. \A m \in new : m \in Nat /\ size <= m
          BY <3>2
        <4> QED BY <4>1
      <3>4. \A m : (m \in newlines' /\ m < complete_end) <=> (m \in newlines /\ m < complete_end)
        BY <2>1, <3>2, <3>3
      <3> QED BY <3>1, <3>4 DEF Passed
    <2> QED BY <1>6, <2>3 DEF LinesCounted, scanVars, lineVars
  <1>7. CASE (Truncate /\ UNCHANGED scanVars) \/ UNCHANGED vars
    BY <1>7 DEF Truncate, vars, fileVars, scanVars, readerVars, lineVars, LinesCounted,
                Passed, Started
  <1> QED BY <1>1, <1>2, <1>3, <1>4, <1>5, <1>6, <1>7 DEF Next, Scan, Disk, FileNext

\* CheckpointSafe: complete_line_end is a line boundary of the frozen snapshot
\* and complete_line_count the number of lines before it (reader.rs 180-247).
THEOREM CheckpointIsSafe == Spec => []CheckpointSafe
  <1>1. Init => LinesCounted
    BY DEF Init, LinesCounted, Started
  <1>2. IInv /\ LinesCounted => CheckpointSafe
    BY DEF IInv, ScanPlace, LinesCounted, CheckpointSafe, Passed
  <1> QED BY <1>1, <1>2, SpecIInv, NextLinesCounted, PTL DEF Spec

----------------------------------------------------------------------------
\* A closed line is one Deliver step of LineScan.
LEMMA EndLineDelivers ==
  ASSUME IInv, Position < snapshot_end, pc \in {"fill", "drain"},
         NEW end \in 0..MaxSize, NEW n \in newlines, NEW consumed,
         FillBuf(end), IsFirstNewline(n, Position, Window(end)),
         EndLine(IF n + 1 - complete_end > max_record_bytes
                   THEN "uninspected" ELSE "line", n, consumed)
  PROVE  Lines!Deliver
  <1>1. Lines!IsFirstNewline(n, complete_end, snapshot_end)
    BY DEF Lines!IsFirstNewline, IsFirstNewline, Window, Lesser, IInv, TypeOK, FileTypeOK,
           ScanPlace, Started, NoNewline, Position
  <1>2. lineno = Len(items)
    BY DEF IInv, ScanPlace, Started
  <1>3. phaseOf = "scanning" /\ phaseOf' \in {"scanning", "closed"}
    BY DEF phaseOf, Started, EndLine
  <1> QED
    BY <1>1, <1>2, <1>3 DEF Lines!Deliver, Lines!Item, Lines!fileVars, EndLine, NewItem,
                            fileVars, readerVars

\* Every step of the reader is a step of LineScan or leaves it unchanged.
LEMMA StepSimulation == IInv /\ [Next]_vars => [Lines!Next]_(Lines!vars)
  <1> SUFFICES ASSUME IInv, [Next]_vars PROVE [Lines!Next]_(Lines!vars)
    OBVIOUS
  <1> USE DEF Lines!Next, Lines!vars, Lines!scanVars, Lines!fileVars
  <1>1. CASE Open
    BY <1>1 DEF Open, Lines!OpenAt, phaseOf, Started, fileVars, lineVars, ReaderAssumption,
                IInv, TypeOK
  <1>2. CASE ConstrainSnapshot
    BY <1>2 DEF ConstrainSnapshot, Lines!Lower, phaseOf, Started, fileVars, lineVars,
                IInv, TypeOK
  <1>3. CASE ScanFrom
    BY <1>3 DEF ScanFrom, Lines!Begin, Lines!LineStart, LineStart, phaseOf, Started, fileVars
  <1>4. CASE NextLine
    BY <1>4 DEF NextLine, Lines!Finish, phaseOf, Started, fileVars, readerVars, lineVars,
                IInv, TypeOK
  <1>5. CASE FillNewline
    BY <1>5, EndLineDelivers DEF FillNewline
  <1>6. CASE FillChunk
    BY <1>6 DEF FillChunk, phaseOf, Started, fileVars, readerVars, lineVars
  <1>7. CASE FillBoundary
    <2>1. /\ drained = 0 /\ complete_end < snapshot_end /\ lineno = Len(items)
          /\ NoNewline(complete_end, Position) /\ (intact => snapshot_end <= size)
      BY <1>7 DEF FillBoundary, IInv, ScanPlace, DiskAhead, Started
    <2>2. phaseOf = "scanning" /\ phaseOf' = "closed"
      BY <1>7 DEF FillBoundary, phaseOf, Started
    <2>3. CASE retained = 0
      <3>1. ~intact
        BY <1>7, <2>1, <2>3
        DEF FillBoundary, AtBoundary, Position, IInv, TypeOK, FileTypeOK
      <3> QED
        BY <1>7, <2>2, <2>3, <3>1
        DEF FillBoundary, Lines!Finish, fileVars, readerVars, IInv, TypeOK
    <2>4. CASE retained # 0
      <3>1. Lines!NoNewline(complete_end, snapshot_end) \/ ~intact
        BY <1>7, <2>1 DEF FillBoundary, AtBoundary, Position, NoNewline, Lines!NoNewline,
                          IInv, TypeOK, FileTypeOK
      <3> QED
        BY <1>7, <2>1, <2>2, <2>4, <3>1
        DEF FillBoundary, Lines!DeliverTail, Lines!Item, NewItem, fileVars, readerVars,
            IInv, TypeOK
    <2> QED BY <2>3, <2>4
  <1>8. CASE DrainNewline
    <2>1. PICK end \in 0..MaxSize, n \in newlines :
            /\ FillBuf(end)
            /\ IsFirstNewline(n, Position, Window(end))
            /\ EndLine("uninspected", n, drained + (n + 1 - Position))
      BY <1>8 DEF DrainNewline
    <2>2. n + 1 - complete_end > max_record_bytes
      BY <1>8, <2>1 DEF DrainNewline, IInv, TypeOK, FileTypeOK, ScanPlace, Started,
                        IsFirstNewline, Position
    <2>3. EndLine(IF n + 1 - complete_end > max_record_bytes
                    THEN "uninspected" ELSE "line", n, drained + (n + 1 - Position))
      BY <2>1, <2>2
    <2> QED BY <1>8, <2>1, <2>3, EndLineDelivers DEF DrainNewline
  <1>9. CASE DrainChunk
    BY <1>9 DEF DrainChunk, phaseOf, Started, fileVars, readerVars, lineVars
  <1>10. CASE DrainBoundary
    <2>1. /\ retained > max_record_bytes /\ lineno = Len(items)
          /\ NoNewline(complete_end, Position) /\ (intact => snapshot_end <= size)
          /\ Position <= snapshot_end
      BY <1>10 DEF DrainBoundary, IInv, ScanPlace, DiskAhead, Started
    <2>2. phaseOf = "scanning" /\ phaseOf' = "closed"
      BY <1>10 DEF DrainBoundary, phaseOf, Started
    <2>3. complete_end < snapshot_end
      BY <2>1 DEF IInv, TypeOK, Position
    <2>4. Lines!NoNewline(complete_end, snapshot_end) \/ ~intact
      BY <1>10, <2>1 DEF DrainBoundary, AtBoundary, Position, NoNewline, Lines!NoNewline,
                         IInv, TypeOK, FileTypeOK
    <2> QED
      BY <1>10, <2>1, <2>2, <2>3, <2>4
      DEF DrainBoundary, Lines!DeliverTail, Lines!Item, NewItem, fileVars, readerVars
  <1>11. CASE Disk
    BY <1>11 DEF Disk, FileNext, Grow, Truncate, Lines!Disk, Lines!FileNext, Lines!Grow,
                 Lines!Truncate, Lines!scanVars, scanVars, readerVars, lineVars, phaseOf, Started
  <1>12. CASE UNCHANGED vars
    BY <1>12 DEF vars, fileVars, scanVars, readerVars, lineVars, phaseOf, Started
  <1> QED
    BY <1>1, <1>2, <1>3, <1>4, <1>5, <1>6, <1>7, <1>8, <1>9, <1>10, <1>11, <1>12
    DEF Next, Scan

\* ImplementsLineScan: the chunked, retention-limited, draining reader hands its
\* caller exactly the items of the line-by-line scan of the frozen snapshot,
\* for every file, buffer capacity, cap, checkpoint and writer.
THEOREM ReaderImplementsLineScan == Spec => ImplementsLineScan
  <1>1. Init => Lines!Init
    BY DEF Init, FileInit, Lines!Init, Lines!FileInit, phaseOf, Started
  <1> QED BY <1>1, StepSimulation, SpecIInv, PTL DEF Spec, ImplementsLineScan, Lines!Spec
=============================================================================
