------------------------------ MODULE SourceFile ------------------------------
(***************************************************************************)
(* A session file on disk, as a reader of src/query/reader.rs sees it: a   *)
(* writer (the recording agent) appends bytes while the file is read, and  *)
(* the file may be cut short under the reader.  Only two byte values       *)
(* matter to the reader, the newline and every other byte, so the content  *)
(* is the set of offsets that hold a newline.                              *)
(*                                                                         *)
(* `newlines` is what was ever written: after Truncate the bytes at and    *)
(* beyond `size` are gone from the disk, but a reader may still hold them  *)
(* in its buffer.  Nothing is appended after a truncation.                 *)
(***************************************************************************)
EXTENDS Naturals

CONSTANT MaxSize        \* bound on the length of the file

ASSUME MaxSizeAssumption == MaxSize \in Nat

VARIABLES size,         \* current length of the file
          newlines,     \* offsets of the newlines ever written
          intact        \* no byte was ever removed

fileVars == <<size, newlines, intact>>

FileTypeOK ==
  /\ size \in 0..MaxSize
  /\ newlines \in SUBSET (0..MaxSize)
  /\ intact \in BOOLEAN

FileInit ==
  /\ size \in 0..MaxSize
  /\ newlines \in SUBSET {i \in 0..MaxSize : i < size}
  /\ intact = TRUE

\* The recording agent appends bytes, some of them newlines.
Grow ==
  /\ intact
  /\ \E n \in (size + 1)..MaxSize :
       /\ size' = n
       /\ \E new \in SUBSET (size..(n - 1)) : newlines' = newlines \cup new
  /\ UNCHANGED intact

\* The file is cut short: a read at or beyond the new length finds its end.
Truncate ==
  /\ \E n \in 0..MaxSize : n < size /\ size' = n
  /\ intact' = FALSE
  /\ UNCHANGED newlines

FileNext == Grow \/ Truncate

----------------------------------------------------------------------------

\* n is the first newline at or after `lo` and before `hi`.
IsFirstNewline(n, lo, hi) ==
  /\ n \in newlines
  /\ lo <= n
  /\ n < hi
  /\ \A m \in newlines : ~(lo <= m /\ m < n)

NoNewline(lo, hi) == \A m \in newlines : ~(lo <= m /\ m < hi)

\* The offsets where a physical line may begin.
LineStart(off) == off = 0 \/ \E m \in newlines : off = m + 1

\* std::cmp::min of two offsets.
Lesser(a, b) == IF a < b THEN a ELSE b
=============================================================================
