------------------------------- MODULE LineScan -------------------------------
(***************************************************************************)
(* What a scan of SourceReader promises, with no word on how the bytes are *)
(* fetched: starting at a line boundary it hands its caller, one item at a *)
(* time and in file order, exactly the complete physical lines that end    *)
(* inside the frozen snapshot, then at most one pending tail, and stops    *)
(* where the caller says so.  A record longer than the cap is handed over  *)
(* as Uninspected, never left out.  When the file is cut short under the   *)
(* scan, and only then, it may end early.                                  *)
(***************************************************************************)
EXTENDS SourceFile, Sequences

VARIABLES phase,        \* "idle", "scanning" or "closed"
          snapshot,     \* the frozen end of the scan
          cap,          \* the longest record that is still inspected
          next,         \* offset of the first byte not handed over as a line
          items         \* the items handed to the callback so far

scanVars == <<phase, snapshot, cap, next, items>>
vars == <<fileVars, scanVars>>

Item(kind, start, end) ==
  [kind |-> kind, raw_line |-> Len(items) + 1, byte_start |-> start, byte_end |-> end]

Init ==
  /\ FileInit
  /\ phase = "idle"
  /\ snapshot = 0
  /\ cap = 1
  /\ next = 0
  /\ items = <<>>

\* Opening fixes the snapshot at the length of the file at that moment.
OpenAt ==
  /\ phase = "idle"
  /\ snapshot' = size
  /\ cap' \in Nat \ {0}
  /\ UNCHANGED <<fileVars, phase, next, items>>

\* A page cursor can only lower the boundary.
Lower ==
  /\ phase = "idle"
  /\ snapshot' \in Nat /\ snapshot' <= snapshot
  /\ UNCHANGED <<fileVars, phase, cap, next, items>>

Begin ==
  /\ phase = "idle"
  /\ phase' = "scanning"
  /\ next' \in Nat /\ LineStart(next')
  /\ items' = <<>>
  /\ UNCHANGED <<fileVars, snapshot, cap>>

Deliver ==
  /\ phase = "scanning"
  /\ \E n \in newlines :
       /\ IsFirstNewline(n, next, snapshot)
       /\ items' = Append(items,
                     Item(IF n + 1 - next > cap THEN "uninspected" ELSE "line",
                          next, n + 1))
       /\ next' = n + 1
  /\ phase' \in {"scanning", "closed"}
  /\ UNCHANGED <<fileVars, snapshot, cap>>

\* Bytes without a newline before the boundary are one pending tail.
DeliverTail ==
  /\ phase = "scanning"
  /\ next < snapshot
  /\ NoNewline(next, snapshot) \/ ~intact
  /\ items' = Append(items, Item("pending", next, next))
  /\ phase' = "closed"
  /\ UNCHANGED <<fileVars, snapshot, cap, next>>

Finish ==
  /\ phase = "scanning"
  /\ next >= snapshot \/ ~intact
  /\ phase' = "closed"
  /\ UNCHANGED <<fileVars, snapshot, cap, next, items>>

Disk == FileNext /\ UNCHANGED scanVars

Next == OpenAt \/ Lower \/ Begin \/ Deliver \/ DeliverTail \/ Finish \/ Disk

Spec == Init /\ [][Next]_vars
=============================================================================
