--------------------------------- MODULE Feed ---------------------------------
(***************************************************************************)
(* What the query command promises a client that follows its cursors, with *)
(* no word of pages, budgets, snapshots, retries or positions.             *)
(*                                                                         *)
(* A source holds events in an order of its own, and may gain events       *)
(* behind all it has.  The client is shown the beginning of one source, a  *)
(* part at a time, and nothing it was shown is taken back or shown again.  *)
(* It goes on with the source it was given a cursor into, or begins afresh *)
(* with whatever source is at the path by then.                            *)
(***************************************************************************)
EXTENDS Naturals, Sequences

CONSTANTS Sources,         \* what a path may hold: files, or documents
          Before(_, _)     \* the order of the events of one source

VARIABLES events,    \* the events each source has so far
          held,      \* the source the client can go on with, if any
          shown      \* what the client was shown since it last began afresh

vars == <<events, held, shown>>

\* Some events of a source, in order, and none left out before the last of them.
Beginning(s, all) ==
  /\ \A i \in DOMAIN s : s[i] \in all
  /\ \A i, j \in DOMAIN s : i < j => Before(s[i], s[j])
  /\ \A i \in DOMAIN s : \A e \in all : Before(e, s[i]) => \E j \in DOMAIN s : s[j] = e

Continues(more, s) == Len(s) <= Len(more) /\ SubSeq(more, 1, Len(s)) = s

Init ==
  /\ DOMAIN events = Sources
  /\ held = {}
  /\ shown = <<>>

\* A response adds to what the client was shown, and may leave it without a cursor.
Deliver ==
  /\ \E src \in Sources :
       /\ held = {src} \/ (held = {} /\ shown = <<>>)
       /\ Beginning(shown', events[src])
       /\ held' \in {{}, {src}}
  /\ Continues(shown', shown)
  /\ UNCHANGED events

\* The cursor is refused.
Lose ==
  /\ held' = {}
  /\ UNCHANGED <<events, shown>>

BeginAfresh ==
  /\ shown' = <<>>
  /\ held' = {}
  /\ UNCHANGED events

\* A source gains events, all of them behind those it had.
Grow ==
  /\ DOMAIN events' = Sources
  /\ \A src \in Sources :
       /\ events[src] \subseteq events'[src]
       /\ \A e \in events[src] : \A f \in events'[src] \ events[src] : Before(e, f)
  /\ UNCHANGED <<held, shown>>

Next == Deliver \/ Lose \/ BeginAfresh \/ Grow

Spec == Init /\ [][Next]_vars
=============================================================================
