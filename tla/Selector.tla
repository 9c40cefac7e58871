------------------------------- MODULE Selector -------------------------------
(***************************************************************************)
(* Selector of src/query/select.rs, fed one event at a time by the scan    *)
(* callback of src/query/runner.rs: it keeps a window of matching events   *)
(* (the first ones in head mode, the last ones in tail mode) and the       *)
(* neighbours shown as their context, in memory bounded by the request and *)
(* not by the log.                                                         *)
(*                                                                         *)
(* An event in hard scope is its ordinal.  The events of the log are a     *)
(* sequence fixed at the start, "match" when the event is eligible and the *)
(* matcher accepts it, "other" otherwise, so that what was selected can be *)
(* compared with the whole log, the part an early stop leaves unread       *)
(* included.  Events out of the hard scope change nothing and are left     *)
(* out.                                                                    *)
(***************************************************************************)
EXTENDS Integers, Sequences, FiniteSets

CONSTANTS MaxLog,          \* bound on the events in hard scope
          Limits,          \* values of --limit and of --tail
          EventCaps,       \* values of --max-events
          Contexts,        \* values of --context
          RetainFloor,     \* least value of max_retained (64 in the code)
          Slack            \* what the window may retain besides its context (8)

ASSUME SelectorAssumption ==
  /\ MaxLog \in Nat
  /\ Limits \subseteq Nat \ {0}
  /\ EventCaps \subseteq Nat \ {0}
  /\ Contexts \subseteq Nat
  /\ RetainFloor \in Nat
  /\ Slack \in Nat

VARIABLES log,             \* the events of the log, read or not
          options,         \* SelectOptions
          done,            \* the scan ended and finish has run
          ordinal,         \* hard-scope events fed so far
          retained,
          primary,         \* the window, oldest first
          matches,         \* events with a MatchInfo
          last_primary_ordinal,
          unrendered_matches,
          dropped_context,
          selection        \* what finish returns

vars == <<log, options, done, ordinal, retained, primary, matches,
          last_primary_ordinal, unrendered_matches, dropped_context, selection>>

Modes == {"head", "tail"}
OptionsType == [mode : Modes, window : Nat \ {0}, context : Nat, max_retained : Nat]

NoSelection == [primaries |-> {}, context |-> {}, matches |-> {}]

TypeOK ==
  /\ log \in Seq({"match", "other"})
  /\ options \in OptionsType
  /\ done \in BOOLEAN
  /\ ordinal \in Nat
  /\ retained \in SUBSET Nat
  /\ primary \in Seq(Nat)
  /\ matches \in SUBSET Nat
  /\ last_primary_ordinal \in Nat
  /\ unrendered_matches \in Nat
  /\ dropped_context \in Nat
  /\ selection \in [primaries : SUBSET Nat, context : SUBSET Nat, matches : SUBSET Nat]

Lesser(a, b) == IF a < b THEN a ELSE b
Greater(a, b) == IF a < b THEN b ELSE a

\* run_query: one event beyond the page in head mode, none in tail mode.
RequestWindow(mode, limit, max_events) ==
  IF mode = "tail" THEN Lesser(limit, max_events) ELSE Lesser(limit, max_events) + 1

Init ==
  /\ \E n \in 0..MaxLog : log \in [1..n -> {"match", "other"}]
  /\ \E mode \in Modes, limit \in Limits, max_events \in EventCaps, k \in Contexts :
       options = [mode |-> mode, window |-> RequestWindow(mode, limit, max_events),
                  context |-> k, max_retained |-> Greater(max_events, RetainFloor)]
  /\ done = FALSE
  /\ ordinal = 0
  /\ retained = {}
  /\ primary = <<>>
  /\ matches = {}
  /\ last_primary_ordinal = 0
  /\ unrendered_matches = 0
  /\ dropped_context = 0
  /\ selection = NoSelection

----------------------------------------------------------------------------
Window == options.window
Context == options.context

\* total_retained_cap
Cap == Greater(1, Lesser(options.max_retained, Window + 2 * Context + Slack))

primary_set == {primary[i] : i \in DOMAIN primary}

\* Mutant of Victims: prune drops the oldest event, a primary or not.
VictimsAny(events, primaries) ==
  {e \in events : \A f \in events : e <= f}

\* prune drops the oldest event that is no primary, whichever of its branches it
\* takes: the trailing context it tries to spare holds no older one.
Victims(events, primaries) ==
  {e \in events \ primaries : \A f \in events \ primaries : e <= f}

\* retain: one more event is kept, at the price of an old one when that exceeds
\* the cap.
Retain(events, e, primaries) ==
  LET more == events \cup {e}
  IN IF Cardinality(more) > Cap THEN more \ Victims(more, primaries) ELSE more

\* What retain has to drop.
Dropped(events, e, primaries) ==
  IF e \notin events /\ Cardinality(events \cup {e}) > Cap THEN 1 ELSE 0

\* Mutant of CanStop: the trailing context is not waited for.
CanStopAtWindow == options.mode = "head" /\ Len(primary) >= Window

\* can_stop: the head window is full and its trailing context has passed.
CanStop ==
  /\ options.mode = "head"
  /\ Len(primary) >= Window
  /\ ordinal > last_primary_ordinal + Context

Fed == ordinal + 1

Feeding ==
  /\ ~done
  /\ ~CanStop
  /\ ordinal < Len(log)
  /\ ordinal' = Fed
  /\ UNCHANGED <<log, options, done, selection>>

\* feed, the part every event in hard scope goes through.
Surroundings == IF Context > 0 THEN Retain(retained, Fed, primary_set) ELSE retained
SurroundingsDropped ==
  IF Context > 0 THEN Dropped(retained, Fed, primary_set) ELSE 0

WindowFull == Len(primary) >= Window

\* An event that does not match, or a match after the head window is full.
FeedNeighbour ==
  /\ Feeding
  /\ log[Fed] = "match" => options.mode = "head" /\ WindowFull
  /\ retained' = Surroundings
  /\ dropped_context' = dropped_context + SurroundingsDropped
  /\ unrendered_matches' = unrendered_matches + (IF log[Fed] = "match" THEN 1 ELSE 0)
  /\ UNCHANGED <<primary, matches, last_primary_ordinal>>

\* A match becomes a primary that was never one: it is retained and recorded.
Admit(window, before, infos) ==
  LET kept == {window[i] : i \in DOMAIN window} IN
  /\ retained' = Retain(before, Fed, kept)
  /\ dropped_context' = dropped_context + SurroundingsDropped
                          + Dropped(before, Fed, kept)
  /\ matches' = infos \cup {Fed}
  /\ primary' = Append(window, Fed)
  /\ last_primary_ordinal' = Fed
  /\ UNCHANGED unrendered_matches

FeedPrimary ==
  /\ Feeding
  /\ log[Fed] = "match"
  /\ ~WindowFull
  /\ Admit(primary, Surroundings, matches)

\* Mutant of FeedTail: the match info of the event that leaves the window stays.
FeedTailLeaking ==
  /\ Feeding
  /\ log[Fed] = "match"
  /\ options.mode = "tail" /\ WindowFull
  /\ LET old == Head(primary)
     IN Admit(Tail(primary),
              IF Context = 0 THEN Surroundings \ {old} ELSE Surroundings, matches)

\* In tail mode the oldest primary leaves the window; without context nothing
\* else keeps it.
FeedTail ==
  /\ Feeding
  /\ log[Fed] = "match"
  /\ options.mode = "tail" /\ WindowFull
  /\ LET old == Head(primary)
     IN Admit(Tail(primary),
              IF Context = 0 THEN Surroundings \ {old} ELSE Surroundings,
              IF old \in Surroundings THEN matches \ {old} ELSE matches)

----------------------------------------------------------------------------
\* finish measures context in positions of the retained list.
Position(e) == Cardinality({f \in retained : f < e})

Neighbours(p) ==
  {e \in retained \ {p} : /\ Position(e) <= Position(p) + Context
                          /\ Position(p) <= Position(e) + Context}

\* The neighbours in the order finish visits them, primary by primary; one that is
\* no primary is refused, and counted, once as many events are kept as the cap allows.
Visits == {v \in retained \X retained : v[1] \in primary_set /\ v[2] \in Neighbours(v[1])}
KeptBefore(v) ==
  primary_set \cup
    {w[2] : w \in {u \in Visits : u[1] < v[1] \/ (u[1] = v[1] /\ u[2] < v[2])}}
Refused == {v \in Visits : v[2] \notin primary_set /\ Cardinality(KeptBefore(v)) >= Cap}

Surrounding == IF Context = 0 THEN {} ELSE {v[2] : v \in Visits \ Refused}

\* The scan is over: the log ended, or can_stop said so.
Finish ==
  /\ ~done
  /\ CanStop \/ ordinal = Len(log)
  /\ done' = TRUE
  /\ selection' = [primaries |-> primary_set \cap retained,
                   context |-> Surrounding \ primary_set,
                   matches |-> matches \cap primary_set \cap retained]
  /\ retained' = retained \cap (primary_set \cup Surrounding)
  /\ dropped_context' = dropped_context + (IF Context = 0 THEN 0 ELSE Cardinality(Refused))
  /\ UNCHANGED <<log, options, ordinal, primary, matches, last_primary_ordinal,
                 unrendered_matches>>

Next == FeedNeighbour \/ FeedPrimary \/ FeedTail \/ Finish

Spec == Init /\ [][Next]_vars

----------------------------------------------------------------------------
(***************************************************************************)
(* Properties.                                                             *)
(***************************************************************************)
WindowFits == Window <= Cap

\* Retention never exceeds its cap, in either mode, however the matches and their
\* neighbours alternate (prune, select.rs 193-247).
RetainedBounded == Cardinality(retained) <= Cap

\* When the cap leaves room for the window, pruning never costs a primary or its
\* match info, and nothing that left the window keeps one (select.rs 144-183).
WindowIntact ==
  WindowFits => /\ primary_set \subseteq retained
                /\ matches = primary_set

MatchesOfLog == {i \in DOMAIN log : log[i] = "match"}

\* The reference: the first (last) matches of the whole log, as many as the window.
Selected ==
  {i \in MatchesOfLog :
     Cardinality({j \in MatchesOfLog : IF options.mode = "head" THEN j < i ELSE j > i})
       < Window}

\* An early stop and bounded retention do not change the answer: the primaries are
\* the first (last) matches of the whole log, its unread part included
\* (select.rs 127-183, 251-260).
SelectsTheWindow ==
  done /\ WindowFits => selection.primaries = Selected /\ selection.matches = Selected

\* An event within the requested distance of a primary is shown, or the response
\* discloses that context was dropped; an early stop never hides one
\* (select.rs 195-247, 251-289, docs/CLI.en.md 142-145).
ContextShownOrDisclosed ==
  done /\ WindowFits /\ dropped_context = 0 =>
    \A p \in selection.primaries, e \in DOMAIN log :
      e - p <= Context /\ p - e <= Context
        => e \in selection.primaries \cup selection.context
=============================================================================
