------------------------------- MODULE ToolPair -------------------------------
(***************************************************************************)
(* Tool call / result correlation for --with-pair (correlate of            *)
(* src/query/toolpair.rs and its use in run_query): up to two further      *)
(* passes over the log after the scan that selected events, each opening   *)
(* the path anew while the agent appends to it or another file takes its   *)
(* place.                                                                  *)
(*                                                                         *)
(* A record is what it says and how it can be read: "plain" by the         *)
(* normalizer, "oversize" and "malformed" not at all, "rejected" when it   *)
(* exceeds a normalization limit (the normalizer then yields no tool event *)
(* for it).  An event is identified by its record, as event ids are by the *)
(* byte offset.  Session ids are carried by "meta" records only (Codex).   *)
(***************************************************************************)
EXTENDS Naturals, Sequences, FiniteSets

CONSTANTS Sessions, CallIds,
          Contents,        \* records of the log when it is opened
          Appends,         \* records the agent may append meanwhile
          Replacements,    \* files that may take the place of the log
          MaxRecords,      \* bound on the records of the log when it is opened
          EventCaps,       \* values of --max-events
          Starts           \* offsets (in records) a query may resume from, 0 for a fresh one

Sides == {"call", "result"}
Forms == {"plain", "oversize", "malformed", "rejected"}
Record == [form : Forms, what : Sides, name : CallIds]
            \cup [form : Forms, what : {"meta"}, name : Sessions]

ASSUME ToolPairAssumption ==
  /\ Contents \subseteq Record /\ Appends \subseteq Record
  /\ Replacements \subseteq Seq(Record)
  /\ MaxRecords \in Nat
  /\ EventCaps \subseteq Nat \ {0}
  /\ Starts \subseteq Nat

VARIABLES file,         \* the log at the path
          gen,          \* how often the path was given another file
          pc,
          query,        \* what run_query knows when it calls correlate
          selected,     \* the tool events the scan selected
          pass,         \* the lines of the file a pass opened, its position and session
          seen,         \* wanted events met by the first pass: calls, results
          found,        \* those whose ids were stored
          reentry,      \* first event of a key whose id was not stored, 0 for none
          gap,          \* the first pass met an over-limit record
          invalid,      \* the first pass met invalid JSON
          pairs,        \* PairInfo of each selected event
          targets,      \* counterparts the second pass has still to find
          rendered,
          shown,        \* the events handed to render
          changed       \* source_changed

logVars == <<file, gen>>
jobVars == <<query, selected>>
foundVars == <<seen, found, reentry, gap, invalid>>
vars == <<logVars, pc, jobVars, pass, foundVars, pairs, targets, rendered, shown, changed>>

SessionIds == Sessions \cup {"file"}
Keys == SessionIds \X CallIds
Event == [rec : Nat \ {0}, what : Sides, key : Keys]
States == {"paired", "pending_result", "orphan", "not_rendered_budget", "unknown_pair",
           "ambiguous"}
Info == [state : States, ids : SUBSET Nat, total : Nat, counterparts : SUBSET Nat,
         reentry : Nat]

NoQuery == [start |-> 0, snapshot |-> 0, session |-> "file", max |-> 1, gen0 |-> 0]
NoPass == [lines |-> <<>>, pos |-> 0, session |-> "file"]

TypeOK ==
  /\ file \in Seq(Record)
  /\ gen \in Nat
  /\ pc \in {"query", "collect", "collecting", "render", "rendering", "attach", "recheck",
             "done"}
  /\ query \in [start : Nat, snapshot : Nat, session : SessionIds, max : Nat \ {0}, gen0 : Nat]
  /\ selected \in SUBSET Event
  /\ pass \in [lines : Seq(Record), pos : Nat, session : SessionIds]
  /\ seen \in SUBSET Event
  /\ found \in SUBSET seen
  /\ reentry \in [Keys -> Nat]
  /\ gap \in BOOLEAN /\ invalid \in BOOLEAN
  /\ pairs \in [selected -> Info] \/ pairs = <<>>
  /\ targets \in SUBSET Nat
  /\ rendered \in Nat
  /\ shown \in SUBSET Nat
  /\ changed \in BOOLEAN

Init ==
  /\ \E n \in 0..MaxRecords : file \in [1..n -> Contents]
  /\ gen = 0
  /\ pc = "query"
  /\ query = NoQuery /\ selected = {} /\ pass = NoPass
  /\ seen = {} /\ found = {} /\ reentry = [k \in Keys |-> 0]
  /\ gap = FALSE /\ invalid = FALSE
  /\ pairs = <<>> /\ targets = {} /\ rendered = 0 /\ shown = {}
  /\ changed = FALSE

----------------------------------------------------------------------------
Lesser(a, b) == IF a < b THEN a ELSE b

SwitchesSession(line) == line.form = "plain" /\ line.what = "meta"
IsTool(line) == line.form = "plain" /\ line.what \in Sides

\* The session a reading from record `from` on gives record i of a log.
SessionAt(log, from, i, first) ==
  LET metas == {j \in (from + 1)..i : SwitchesSession(log[j])}
  IN IF metas = {} THEN first
     ELSE log[CHOOSE j \in metas : \A k \in metas : k <= j].name

\* A header names the session even when it exceeds a limit of the normalizer.
NamesSession(line) == line.form \in {"plain", "rejected"} /\ line.what = "meta"

\* Mutant of Discovered: no session id of the file's own when it has no header.
DiscoveredOrNone(log) ==
  LET metas == {i \in DOMAIN log : NamesSession(log[i])}
  IN IF metas = {} THEN "none" ELSE log[CHOOSE i \in metas : \A j \in metas : i <= j].name

\* discover_session_id: the first record that names a session, or the file's own id.
Discovered(log) ==
  LET metas == {i \in DOMAIN log : NamesSession(log[i])}
  IN IF metas = {} THEN "file" ELSE log[CHOOSE i \in metas : \A j \in metas : i <= j].name

\* Mutant of Key: calls are matched by call id alone.
KeyOfCall(session, line) == <<"file", line.name>>

Key(session, line) == <<session, line.name>>

\* run_query's scan up to correlate (Viewer and Selector model it): from the start
\* or a cursor to the first over-limit record, it selects some tool events, the
\* look-ahead included.
Query ==
  /\ pc = "query"
  /\ \E start \in Starts, max \in EventCaps :
       /\ start <= Len(file)
       /\ query' = [start |-> start, snapshot |-> Len(file), session |-> Discovered(file),
                    max |-> max, gen0 |-> gen]
       /\ \E chosen \in SUBSET {i \in (start + 1)..Len(file) :
                          /\ IsTool(file[i])
                          /\ \A j \in (start + 1)..i : file[j].form # "oversize"} :
            /\ Cardinality(chosen) <= max + 1
            /\ selected' = {[rec |-> i, what |-> file[i].what,
                             key |-> Key(SessionAt(file, start, i, Discovered(file)), file[i])]
                            : i \in chosen}
  /\ pc' = "collect"
  /\ UNCHANGED <<logVars, pass, foundVars, pairs, targets, rendered, shown, changed>>

wanted == {e.key : e \in selected}

\* Mutant of Boundary: a pass reads to the present end of the file.
BoundaryAtEnd(log) == Len(log)

\* Every pass is constrained to the frozen snapshot.
Boundary(log) == Lesser(query.snapshot, Len(log))

OpenPass ==
  pass' = [lines |-> SubSeq(file, 1, Boundary(file)), pos |-> 0, session |-> query.session]

\* Nothing is wanted: correlate returns at once.
NothingWanted ==
  /\ pc = "collect"
  /\ wanted = {}
  /\ pc' = "attach"
  /\ UNCHANGED <<logVars, jobVars, pass, foundVars, pairs, targets, rendered, shown, changed>>

OpenCollect ==
  /\ pc = "collect"
  /\ wanted # {}
  /\ OpenPass
  /\ pc' = "collecting"
  /\ UNCHANGED <<logVars, jobVars, foundVars, pairs, targets, rendered, shown, changed>>

\* The next line of the pass, as the normalizer sees it.
AtEnd == pass.pos = Len(pass.lines)
Line == pass.lines[pass.pos + 1]
LineEvent == [rec |-> pass.pos + 1, what |-> Line.what, key |-> Key(pass.session, Line)]

Advance ==
  pass' = [pass EXCEPT !.pos = @ + 1,
                       !.session = IF SwitchesSession(Line) THEN Line.name ELSE @]

\* A record that is no wanted tool event.
CollectOther ==
  /\ pc = "collecting" /\ ~AtEnd
  /\ IsTool(Line) => LineEvent.key \notin wanted
  /\ Advance
  /\ gap' = (gap \/ Line.form = "oversize")
  /\ invalid' = (invalid \/ Line.form = "malformed")
  /\ UNCHANGED <<logVars, pc, jobVars, seen, found, reentry, pairs, targets, rendered, shown,
                 changed>>

Of(events, key) == {e \in events : e.key = key}

\* Mutant of Reenter: the last event left out is kept.
ReenterLast(e) == [reentry EXCEPT ![e.key] = e.rec]

\* The first event of a key whose id is not stored is where a reader may re-enter.
Reenter(e) == [reentry EXCEPT ![e.key] = IF @ = 0 THEN e.rec ELSE @]

\* A wanted one is counted, and its id stored while the key has room.
CollectWanted ==
  /\ pc = "collecting" /\ ~AtEnd
  /\ IsTool(Line) /\ LineEvent.key \in wanted
  /\ Advance
  /\ seen' = seen \cup {LineEvent}
  /\ IF Cardinality(Of(found, LineEvent.key)) < query.max
       THEN found' = found \cup {LineEvent} /\ UNCHANGED reentry
       ELSE reentry' = Reenter(LineEvent) /\ UNCHANGED found
  /\ UNCHANGED <<logVars, pc, jobVars, gap, invalid, pairs, targets, rendered, shown, changed>>

\* Mutant of Incomplete: over-limit records are no gap.
IncompleteInvalidOnly == invalid

Incomplete == gap \/ invalid

Opposite(what) == IF what = "call" THEN "result" ELSE "call"
Side(events, key, what) == {e \in Of(events, key) : e.what = what}

\* What the first pass makes of a selected event.
Paired(e) ==
  LET total == Cardinality(Side(seen, e.key, Opposite(e.what)))
  IN [state |-> CASE Incomplete -> "unknown_pair"
                  [] ~Incomplete /\ Cardinality(Side(seen, e.key, e.what)) > 1 -> "ambiguous"
                  [] ~Incomplete /\ Cardinality(Side(seen, e.key, e.what)) <= 1 /\ total > 0
                       -> "paired"
                  [] OTHER -> IF e.what = "call" THEN "pending_result" ELSE "orphan",
      ids |-> {f.rec : f \in Side(found, e.key, Opposite(e.what))},
      total |-> total,
      counterparts |-> {},
      reentry |-> reentry[e.key]]

CollectEnd ==
  /\ pc = "collecting" /\ AtEnd
  /\ pairs' = [e \in selected |-> Paired(e)]
  /\ targets' = UNION {Paired(e).ids : e \in selected}
  /\ pc' = IF targets' = {} THEN "attach" ELSE "render"
  /\ UNCHANGED <<logVars, jobVars, pass, foundVars, rendered, shown, changed>>

----------------------------------------------------------------------------
\* The second pass fetches the counterparts themselves.
OpenRender ==
  /\ pc = "render"
  /\ OpenPass
  /\ pc' = "rendering"
  /\ UNCHANGED <<logVars, jobVars, foundVars, pairs, targets, rendered, shown, changed>>

RenderOther ==
  /\ pc = "rendering" /\ ~AtEnd
  /\ ~IsTool(Line) \/ LineEvent.rec \notin targets
  /\ Advance
  /\ UNCHANGED <<logVars, pc, jobVars, foundVars, pairs, targets, rendered, shown, changed>>

RenderTarget ==
  /\ pc = "rendering" /\ ~AtEnd
  /\ IsTool(Line) /\ LineEvent.rec \in targets
  /\ Advance
  /\ targets' = targets \ {LineEvent.rec}
  /\ IF rendered >= query.max
       THEN UNCHANGED <<pairs, rendered>>
       ELSE /\ rendered' = rendered + 1
            /\ pairs' = [e \in DOMAIN pairs |->
                           IF pairs[e].state = "paired" /\ LineEvent.rec \in pairs[e].ids
                             THEN [pairs[e] EXCEPT !.counterparts = @ \cup {LineEvent.rec}]
                             ELSE pairs[e]]
  /\ UNCHANGED <<logVars, pc, jobVars, foundVars, shown, changed>>

displayed == {e.rec : e \in selected}

\* A pair some of whose counterparts were not fetched is not shown as paired.
RenderEnd ==
  /\ pc = "rendering" /\ AtEnd
  /\ pairs' = [e \in DOMAIN pairs |->
                 IF /\ pairs[e].state = "paired"
                    /\ Cardinality(pairs[e].counterparts)
                         + Cardinality(pairs[e].ids \cap displayed) < pairs[e].total
                   THEN [pairs[e] EXCEPT !.state = "not_rendered_budget"]
                   ELSE pairs[e]]
  /\ pc' = "attach"
  /\ UNCHANGED <<logVars, jobVars, pass, foundVars, targets, rendered, shown, changed>>

\* Mutant of OverBudget: the counterparts take no slot.
OverBudgetSelected == Cardinality(selected) > query.max

\* The counterparts not yet displayed, counted for each event they belong to.
OverBudget ==
  Cardinality(selected)
    + Cardinality({x \in (DOMAIN pairs) \X (UNION {pairs[e].ids : e \in DOMAIN pairs}) :
                     x[2] \in pairs[x[1]].ids \ displayed}) > query.max

\* run_query: all the counterparts join the events, or none when they do not fit.
Attach ==
  /\ pc = "attach"
  /\ IF OverBudget
       THEN /\ pairs' = [e \in DOMAIN pairs |->
                           [pairs[e] EXCEPT
                              !.state = IF @ = "paired" THEN "not_rendered_budget" ELSE @,
                              !.counterparts = {}]]
            /\ shown' = displayed
       ELSE /\ shown' = displayed \cup UNION {pairs[e].counterparts : e \in DOMAIN pairs}
            /\ UNCHANGED pairs
  /\ pc' = "recheck"
  /\ UNCHANGED <<logVars, jobVars, pass, foundVars, targets, rendered, changed>>

\* The source is looked at again after the passes.
Recheck ==
  /\ pc = "recheck"
  /\ changed' = (gen # query.gen0)
  /\ pc' = "done"
  /\ UNCHANGED <<logVars, jobVars, pass, foundVars, pairs, targets, rendered, shown>>

\* The agent appends a record (bound: one beyond the snapshot).
Grow ==
  /\ pc # "query" /\ pc # "done"
  /\ Len(file) <= query.snapshot
  /\ \E r \in Appends : file' = Append(file, r)
  /\ UNCHANGED gen

\* Another file takes the place of the log (bound: once).
Replace ==
  /\ gen = 0
  /\ pc # "query" /\ pc # "done"
  /\ file' \in Replacements
  /\ gen' = gen + 1

Disk ==
  /\ Grow \/ Replace
  /\ UNCHANGED <<pc, jobVars, pass, foundVars, pairs, targets, rendered, shown, changed>>

Next ==
  \/ Query \/ NothingWanted
  \/ OpenCollect \/ CollectOther \/ CollectWanted \/ CollectEnd
  \/ OpenRender \/ RenderOther \/ RenderTarget \/ RenderEnd
  \/ Attach \/ Recheck \/ Disk

Spec == Init /\ [][Next]_vars

----------------------------------------------------------------------------
(***************************************************************************)
(* Properties, of an answer whose source did not change.                   *)
(***************************************************************************)
Answered == pc = "done" /\ ~changed

\* What a reading of the whole snapshot says of record i.
TrueKey(i) == Key(SessionAt(file, 0, i, Discovered(file)), file[i])
Counterparts(e, forms) ==
  {i \in 1..query.snapshot :
     /\ file[i].form \in forms /\ file[i].what = Opposite(e.what)
     /\ <<SessionAt(file, 0, i, Discovered(file)), file[i].name>>
          = <<SessionAt(file, 0, e.rec, Discovered(file)), file[e.rec].name>>}

\* "Absent" is only said when the snapshot holds no counterpart, in over-limit and
\* malformed records neither, however the log grew meanwhile
\* (toolpair.rs 168-190, 262-272; docs/CLI.en.md 113-115).
AbsenceProven ==
  Answered =>
    \A e \in DOMAIN pairs : pairs[e].state \in {"pending_result", "orphan"} =>
      Counterparts(e, {"plain", "oversize", "malformed"}) = {}

\* A pair never joins two sessions or two calls, and its total is exact: what was
\* appended after the snapshot is no part of it (toolpair.rs 84-92, 201-217, 288-293).
PairsExact ==
  Answered =>
    \A e \in DOMAIN pairs : pairs[e].state # "unknown_pair" =>
      /\ pairs[e].total = Cardinality(Counterparts(e, {"plain"}))
      /\ pairs[e].ids \subseteq Counterparts(e, {"plain"})

\* A reader that re-enters at pair_reentry meets every counterpart whose id was left
\* out (toolpair.rs 207-217, 289-290; docs/CLI.en.md 119-121).
ReentryReaches ==
  Answered =>
    \A e \in DOMAIN pairs : pairs[e].state # "unknown_pair" =>
      \A i \in Counterparts(e, {"plain"}) \ pairs[e].ids :
        pairs[e].reentry # 0 /\ pairs[e].reentry <= i

\* Counterparts never push the events beyond the display cap, and an event said to be
\* paired is handed to render with every counterpart whose id it lists, however many
\* events share a counterpart (runner.rs 1143-1173, toolpair.rs 310-365).
PairsFitAndShow ==
  Answered =>
    /\ shown # displayed => Cardinality(shown) <= query.max
    /\ \A e \in DOMAIN pairs : pairs[e].state = "paired" => pairs[e].ids \subseteq shown
=============================================================================
