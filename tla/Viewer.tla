-------------------------------- MODULE Viewer --------------------------------
(***************************************************************************)
(* The query command (run_query, validate_cursor and render of             *)
(* src/query/runner.rs) and a client that follows the cursors it is given, *)
(* over a session log that is written while it is read.                    *)
(*                                                                         *)
(* An invocation is a process of its own: it keeps no state but what the   *)
(* cursor carries.  It opens the path several times, so the log may change *)
(* between its steps.  Modelled: --limit pages in head mode with no        *)
(* context, the byte budget as any number of rendered events, the record   *)
(* cap as "normal" or "raised", filters and queries as the kind of each    *)
(* record.  Anchors are the bytes before a checkpoint, which appends never *)
(* change, so they differ only between generations.                        *)
(***************************************************************************)
EXTENDS SessionLog

CONSTANTS PageLimits,       \* values of --limit
          MaxEvents,        \* value of --max-events (200 unless given)
          RetainFloor,      \* least cap of the selector's retention (64 in the code)
          DiscoveryLines,   \* inspected lines searched for a session id (32 in the code)
          MayTimeOut        \* whether a search may run out of its time budget

ASSUME ViewerAssumption ==
  /\ PageLimits \subseteq Nat \ {0}
  /\ MaxEvents \in Nat \ {0}
  /\ RetainFloor \in Nat
  /\ DiscoveryLines \in Nat
  /\ MayTimeOut \in BOOLEAN

VARIABLES pc,        \* control point of the running invocation
          job,       \* what it was asked, and what it saw at open
          scan,      \* state of its scan
          client,    \* the token the client holds and its options
          emitted,   \* events the client was shown since it last began afresh
          answer     \* what the last response claimed

vars == <<logVars, pc, job, scan, client, emitted, answer>>

----------------------------------------------------------------------------
(***************************************************************************)
(* Cursors.  A retry cursor is a page cursor placed on a rejected record.  *)
(***************************************************************************)
NoToken == [kind |-> "none", gen |-> 1, snap |-> 0, off |-> 0, sub |-> 0, line |-> 0,
            session |-> "file", mtime |-> 0]

Sessions == {"file", "id"}

TokenType == [kind : {"none", "page", "retry", "append"}, gen : 1..MaxGens, snap : Nat,
              off : Nat, sub : Nat, line : Nat, session : Sessions, mtime : Nat]

IsPage(t) == t.kind \in {"page", "retry"}

Caps == {"normal", "raised"}

NoJob == [token |-> NoToken, limit |-> 1, len0 |-> 0, mtime0 |-> 0, gen0 |-> 1,
          session |-> "file"]

JobType == [token : TokenType, limit : Nat \ {0}, len0 : Nat, mtime0 : Nat,
            gen0 : 1..MaxGens, session : Sessions]

\* An event as the client sees it: where it lies and the line it was numbered.
EventType == [gen : 1..MaxGens, rec : Nat, sub : Nat, line : Nat]

NoScan == [handle |-> 1, boundary |-> 0, pos |-> 0, line |-> 0, selected |-> <<>>,
           uninspected |-> 0, invalid |-> FALSE, pending |-> FALSE, timedOut |-> FALSE,
           changed |-> FALSE]

ScanType == [handle : 1..MaxGens, boundary : Nat, pos : Nat, line : Nat,
             selected : Seq(EventType), uninspected : Nat, invalid : BOOLEAN,
             pending : BOOLEAN, timedOut : BOOLEAN, changed : BOOLEAN]

NoAnswer == [status |-> "none", exhausted |-> FALSE]

TypeOK ==
  /\ LogTypeOK
  /\ pc \in {"idle", "validate", "open", "scan", "check", "recheck", "render"}
  /\ job \in JobType
  /\ scan \in ScanType
  /\ client \in [token : TokenType, cap : Caps, roomy : BOOLEAN]
  /\ emitted \in Seq(EventType)
  /\ answer \in [status : {"none", "ok", "partial", "cursor_invalid", "budget_too_small"},
                 exhausted : BOOLEAN]

Init ==
  /\ LogInit
  /\ pc = "idle"
  /\ job = NoJob
  /\ scan = NoScan
  /\ \E cap \in Caps : client = [token |-> NoToken, cap |-> cap, roomy |-> FALSE]
  /\ emitted = <<>>
  /\ answer = NoAnswer

----------------------------------------------------------------------------
(***************************************************************************)
(* The invocation.                                                         *)
(***************************************************************************)

\* The metadata captured at open.
Start ==
  /\ pc = "idle"
  /\ \E limit \in PageLimits :
       job' = [NoJob EXCEPT !.token = client.token, !.limit = limit,
                            !.len0 = Length(gen), !.mtime0 = mtime, !.gen0 = gen]
  /\ emitted' = IF client.token.kind = "none" THEN <<>> ELSE emitted
  /\ answer' = NoAnswer
  /\ pc' = "validate"
  /\ UNCHANGED <<logVars, scan, client>>

\* The lines of the file now at the path that a scan bounded by `end` inspects.
Inspected(end) ==
  {i \in 1..Len(recs[gen]) : 2 * i <= end /\ ~Oversize(recs[gen][i], client.cap)}

\* discover_session_id: a session id in the leading inspected records.
Discovered(end) ==
  \E i \in Inspected(end) :
    /\ NamesSession(recs[gen][i])
    /\ Cardinality({j \in Inspected(end) : j < i}) < DiscoveryLines

\* subevents_at: the events of the record that starts at the offset.
SubeventsAt(off) ==
  IF off < Len(recs[gen]) /\ ~Oversize(recs[gen][off + 1], client.cap)
    THEN Subevents(recs[gen][off + 1]) ELSE 0

\* validate_cursor, and the session comparison before it.
Accepts(t) ==
  /\ t.session = IF Discovered(job.len0) THEN "id" ELSE "file"
  /\ t.gen = job.gen0
  /\ t.snap <= job.len0
  /\ 2 * t.off <= job.len0
  /\ t.off > 0 => 2 * t.off <= t.snap /\ t.off <= Len(recs[gen])
  /\ IF SubeventsAt(t.off) = 0
       THEN 2 * t.off = t.snap /\ t.sub = 0
       ELSE t.sub < SubeventsAt(t.off)
  /\ job.len0 = t.snap => mtime = t.mtime

Fresh ==
  /\ pc = "validate"
  /\ job.token.kind = "none"
  /\ job' = [job EXCEPT !.session = IF Discovered(job.len0) THEN "id" ELSE "file"]
  /\ pc' = "open"
  /\ UNCHANGED <<logVars, scan, client, emitted, answer>>

Accept ==
  /\ pc = "validate"
  /\ job.token.kind # "none"
  /\ Accepts(job.token)
  /\ job' = [job EXCEPT !.session = job.token.session]
  /\ pc' = "open"
  /\ UNCHANGED <<logVars, scan, client, emitted, answer>>

\* cursor_failure: nothing is read; the client begins again without a cursor.
\* On a file replaced since the cursor was issued, its anchors may differ too.
Reject ==
  /\ pc = "validate"
  /\ job.token.kind # "none"
  /\ ~Accepts(job.token) \/ gen # job.token.gen
  /\ answer' = [NoAnswer EXCEPT !.status = "cursor_invalid"]
  /\ client' = [client EXCEPT !.token = NoToken]
  /\ job' = NoJob
  /\ pc' = "idle"
  /\ UNCHANGED <<logVars, scan, emitted>>

\* A page keeps the boundary of the snapshot it belongs to.
EffectiveEnd == IF IsPage(job.token) THEN job.token.snap ELSE job.len0

StartLine(t) ==
  CASE IsPage(t) -> t.line - 1
    [] t.kind = "append" -> t.line
    [] OTHER -> 0

OpenReader ==
  /\ pc = "open"
  /\ scan' = [NoScan EXCEPT
                !.handle = gen,
                !.boundary = IF EffectiveEnd < Length(gen) THEN EffectiveEnd ELSE Length(gen),
                !.pos = job.token.off,
                !.line = StartLine(job.token)]
  /\ pc' = "scan"
  /\ UNCHANGED <<logVars, job, client, emitted, answer>>

Lesser(a, b) == IF a < b THEN a ELSE b

Page == Lesser(job.limit, MaxEvents)

\* Mutant of SelectWindow: the look-ahead event is left out.
SelectWindowExact == Page

\* One more primary than the page shows, so that the page knows there is more.
SelectWindow == Page + 1

Complete(i) == i <= Len(recs[scan.handle]) /\ 2 * i <= scan.boundary
Kind(i) == recs[scan.handle][i]

\* Mutant of Resumed: the page resume does not skip the events already shown.
ResumedWhole(i) == 0..(Subevents(Kind(i)) - 1)

\* Events of record i that a page resume does not skip.
Resumed(i) ==
  {s \in 0..1 : /\ s < Subevents(Kind(i))
                /\ IsPage(job.token) /\ i - 1 = job.token.off => s >= job.token.sub}

EventAt(i, s) == [gen |-> scan.handle, rec |-> i, sub |-> s, line |-> scan.line + 1]

\* Mutant of Fed: a full window gives up its first event for the newest.
FedEvicting(i) ==
  LET fed == IF Matching(Kind(i)) THEN Cardinality(Resumed(i)) ELSE 0
      all == scan.selected
               \o [n \in 1..fed |-> EventAt(i, Subevents(Kind(i)) - fed + n - 1)]
  IN IF Len(all) > SelectWindow
       THEN SubSeq(all, Len(all) - SelectWindow + 1, Len(all)) ELSE all

\* Selector::feed in head mode, no context: matches fill the window in order.
Fed(i) ==
  LET fed == IF Matching(Kind(i)) THEN Cardinality(Resumed(i)) ELSE 0
      all == scan.selected
               \o [n \in 1..fed |-> EventAt(i, Subevents(Kind(i)) - fed + n - 1)]
  IN IF Len(all) > SelectWindow THEN SubSeq(all, 1, SelectWindow) ELSE all

\* Selector::can_stop: an event in scope came after the window was full.
WindowClosed(i) ==
  /\ InScope(Kind(i))
  /\ Resumed(i) # {}
  /\ \/ Len(scan.selected) = SelectWindow
     \/ Matching(Kind(i))
          /\ Len(scan.selected) + Cardinality(Resumed(i)) > SelectWindow

ScanLine ==
  /\ pc = "scan"
  /\ LET i == scan.pos + 1 IN
       /\ Complete(i)
       /\ ~Oversize(Kind(i), client.cap)
       /\ \E late \in (IF MayTimeOut /\ ~WindowClosed(i) THEN BOOLEAN ELSE {FALSE}) :
            /\ scan' = [scan EXCEPT !.pos = i, !.line = @ + 1, !.selected = Fed(i),
                                    !.invalid = @ \/ Invalid(Kind(i)), !.timedOut = late]
            /\ pc' = IF WindowClosed(i) \/ late THEN "check" ELSE "scan"
  /\ UNCHANGED <<logVars, job, client, emitted, answer>>

\* Mutant of ScanUninspected: an over-limit record is stepped over.
ScanUninspectedSkipping ==
  /\ pc = "scan"
  /\ Complete(scan.pos + 1)
  /\ Oversize(Kind(scan.pos + 1), client.cap)
  /\ scan' = [scan EXCEPT !.pos = @ + 1, !.line = @ + 1]
  /\ UNCHANGED <<logVars, pc, job, client, emitted, answer>>

\* An over-limit record is reported, never skipped: the scan stops on it.
ScanUninspected ==
  /\ pc = "scan"
  /\ LET i == scan.pos + 1 IN
       /\ Complete(i)
       /\ Oversize(Kind(i), client.cap)
       /\ scan' = [scan EXCEPT !.pos = i, !.line = @ + 1, !.uninspected = i]
  /\ pc' = "check"
  /\ UNCHANGED <<logVars, job, client, emitted, answer>>

ScanPendingTail ==
  /\ pc = "scan"
  /\ ~Complete(scan.pos + 1)
  /\ 2 * scan.pos < scan.boundary
  /\ scan' = [scan EXCEPT !.pending = TRUE]
  /\ pc' = "check"
  /\ UNCHANGED <<logVars, job, client, emitted, answer>>

ScanEnd ==
  /\ pc = "scan"
  /\ 2 * scan.pos >= scan.boundary
  /\ pc' = "check"
  /\ UNCHANGED <<logVars, job, scan, client, emitted, answer>>

\* observable_source_change: growth is legitimate, anything else is not.
SourceChange ==
  \/ Length(gen) < EffectiveEnd
  \/ Length(gen) = EffectiveEnd /\ mtime # job.mtime0
  \/ gen # job.gen0

\* The file is looked at after the scan, and again after the pairing passes.
CheckSource ==
  /\ pc \in {"check", "recheck"}
  /\ scan' = [scan EXCEPT !.changed = @ \/ SourceChange]
  /\ pc' = IF pc = "check" THEN "recheck" ELSE "render"
  /\ UNCHANGED <<logVars, job, client, emitted, answer>>

----------------------------------------------------------------------------
(***************************************************************************)
(* The response.                                                           *)
(***************************************************************************)
ReachedEnd == scan.pending \/ 2 * scan.pos >= scan.boundary

\* Selector::prune: a primary that finds the retention full of primaries is
\* counted in the window but not kept.
RetainCap == IF MaxEvents < RetainFloor THEN RetainFloor ELSE MaxEvents
Kept == SubSeq(scan.selected, 1, Lesser(Len(scan.selected), RetainCap))

\* Append-cursor eligibility.
AppendAllowed ==
  /\ scan.uninspected = 0
  /\ ~scan.changed
  /\ ReachedEnd
  /\ ~scan.invalid

Cursor(kind, snap, off, sub, line) ==
  [kind |-> kind, gen |-> job.gen0, snap |-> snap, off |-> off, sub |-> sub,
   line |-> line, session |-> job.session, mtime |-> mtime]

\* Mutant of PageCursor: it names the subevent before the one to resume from.
PageCursorAtLast(n) ==
  LET next == Kept[n + 1]
  IN Cursor("page", job.len0, next.rec - 1, next.sub - 1, next.line)

\* The page cursor points at the first selected event that was not rendered.
PageCursor(n) ==
  LET next == Kept[n + 1]
  IN Cursor("page", job.len0, next.rec - 1, next.sub, next.line)

\* Mutant of RetryCursor: the retry resumes after the record it is about.
RetryCursorPast == Cursor("retry", job.len0, scan.uninspected, 0, scan.line + 1)

RetryCursor == Cursor("retry", job.len0, scan.uninspected - 1, 0, scan.line)

\* Mutant of AppendCursor: its snapshot is the length, an unfinished tail included.
AppendCursorAtLength == Cursor("append", job.len0, scan.pos, 0, scan.line)

AppendCursor == Cursor("append", 2 * scan.pos, scan.pos, 0, scan.line)

\* What the client does with a response: follow the page, then the retry with a
\* raised cap, then the appends; a changed source makes it begin again.
NextToken(n) ==
  CASE scan.changed -> NoToken
    [] ~scan.changed /\ n < Len(Kept) -> PageCursor(n)
    [] ~scan.changed /\ n = Len(Kept) /\ scan.uninspected # 0 -> RetryCursor
    [] OTHER -> IF AppendAllowed THEN AppendCursor ELSE NoToken

\* Mutant of Status: a search stopped by its time budget counts as a whole one.
StatusWithoutTimeout ==
  IF scan.uninspected # 0 \/ scan.invalid \/ scan.changed THEN "partial" ELSE "ok"

Status ==
  IF scan.uninspected # 0 \/ scan.invalid \/ scan.changed \/ scan.timedOut
    THEN "partial" ELSE "ok"

\* Mutant of Shown: a page may show nothing and still succeed.
ShownOrNone == 0..Lesser(Len(Kept), Page)

\* How many primaries the page and the byte budget let through: at least one.
Shown ==
  LET most == Lesser(Len(Kept), Page)
  IN {n \in 0..most : n = 0 => most = 0}

Render ==
  /\ pc = "render"
  /\ \E n \in Shown :
       /\ emitted' = IF scan.changed THEN <<>>
                     ELSE emitted \o SubSeq(Kept, 1, n)
       /\ client' = [token |-> NextToken(n),
                     cap |-> IF NextToken(n).kind = "retry" THEN "raised" ELSE client.cap,
                     roomy |-> FALSE]
       /\ answer' = [status |-> Status,
                     exhausted |-> n = Len(Kept) /\ scan.uninspected = 0]
  /\ job' = NoJob
  /\ scan' = NoScan
  /\ pc' = "idle"
  /\ UNCHANGED logVars

\* budget_too_small: nothing is shown, and the client asks for more room.
TooSmall ==
  /\ pc = "render"
  /\ ~client.roomy
  /\ client' = [client EXCEPT !.roomy = TRUE]
  /\ answer' = [NoAnswer EXCEPT !.status = "budget_too_small"]
  /\ job' = NoJob
  /\ scan' = NoScan
  /\ pc' = "idle"
  /\ UNCHANGED <<logVars, emitted>>

----------------------------------------------------------------------------
Query ==
  \/ Start \/ Fresh \/ Accept \/ Reject \/ OpenReader
  \/ ScanLine \/ ScanUninspected \/ ScanPendingTail \/ ScanEnd
  \/ CheckSource \/ Render \/ TooSmall

Disk == LogNext /\ UNCHANGED <<pc, job, scan, client, emitted, answer>>

Next == Query \/ Disk

\* An invocation runs to its end, and the client keeps asking.  Nothing is
\* assumed of the agent that writes the log.
Spec == Init /\ [][Next]_vars /\ WF_vars(Query)

----------------------------------------------------------------------------
(***************************************************************************)
(* Properties.                                                             *)
(***************************************************************************)
Before(e, f) == e.rec < f.rec \/ (e.rec = f.rec /\ e.sub < f.sub)

\* The matching events of a file before an offset and a subevent.
MatchesBefore(g, off, sub) ==
  {e \in [gen : {g}, rec : 1..Len(recs[g]), sub : 0..1, line : 1..Len(recs[g])] :
     /\ e.line = e.rec
     /\ Matching(recs[g][e.rec]) /\ e.sub < Subevents(recs[g][e.rec])
     /\ e.rec - 1 < off \/ (e.rec - 1 = off /\ e.sub < sub)}

\* A client that follows its cursors through pages, retries and appends has been
\* shown, once and in file order, exactly the matching events of one file that
\* lie before the position its cursor will resume from, each with its true line
\* number (runner.rs 861-1061, 1349-1544).
NoGapNoRepeat ==
  client.token.kind # "none" =>
    /\ {emitted[i] : i \in DOMAIN emitted}
         = MatchesBefore(client.token.gen, client.token.off, client.token.sub)
    /\ \A i, j \in DOMAIN emitted : i < j => Before(emitted[i], emitted[j])

\* An append cursor stands behind a complete line, and every record before it was
\* inspected: it never moves past an unfinished, over-limit or skipped record
\* (runner.rs 1046-1092, docs/CLI.en.md 183-187).
AppendBehindInspected ==
  LET t == client.token IN
  t.kind = "append" =>
    /\ t.off <= Len(recs[t.gen]) /\ t.snap = 2 * t.off /\ t.line = t.off
    /\ \A i \in 1..t.off : ~Oversize(recs[t.gen][i], client.cap)

\* A cursor resumed on a log that was only appended to is accepted, whatever was
\* appended since it was issued, as long as nothing is written between the
\* invocation's open and its validation (validate_cursor, runner.rs 1843-2031).
CursorAccepted ==
  (pc = "validate" /\ gen = 1 /\ mtime = job.mtime0
     /\ job.token.kind \in {"page", "append"})
    => Accepts(job.token)

\* What the docs say of a record over the cap: the retry cursor re-reads it with a
\* raised cap (runner.rs 1646-1647, docs/CLI.en.md 232-235).
RetryAccepted ==
  (pc = "validate" /\ gen = 1 /\ mtime = job.mtime0 /\ job.token.kind = "retry")
    => Accepts(job.token)

\* What the docs say of page cursors: one is issued when primary events remain
\* undisplayed (docs/CLI.en.md 186).
PageWhileUndisplayed ==
  [][ (pc = "render" /\ ~scan.changed /\ answer'.status \in {"ok", "partial"}
       /\ Len(emitted') < Len(emitted) + Len(scan.selected))
      => client'.token.kind = "page" ]_vars

\* A response that is called complete leads on: the client of an "ok" response has
\* a page or an append cursor, so a search its time budget stopped never reads as a
\* whole one (runner.rs 1034-1061, 1446-1544, 1603-1610).
OkLeadsOn == answer.status = "ok" => client.token.kind \in {"page", "append"}

\* "exhausted" is only said when the snapshot was consumed to its end
\* (tests/viewer_e2e.rs 2183).  True when no search runs out of time: the code asks
\* only for the absence of a page cursor and of uninspected records (runner.rs 1723).
ExhaustedMeansConsumed ==
  [][ (pc = "render" /\ answer'.exhausted) => ReachedEnd ]_vars

\* Following a page cursor always moves on: the position strictly grows, so no
\* client loops on one page (runner.rs 1436-1444).
PageProgress ==
  [][ (pc = "render" /\ job.token.kind = "page" /\ client'.token.kind = "page"
       /\ answer'.status \in {"ok", "partial"})
      => \/ job.token.off < client'.token.off
         \/ job.token.off = client'.token.off /\ job.token.sub < client'.token.sub ]_vars

\* The client is fed as the abstract specification promises: whatever the pages,
\* budgets, retries and rejections, what it was shown is always a beginning of one
\* file's matching events, and each response goes on where the last one ended
\* (run_query and render, runner.rs 531-1544).
EventsSoFar == [g \in 1..MaxGens |-> MatchesBefore(g, Len(recs[g]), 0)]
Held == IF client.token.kind = "none" THEN {} ELSE {client.token.gen}
Feeds == INSTANCE Feed WITH
           Sources <- 1..MaxGens, events <- EventsSoFar, held <- Held, shown <- emitted
ImplementsFeed == Feeds!Spec

\* Whatever the agent wrote before it paused, the client is eventually shown every
\* matching record of the file, and again after each restart.
CaughtUp ==
  \A i \in 1..Len(recs[gen]) :
    Matching(recs[gen][i]) =>
      \A s \in 0..(Subevents(recs[gen][i]) - 1) :
        \E j \in DOMAIN emitted :
          emitted[j].gen = gen /\ emitted[j].rec = i /\ emitted[j].sub = s
EventuallyCaughtUp == []<>CaughtUp
=============================================================================
