----------------------------- MODULE ExportPages -----------------------------
(***************************************************************************)
(* A query over a fixed JSON export (ExportDoc and ExportReader of         *)
(* src/query/export_v2.rs, and the export branches of run_query,           *)
(* validate_cursor and render in src/query/runner.rs), and a client that   *)
(* follows its page cursors while the export is rewritten.                 *)
(*                                                                         *)
(* One invocation opens the path up to five times: its metadata, the       *)
(* probes, the document for the session id, the document again to validate *)
(* a cursor, and again for the reader.  Each may find another document.    *)
(* The hash of a document stands for the document, and reading it is one   *)
(* step.  Filters, context, the time budget of a search and a budget in    *)
(* which nothing fits are left to Viewer and Selector; --max-events is     *)
(* above every page.  No page cursor stands at the end of a document.      *)
(***************************************************************************)
EXTENDS Integers, Sequences, FiniteSets

CONSTANTS Structure(_),   \* the structural scanner and the probe's (JsonScan)
          Plausible(_, _),
          Corpus,        \* the documents: their bytes, and what a JSON parser says of them
          Rewritten,     \* those that may be written over another one
          Window,        \* PROBE_PREFIX_BYTES
          MaxLength,     \* MAX_EXPORT_BYTES
          PageLimits,    \* values of --limit
          NormalCap,     \* --max-record-bytes; a client that raises it reads everything
          MaxRewrites,   \* bound on the rewrites of the export
          Growing        \* whether a longer document may be written in place during a query

ASSUME PagesAssumption ==
  /\ Window \in Nat /\ MaxLength \in Nat /\ NormalCap \in Nat /\ MaxRewrites \in Nat
  /\ PageLimits \subseteq Nat \ {0}
  /\ Rewritten \subseteq DOMAIN Corpus
  /\ Growing \in BOOLEAN

VARIABLES file,      \* the export now at the path
          pc,        \* control point of the running invocation
          job,       \* what it was asked and what it saw
          scan,      \* its reader and its selection
          client,    \* the token the client holds and the record cap it asks for
          shown,     \* the events it was shown since it last began afresh
          answer     \* what the last response said

vars == <<file, pc, job, scan, client, shown, answer>>

----------------------------------------------------------------------------
(* Documents *)

\* Named by their place in the corpus.
Document == Corpus
Documents == DOMAIN Document
Length(doc) == Len(Document[doc].bytes)

\* The string the info object has for its id; without one the session is that of the path.
SessionOf(info) ==
  LET ids == {info[i] : i \in DOMAIN info} \cap {"s1", "s2"}
  IN IF ids = {} THEN "file" ELSE CHOOSE s \in ids : TRUE

\* opencode_v2_drafts: a message has an event for each of its parts, here each "say"; an element
\* that is no object has one, which is out of scope.
EventsIn(element) ==
  IF element[1] = "{" THEN Cardinality({i \in DOMAIN element : element[i] = "say"}) ELSE 1

\* assign_lines: the physical line an offset lies on.
LineOf(b, p) == 1 + Cardinality({i \in 1..p : b[i] = "nl"})

\* An element, as the reader has it: where it lies, and what is normalized from its bytes.
SpanOf(b, range) ==
  [start |-> range[1], end |-> range[2], line |-> LineOf(b, range[1]),
   scoped |-> b[range[1] + 1] = "{", events |-> EventsIn(SubSeq(b, range[1] + 1, range[2]))]

\* ExportDoc::open: a JSON parser checks the document before it is scanned.
Unreadable == [ok |-> FALSE, session |-> "file", spans |-> <<>>]
Read(b, raw) ==
  IF ~raw.ok THEN Unreadable
  ELSE [ok |-> TRUE, session |-> SessionOf(SubSeq(b, raw.info[1] + 1, raw.info[2])),
        spans |-> [i \in DOMAIN raw.messages.ranges |-> SpanOf(b, raw.messages.ranges[i])]]
OpenedFrom(document) ==
  IF document.json /\ Len(document.bytes) <= MaxLength
  THEN Read(document.bytes, Structure(document.bytes)) ELSE Unreadable
Opened == [doc \in Documents |-> OpenedFrom(Document[doc])]

\* probe: the length is that of the metadata, the bytes those of the prefix.
ProbeFrom(b) ==
  LET prefix == SubSeq(b, 1, IF Len(b) < Window THEN Len(b) ELSE Window)
  IN CASE ~Plausible(prefix, Len(b) > Window) -> "not_export"
       [] OTHER -> IF Len(b) > MaxLength THEN "too_large" ELSE "candidate"
Probed == [doc \in Documents |-> ProbeFrom(Document[doc].bytes)]

\* What the corpus says of the elements of a document, and that the scanner finds ranges.
ASSUME CorpusAssumption ==
  /\ 1 \in Documents
  /\ \A doc \in Documents :
       /\ Length(doc) \in Nat
       /\ LET elements == Document[doc].elements IN
          /\ elements \in Seq([element : BOOLEAN, parts : 0..2, start : Nat, end : Nat, line : Nat])
          /\ \A i \in DOMAIN elements : elements[i].start < elements[i].end /\ elements[i].end <= Length(doc)
          /\ \A i, j \in DOMAIN elements : i < j => elements[i].end <= elements[j].start
       /\ Document[doc].json /\ Structure(Document[doc].bytes).ok =>
            Structure(Document[doc].bytes).messages.ranges \in Seq(Int \X Int)

----------------------------------------------------------------------------
(* The client *)

NoToken == [kind |-> "none", doc |-> 1, gen |-> 0, snap |-> 0, off |-> 0, sub |-> 0, line |-> 0,
            session |-> "file"]
Cap == IF client.cap = "normal" THEN NormalCap ELSE MaxLength

NoScan == [doc |-> 1, spans |-> <<>>, boundary |-> 0, next |-> 1, selected |-> <<>>, uninspected |-> 0,
           full |-> FALSE, changed |-> FALSE]
NoJob == [token |-> NoToken, limit |-> 1, auto |-> FALSE, len0 |-> 0, mtime0 |-> 0, gen0 |-> 0,
          session |-> "file"]
NoAnswer == [status |-> "none", exhausted |-> FALSE]

Init ==
  /\ \E doc \in Documents : file = [doc |-> doc, gen |-> 0, mtime |-> 0]
  /\ pc = "idle"
  /\ job = NoJob
  /\ scan = NoScan
  /\ client = [token |-> NoToken, cap |-> "normal"]
  /\ shown = <<>>
  /\ answer = NoAnswer

\* A page keeps the boundary of the snapshot it belongs to.
EffectiveEnd == IF job.token.kind = "none" THEN job.len0 ELSE job.token.snap

\* Another process writes the export anew, in place or by a rename.
Rewrite ==
  /\ file.mtime < MaxRewrites
  /\ \E doc \in Rewritten \ {file.doc}, gen \in {file.gen, file.gen + 1} :
       /\ Growing \/ pc = "idle" \/ gen # file.gen \/ Length(doc) <= EffectiveEnd
       /\ file' = [doc |-> doc, gen |-> gen, mtime |-> file.mtime + 1]
  /\ UNCHANGED <<pc, job, scan, client, shown, answer>>

----------------------------------------------------------------------------
(* The invocation up to its reader *)

Start ==
  /\ pc = "idle"
  /\ \E limit \in PageLimits, auto \in BOOLEAN :
       job' = [token |-> client.token, limit |-> limit, auto |-> auto, len0 |-> Length(file.doc),
               mtime0 |-> file.mtime, gen0 |-> file.gen, session |-> "file"]
  /\ pc' = IF client.token.kind = "none" THEN "probe" ELSE "discover"
  /\ shown' = IF client.token.kind = "none" THEN <<>> ELSE shown
  /\ answer' = NoAnswer
  /\ UNCHANGED <<file, scan, client>>

\* The invocation fails; the client begins afresh when its cursor was refused.
Fail(status) ==
  /\ answer' = [NoAnswer EXCEPT !.status = status]
  /\ client' = IF status = "cursor_invalid" THEN [client EXCEPT !.token = NoToken] ELSE client
  /\ pc' = "idle"
  /\ job' = NoJob
  /\ scan' = NoScan
  /\ UNCHANGED <<file, shown>>

To(next) == pc' = next /\ UNCHANGED <<file, client, shown, answer>>

\* The probe finds the flavor; with --format auto, where the lines of an export are no evidence
\* of a format, a first one finds the format.
Probe ==
  /\ pc = "probe"
  /\ CASE Probed[file.doc] = "candidate" ->
            /\ job' = [job EXCEPT !.auto = FALSE]
            /\ scan' = scan
            /\ To(IF job.auto THEN "probe" ELSE "identify")
       [] Probed[file.doc] = "too_large" -> Fail("export_too_large")
       [] Probed[file.doc] = "not_export" ->
            Fail(IF job.auto THEN "format_uncertain" ELSE "read_as_lines")

\* The session id is read from the document.
Identify ==
  /\ pc = "identify"
  /\ IF Opened[file.doc].ok
     THEN /\ job' = [job EXCEPT !.session = Opened[file.doc].session]
          /\ scan' = scan
          /\ To("open")
     ELSE Fail("format_invalid")

\* With a cursor: the session id is discovered again and compared.
Discover ==
  /\ pc = "discover"
  /\ IF Opened[file.doc].ok /\ Length(file.doc) <= job.len0
     THEN IF Opened[file.doc].session = job.token.session
          THEN /\ job' = [job EXCEPT !.session = job.token.session]
               /\ scan' = scan
               /\ To("validate")
          ELSE Fail("cursor_invalid")
     ELSE Fail("source_unreadable")

\* Mutant of SameDocument: a document of the same length will do.
SameLength(t) == Length(file.doc) = t.snap

SameDocument(t) == Length(file.doc) = t.snap /\ file.doc = t.doc

\* validate_cursor, for an export: the offset must be the start of an element that can be read.
Accepts(t) ==
  /\ t.gen = job.gen0
  /\ t.snap <= job.len0 /\ t.off <= job.len0
  /\ Opened[file.doc].ok
  /\ SameDocument(t)
  /\ \E i \in DOMAIN Opened[file.doc].spans :
       LET span == Opened[file.doc].spans[i] IN
       /\ span.start = t.off
       /\ span.line = t.line
       /\ span.end - span.start <= Cap
       /\ t.sub < span.events

Validate ==
  /\ pc = "validate"
  /\ IF Accepts(job.token)
     THEN job' = job /\ scan' = scan /\ To("open")
     ELSE Fail("cursor_invalid")

\* ExportReader::open, bounded by the snapshot; the spans before the offset are passed over.
OpenReader ==
  /\ pc = "open"
  /\ IF Opened[file.doc].ok
     THEN /\ scan' = [NoScan EXCEPT
                        !.doc = file.doc, !.spans = Opened[file.doc].spans,
                        !.boundary = IF EffectiveEnd < Length(file.doc) THEN EffectiveEnd
                                     ELSE Length(file.doc),
                        !.next = 1 + Cardinality({i \in DOMAIN Opened[file.doc].spans :
                                            Opened[file.doc].spans[i].start < job.token.off})]
          /\ job' = job
          /\ To("scan")
     ELSE Fail("format_invalid")

----------------------------------------------------------------------------
(* The scan and the response *)

SelectWindow == job.limit + 1
Current == scan.spans[scan.next]
InSnapshot == scan.next \in DOMAIN scan.spans /\ Current.end <= scan.boundary

\* Mutant of Resumed: the page resume does not skip the events already shown.
ResumedWhole == 0..(Current.events - 1)

\* The events of the current element a page resume does not skip.
Resumed ==
  {s \in 0..(Current.events - 1) :
     job.token.kind # "none" /\ Current.start = job.token.off => s >= job.token.sub}

\* Those that are selected, in order.
Events ==
  LET first == Current.events - Cardinality(Resumed)
  IN IF Current.scoped
     THEN [n \in 1..Cardinality(Resumed) |->
             [doc |-> scan.doc, off |-> Current.start, sub |-> first + n - 1,
              line |-> Current.line, session |-> job.session]]
     ELSE <<>>

InWindow(all) == IF Len(all) > SelectWindow THEN SubSeq(all, 1, SelectWindow) ELSE all

ScanElement ==
  /\ pc = "scan" /\ ~scan.full /\ InSnapshot
  /\ scan' = IF Current.end - Current.start > Cap
             THEN [scan EXCEPT !.uninspected = scan.next, !.full = TRUE]
             ELSE [scan EXCEPT !.next = @ + 1, !.selected = InWindow(@ \o Events),
                               !.full = Len(scan.selected \o Events) > SelectWindow]
  /\ job' = job
  /\ To("scan")

ScanEnd ==
  /\ pc = "scan" /\ (scan.full \/ ~InSnapshot)
  /\ scan' = scan /\ job' = job
  /\ To("check")

\* observable_source_change, after the scan and again after the pairing passes.
SourceChange ==
  \/ Length(file.doc) < EffectiveEnd
  \/ Length(file.doc) = EffectiveEnd /\ file.mtime # job.mtime0
  \/ file.gen # job.gen0

CheckSource ==
  /\ pc \in {"check", "recheck"}
  /\ scan' = [scan EXCEPT !.changed = @ \/ SourceChange]
  /\ job' = job
  /\ To(IF pc = "check" THEN "recheck" ELSE "render")

PageCursor(kind, off, sub, line) ==
  [kind |-> kind, doc |-> scan.doc, gen |-> job.gen0, snap |-> job.len0, off |-> off, sub |-> sub,
   line |-> line, session |-> job.session]

\* The client follows the page, then retries the element over the cap; an export has no append
\* cursor, and a changed source makes it begin afresh.
NextToken(n) ==
  CASE scan.changed -> NoToken
    [] ~scan.changed /\ n < Len(scan.selected) ->
         LET next == scan.selected[n + 1] IN PageCursor("page", next.off, next.sub, next.line)
    [] OTHER -> IF scan.uninspected = 0 THEN NoToken
                ELSE PageCursor("retry", scan.spans[scan.uninspected].start, 0,
                                scan.spans[scan.uninspected].line)

\* How many events the page and the byte budget let through: at least one.
Pages ==
  LET most == IF Len(scan.selected) < job.limit THEN Len(scan.selected) ELSE job.limit
  IN {n \in 0..most : n = 0 => most = 0}

Render ==
  /\ pc = "render"
  /\ \E n \in Pages :
       /\ shown' = IF scan.changed THEN <<>> ELSE shown \o SubSeq(scan.selected, 1, n)
       /\ client' = [token |-> NextToken(n),
                     cap |-> IF NextToken(n).kind = "retry" THEN "raised" ELSE client.cap]
       /\ answer' = [status |-> IF scan.changed \/ scan.uninspected # 0 THEN "partial" ELSE "ok",
                     exhausted |-> n = Len(scan.selected) /\ scan.uninspected = 0]
  /\ pc' = "idle"
  /\ job' = NoJob
  /\ scan' = NoScan
  /\ UNCHANGED file

Query == Start \/ Probe \/ Identify \/ Discover \/ Validate \/ OpenReader
         \/ ScanElement \/ ScanEnd \/ CheckSource \/ Render

Next == Query \/ Rewrite

Spec == Init /\ [][Next]_vars

----------------------------------------------------------------------------
(* Properties.  `export` and `elements` of a document say what it is, as   *)
(* it was put together; `parts` of an element are its matching events.     *)

\* Types of the state.
TypeOK ==
  /\ file.doc \in Documents /\ file.gen \in 0..MaxRewrites /\ file.mtime \in 0..MaxRewrites
  /\ pc \in {"idle", "probe", "identify", "discover", "validate", "open", "scan", "check",
            "recheck", "render"}
  /\ job.limit \in Nat /\ job.len0 \in Nat /\ job.token.doc \in Documents
  /\ scan.doc \in Documents /\ scan.boundary \in 0..MaxLength
  /\ Len(scan.selected) <= SelectWindow
  /\ client.token.kind \in {"none", "page", "retry"} /\ client.cap \in {"normal", "raised"}
  /\ answer.exhausted \in BOOLEAN

\* Spans are the elements of a document: their byte ranges, lines and matching events.
Exact(doc, spans) ==
  LET elements == Document[doc].elements IN
  /\ DOMAIN spans = DOMAIN elements
  /\ \A i \in DOMAIN elements :
       /\ spans[i].start = elements[i].start /\ spans[i].end = elements[i].end
       /\ spans[i].line = elements[i].line
       /\ elements[i].parts = IF spans[i].scoped THEN spans[i].events ELSE 0

\* Exactly the exports are opened, and the spans a query reads are the byte ranges and lines of
\* the elements of the top-level messages array, with their events, whatever strings, escapes,
\* nested keys of the same name and blanks stand around them (export_v2.rs:344-424, 522-536).
SpansExact ==
  /\ pc \in {"identify", "open"} =>
       (Opened[file.doc].ok <=> Document[file.doc].export /\ Length(file.doc) <= MaxLength)
  /\ pc = "scan" => Exact(scan.doc, scan.spans)

\* The probe turns away no export that fits its window, and none whose messages the end of the
\* window cuts (export_v2.rs:208-226, 432-520).
ProbeAdmits ==
  LET spans == Document[file.doc].elements
      cut == spans # <<>> /\ spans[1].start < Window /\ Window <= spans[Len(spans)].end
  IN pc = "probe" /\ Document[file.doc].export /\ (Length(file.doc) <= Window \/ cut) =>
       Probed[file.doc] # "not_export"

Before(e, f) == e.off < f.off \/ (e.off = f.off /\ e.sub < f.sub)

\* The events of a document before an offset and a subevent.
EventsBefore(doc, off, sub) ==
  {[doc |-> doc, off |-> x[1].start, sub |-> x[2], line |-> x[1].line, session |-> Opened[doc].session] :
     x \in {y \in {Document[doc].elements[i] : i \in DOMAIN Document[doc].elements} \X (0..1) :
             /\ y[2] < y[1].parts
             /\ y[1].start < off \/ (y[1].start = off /\ y[2] < sub)}}

\* Pages followed by their cursors show one document, never a mixture of two: its events once
\* each, in order, with its session id, up to where the cursor resumes; and all of them when the
\* response says ok and exhausted (runner.rs:861-1061, 1456-1500, 1923-1969).
PagesOfOneDocument ==
  LET t == client.token
      events == {shown[i] : i \in DOMAIN shown}
  IN /\ t.kind # "none" => events = EventsBefore(t.doc, t.off, t.sub)
     /\ answer.status = "ok" /\ answer.exhausted =>
          \E doc \in Documents :
            (shown = <<>> \/ shown[1].doc = doc) /\ events = EventsBefore(doc, Length(doc), 0)
     /\ \A i, j \in DOMAIN shown : i < j => Before(shown[i], shown[j])

\* The client of an export is fed as that of a log is, only that no document gains events: it is
\* shown a beginning of one document's events, each response goes on where the last one ended,
\* and a document that took the place of the first is begun afresh (runner.rs:531-1544).
EventsOf == [doc \in Documents |-> EventsBefore(doc, Length(doc), 0)]
Held == IF client.token.kind = "none" THEN {} ELSE {client.token.doc}
Feeds == INSTANCE Feed WITH Sources <- Documents, events <- EventsOf, held <- Held
ImplementsFeed == Feeds!Spec
=============================================================================
