-------------------------- MODULE ExportPages_proofs --------------------------
(***************************************************************************)
(* Proofs about ExportPages, for every corpus, every sequence of           *)
(* invocations and rewrites, and every value of the bounds.                *)
(*                                                                         *)
(* An invocation opens the path up to five times and may find another      *)
(* document each time.  What saves it is that each rewrite during the      *)
(* invocation stays visible to the check after the scan (RunInv), so that  *)
(* a scan not found changed has read what the invocation saw first         *)
(* (Trusted, Reads).  Such a scan holds all events from its token to the   *)
(* next element, or the first of them (Holds), and the part that a page    *)
(* shows joins what was shown before without gap or overlap (ShownJoins).  *)
(*                                                                         *)
(* Growth in place is the exception: an export that became longer passes   *)
(* the check, so the theorem about pages excludes it (~Growing).  The scan *)
(* of a document's bytes is taken as exact (ScannerExact); it is recursive *)
(* and stays with TLC.                                                     *)
(***************************************************************************)
EXTENDS ExportPages, SequenceTheorems, FiniteSetTheorems, TLAPS

----------------------------------------------------------------------------
(* Types *)

Sessions == {"s1", "s2", "file"}
SpanType == [start : Int, end : Int, line : Nat, scoped : BOOLEAN, events : Nat]
EventType == [doc : Documents, off : Int, sub : Nat, line : Nat, session : Sessions]
TokenType ==
  [kind : {"none", "page", "retry"}, doc : Documents, gen : Nat, snap : Nat, off : Int, sub : Nat,
   line : Nat, session : Sessions]
FileType == [doc : Documents, gen : 0..MaxRewrites, mtime : 0..MaxRewrites]
JobType ==
  [token : TokenType, limit : Nat \ {0}, auto : BOOLEAN, len0 : Nat, mtime0 : Nat, gen0 : Nat,
   session : Sessions]
ScanType ==
  [doc : Documents, spans : Seq(SpanType), boundary : 0..MaxLength, next : Nat \ {0},
   selected : Seq(EventType), uninspected : Nat, full : BOOLEAN, changed : BOOLEAN]
ClientType == [token : TokenType, cap : {"normal", "raised"}]
AnswerType ==
  [status : {"none", "ok", "partial", "cursor_invalid", "export_too_large", "format_uncertain",
             "read_as_lines", "format_invalid", "source_unreadable"},
   exhausted : BOOLEAN]
Points == {"idle", "probe", "identify", "discover", "validate", "open", "scan", "check", "recheck",
           "render"}

\* Before its reader is open an invocation has scanned nothing.
Preparing == {"idle", "probe", "identify", "discover", "validate", "open"}

TypeInv ==
  /\ file \in FileType /\ file.gen <= file.mtime
  /\ pc \in Points
  /\ job \in JobType
  /\ scan \in ScanType /\ Len(scan.selected) <= job.limit + 1
  /\ pc \in Preparing => scan = NoScan
  /\ scan.uninspected # 0 => scan.uninspected \in DOMAIN scan.spans
  /\ client \in ClientType
  /\ shown \in Seq(EventType)
  /\ answer \in AnswerType

----------------------------------------------------------------------------
(* Documents and their spans *)

\* The session of an export is one of those its info can name, or that of the path.
LEMMA SessionOfType ==
  ASSUME NEW info
  PROVE  SessionOf(info) \in Sessions
<1> DEFINE ids == {info[i] : i \in DOMAIN info} \cap {"s1", "s2"}
<1>1. CASE ids = {} BY <1>1 DEF SessionOf, Sessions
<1>2. CASE ids # {}
  <2>1. (CHOOSE s \in ids : TRUE) \in ids BY <1>2
  <2> QED BY <1>2, <2>1 DEF SessionOf, Sessions
<1> QED BY <1>1, <1>2

\* Lines are counted from one, and an element has a natural number of events.
LEMMA SpanOfType ==
  ASSUME NEW b, NEW range \in Int \X Int
  PROVE  SpanOf(b, range) \in SpanType
<1> DEFINE element == SubSeq(b, range[1] + 1, range[2])
           S == {b[i] : i \in (range[1] + 1)..range[2]}
<1>1. range[1] \in Int /\ range[2] \in Int OBVIOUS
<1>2. LineOf(b, range[1]) \in Nat
  <2>1. IsFiniteSet(1..range[1]) BY <1>1, FS_Interval
  <2>2. {i \in 1..range[1] : b[i] = "nl"} \in SUBSET (1..range[1]) OBVIOUS
  <2> HIDE DEF element
  <2>3. Cardinality({i \in 1..range[1] : b[i] = "nl"}) \in Nat
    BY <2>1, <2>2, FS_Subset, FS_CardinalityType
  <2> QED BY <2>3 DEF LineOf
<1>3. EventsIn(element) \in Nat
  <2>1. element \in Seq(S) BY <1>1, SubSeqProperties
  <2> HIDE DEF element, S
  <2>2. DOMAIN element = 1..Len(element) /\ Len(element) \in Nat BY <2>1, LenProperties
  <2>3. IsFiniteSet(DOMAIN element) BY <2>2, FS_Interval
  <2>4. {i \in DOMAIN element : element[i] = "say"} \in SUBSET DOMAIN element OBVIOUS
  <2>5. Cardinality({i \in DOMAIN element : element[i] = "say"}) \in Nat
    BY <2>3, <2>4, FS_Subset, FS_CardinalityType
  <2> QED BY <2>5 DEF EventsIn
<1> HIDE DEF element
<1>4. SpanOf(b, range) = [start |-> range[1], end |-> range[2], line |-> LineOf(b, range[1]),
                          scoped |-> b[range[1] + 1] = "{", events |-> EventsIn(element)]
  BY DEF SpanOf, element
<1>5. \A scoped \in BOOLEAN :
         [start |-> range[1], end |-> range[2], line |-> LineOf(b, range[1]), scoped |-> scoped,
          events |-> EventsIn(element)] \in SpanType
  BY <1>1, <1>2, <1>3 DEF SpanType
<1>6. (b[range[1] + 1] = "{") \in BOOLEAN OBVIOUS
<1> QED BY <1>4, <1>5, <1>6, Zenon

\* A document that is opened fits the cap, and has a session and spans.
LEMMA OpenedType ==
  ASSUME NEW doc \in Documents
  PROVE  /\ Opened[doc].ok \in BOOLEAN
         /\ Opened[doc].session \in Sessions
         /\ Opened[doc].spans \in Seq(SpanType)
         /\ Opened[doc].ok => Length(doc) <= MaxLength
<1> DEFINE b == Document[doc].bytes
           raw == Structure(b)
           spans == [i \in DOMAIN raw.messages.ranges |-> SpanOf(b, raw.messages.ranges[i])]
<1>1. Opened[doc] = OpenedFrom(Document[doc]) BY DEF Opened
<1>2. CASE ~(Document[doc].json /\ Length(doc) <= MaxLength /\ raw.ok)
  <2>1. Opened[doc] = Unreadable BY <1>1, <1>2 DEF OpenedFrom, Read, Length
  <2> QED BY <2>1 DEF Unreadable, Sessions
<1>3. CASE Document[doc].json /\ Length(doc) <= MaxLength /\ raw.ok
  <2>1. raw.messages.ranges \in Seq(Int \X Int) BY <1>3, CorpusAssumption
  <2>2. /\ raw.messages.ranges \in [1..Len(raw.messages.ranges) -> Int \X Int]
        /\ DOMAIN raw.messages.ranges = 1..Len(raw.messages.ranges) /\ Len(raw.messages.ranges) \in Nat
    BY <2>1, LenProperties
  <2>3. \A i \in DOMAIN raw.messages.ranges : SpanOf(b, raw.messages.ranges[i]) \in SpanType
    <3> TAKE i \in DOMAIN raw.messages.ranges
    <3>1. raw.messages.ranges[i] \in Int \X Int BY <2>2
    <3> QED BY <3>1, SpanOfType
  <2>4. spans \in Seq(SpanType)
    <3> DEFINE n == Len(raw.messages.ranges)
    <3>1. spans = [i \in 1..n |-> SpanOf(b, raw.messages.ranges[i])] BY <2>2
    <3>2. \A i \in 1..n : SpanOf(b, raw.messages.ranges[i]) \in SpanType BY <2>2, <2>3
    <3>3. n \in Nat BY <2>2
    <3> HIDE DEF n
    <3> QED BY <3>1, <3>2, <3>3
  <2>5. Opened[doc] = [ok |-> TRUE,
                       session |-> SessionOf(SubSeq(b, raw.info[1] + 1, raw.info[2])), spans |-> spans]
    BY <1>1, <1>3 DEF OpenedFrom, Read, Length
  <2> HIDE DEF spans
  <2> QED BY <1>3, <2>4, <2>5, SessionOfType
<1> QED BY <1>2, <1>3

\* The probe says one of three things.
LEMMA ProbedType ==
  ASSUME NEW doc \in Documents
  PROVE  Probed[doc] \in {"not_export", "too_large", "candidate"}
BY DEF Probed, ProbeFrom

----------------------------------------------------------------------------
(* What one element and one page contribute *)

\* The events of an element that a resumption does not skip are its last ones.
LEMMA ResumedAreLast ==
  ASSUME TypeInv, scan.next \in DOMAIN scan.spans
  PROVE  LET first == Current.events - Cardinality(Resumed) IN
         /\ first \in 0..Current.events
         /\ Cardinality(Resumed) = Current.events - first
         /\ \A s \in 0..(Current.events - 1) :
              s >= first <=> (job.token.kind # "none" /\ Current.start = job.token.off => s >= job.token.sub)
<1> DEFINE n == Current.events
           skip == job.token.kind # "none" /\ Current.start = job.token.off
           sub == job.token.sub
<1>1. Current \in SpanType
  <2>1. scan.spans \in Seq(SpanType) BY DEF TypeInv, ScanType
  <2>2. DOMAIN scan.spans = 1..Len(scan.spans) BY <2>1, LenProperties
  <2> QED BY <2>1, <2>2, ElementOfSeq DEF Current
<1>2. n \in Nat /\ sub \in Nat BY <1>1 DEF SpanType, TypeInv, JobType, TokenType
<1>3. Resumed = {s \in 0..(n - 1) : skip => s >= sub} BY DEF Resumed
<1> HIDE DEF n, sub, skip
<1>4. \E k \in 0..n : /\ Resumed = k..(n - 1)
                      /\ \A s \in 0..(n - 1) : s >= k <=> (skip => s >= sub)
  <2>1. CASE ~skip
    <3>1. Resumed = 0..(n - 1) BY <1>3, <2>1
    <3> QED BY <1>2, <2>1, <3>1
  <2>2. CASE skip /\ sub < n
    <3>1. Resumed = sub..(n - 1) BY <1>2, <1>3, <2>2
    <3> QED BY <1>2, <2>2, <3>1
  <2>3. CASE skip /\ sub >= n
    <3>1. Resumed = n..(n - 1) BY <1>2, <1>3, <2>3
    <3> QED BY <1>2, <2>3, <3>1
  <2> QED BY <1>2, <2>1, <2>2, <2>3
<1>5. PICK k \in 0..n : /\ Resumed = k..(n - 1)
                        /\ \A s \in 0..(n - 1) : s >= k <=> (skip => s >= sub)
  BY <1>4
<1>6. Cardinality(Resumed) = n - k
  <2>1. Cardinality(k..(n - 1)) = IF k > n - 1 THEN 0 ELSE (n - 1) - k + 1 BY <1>2, FS_Interval
  <2> QED BY <1>2, <1>5, <2>1
<1> QED BY <1>2, <1>5, <1>6 DEF n, sub, skip

\* The selected events of an element, by their place.
LEMMA EventsOfElement ==
  ASSUME TypeInv, scan.next \in DOMAIN scan.spans
  PROVE  LET first == Current.events - Cardinality(Resumed) IN
         /\ Events \in Seq(EventType)
         /\ Len(Events) = IF Current.scoped THEN Current.events - first ELSE 0
         /\ \A n \in DOMAIN Events :
              Events[n] = [doc |-> scan.doc, off |-> Current.start, sub |-> first + n - 1,
                           line |-> Current.line, session |-> job.session]
<1> DEFINE c == Cardinality(Resumed)
           first == Current.events - c
           E(n) == [doc |-> scan.doc, off |-> Current.start, sub |-> first + n - 1,
                    line |-> Current.line, session |-> job.session]
<1>1. Current \in SpanType
  <2>1. scan.spans \in Seq(SpanType) BY DEF TypeInv, ScanType
  <2>2. DOMAIN scan.spans = 1..Len(scan.spans) BY <2>1, LenProperties
  <2> QED BY <2>1, <2>2, ElementOfSeq DEF Current
<1>2. first \in 0..Current.events /\ c = Current.events - first /\ Current.events \in Nat
  BY <1>1, ResumedAreLast DEF SpanType
<1>3. c \in Nat BY <1>2
<1>4. CASE ~Current.scoped
  <2>1. Events = <<>> BY <1>4 DEF Events
  <2> QED BY <1>4, <2>1
<1>5. CASE Current.scoped
  <2>1. Events = [n \in 1..c |-> E(n)] BY <1>5 DEF Events
  <2>2. \A n \in 1..c : E(n) \in EventType
    <3> TAKE n \in 1..c
    <3>1. first + n - 1 \in Nat BY <1>2
    <3>2. /\ scan.doc \in Documents /\ job.session \in Sessions
          /\ Current.start \in Int /\ Current.line \in Nat
      BY <1>1 DEF TypeInv, ScanType, JobType, SpanType
    <3> QED BY <3>1, <3>2 DEF EventType
  <2> HIDE DEF first, c, E
  <2>3. Events \in Seq(EventType) /\ Len(Events) = c /\ DOMAIN Events = 1..c BY <1>3, <2>1, <2>2
  <2>4. \A n \in DOMAIN Events : Events[n] = E(n) BY <2>1, <2>3
  <2> QED BY <1>2, <1>5, <2>3, <2>4 DEF first, c, E
<1> QED BY <1>4, <1>5

\* What the window keeps of a selection is its beginning.
LEMMA InWindowKeeps ==
  ASSUME NEW all \in Seq(EventType), job.limit \in Nat
  PROVE  /\ InWindow(all) \in Seq(EventType)
         /\ Len(InWindow(all)) <= SelectWindow
         /\ Len(all) <= SelectWindow => InWindow(all) = all
         /\ Len(all) > SelectWindow =>
              Len(InWindow(all)) = SelectWindow /\ \A k \in 1..SelectWindow : InWindow(all)[k] = all[k]
<1>1. Len(all) \in Nat /\ SelectWindow \in Nat BY LenProperties DEF SelectWindow
<1>2. CASE Len(all) <= SelectWindow BY <1>1, <1>2 DEF InWindow
<1>3. CASE Len(all) > SelectWindow
  <2>1. \A i \in 1..SelectWindow : all[i] \in EventType BY <1>1, <1>3, ElementOfSeq
  <2>2. /\ SubSeq(all, 1, SelectWindow) \in Seq(EventType)
        /\ Len(SubSeq(all, 1, SelectWindow)) = IF 1 <= SelectWindow THEN SelectWindow - 1 + 1 ELSE 0
        /\ \A i \in 1..(SelectWindow - 1 + 1) : SubSeq(all, 1, SelectWindow)[i] = all[1 + i - 1]
    BY <1>1, <2>1, SubSeqProperties
  <2>3. InWindow(all) = SubSeq(all, 1, SelectWindow) BY <1>3 DEF InWindow
  <2>4. \A k \in 1..SelectWindow : k \in 1..(SelectWindow - 1 + 1) /\ 1 + k - 1 = k BY <1>1
  <2>5. \A k \in 1..SelectWindow : InWindow(all)[k] = all[k] BY <2>2, <2>3, <2>4
  <2> QED BY <1>1, <1>3, <2>2, <2>3, <2>5
<1> QED BY <1>1, <1>2, <1>3

----------------------------------------------------------------------------
(* Each step keeps the types *)

\* The constants the initial state and the fresh records name.
LEMMA BlankTypes ==
  /\ NoToken \in TokenType
  /\ NoJob \in JobType
  /\ NoScan \in ScanType /\ NoScan.selected = <<>> /\ NoScan.uninspected = 0
  /\ NoAnswer \in AnswerType
<1>1. 1 \in Documents BY CorpusAssumption
<1>2. NoToken \in TokenType BY <1>1 DEF NoToken, TokenType, Sessions
<1>3. NoJob \in JobType BY <1>2 DEF NoJob, JobType, Sessions
<1>4. NoScan \in ScanType /\ NoScan.selected = <<>> /\ NoScan.uninspected = 0
  BY <1>1, PagesAssumption DEF NoScan, ScanType
<1>5. NoAnswer \in AnswerType BY DEF NoAnswer, AnswerType
<1> QED BY <1>2, <1>3, <1>4, <1>5

\* The client begins with no token and nothing shown.
LEMMA InitTypes == Init => TypeInv
<1> SUFFICES ASSUME Init PROVE TypeInv OBVIOUS
<1>1. file \in FileType /\ file.gen <= file.mtime BY PagesAssumption DEF Init, FileType
<1>2. pc \in Points /\ scan = NoScan /\ job = NoJob BY DEF Init, Points
<1>3. client \in ClientType BY BlankTypes DEF Init, ClientType
<1>4. shown \in Seq(EventType) BY DEF Init
<1>5. Len(NoScan.selected) <= NoJob.limit + 1 BY DEF NoScan, NoJob
<1> QED BY <1>1, <1>2, <1>3, <1>4, <1>5, BlankTypes DEF Init, TypeInv

\* A failure ends the invocation and leaves the client its token or none.
LEMMA FailTypes ==
  ASSUME TypeInv,
         NEW status \in {"cursor_invalid", "export_too_large", "format_uncertain", "read_as_lines",
                         "format_invalid", "source_unreadable"},
         Fail(status)
  PROVE  TypeInv'
<1>1. answer' \in AnswerType
  BY BlankTypes DEF Fail, NoAnswer, AnswerType
<1>2. client' \in ClientType
  <2>1. client \in ClientType BY DEF TypeInv
  <2> QED BY <2>1, BlankTypes DEF Fail, ClientType
<1>3. pc' \in Points /\ job' \in JobType /\ scan' = NoScan /\ job' = NoJob BY BlankTypes DEF Fail, Points
<1>4. Len(NoScan.selected) <= NoJob.limit + 1 BY DEF NoScan, NoJob
<1> QED BY <1>1, <1>2, <1>3, <1>4, BlankTypes DEF Fail, TypeInv

\* A step of a prepared invocation that goes on has still scanned nothing.
LEMMA GoesOn ==
  ASSUME TypeInv, pc \in Preparing, NEW next \in Preparing, To(next), scan' = scan,
         job' \in JobType, job'.limit = job.limit
  PROVE  TypeInv'
<1>1. next \in Points BY DEF Preparing, Points
<1> QED BY <1>1 DEF TypeInv, To

\* A rewrite puts another document of the corpus at the path.
LEMMA RewriteTypes == TypeInv /\ Rewrite => TypeInv'
<1> SUFFICES ASSUME TypeInv, Rewrite PROVE TypeInv' OBVIOUS
<1>1. PICK doc \in Rewritten \ {file.doc}, gen \in {file.gen, file.gen + 1} :
        file' = [doc |-> doc, gen |-> gen, mtime |-> file.mtime + 1]
  BY DEF Rewrite
<1>2. doc \in Documents BY PagesAssumption DEF Documents, Document
<1>3. file.mtime < MaxRewrites /\ file.gen <= file.mtime /\ file \in FileType BY DEF TypeInv, Rewrite
<1>4. file.gen \in Nat /\ file.mtime \in Nat /\ MaxRewrites \in Nat BY <1>3, PagesAssumption DEF FileType
<1>5. gen \in 0..MaxRewrites /\ gen <= file.mtime + 1 /\ file.mtime + 1 \in 0..MaxRewrites BY <1>3, <1>4
<1>6. file' \in FileType /\ file'.gen <= file'.mtime BY <1>1, <1>2, <1>5 DEF FileType
<1> QED BY <1>6 DEF TypeInv, Rewrite

\* An invocation notes the state of the export it finds.
LEMMA StartTypes == TypeInv /\ Start => TypeInv'
<1> SUFFICES ASSUME TypeInv, Start PROVE TypeInv' OBVIOUS
<1>1. PICK limit \in PageLimits, auto \in BOOLEAN :
        job' = [token |-> client.token, limit |-> limit, auto |-> auto, len0 |-> Length(file.doc),
                mtime0 |-> file.mtime, gen0 |-> file.gen, session |-> "file"]
  BY DEF Start
<1>2. /\ client.token \in TokenType /\ limit \in Nat \ {0} /\ Length(file.doc) \in Nat
      /\ file.mtime \in Nat /\ file.gen \in Nat
  BY PagesAssumption, CorpusAssumption DEF TypeInv, ClientType, FileType
<1>3. job' \in JobType /\ job'.limit = limit BY <1>1, <1>2 DEF JobType, Sessions
<1>4. pc = "idle" /\ scan = NoScan /\ scan' = NoScan BY DEF Start, TypeInv, Preparing
<1>5. pc' \in Points BY DEF Start, Points
<1>6. shown' \in Seq(EventType) BY DEF Start, TypeInv
<1>7. answer' \in AnswerType BY BlankTypes DEF Start
<1>8. Len(NoScan.selected) <= job'.limit + 1 BY <1>2, <1>3, BlankTypes
<1> QED BY <1>3, <1>4, <1>5, <1>6, <1>7, <1>8, BlankTypes DEF Start, TypeInv

\* The probe leaves the selection untouched.
LEMMA ProbeTypes == TypeInv /\ Probe => TypeInv'
<1> SUFFICES ASSUME TypeInv, Probe PROVE TypeInv' OBVIOUS
<1>1. file.doc \in Documents BY DEF TypeInv, FileType
<1>2. CASE Probed[file.doc] = "candidate"
  <2>1. job' = [job EXCEPT !.auto = FALSE] /\ scan' = scan /\ To(IF job.auto THEN "probe" ELSE "identify")
    BY <1>2 DEF Probe
  <2>2. job' \in JobType /\ job'.limit = job.limit BY <2>1 DEF TypeInv, JobType
  <2>3. pc \in Preparing BY DEF Probe, Preparing
  <2>4. (IF job.auto THEN "probe" ELSE "identify") \in Preparing BY DEF Preparing
  <2> QED BY <2>1, <2>2, <2>3, <2>4, GoesOn
<1>3. CASE Probed[file.doc] = "too_large"
  <2>1. Fail("export_too_large") BY <1>3 DEF Probe
  <2> QED BY <2>1, FailTypes
<1>4. CASE Probed[file.doc] = "not_export"
  <2>1. Fail(IF job.auto THEN "format_uncertain" ELSE "read_as_lines") BY <1>4 DEF Probe
  <2>2. (IF job.auto THEN "format_uncertain" ELSE "read_as_lines") \in {"format_uncertain", "read_as_lines"}
    OBVIOUS
  <2> QED BY <2>1, <2>2, FailTypes
<1> QED BY <1>1, <1>2, <1>3, <1>4, ProbedType

\* The session id comes from the document.
LEMMA IdentifyTypes == TypeInv /\ Identify => TypeInv'
<1> SUFFICES ASSUME TypeInv, Identify PROVE TypeInv' OBVIOUS
<1>1. file.doc \in Documents /\ job \in JobType BY DEF TypeInv, FileType
<1>2. CASE Opened[file.doc].ok
  <2>1. job' = [job EXCEPT !.session = Opened[file.doc].session] /\ scan' = scan /\ To("open")
    BY <1>2 DEF Identify
  <2>2. job' \in JobType /\ job'.limit = job.limit BY <1>1, <2>1, OpenedType DEF JobType
  <2>3. pc \in Preparing /\ "open" \in Preparing BY DEF Identify, Preparing
  <2> QED BY <2>1, <2>2, <2>3, GoesOn
<1>3. CASE ~Opened[file.doc].ok
  <2>1. Fail("format_invalid") BY <1>3 DEF Identify
  <2> QED BY <2>1, FailTypes
<1> QED BY <1>2, <1>3

\* With a cursor the session id is the one of the cursor.
LEMMA DiscoverTypes == TypeInv /\ Discover => TypeInv'
<1> SUFFICES ASSUME TypeInv, Discover PROVE TypeInv' OBVIOUS
<1>1. \/ job' = [job EXCEPT !.session = job.token.session] /\ scan' = scan /\ To("validate")
      \/ Fail("cursor_invalid")
      \/ Fail("source_unreadable")
  BY DEF Discover
<1>2. CASE job' = [job EXCEPT !.session = job.token.session] /\ scan' = scan /\ To("validate")
  <2>1. job' \in JobType /\ job'.limit = job.limit BY <1>2 DEF TypeInv, JobType, TokenType
  <2>2. pc \in Preparing /\ "validate" \in Preparing BY DEF Discover, Preparing
  <2> QED BY <1>2, <2>1, <2>2, GoesOn
<1>3. CASE Fail("cursor_invalid") BY <1>3, FailTypes
<1>4. CASE Fail("source_unreadable") BY <1>4, FailTypes
<1> QED BY <1>1, <1>2, <1>3, <1>4

\* A refused cursor is dropped, and nothing else changes.
LEMMA ValidateTypes == TypeInv /\ Validate => TypeInv'
<1> SUFFICES ASSUME TypeInv, Validate PROVE TypeInv' OBVIOUS
<1>1. (job' = job /\ scan' = scan /\ To("open")) \/ Fail("cursor_invalid") BY DEF Validate
<1>2. CASE job' = job /\ scan' = scan /\ To("open")
  <2>1. pc \in Preparing /\ "open" \in Preparing /\ job \in JobType BY DEF Validate, Preparing, TypeInv
  <2> QED BY <1>2, <2>1, GoesOn
<1>3. CASE Fail("cursor_invalid") BY <1>3, FailTypes
<1> QED BY <1>1, <1>2, <1>3

\* The reader begins behind a number of spans, within the cap of a document.
LEMMA OpenReaderTypes == TypeInv /\ OpenReader => TypeInv'
<1> SUFFICES ASSUME TypeInv, OpenReader PROVE TypeInv' OBVIOUS
<1> DEFINE spans == Opened[file.doc].spans
           behind == {i \in DOMAIN spans : spans[i].start < job.token.off}
           boundary == IF EffectiveEnd < Length(file.doc) THEN EffectiveEnd ELSE Length(file.doc)
<1>1. file.doc \in Documents /\ job \in JobType BY DEF TypeInv, FileType
<1>2. CASE ~Opened[file.doc].ok
  <2>1. Fail("format_invalid") BY <1>2 DEF OpenReader
  <2> QED BY <2>1, FailTypes
<1>3. CASE Opened[file.doc].ok
  <2>1. spans \in Seq(SpanType) /\ Length(file.doc) <= MaxLength BY <1>1, <1>3, OpenedType
  <2>2. boundary \in 0..MaxLength
    <3>1. job.len0 \in Nat /\ job.token.snap \in Nat BY <1>1 DEF JobType, TokenType
    <3>2. EffectiveEnd \in Nat BY <3>1 DEF EffectiveEnd
    <3>3. Length(file.doc) \in Nat BY <1>1, CorpusAssumption
    <3> QED BY <2>1, <3>2, <3>3, PagesAssumption
  <2>3. 1 + Cardinality(behind) \in Nat \ {0}
    <3>1. DOMAIN spans = 1..Len(spans) /\ Len(spans) \in Nat BY <2>1, LenProperties
    <3>2. IsFiniteSet(DOMAIN spans) /\ behind \in SUBSET DOMAIN spans BY <3>1, FS_Interval
    <3> HIDE DEF behind, spans
    <3>3. Cardinality(behind) \in Nat BY <3>2, FS_Subset, FS_CardinalityType
    <3> QED BY <3>3
  <2>4. /\ scan' = [NoScan EXCEPT !.doc = file.doc, !.spans = spans, !.boundary = boundary,
                                  !.next = 1 + Cardinality(behind)]
        /\ job' = job /\ To("scan")
    BY <1>3 DEF OpenReader
  <2> HIDE DEF spans, behind, boundary
  <2>5. scan' \in ScanType /\ scan'.selected = <<>> /\ scan'.uninspected = 0
    BY <1>1, <2>1, <2>2, <2>3, <2>4, BlankTypes DEF ScanType
  <2>6. Len(scan'.selected) <= job'.limit + 1
    BY <1>1, <2>4, <2>5 DEF JobType
  <2> QED BY <2>4, <2>5, <2>6 DEF TypeInv, To, Points, Preparing
<1> QED BY <1>2, <1>3

\* An element adds its events within the window, or is left as uninspected.
LEMMA ScanElementTypes == TypeInv /\ ScanElement => TypeInv'
<1> SUFFICES ASSUME TypeInv, ScanElement PROVE TypeInv' OBVIOUS
<1>1. pc = "scan" /\ job' = job /\ To("scan") /\ scan.next \in DOMAIN scan.spans
  BY DEF ScanElement, InSnapshot
<1>2. scan \in ScanType /\ job.limit \in Nat /\ SelectWindow = job.limit + 1
  BY DEF TypeInv, JobType, SelectWindow
<1>3. CASE scan' = [scan EXCEPT !.uninspected = scan.next, !.full = TRUE]
  <2>1. scan' \in ScanType /\ scan'.selected = scan.selected /\ scan'.uninspected \in DOMAIN scan'.spans
    BY <1>1, <1>2, <1>3 DEF ScanType
  <2> QED BY <1>1, <2>1 DEF TypeInv, To, Points, Preparing
<1>4. CASE scan' = [scan EXCEPT !.next = @ + 1, !.selected = InWindow(@ \o Events),
                                !.full = Len(scan.selected \o Events) > SelectWindow]
  <2> DEFINE all == scan.selected \o Events
  <2>1. all \in Seq(EventType)
    <3>1. scan.selected \in Seq(EventType) BY <1>2 DEF ScanType
    <3>2. Events \in Seq(EventType) BY <1>1, EventsOfElement
    <3> QED BY <3>1, <3>2, ConcatProperties
  <2>2. InWindow(all) \in Seq(EventType) /\ Len(InWindow(all)) <= SelectWindow
    BY <1>2, <2>1, InWindowKeeps
  <2> HIDE DEF all
  <2>3. (Len(all) > SelectWindow) \in BOOLEAN OBVIOUS
  <2>4. scan' = [scan EXCEPT !.next = @ + 1, !.selected = InWindow(all), !.full = Len(all) > SelectWindow]
    BY <1>4 DEF all
  <2>5. \A full \in BOOLEAN :
          LET next == [scan EXCEPT !.next = @ + 1, !.selected = InWindow(all), !.full = full]
          IN next \in ScanType /\ next.selected = InWindow(all) /\ next.uninspected = scan.uninspected
             /\ next.spans = scan.spans
    <3> TAKE full \in BOOLEAN
    <3> DEFINE kept == InWindow(all)
    <3>1. kept \in Seq(EventType) BY <2>2
    <3>2. scan.next + 1 \in Nat \ {0} BY <1>2 DEF ScanType
    <3> HIDE DEF kept
    <3>3. LET next == [scan EXCEPT !.next = @ + 1, !.selected = kept, !.full = full]
          IN next \in ScanType /\ next.selected = kept /\ next.uninspected = scan.uninspected
             /\ next.spans = scan.spans
      BY <1>2, <3>1, <3>2 DEF ScanType
    <3> QED BY <3>3 DEF kept
  <2>6. /\ scan' \in ScanType /\ scan'.selected = InWindow(all)
        /\ scan'.uninspected = scan.uninspected /\ scan'.spans = scan.spans
    BY <2>3, <2>4, <2>5, Zenon
  <2>7. Len(scan'.selected) <= job'.limit + 1 BY <1>1, <1>2, <2>2, <2>6
  <2> QED BY <1>1, <2>6, <2>7 DEF TypeInv, To, Points, Preparing
<1> QED BY <1>3, <1>4 DEF ScanElement

\* The end of the scan keeps what was selected.
LEMMA ScanEndTypes == TypeInv /\ ScanEnd => TypeInv'
BY DEF TypeInv, ScanEnd, To, Points, Preparing

\* A check notes whether the export changed.
LEMMA CheckSourceTypes == TypeInv /\ CheckSource => TypeInv'
<1> SUFFICES ASSUME TypeInv, CheckSource PROVE TypeInv' OBVIOUS
<1>1. /\ scan' = [scan EXCEPT !.changed = @ \/ SourceChange] /\ job' = job
      /\ To(IF pc = "check" THEN "recheck" ELSE "render")
  BY DEF CheckSource
<1>2. (scan.changed \/ SourceChange) \in BOOLEAN OBVIOUS
<1>3. \A changed \in BOOLEAN :
        LET next == [scan EXCEPT !.changed = changed]
        IN next \in ScanType /\ next.selected = scan.selected /\ next.uninspected = scan.uninspected
           /\ next.spans = scan.spans
  BY DEF TypeInv, ScanType
<1>4. scan' = [scan EXCEPT !.changed = scan.changed \/ SourceChange] BY <1>1
<1>5. /\ scan' \in ScanType /\ scan'.selected = scan.selected /\ scan'.uninspected = scan.uninspected
      /\ scan'.spans = scan.spans
  BY <1>2, <1>3, <1>4, Zenon
<1> QED BY <1>1, <1>5 DEF TypeInv, To, Points, Preparing

\* The cursor a response carries.
LEMMA NextTokenType ==
  ASSUME TypeInv, pc = "render", NEW n \in Pages
  PROVE  NextToken(n) \in TokenType
<1>1. /\ scan.doc \in Documents /\ job.gen0 \in Nat /\ job.len0 \in Nat /\ job.session \in Sessions
      /\ scan.selected \in Seq(EventType) /\ scan.spans \in Seq(SpanType)
  BY DEF TypeInv, ScanType, JobType
<1>2. \A kind \in {"page", "retry"}, off \in Int, sub \in Nat, line \in Nat :
        PageCursor(kind, off, sub, line) \in TokenType
  BY <1>1 DEF PageCursor, TokenType
<1>3. n \in Nat BY <1>1, LenProperties DEF Pages, TypeInv, JobType
<1>4. CASE scan.changed BY <1>4, BlankTypes DEF NextToken
<1>5. CASE ~scan.changed /\ n < Len(scan.selected)
  <2>1. scan.selected[n + 1] \in EventType BY <1>1, <1>3, <1>5, ElementOfSeq, LenProperties
  <2> QED BY <1>2, <1>5, <2>1 DEF NextToken, EventType
<1>6. CASE ~scan.changed /\ ~(n < Len(scan.selected))
  <2>1. CASE scan.uninspected = 0 BY <1>6, <2>1, BlankTypes DEF NextToken
  <2>2. CASE scan.uninspected # 0
    <3>1. scan.uninspected \in 1..Len(scan.spans) BY <1>1, <2>2, LenProperties DEF TypeInv
    <3>2. scan.spans[scan.uninspected] \in SpanType BY <1>1, <3>1, ElementOfSeq
    <3> QED BY <1>2, <1>6, <2>2, <3>2 DEF NextToken, SpanType
  <2> QED BY <2>1, <2>2
<1> QED BY <1>4, <1>5, <1>6

\* The response shows events of the selection and hands out a cursor or none.
LEMMA RenderTypes == TypeInv /\ Render => TypeInv'
<1> SUFFICES ASSUME TypeInv, Render PROVE TypeInv' OBVIOUS
<1>1. PICK n \in Pages :
        /\ shown' = IF scan.changed THEN <<>> ELSE shown \o SubSeq(scan.selected, 1, n)
        /\ client' = [token |-> NextToken(n),
                      cap |-> IF NextToken(n).kind = "retry" THEN "raised" ELSE client.cap]
        /\ answer' = [status |-> IF scan.changed \/ scan.uninspected # 0 THEN "partial" ELSE "ok",
                      exhausted |-> n = Len(scan.selected) /\ scan.uninspected = 0]
  BY DEF Render
<1>2. client' \in ClientType
  <2>1. NextToken(n) \in TokenType BY NextTokenType DEF Render
  <2>2. client.cap \in {"normal", "raised"} BY DEF TypeInv, ClientType
  <2> QED BY <1>1, <2>1, <2>2 DEF ClientType
<1>3. answer' \in AnswerType
  <2>1. (n = Len(scan.selected) /\ scan.uninspected = 0) \in BOOLEAN OBVIOUS
  <2>2. \A done \in BOOLEAN, status \in {"partial", "ok"} :
          [status |-> status, exhausted |-> done] \in AnswerType
    BY DEF AnswerType
  <2>3. (IF scan.changed \/ scan.uninspected # 0 THEN "partial" ELSE "ok") \in {"partial", "ok"} OBVIOUS
  <2> QED BY <1>1, <2>1, <2>2, <2>3, Zenon
<1>4. shown' \in Seq(EventType)
  <2>1. scan.selected \in Seq(EventType) /\ shown \in Seq(EventType) BY DEF TypeInv, ScanType
  <2>2. n \in Nat /\ n <= Len(scan.selected) /\ Len(scan.selected) \in Nat
    BY <2>1, LenProperties DEF Pages, TypeInv, JobType
  <2>3. \A i \in 1..n : scan.selected[i] \in EventType BY <2>1, <2>2, ElementOfSeq
  <2>4. SubSeq(scan.selected, 1, n) \in Seq(EventType) BY <2>2, <2>3, SubSeqProperties
  <2>5. shown \o SubSeq(scan.selected, 1, n) \in Seq(EventType) BY <2>1, <2>4, ConcatProperties
  <2> QED BY <1>1, <2>5
<1>5. pc' \in Points /\ job' = NoJob /\ scan' = NoScan BY DEF Render, Points
<1>6. Len(NoScan.selected) <= NoJob.limit + 1 BY DEF NoScan, NoJob
<1> QED BY <1>2, <1>3, <1>4, <1>5, <1>6, BlankTypes DEF Render, TypeInv

\* Every step keeps the types.
LEMMA NextTypes == TypeInv /\ [Next]_vars => TypeInv'
<1> SUFFICES ASSUME TypeInv, [Next]_vars PROVE TypeInv' OBVIOUS
<1>1. CASE UNCHANGED vars BY <1>1 DEF vars, TypeInv
<1>2. CASE Rewrite BY <1>2, RewriteTypes
<1>3. CASE Query
  BY <1>3, StartTypes, ProbeTypes, IdentifyTypes, DiscoverTypes, ValidateTypes, OpenReaderTypes,
     ScanElementTypes, ScanEndTypes, CheckSourceTypes, RenderTypes DEF Query
<1> QED BY <1>1, <1>2, <1>3 DEF Next

\* So they hold in every state.
LEMMA TypeInvHolds == Spec => []TypeInv
BY InitTypes, NextTypes, PTL DEF Spec

\* For every corpus of documents and whatever the scanner makes of them, the state of an
\* invocation and of the client that follows its pages has its types, and what is selected fits
\* the page and the one event that looks beyond it (runner.rs:861-1061).
THEOREM PagesTypeCorrect == Spec => []TypeOK
<1>1. TypeInv => TypeOK
  BY DEF TypeInv, TypeOK, FileType, JobType, TokenType, ScanType, ClientType, AnswerType, Points,
         SelectWindow
<1> QED BY <1>1, TypeInvHolds, PTL

----------------------------------------------------------------------------
(* The events of one document, in order *)

Elements(doc) == Document[doc].elements
EventAt(doc, i, s) ==
  [doc |-> doc, off |-> Elements(doc)[i].start, sub |-> s, line |-> Elements(doc)[i].line,
   session |-> Opened[doc].session]

InOrder(s) == \A k, l \in DOMAIN s : k < l => Before(s[k], s[l])

\* The events of a sequence, and the first n of them.
AllOf(s) == {s[k] : k \in DOMAIN s}
FirstOf(s, n) == {s[k] : k \in 1..n}

\* The events shown are those before a position, once each and in order.
Shows(s, doc, off, sub) ==
  s \in Seq(EventType) /\ InOrder(s) /\ AllOf(s) = EventsBefore(doc, off, sub)

\* Some more events lead from one position to another.
Leads(doc, off, sub, more, to, upto) ==
  EventsBefore(doc, to, upto) = EventsBefore(doc, off, sub) \cup more

\* Event s of element i, when the element has so many.
IsEvent(doc, i, s) == i \in DOMAIN Elements(doc) /\ s \in 0..1 /\ s < Elements(doc)[i].parts
\* Whether it lies before an offset and a subevent.
Prior(doc, i, s, off, sub) ==
  Elements(doc)[i].start < off \/ (Elements(doc)[i].start = off /\ s < sub)

\* All events from a position on up to an element, once each and in order.
Whole(all, doc, next, off, sub) ==
  /\ all \in Seq(EventType)
  /\ \A k \in DOMAIN all :
       \E i, s : IsEvent(doc, i, s) /\ i < next /\ ~Prior(doc, i, s, off, sub) /\ all[k] = EventAt(doc, i, s)
  /\ \A i, s :
       IsEvent(doc, i, s) /\ i < next /\ ~Prior(doc, i, s, off, sub) =>
         \E k \in DOMAIN all : all[k] = EventAt(doc, i, s)
  /\ InOrder(all)

\* The elements of a document follow each other.
LEMMA ElementFacts ==
  ASSUME NEW doc \in Documents
  PROVE  /\ Len(Elements(doc)) \in Nat /\ DOMAIN Elements(doc) = 1..Len(Elements(doc))
         /\ Length(doc) \in Nat
         /\ \A i \in DOMAIN Elements(doc) :
              /\ Elements(doc)[i].start \in Nat /\ Elements(doc)[i].end \in Nat
              /\ Elements(doc)[i].parts \in 0..2
              /\ Elements(doc)[i].start < Elements(doc)[i].end
              /\ Elements(doc)[i].end <= Length(doc)
         /\ \A i, j \in DOMAIN Elements(doc) : i < j => Elements(doc)[i].start < Elements(doc)[j].start
<1> DEFINE T == [element : BOOLEAN, parts : 0..2, start : Nat, end : Nat, line : Nat]
           es == Elements(doc)
<1>1. /\ Length(doc) \in Nat /\ es \in Seq(T)
      /\ \A i \in DOMAIN es : es[i].start < es[i].end /\ es[i].end <= Length(doc)
      /\ \A i, j \in DOMAIN es : i < j => es[i].end <= es[j].start
  BY CorpusAssumption DEF Elements
<1>2. DOMAIN es = 1..Len(es) /\ Len(es) \in Nat BY <1>1, LenProperties
<1>3. \A i \in DOMAIN es : es[i] \in T BY <1>1, <1>2, ElementOfSeq
<1>4. \A i \in DOMAIN es : es[i].start \in Nat /\ es[i].end \in Nat /\ es[i].parts \in 0..2 BY <1>3
<1>5. \A i, j \in DOMAIN es : i < j => es[i].start < es[j].start
  <2> SUFFICES ASSUME NEW i \in DOMAIN es, NEW j \in DOMAIN es, i < j
               PROVE  es[i].start < es[j].start
    OBVIOUS
  <2>1. es[i].start < es[i].end /\ es[i].end <= es[j].start BY <1>1
  <2>2. es[i].start \in Nat /\ es[i].end \in Nat /\ es[j].start \in Nat BY <1>4
  <2> HIDE DEF es
  <2> QED BY <2>1, <2>2
<1> HIDE DEF es
<1>6. /\ Len(es) \in Nat /\ DOMAIN es = 1..Len(es) /\ Length(doc) \in Nat
      /\ \A i \in DOMAIN es : /\ es[i].start \in Nat /\ es[i].end \in Nat /\ es[i].parts \in 0..2
                              /\ es[i].start < es[i].end /\ es[i].end <= Length(doc)
  BY <1>1, <1>2, <1>4
<1> QED BY <1>5, <1>6 DEF es

\* What it is to be an event before a position.
LEMMA InEventsBefore ==
  ASSUME NEW doc \in Documents, NEW off, NEW sub, NEW e
  PROVE  e \in EventsBefore(doc, off, sub) <=>
           \E i, s : IsEvent(doc, i, s) /\ Prior(doc, i, s, off, sub) /\ e = EventAt(doc, i, s)
<1> DEFINE Ys == {y \in {Elements(doc)[i] : i \in DOMAIN Elements(doc)} \X (0..1) :
                    /\ y[2] < y[1].parts
                    /\ y[1].start < off \/ (y[1].start = off /\ y[2] < sub)}
           R(y) == [doc |-> doc, off |-> y[1].start, sub |-> y[2], line |-> y[1].line,
                    session |-> Opened[doc].session]
<1>1. EventsBefore(doc, off, sub) = {R(y) : y \in Ys} BY DEF EventsBefore, Elements
<1>2. ASSUME NEW y \in Ys
      PROVE  \E i, s : IsEvent(doc, i, s) /\ Prior(doc, i, s, off, sub) /\ R(y) = EventAt(doc, i, s)
  <2>1. PICK i \in DOMAIN Elements(doc) : y[1] = Elements(doc)[i] OBVIOUS
  <2>2. y[2] \in 0..1 OBVIOUS
  <2>3. IsEvent(doc, i, y[2]) /\ Prior(doc, i, y[2], off, sub) BY <2>1, <2>2 DEF IsEvent, Prior
  <2>4. R(y) = EventAt(doc, i, y[2]) BY <2>1 DEF EventAt
  <2> QED BY <2>3, <2>4
<1>3. ASSUME NEW i, NEW s, IsEvent(doc, i, s), Prior(doc, i, s, off, sub)
      PROVE  \E y \in Ys : EventAt(doc, i, s) = R(y)
  <2> DEFINE y == <<Elements(doc)[i], s>>
  <2>1. y \in Ys BY <1>3 DEF IsEvent, Prior
  <2>2. EventAt(doc, i, s) = R(y) BY DEF EventAt
  <2> HIDE DEF Ys, R, y
  <2> QED BY <2>1, <2>2
<1> HIDE DEF Ys, R
<1> QED BY <1>1, <1>2, <1>3

\* Nothing lies before the beginning.
LEMMA NothingBeforeTheFirst ==
  ASSUME NEW doc \in Documents
  PROVE  EventsBefore(doc, 0, 0) = {}
<1>1. ASSUME NEW e \in EventsBefore(doc, 0, 0) PROVE FALSE
  <2>1. PICK i, s : IsEvent(doc, i, s) /\ Prior(doc, i, s, 0, 0) BY InEventsBefore
  <2> QED BY <2>1, ElementFacts DEF IsEvent, Prior
<1> QED BY <1>1

\* Two events of a document stand in the order of their elements and of their places in them.
LEMMA EventOrder ==
  ASSUME NEW doc \in Documents, NEW i, NEW s, NEW j, NEW r, IsEvent(doc, i, s), IsEvent(doc, j, r)
  PROVE  /\ Before(EventAt(doc, i, s), EventAt(doc, j, r)) <=> i < j \/ (i = j /\ s < r)
         /\ Before(EventAt(doc, i, s), EventAt(doc, j, r)) <=>
              Prior(doc, i, s, Elements(doc)[j].start, r)
<1>1. /\ i \in DOMAIN Elements(doc) /\ j \in DOMAIN Elements(doc) /\ s \in Nat /\ r \in Nat
      /\ i \in Nat /\ j \in Nat
  BY ElementFacts DEF IsEvent
<1>2. /\ EventAt(doc, i, s).off = Elements(doc)[i].start /\ EventAt(doc, i, s).sub = s
      /\ EventAt(doc, j, r).off = Elements(doc)[j].start /\ EventAt(doc, j, r).sub = r
  BY DEF EventAt
<1>3. /\ Elements(doc)[i].start \in Nat /\ Elements(doc)[j].start \in Nat
      /\ i < j => Elements(doc)[i].start < Elements(doc)[j].start
      /\ j < i => Elements(doc)[j].start < Elements(doc)[i].start
  BY <1>1, ElementFacts
<1> QED BY <1>1, <1>2, <1>3 DEF Before, Prior

\* An element's events behind all those of the elements before it.
LEMMA WholeGrows ==
  ASSUME NEW doc \in Documents, NEW next \in DOMAIN Elements(doc), NEW off, NEW sub,
         NEW all, Whole(all, doc, next, off, sub),
         NEW more \in Seq(EventType), NEW first \in 0..Elements(doc)[next].parts,
         Len(more) = Elements(doc)[next].parts - first,
         \A n \in DOMAIN more : more[n] = EventAt(doc, next, first + n - 1),
         \A s \in 0..(Elements(doc)[next].parts - 1) : s >= first <=> ~Prior(doc, next, s, off, sub)
  PROVE  Whole(all \o more, doc, next + 1, off, sub)
<1> DEFINE parts == Elements(doc)[next].parts
           both == all \o more
           a == Len(all)
<1>1. parts \in 0..2 /\ next \in Nat /\ DOMAIN Elements(doc) \subseteq Nat BY ElementFacts
<1>2. all \in Seq(EventType) BY DEF Whole
<1>3. a \in Nat /\ DOMAIN all = 1..a /\ DOMAIN more = 1..(parts - first) BY <1>2, LenProperties
<1>4. /\ both \in Seq(EventType) /\ Len(both) = a + (parts - first)
      /\ \A k \in 1..(a + (parts - first)) : both[k] = IF k <= a THEN all[k] ELSE more[k - a]
  BY <1>2, ConcatProperties
<1>5. DOMAIN both = 1..(a + (parts - first)) BY <1>4, LenProperties
<1>6. \A k \in 1..a : k \in DOMAIN both /\ both[k] = all[k] BY <1>1, <1>3, <1>4, <1>5
<1>7. ASSUME NEW k \in DOMAIN both, k > a
      PROVE  both[k] = EventAt(doc, next, first + (k - a) - 1) /\ IsEvent(doc, next, first + (k - a) - 1)
             /\ ~Prior(doc, next, first + (k - a) - 1, off, sub)
  <2>1. k - a \in 1..(parts - first) BY <1>1, <1>3, <1>5, <1>7
  <2>2. both[k] = more[k - a] BY <1>3, <1>4, <1>5, <1>7
  <2>3. more[k - a] = EventAt(doc, next, first + (k - a) - 1) BY <1>3, <2>1
  <2> DEFINE s == first + (k - a) - 1
  <2>4. s \in 0..(parts - 1) /\ s >= first /\ s \in 0..1 /\ s < parts
    <3>1. k \in Nat BY <1>1, <1>3, <1>5
    <3> HIDE DEF parts
    <3> QED BY <1>1, <1>3, <2>1, <3>1
  <2>5. IsEvent(doc, next, s) BY <2>4 DEF IsEvent
  <2>6. ~Prior(doc, next, s, off, sub) BY <2>4
  <2> QED BY <2>2, <2>3, <2>5, <2>6
<1>8. ASSUME NEW i, NEW s, IsEvent(doc, i, s), i = next, ~Prior(doc, i, s, off, sub)
      PROVE  \E k \in DOMAIN both : both[k] = EventAt(doc, i, s)
  <2>1. s \in 0..(parts - 1) BY <1>1, <1>8 DEF IsEvent
  <2>2. s >= first BY <1>8, <2>1
  <2> DEFINE k == a + (s - first) + 1
  <2>3. k \in DOMAIN both /\ k > a /\ first + (k - a) - 1 = s BY <1>1, <1>3, <1>5, <2>1, <2>2
  <2>4. both[k] = EventAt(doc, next, s) BY <1>7, <2>3
  <2> QED BY <1>8, <2>3, <2>4
<1> HIDE DEF both, a, parts
<1>9. ASSUME NEW k \in DOMAIN both
      PROVE  \E i, s : /\ IsEvent(doc, i, s) /\ i < next + 1 /\ ~Prior(doc, i, s, off, sub)
                       /\ both[k] = EventAt(doc, i, s)
  <2>1. CASE k <= a
    <3>1. k \in 1..a BY <1>3, <1>5, <2>1
    <3>2. PICK i, s : /\ IsEvent(doc, i, s) /\ i < next /\ ~Prior(doc, i, s, off, sub)
                      /\ all[k] = EventAt(doc, i, s)
      BY <1>3, <3>1 DEF Whole
    <3>3. i < next + 1 BY <1>1, <3>2 DEF IsEvent
    <3> QED BY <1>6, <3>1, <3>2, <3>3
  <2>2. CASE k > a
    <3>1. next < next + 1 BY <1>1
    <3> QED BY <1>7, <2>2, <3>1
  <2>3. k \in Nat BY <1>1, <1>3, <1>5
  <2> QED BY <1>3, <2>1, <2>2, <2>3
<1>10. ASSUME NEW i, NEW s, IsEvent(doc, i, s), i < next + 1, ~Prior(doc, i, s, off, sub)
       PROVE  \E k \in DOMAIN both : both[k] = EventAt(doc, i, s)
  <2>1. CASE i < next
    <3>1. PICK k \in DOMAIN all : all[k] = EventAt(doc, i, s) BY <1>10, <2>1 DEF Whole
    <3> QED BY <1>3, <1>6, <3>1
  <2>2. i \in Nat BY <1>1, <1>10 DEF IsEvent
  <2>3. CASE i = next BY <1>8, <1>10, <2>3
  <2> QED BY <1>1, <1>10, <2>1, <2>2, <2>3
<1>11. ASSUME NEW k \in DOMAIN both, NEW l \in DOMAIN both, k < l
       PROVE  Before(both[k], both[l])
  <2>1. k \in Nat /\ l \in Nat /\ k >= 1 BY <1>1, <1>3, <1>5
  <2>2. CASE l <= a
    <3>1. k \in 1..a /\ l \in 1..a BY <1>3, <1>11, <2>1, <2>2
    <3>2. Before(all[k], all[l]) BY <1>3, <1>11, <3>1 DEF Whole, InOrder
    <3> QED BY <1>6, <3>1, <3>2
  <2>3. CASE k <= a /\ l > a
    <3>1. k \in 1..a BY <1>3, <2>1, <2>3
    <3>2. PICK i, s : IsEvent(doc, i, s) /\ i < next /\ all[k] = EventAt(doc, i, s)
      BY <1>3, <3>1 DEF Whole
    <3>3. /\ both[l] = EventAt(doc, next, first + (l - a) - 1)
          /\ IsEvent(doc, next, first + (l - a) - 1)
      BY <1>7, <2>3
    <3>4. Before(all[k], both[l]) BY <3>2, <3>3, EventOrder
    <3> QED BY <1>6, <3>1, <3>4
  <2>4. CASE k > a
    <3>1. l > a BY <1>3, <1>11, <2>1, <2>4
    <3>2. /\ both[k] = EventAt(doc, next, first + (k - a) - 1)
          /\ IsEvent(doc, next, first + (k - a) - 1)
      BY <1>7, <2>4
    <3>3. /\ both[l] = EventAt(doc, next, first + (l - a) - 1)
          /\ IsEvent(doc, next, first + (l - a) - 1)
      BY <1>7, <3>1
    <3>4. first + (k - a) - 1 < first + (l - a) - 1 BY <1>1, <1>3, <1>11, <2>1
    <3> QED BY <3>2, <3>3, <3>4, EventOrder
  <2> QED BY <1>3, <2>1, <2>2, <2>3, <2>4
<1>12. InOrder(both) BY <1>11 DEF InOrder
<1>13. both \in Seq(EventType) BY <1>4
<1>14. Whole(both, doc, next + 1, off, sub) BY <1>9, <1>10, <1>12, <1>13 DEF Whole
<1> QED BY <1>14 DEF both

\* What was shown before and the first n of a selection are the events before the one that follows.
LEMMA WholeUpTo ==
  ASSUME NEW doc \in Documents, NEW next \in Nat, NEW off \in Int, NEW sub \in Nat,
         NEW all, Whole(all, doc, next, off, sub), NEW n \in Nat, n < Len(all)
  PROVE  Leads(doc, off, sub, FirstOf(all, n), all[n + 1].off, all[n + 1].sub)
<1>1. all \in Seq(EventType) /\ InOrder(all) BY DEF Whole
<1>2. Len(all) \in Nat /\ DOMAIN all = 1..Len(all) BY <1>1, LenProperties
<1>3. n + 1 \in DOMAIN all /\ 1..n \subseteq DOMAIN all BY <1>2
<1>4. PICK j, r : /\ IsEvent(doc, j, r) /\ j < next /\ ~Prior(doc, j, r, off, sub)
                  /\ all[n + 1] = EventAt(doc, j, r)
  BY <1>3 DEF Whole
<1>5. all[n + 1].off = Elements(doc)[j].start /\ all[n + 1].sub = r BY <1>4 DEF EventAt
<1>6. /\ j \in Nat /\ j \in DOMAIN Elements(doc) /\ r \in Nat /\ Elements(doc)[j].start \in Nat
  BY <1>4, ElementFacts DEF IsEvent
<1>7. ASSUME NEW i, NEW s, IsEvent(doc, i, s), Prior(doc, i, s, Elements(doc)[j].start, r)
      PROVE  EventAt(doc, i, s) \in EventsBefore(doc, off, sub) \cup {all[k] : k \in 1..n}
  <2>1. CASE Prior(doc, i, s, off, sub) BY <1>7, <2>1, InEventsBefore
  <2>2. CASE ~Prior(doc, i, s, off, sub)
    <3>1. Before(EventAt(doc, i, s), EventAt(doc, j, r)) /\ (i < j \/ (i = j /\ s < r))
      BY <1>4, <1>7, EventOrder
    <3>2. i \in Nat BY <1>7, ElementFacts DEF IsEvent
    <3>3. i < next BY <1>4, <1>6, <3>1, <3>2
    <3>4. PICK k \in DOMAIN all : all[k] = EventAt(doc, i, s) BY <1>7, <2>2, <3>3 DEF Whole
    <3>5. ~(n + 1 < k)
      <4>1. SUFFICES ASSUME n + 1 < k PROVE FALSE OBVIOUS
      <4>2. Before(EventAt(doc, j, r), EventAt(doc, i, s)) BY <1>1, <1>3, <1>4, <3>4, <4>1 DEF InOrder
      <4>3. j < i \/ (j = i /\ r < s) BY <1>4, <1>7, <4>2, EventOrder
      <4>4. s \in Nat BY <1>7 DEF IsEvent
      <4> QED BY <1>6, <3>1, <3>2, <4>3, <4>4
    <3>6. k # n + 1
      <4>1. SUFFICES ASSUME k = n + 1 PROVE FALSE OBVIOUS
      <4>2. Before(EventAt(doc, i, s), EventAt(doc, i, s)) BY <1>4, <3>1, <3>4, <4>1
      <4>3. s \in Nat /\ i \in Nat BY <1>7, <3>2 DEF IsEvent
      <4>4. i < i \/ s < s BY <1>7, <4>2, EventOrder
      <4> QED BY <4>3, <4>4
    <3>7. k \in 1..n BY <1>2, <3>5, <3>6
    <3> QED BY <3>4, <3>7
  <2> QED BY <2>1, <2>2
<1>8. ASSUME NEW i, NEW s, IsEvent(doc, i, s), Prior(doc, i, s, off, sub)
      PROVE  Prior(doc, i, s, Elements(doc)[j].start, r)
  <2>1. Elements(doc)[i].start \in Nat /\ s \in Nat BY <1>8, ElementFacts DEF IsEvent
  <2> QED BY <1>4, <1>6, <1>8, <2>1 DEF Prior
<1>9. ASSUME NEW k \in 1..n
      PROVE  \E i, s : IsEvent(doc, i, s) /\ Prior(doc, i, s, Elements(doc)[j].start, r)
                       /\ all[k] = EventAt(doc, i, s)
  <2>1. PICK i, s : IsEvent(doc, i, s) /\ all[k] = EventAt(doc, i, s) BY <1>3 DEF Whole
  <2>2. k < n + 1 OBVIOUS
  <2>3. Before(all[k], all[n + 1]) BY <1>1, <1>3, <2>2 DEF InOrder
  <2> QED BY <1>4, <2>1, <2>3, EventOrder
<1>10. ASSUME NEW e \in EventsBefore(doc, Elements(doc)[j].start, r)
       PROVE  e \in EventsBefore(doc, off, sub) \cup {all[k] : k \in 1..n}
  BY <1>7, <1>10, InEventsBefore
<1>11. ASSUME NEW e \in EventsBefore(doc, off, sub)
       PROVE  e \in EventsBefore(doc, Elements(doc)[j].start, r)
  BY <1>8, <1>11, InEventsBefore
<1>12. ASSUME NEW k \in 1..n PROVE all[k] \in EventsBefore(doc, Elements(doc)[j].start, r)
  BY <1>9, InEventsBefore
<1>13. EventsBefore(doc, Elements(doc)[j].start, r)
         = EventsBefore(doc, off, sub) \cup {all[k] : k \in 1..n}
  BY <1>10, <1>11, <1>12
<1> QED BY <1>5, <1>13 DEF FirstOf, Leads

\* What was shown before and a whole selection are the events of the elements it covers.
LEMMA WholeOfAll ==
  ASSUME NEW doc \in Documents, NEW next \in Nat, NEW off \in Int, NEW sub \in Nat, NEW end \in Nat,
         NEW all, Whole(all, doc, next, off, sub),
         off < end \/ (off = end /\ sub = 0),
         \A i \in DOMAIN Elements(doc) : i < next <=> Elements(doc)[i].start < end
  PROVE  Leads(doc, off, sub, AllOf(all), end, 0)
<1>1. \A i, s : IsEvent(doc, i, s) =>
        i \in DOMAIN Elements(doc) /\ Elements(doc)[i].start \in Nat /\ s \in Nat
  BY ElementFacts DEF IsEvent
<1>2. \A i, s : IsEvent(doc, i, s) => (Prior(doc, i, s, end, 0) <=> i < next)
  BY <1>1 DEF Prior
<1>3. \A i, s : IsEvent(doc, i, s) /\ Prior(doc, i, s, off, sub) => Prior(doc, i, s, end, 0)
  BY <1>1 DEF Prior
<1>4. ASSUME NEW e \in EventsBefore(doc, end, 0)
      PROVE  e \in EventsBefore(doc, off, sub) \cup {all[k] : k \in DOMAIN all}
  <2>1. PICK i, s : IsEvent(doc, i, s) /\ Prior(doc, i, s, end, 0) /\ e = EventAt(doc, i, s)
    BY <1>4, InEventsBefore
  <2>2. CASE Prior(doc, i, s, off, sub) BY <2>1, <2>2, InEventsBefore
  <2>3. CASE ~Prior(doc, i, s, off, sub)
    <3>1. \E k \in DOMAIN all : all[k] = EventAt(doc, i, s) BY <1>2, <2>1, <2>3 DEF Whole
    <3> QED BY <2>1, <3>1
  <2> QED BY <2>2, <2>3
<1>5. ASSUME NEW e \in EventsBefore(doc, off, sub) PROVE e \in EventsBefore(doc, end, 0)
  BY <1>3, <1>5, InEventsBefore
<1>6. ASSUME NEW k \in DOMAIN all PROVE all[k] \in EventsBefore(doc, end, 0)
  <2>1. PICK i, s : IsEvent(doc, i, s) /\ i < next /\ all[k] = EventAt(doc, i, s) BY <1>6 DEF Whole
  <2> QED BY <1>2, <2>1, InEventsBefore
<1>7. EventsBefore(doc, end, 0) = EventsBefore(doc, off, sub) \cup {all[k] : k \in DOMAIN all}
  BY <1>4, <1>5, <1>6
<1> QED BY <1>7 DEF AllOf, Leads

----------------------------------------------------------------------------
(* The inductive invariant *)

\* What the proofs take from TLC: on every document it opens, the scanner reads what is there.
\* SpansExact states it of the documents a query reads.
ScannerExact == \A doc \in Documents : Opened[doc].ok => Exact(doc, Opened[doc].spans)

\* The export is as the invocation first saw it.
Same == file.gen = job.gen0 /\ file.mtime = job.mtime0

\* While an invocation runs, a rewrite cannot go unseen by the check after the scan.
Running ==
  /\ job.token = client.token
  /\ job.gen0 <= file.gen /\ job.mtime0 <= file.mtime
  /\ Same => job.len0 = Length(file.doc)
  /\ ~Same => SourceChange
  /\ answer = NoAnswer
  /\ client.token.kind = "none" => shown = <<>>

RunInv == pc # "idle" => Running

CapOf(c) == IF c.cap = "normal" THEN NormalCap ELSE MaxLength

\* A token whose position is an element of the document that the cap lets through.
Resumable(token, doc, cap) ==
  token.kind # "none" =>
    /\ token.doc = doc /\ token.snap = Length(doc)
    /\ \E i \in DOMAIN Elements(doc) :
         Elements(doc)[i].start = token.off /\ Elements(doc)[i].end - Elements(doc)[i].start <= cap

\* What the checks before the reader have shown, unless the export was rewritten since.
BeginInv ==
  /\ pc \in {"probe", "identify"} => job.token.kind = "none"
  /\ client.token.kind = "none" => client.token.off = 0 /\ client.token.sub = 0
  /\ pc \in {"validate", "open"} /\ Same => job.session = Opened[file.doc].session
  /\ pc = "open" /\ Same => Resumable(job.token, file.doc, CapOf(client))

\* The scan reads the document its invocation first saw, all of it, under its session.
Reads(j, sc) ==
  /\ Opened[sc.doc].ok /\ sc.spans = Opened[sc.doc].spans
  /\ sc.boundary = Length(sc.doc) /\ j.len0 = Length(sc.doc)
  /\ j.session = Opened[sc.doc].session

\* The selection: all events from the token on up to the next element, or the first of them.
Holds(j, sc, cap) ==
  LET off == j.token.off
      sub == j.token.sub
      cut == sc.full /\ sc.uninspected = 0
  IN /\ sc.next <= Len(Elements(sc.doc)) + 1
     /\ \A i \in DOMAIN Elements(sc.doc) : i >= sc.next => Elements(sc.doc)[i].start >= off
     /\ ~cut => Whole(sc.selected, sc.doc, sc.next, off, sub)
     /\ cut => \E all :
                 /\ Whole(all, sc.doc, sc.next, off, sub)
                 /\ Len(all) > j.limit + 1 /\ Len(sc.selected) = j.limit + 1
                 /\ \A k \in 1..(j.limit + 1) : sc.selected[k] = all[k]
     /\ ~sc.full => sc.uninspected = 0
     /\ sc.uninspected # 0 =>
          /\ sc.uninspected = sc.next /\ sc.next \in DOMAIN Elements(sc.doc)
          /\ Elements(sc.doc)[sc.next].end - Elements(sc.doc)[sc.next].start > cap

\* The scan has nothing more to read.
Ended(sc) == sc.full \/ ~(sc.next \in DOMAIN sc.spans /\ sc.spans[sc.next].end <= sc.boundary)

\* A scan whose document is known to be the one the invocation first saw.
Trusted ==
  \/ pc \in {"scan", "check"} /\ Same
  \/ pc \in {"recheck", "render"} /\ ~scan.changed

ScanInv ==
  /\ Trusted => /\ Reads(job, scan) /\ Resumable(job.token, scan.doc, CapOf(client))
                /\ Holds(job, scan, CapOf(client))
  /\ pc \in {"check", "recheck", "render"} => Ended(scan)

\* The events shown are those before the token, once each and in order.
ShownInv ==
  /\ client.token.kind # "none" =>
       AllOf(shown)
         = EventsBefore(client.token.doc, client.token.off, client.token.sub)
  /\ InOrder(shown)
  /\ answer.status = "ok" /\ answer.exhausted =>
       \E doc \in Documents :
         /\ shown = <<>> \/ shown[1].doc = doc
         /\ AllOf(shown) = EventsBefore(doc, Length(doc), 0)

PagesInv == TypeInv /\ RunInv /\ BeginInv /\ ScanInv /\ ShownInv

----------------------------------------------------------------------------
(* What the steps of an invocation have in common *)

Failures ==
  {"cursor_invalid", "export_too_large", "format_uncertain", "read_as_lines", "format_invalid",
   "source_unreadable"}

\* The invocation goes on with what it was asked.
Advance ==
  /\ pc' # "idle"
  /\ UNCHANGED <<file, client, shown, answer>>
  /\ job'.token = job.token /\ job'.limit = job.limit /\ job'.len0 = job.len0
  /\ job'.mtime0 = job.mtime0 /\ job'.gen0 = job.gen0

Step == Probe \/ Identify \/ Discover \/ Validate \/ OpenReader \/ ScanElement \/ ScanEnd \/ CheckSource

\* A step goes on with the invocation as it was asked, or fails it.
LEMMA StepsAdvance ==
  ASSUME TypeInv, Step
  PROVE  pc # "idle" /\ (Advance \/ \E status \in Failures : Fail(status))
<1>1. job \in JobType BY DEF TypeInv
<1>2. \A auto : LET j == [job EXCEPT !.auto = auto] IN
        /\ j.token = job.token /\ j.limit = job.limit /\ j.len0 = job.len0
        /\ j.mtime0 = job.mtime0 /\ j.gen0 = job.gen0
  BY <1>1 DEF JobType
<1>3. \A session : LET j == [job EXCEPT !.session = session] IN
        /\ j.token = job.token /\ j.limit = job.limit /\ j.len0 = job.len0
        /\ j.mtime0 = job.mtime0 /\ j.gen0 = job.gen0
  BY <1>1 DEF JobType
<1>4. CASE Probe
  <2>1. file.doc \in Documents BY DEF TypeInv, FileType
  <2>2. CASE Probed[file.doc] = "candidate"
    <3>1. job' = [job EXCEPT !.auto = FALSE] /\ To(IF job.auto THEN "probe" ELSE "identify")
      BY <1>4, <2>2 DEF Probe
    <3> QED BY <1>2, <1>4, <3>1 DEF To, Advance, Probe
  <2>3. CASE Probed[file.doc] = "too_large"
    <3>1. Fail("export_too_large") BY <1>4, <2>3 DEF Probe
    <3> QED BY <1>4, <3>1 DEF Failures, Probe
  <2>4. CASE Probed[file.doc] = "not_export"
    <3>1. Fail(IF job.auto THEN "format_uncertain" ELSE "read_as_lines") BY <1>4, <2>4 DEF Probe
    <3>2. (IF job.auto THEN "format_uncertain" ELSE "read_as_lines") \in Failures BY DEF Failures
    <3> QED BY <1>4, <3>1, <3>2 DEF Probe
  <2> QED BY <2>1, <2>2, <2>3, <2>4, ProbedType
<1>5. CASE Identify
  <2>1. (job' = [job EXCEPT !.session = Opened[file.doc].session] /\ To("open")) \/ Fail("format_invalid")
    BY <1>5 DEF Identify
  <2> QED BY <1>3, <1>5, <2>1 DEF To, Advance, Identify, Failures
<1>6. CASE Discover
  <2>1. \/ job' = [job EXCEPT !.session = job.token.session] /\ To("validate")
        \/ Fail("cursor_invalid")
        \/ Fail("source_unreadable")
    BY <1>6 DEF Discover
  <2> QED BY <1>3, <1>6, <2>1 DEF To, Advance, Discover, Failures
<1>7. CASE Validate
  <2>1. (job' = job /\ To("open")) \/ Fail("cursor_invalid") BY <1>7 DEF Validate
  <2> QED BY <1>7, <2>1 DEF To, Advance, Validate, Failures
<1>8. CASE OpenReader
  <2>1. (job' = job /\ To("scan")) \/ Fail("format_invalid") BY <1>8 DEF OpenReader
  <2> QED BY <1>8, <2>1 DEF To, Advance, OpenReader, Failures
<1>9. CASE ScanElement BY <1>9 DEF ScanElement, To, Advance
<1>10. CASE ScanEnd BY <1>10 DEF ScanEnd, To, Advance
<1>11. CASE CheckSource BY <1>11 DEF CheckSource, To, Advance
<1> QED BY <1>4, <1>5, <1>6, <1>7, <1>8, <1>9, <1>10, <1>11 DEF Step

\* The length a rewrite is compared with, and the comparison, are those of the invocation.
LEMMA AdvanceKeeps ==
  ASSUME Advance
  PROVE  (Same' <=> Same) /\ (SourceChange' <=> SourceChange) /\ EffectiveEnd' = EffectiveEnd
<1>1. EffectiveEnd' = EffectiveEnd BY DEF Advance, EffectiveEnd
<1> QED BY <1>1 DEF Advance, Same, SourceChange

\* A rewrite during an invocation makes the export another than the one it first saw.
LEMMA RewriteIsSeen ==
  ASSUME TypeInv, Running, Rewrite, ~Growing, pc # "idle"
  PROVE  ~Same' /\ Running'
<1>1. PICK doc \in Rewritten \ {file.doc}, gen \in {file.gen, file.gen + 1} :
        /\ gen # file.gen \/ Length(doc) <= EffectiveEnd
        /\ file' = [doc |-> doc, gen |-> gen, mtime |-> file.mtime + 1]
  BY DEF Rewrite
<1>2. UNCHANGED <<pc, job, client, shown, answer>> BY DEF Rewrite
<1>3. /\ file.gen \in Nat /\ file.mtime \in Nat /\ job.gen0 \in Nat /\ job.mtime0 \in Nat
  BY PagesAssumption DEF TypeInv, FileType, JobType
<1>4. job.gen0 <= file.gen /\ job.mtime0 <= file.mtime BY DEF Running
<1>5. ~Same' BY <1>1, <1>2, <1>3, <1>4 DEF Same
<1>6. EffectiveEnd' = EffectiveEnd BY <1>2 DEF EffectiveEnd
<1>7. SourceChange'
  <2>1. CASE gen # file.gen
    <3>1. file'.gen # job.gen0 BY <1>1, <1>3, <1>4, <2>1
    <3> QED BY <1>2, <3>1 DEF SourceChange
  <2>2. CASE Length(doc) <= EffectiveEnd
    <3>1. EffectiveEnd \in Nat BY CorpusAssumption DEF TypeInv, JobType, TokenType, EffectiveEnd
    <3>2. doc \in Documents BY PagesAssumption DEF Documents, Document
    <3>3. Length(doc) \in Nat BY <3>2, CorpusAssumption
    <3>4. file'.doc = doc /\ file'.mtime # job.mtime0 BY <1>1, <1>3, <1>4
    <3> QED BY <1>2, <1>6, <2>2, <3>1, <3>3, <3>4 DEF SourceChange
  <2> QED BY <1>1, <2>1, <2>2
<1>8. job.gen0 <= file'.gen /\ job.mtime0 <= file'.mtime BY <1>1, <1>3, <1>4
<1> QED BY <1>2, <1>5, <1>7, <1>8 DEF Running

\* An unseen rewrite is impossible at every step of an invocation.
LEMMA RunStep == ~Growing /\ TypeInv /\ RunInv /\ [Next]_vars => RunInv'
<1> SUFFICES ASSUME ~Growing, TypeInv, RunInv, [Next]_vars PROVE RunInv' OBVIOUS
<1>1. CASE UNCHANGED vars
  <2>1. (Same' <=> Same) /\ (SourceChange' <=> SourceChange)
    BY <1>1 DEF vars, Same, SourceChange, EffectiveEnd
  <2> QED BY <1>1, <2>1 DEF vars, RunInv, Running
<1>2. CASE Rewrite
  <2>1. CASE pc = "idle" BY <1>2, <2>1 DEF Rewrite, RunInv
  <2>2. CASE pc # "idle" BY <1>2, <2>2, RewriteIsSeen DEF RunInv
  <2> QED BY <2>1, <2>2
<1>3. CASE Start
  <2>1. /\ job'.token = client.token /\ job'.len0 = Length(file.doc)
        /\ job'.mtime0 = file.mtime /\ job'.gen0 = file.gen
    BY <1>3 DEF Start
  <2>2. file' = file /\ client' = client /\ answer' = NoAnswer BY <1>3 DEF Start
  <2>3. Same' BY <2>1, <2>2 DEF Same
  <2>4. file.gen <= file.gen /\ file.mtime <= file.mtime BY PagesAssumption DEF TypeInv, FileType
  <2>5. client.token.kind = "none" => shown' = <<>> BY <1>3 DEF Start
  <2> QED BY <2>1, <2>2, <2>3, <2>4, <2>5 DEF RunInv, Running
<1>4. CASE Step
  <2>1. pc # "idle" /\ (Advance \/ \E status \in Failures : Fail(status)) BY <1>4, StepsAdvance
  <2>2. CASE Advance
    <3>1. (Same' <=> Same) /\ (SourceChange' <=> SourceChange) BY <2>2, AdvanceKeeps
    <3> QED BY <2>1, <2>2, <3>1 DEF Advance, RunInv, Running
  <2>3. CASE \E status \in Failures : Fail(status) BY <2>3 DEF Fail, RunInv
  <2> QED BY <2>1, <2>2, <2>3
<1>5. CASE Render BY <1>5 DEF Render, RunInv
<1> QED BY <1>1, <1>2, <1>3, <1>4, <1>5 DEF Next, Query, Step

\* What the checks before the reader leave behind.
LEMMA BeginStep ==
  ASSUME ScannerExact, ~Growing
  PROVE  TypeInv /\ RunInv /\ BeginInv /\ [Next]_vars => BeginInv'
<1> SUFFICES ASSUME TypeInv, RunInv, BeginInv, [Next]_vars PROVE BeginInv' OBVIOUS
<1>1. CASE UNCHANGED vars
  <2>1. Same' <=> Same BY <1>1 DEF vars, Same
  <2> QED BY <1>1, <2>1 DEF vars, BeginInv, Resumable, CapOf
<1>2. CASE Rewrite
  <2>1. pc # "idle" => ~Same' BY <1>2, RewriteIsSeen DEF RunInv
  <2> QED BY <1>2, <2>1 DEF Rewrite, BeginInv
<1>3. CASE Start BY <1>3 DEF Start, BeginInv
<1>4. CASE Render
  <2>1. PICK n \in Pages : client'.token = NextToken(n) BY <1>4 DEF Render
  <2>2. NextToken(n).kind = "none" => NextToken(n) = NoToken BY DEF NextToken, PageCursor
  <2>3. NoToken.off = 0 /\ NoToken.sub = 0 BY DEF NoToken
  <2> QED BY <1>4, <2>1, <2>2, <2>3 DEF Render, BeginInv
<1>5. CASE \E status \in Failures : Fail(status)
  <2>1. client' = client \/ client' = [client EXCEPT !.token = NoToken] BY <1>5 DEF Fail
  <2>2. client \in ClientType BY DEF TypeInv
  <2>3. client'.token = client.token \/ client'.token = NoToken BY <2>1, <2>2 DEF ClientType
  <2>4. NoToken.off = 0 /\ NoToken.sub = 0 BY DEF NoToken
  <2> QED BY <1>5, <2>3, <2>4 DEF Fail, BeginInv
<1>6. CASE Step /\ Advance
  <2>1. /\ (Same' <=> Same) /\ UNCHANGED <<file, client>> /\ job'.token = job.token
        /\ pc # "idle" /\ job.token = client.token
    BY <1>6, AdvanceKeeps, StepsAdvance DEF Advance, RunInv, Running
  <2>2. job \in JobType /\ file.doc \in Documents BY DEF TypeInv, FileType
  <2>3. CASE Probe
    <3>1. pc = "probe" /\ pc' \in {"probe", "identify", "idle"} BY <2>3, <2>2, ProbedType DEF Probe, To, Fail
    <3> QED BY <2>1, <3>1 DEF BeginInv
  <2>4. CASE Identify
    <3>1. pc = "identify" BY <2>4 DEF Identify
    <3>2. Opened[file.doc].ok BY <2>4, <1>6 DEF Identify, Fail, Advance
    <3>3. pc' = "open" /\ job' = [job EXCEPT !.session = Opened[file.doc].session]
      BY <2>4, <3>2 DEF Identify, To
    <3>4. job'.session = Opened[file.doc].session BY <2>2, <3>3 DEF JobType
    <3>5. job'.token.kind = "none" BY <2>1, <3>1 DEF BeginInv
    <3> QED BY <2>1, <3>3, <3>4, <3>5 DEF BeginInv, Resumable
  <2>5. CASE Discover
    <3>1. /\ Opened[file.doc].session = job.token.session /\ pc' = "validate"
          /\ job' = [job EXCEPT !.session = job.token.session]
      BY <2>5, <1>6 DEF Discover, Fail, Advance, To
    <3>2. job'.session = Opened[file.doc].session BY <2>2, <3>1 DEF JobType
    <3> QED BY <2>1, <3>1, <3>2 DEF BeginInv
  <2>6. CASE Validate
    <3>1. Accepts(job.token) /\ pc = "validate" /\ pc' = "open" /\ job' = job
      BY <2>6, <1>6 DEF Validate, Fail, Advance, To
    <3>2. Resumable(job.token, file.doc, CapOf(client))
      <4>1. /\ Opened[file.doc].ok /\ Length(file.doc) = job.token.snap /\ file.doc = job.token.doc
            /\ \E i \in DOMAIN Opened[file.doc].spans :
                 /\ Opened[file.doc].spans[i].start = job.token.off
                 /\ Opened[file.doc].spans[i].end - Opened[file.doc].spans[i].start <= Cap
        BY <3>1 DEF Accepts, SameDocument
      <4>2. Exact(file.doc, Opened[file.doc].spans) BY <2>2, <4>1 DEF ScannerExact
      <4> QED BY <4>1, <4>2 DEF Resumable, Exact, Elements, Cap, CapOf
    <3> QED BY <2>1, <3>1, <3>2 DEF BeginInv
  <2>7. CASE OpenReader \/ ScanElement \/ ScanEnd \/ CheckSource
    <3>1. pc' \notin {"probe", "identify", "validate", "open"}
      BY <2>7 DEF OpenReader, ScanElement, ScanEnd, CheckSource, To, Fail
    <3> QED BY <2>1, <3>1 DEF BeginInv
  <2> QED BY <1>6, <2>3, <2>4, <2>5, <2>6, <2>7 DEF Step
<1> QED BY <1>1, <1>2, <1>3, <1>4, <1>5, <1>6, StepsAdvance DEF Next, Query, Step

\* Where the reader begins: behind the elements before the token, none of which it passes later.
LEMMA FirstSpan ==
  ASSUME ScannerExact, NEW doc \in Documents, Opened[doc].ok, NEW token, NEW cap,
         Resumable(token, doc, cap), token.kind = "none" => token.off = 0
  PROVE  LET spans == Opened[doc].spans
             next == 1 + Cardinality({i \in DOMAIN spans : spans[i].start < token.off})
         IN /\ next \in 1..(Len(Elements(doc)) + 1)
            /\ \A i \in DOMAIN Elements(doc) : i < next <=> Elements(doc)[i].start < token.off
<1> DEFINE spans == Opened[doc].spans
           behind == {i \in DOMAIN spans : spans[i].start < token.off}
           n == Len(Elements(doc))
<1>1. Exact(doc, spans) BY DEF ScannerExact
<1>2. n \in Nat /\ DOMAIN Elements(doc) = 1..n BY ElementFacts
<1>3. behind = {i \in 1..n : Elements(doc)[i].start < token.off}
  <2>1. DOMAIN spans = 1..n BY <1>1, <1>2 DEF Exact, Elements
  <2>2. \A i \in 1..n : spans[i].start = Elements(doc)[i].start BY <1>1, <1>2 DEF Exact, Elements
  <2> QED BY <2>1, <2>2
<1> HIDE DEF spans, behind, n
<1>4. \E m \in 0..n : behind = 1..m /\ \A i \in 1..n : i <= m <=> Elements(doc)[i].start < token.off
  <2>1. CASE token.kind = "none"
    <3>1. \A i \in 1..n : ~(Elements(doc)[i].start < token.off) BY <1>2, <2>1, ElementFacts
    <3>2. behind = 1..0 BY <1>3, <3>1
    <3> QED BY <1>2, <3>1, <3>2
  <2>2. CASE token.kind # "none"
    <3>1. PICK j \in 1..n : Elements(doc)[j].start = token.off BY <1>2, <2>2 DEF Resumable
    <3>2. \A i \in 1..n : i <= j - 1 <=> Elements(doc)[i].start < token.off
      <4> TAKE i \in 1..n
      <4>1. /\ i < j => Elements(doc)[i].start < Elements(doc)[j].start
            /\ j < i => Elements(doc)[j].start < Elements(doc)[i].start
            /\ Elements(doc)[i].start \in Nat /\ Elements(doc)[j].start \in Nat
        BY <1>2, ElementFacts
      <4> QED BY <1>2, <3>1, <4>1
    <3>3. behind = 1..(j - 1) BY <1>2, <1>3, <3>2
    <3> QED BY <1>2, <3>2, <3>3
  <2> QED BY <2>1, <2>2
<1>5. PICK m \in 0..n : behind = 1..m /\ \A i \in 1..n : i <= m <=> Elements(doc)[i].start < token.off
  BY <1>4
<1>6. Cardinality(behind) = m
  <2>1. Cardinality(1..m) = IF 1 > m THEN 0 ELSE m - 1 + 1 BY <1>2, FS_Interval
  <2> QED BY <1>2, <1>5, <2>1
<1>7. 1 + m \in 1..(n + 1) /\ \A i \in 1..n : i < 1 + m <=> i <= m BY <1>2
<1> QED BY <1>2, <1>5, <1>6, <1>7 DEF spans, behind, n

----------------------------------------------------------------------------
(* The scan *)

\* What is known of a scan does not depend on whether it was found changed.
LEMMA SameScan ==
  ASSUME NEW j, NEW jj, NEW sc, NEW ss, NEW cap,
         jj.token = j.token, jj.limit = j.limit, jj.len0 = j.len0, jj.session = j.session,
         ss.doc = sc.doc, ss.spans = sc.spans, ss.boundary = sc.boundary, ss.next = sc.next,
         ss.selected = sc.selected, ss.uninspected = sc.uninspected, ss.full = sc.full
  PROVE  /\ Reads(j, sc) => Reads(jj, ss)
         /\ Holds(j, sc, cap) => Holds(jj, ss, cap)
         /\ Ended(sc) => Ended(ss)
<1>1. Reads(j, sc) => Reads(jj, ss) BY DEF Reads
<1>2. Holds(j, sc, cap) => Holds(jj, ss, cap) BY DEF Holds
<1>3. Ended(sc) => Ended(ss) BY DEF Ended
<1> QED BY <1>1, <1>2, <1>3

\* A reader that opens the document the invocation first saw begins at its token.
LEMMA OpeningHolds ==
  ASSUME ScannerExact, TypeInv, RunInv, BeginInv, OpenReader, Same, Opened[file.doc].ok
  PROVE  /\ Reads(job', scan') /\ Resumable(job'.token, scan'.doc, CapOf(client'))
         /\ Holds(job', scan', CapOf(client'))
<1> DEFINE doc == file.doc
           spans == Opened[doc].spans
           next == 1 + Cardinality({i \in DOMAIN spans : spans[i].start < job.token.off})
           boundary == IF EffectiveEnd < Length(doc) THEN EffectiveEnd ELSE Length(doc)
<1>1. pc = "open" /\ doc \in Documents /\ job \in JobType BY DEF OpenReader, TypeInv, FileType
<1>2. /\ scan' = [NoScan EXCEPT !.doc = doc, !.spans = spans, !.boundary = boundary, !.next = next]
      /\ job' = job /\ client' = client
  BY DEF OpenReader, To
<1>3. /\ job.token = client.token /\ job.len0 = Length(doc)
      /\ job.session = Opened[doc].session /\ Resumable(job.token, doc, CapOf(client))
      /\ job.token.kind = "none" => job.token.off = 0
  BY <1>1 DEF RunInv, Running, BeginInv
<1>4. boundary = Length(doc)
  <2>1. EffectiveEnd = Length(doc) BY <1>3 DEF EffectiveEnd, Resumable
  <2> QED BY <2>1
<1>5. /\ next \in 1..(Len(Elements(doc)) + 1)
      /\ \A i \in DOMAIN Elements(doc) : i < next <=> Elements(doc)[i].start < job.token.off
  BY <1>1, <1>3, FirstSpan
<1> HIDE DEF next, boundary, spans, doc
<1>6. /\ scan'.doc = doc /\ scan'.spans = spans /\ scan'.boundary = boundary /\ scan'.next = next
      /\ scan'.selected = <<>> /\ scan'.uninspected = 0 /\ scan'.full = FALSE
  BY <1>2 DEF NoScan
<1>7. Reads(job', scan') BY <1>2, <1>3, <1>4, <1>6 DEF Reads, spans, doc
<1>8. Holds(job', scan', CapOf(client'))
  <2>1. /\ DOMAIN Elements(doc) = 1..Len(Elements(doc)) /\ Len(Elements(doc)) \in Nat
        /\ \A i \in DOMAIN Elements(doc) : Elements(doc)[i].start \in Nat
    BY <1>1, ElementFacts
  <2>2. job.token.off \in Int BY <1>1 DEF JobType, TokenType
  <2>3. \A i \in DOMAIN Elements(doc) : i >= next => Elements(doc)[i].start >= job.token.off
    BY <1>5, <2>1, <2>2
  <2>4. Whole(<<>>, doc, next, job.token.off, job.token.sub)
    <3>1. \A i, s : IsEvent(doc, i, s) /\ i < next => Prior(doc, i, s, job.token.off, job.token.sub)
      BY <1>5 DEF IsEvent, Prior
    <3>2. <<>> \in Seq(EventType) /\ DOMAIN <<>> = {} OBVIOUS
    <3> QED BY <3>1, <3>2 DEF Whole, InOrder
  <2>5. next <= Len(Elements(doc)) + 1 BY <1>5, <2>1
  <2> QED BY <1>2, <1>6, <2>3, <2>4, <2>5 DEF Holds
<1> QED BY <1>2, <1>3, <1>6, <1>7, <1>8

\* The next element: its events join the selection, or it is over the cap and ends the scan.
LEMMA ScanElementHolds ==
  ASSUME ScannerExact, TypeInv, RunInv, BeginInv, ScanElement,
         Reads(job, scan), Holds(job, scan, CapOf(client))
  PROVE  Reads(job', scan') /\ Holds(job', scan', CapOf(client')) /\ scan'.doc = scan.doc
<1> DEFINE doc == scan.doc
           next == scan.next
           off == job.token.off
           sub == job.token.sub
<1>1. /\ pc = "scan" /\ ~scan.full /\ next \in DOMAIN scan.spans /\ job' = job /\ client' = client
      /\ Current = scan.spans[next]
  BY DEF ScanElement, InSnapshot, To, Current
<1>2. scan \in ScanType /\ doc \in Documents /\ job \in JobType BY DEF TypeInv, ScanType
<1>3. Exact(doc, scan.spans) /\ Opened[doc].ok BY <1>2 DEF Reads, ScannerExact
<1>4. /\ next \in DOMAIN Elements(doc) /\ next \in Nat \ {0}
      /\ Current.start = Elements(doc)[next].start /\ Current.end = Elements(doc)[next].end
      /\ Current.line = Elements(doc)[next].line
      /\ Elements(doc)[next].parts = IF Current.scoped THEN Current.events ELSE 0
  BY <1>1, <1>2, <1>3 DEF Exact, Elements, ScanType
<1>5. /\ DOMAIN Elements(doc) = 1..Len(Elements(doc)) /\ Len(Elements(doc)) \in Nat
      /\ Elements(doc)[next].parts \in 0..2 /\ Elements(doc)[next].start \in Nat
  BY <1>2, <1>4, ElementFacts
<1>6. /\ next <= Len(Elements(doc)) + 1 /\ scan.uninspected = 0
      /\ \A i \in DOMAIN Elements(doc) : i >= next => Elements(doc)[i].start >= off
      /\ Whole(scan.selected, doc, next, off, sub)
  BY <1>1 DEF Holds
<1>7. CASE Current.end - Current.start > Cap
  <2>1. scan' = [scan EXCEPT !.uninspected = next, !.full = TRUE] BY <1>7 DEF ScanElement
  <2>2. /\ scan'.doc = doc /\ scan'.spans = scan.spans /\ scan'.boundary = scan.boundary
        /\ scan'.next = next /\ scan'.selected = scan.selected /\ scan'.uninspected = next
        /\ scan'.full = TRUE
    BY <1>2, <2>1 DEF ScanType
  <2>3. next # 0 /\ Elements(doc)[next].end - Elements(doc)[next].start > CapOf(client)
    BY <1>4, <1>7 DEF Cap, CapOf
  <2>4. Reads(job', scan') BY <1>1, <2>2 DEF Reads
  <2> HIDE DEF doc, next, off, sub
  <2>5. Holds(job', scan', CapOf(client')) BY <1>1, <1>4, <1>6, <2>2, <2>3 DEF Holds, off, sub
  <2> QED BY <2>2, <2>4, <2>5 DEF doc
<1>8. CASE ~(Current.end - Current.start > Cap)
  <2> DEFINE all == scan.selected \o Events
  <2>1. scan' = [scan EXCEPT !.next = next + 1, !.selected = InWindow(all), !.full = Len(all) > SelectWindow]
    BY <1>8 DEF ScanElement
  <2>2. Whole(all, doc, next + 1, off, sub)
    <3> DEFINE parts == Elements(doc)[next].parts
               last == Current.events - Cardinality(Resumed)
               first == IF Current.scoped THEN last ELSE 0
    <3>1. /\ Events \in Seq(EventType)
          /\ Len(Events) = IF Current.scoped THEN Current.events - last ELSE 0
          /\ \A n \in DOMAIN Events :
               Events[n] = [doc |-> scan.doc, off |-> Current.start, sub |-> last + n - 1,
                            line |-> Current.line, session |-> job.session]
      BY <1>1, EventsOfElement
    <3>2. /\ last \in 0..Current.events
          /\ \A s \in 0..(Current.events - 1) :
               s >= last <=> (job.token.kind # "none" /\ Current.start = off => s >= sub)
      BY <1>1, ResumedAreLast
    <3>3. first \in 0..parts /\ Len(Events) = parts - first BY <1>4, <1>5, <3>1, <3>2
    <3>4. \A n \in DOMAIN Events : Events[n] = EventAt(doc, next, first + n - 1)
      <4> TAKE n \in DOMAIN Events
      <4>1. Current.scoped
        <5>1. Len(Events) # 0 BY <3>1, LenProperties
        <5> QED BY <3>1, <5>1
      <4>2. job.session = Opened[doc].session BY DEF Reads
      <4> QED BY <1>4, <3>1, <4>1, <4>2 DEF EventAt
    <3>5. \A s \in 0..(parts - 1) : s >= first <=> ~Prior(doc, next, s, off, sub)
      <4> TAKE s \in 0..(parts - 1)
      <4>1. Current.scoped /\ parts = Current.events BY <1>4, <1>5
      <4>2. s >= last <=> (job.token.kind # "none" /\ Current.start = off => s >= sub) BY <3>2, <4>1
      <4>3. Elements(doc)[next].start >= off /\ off \in Int /\ sub \in Nat
        BY <1>2, <1>4, <1>6 DEF JobType, TokenType
      <4>4. job.token.kind = "none" => sub = 0 BY <1>1 DEF RunInv, Running, BeginInv
      <4>5. Prior(doc, next, s, off, sub) <=> Current.start = off /\ s < sub
        BY <1>4, <1>5, <4>3 DEF Prior
      <4>6. s \in Nat BY <1>5
      <4> HIDE DEF sub, off, last, parts
      <4> QED BY <4>1, <4>2, <4>3, <4>4, <4>5, <4>6
    <3> HIDE DEF parts, last, first, off, sub, doc, next
    <3> QED BY <1>2, <1>4, <1>6, <3>1, <3>3, <3>4, <3>5, WholeGrows DEF parts
  <2>3. all \in Seq(EventType) /\ job.limit \in Nat BY <1>2, <2>2 DEF Whole, JobType
  <2>4. /\ Len(all) <= SelectWindow => InWindow(all) = all
        /\ Len(all) > SelectWindow =>
             /\ Len(InWindow(all)) = SelectWindow
             /\ \A k \in 1..SelectWindow : InWindow(all)[k] = all[k]
    BY <2>3, InWindowKeeps
  <2>5. Len(all) \in Nat /\ SelectWindow = job.limit + 1 BY <2>3, LenProperties DEF SelectWindow
  <2> HIDE DEF all, doc, next, off, sub
  <2>6. /\ scan'.doc = doc /\ scan'.spans = scan.spans /\ scan'.boundary = scan.boundary
        /\ scan'.next = next + 1 /\ scan'.selected = InWindow(all) /\ scan'.uninspected = 0
        /\ scan'.full <=> Len(all) > job.limit + 1
    BY <1>2, <1>6, <2>1, <2>5 DEF ScanType, doc
  <2>7. Reads(job', scan') BY <1>1, <2>6 DEF Reads, doc
  <2>8. Holds(job', scan', CapOf(client'))
    <3>1. next + 1 <= Len(Elements(doc)) + 1 BY <1>4, <1>5
    <3>2. \A i \in DOMAIN Elements(doc) : i >= next + 1 => Elements(doc)[i].start >= off
      BY <1>4, <1>5, <1>6
    <3>3. CASE Len(all) > job.limit + 1
      <4>1. scan'.full /\ Len(scan'.selected) = job.limit + 1
            /\ \A k \in 1..(job.limit + 1) : scan'.selected[k] = all[k]
        BY <2>4, <2>5, <2>6, <3>3
      <4> QED BY <1>1, <2>2, <2>6, <3>1, <3>2, <3>3, <4>1 DEF Holds, off, sub
    <3>4. CASE ~(Len(all) > job.limit + 1)
      <4>1. ~scan'.full /\ scan'.selected = all BY <2>3, <2>4, <2>5, <2>6, <3>4
      <4> QED BY <1>1, <2>2, <2>6, <3>1, <3>2, <4>1 DEF Holds, off, sub
    <3> QED BY <3>3, <3>4
  <2> QED BY <2>6, <2>7, <2>8 DEF doc
<1> QED BY <1>7, <1>8

\* Every scan that is not found changed has read the document its invocation first saw.
LEMMA ScanStep ==
  ASSUME ScannerExact, ~Growing
  PROVE  TypeInv /\ RunInv /\ BeginInv /\ ScanInv /\ [Next]_vars => ScanInv'
<1> SUFFICES ASSUME TypeInv, RunInv, BeginInv, ScanInv, [Next]_vars PROVE ScanInv' OBVIOUS
<1> DEFINE Known == /\ Reads(job, scan) /\ Resumable(job.token, scan.doc, CapOf(client))
                    /\ Holds(job, scan, CapOf(client))
<1>1. CASE UNCHANGED vars
  <2>1. Same' <=> Same BY <1>1 DEF vars, Same
  <2>2. Trusted' <=> Trusted BY <1>1, <2>1 DEF vars, Trusted
  <2> QED BY <1>1, <2>2 DEF vars, ScanInv, Reads, Resumable, Holds, CapOf, Ended
<1>2. CASE Rewrite
  <2>1. pc # "idle" => ~Same' BY <1>2, RewriteIsSeen DEF RunInv
  <2>2. UNCHANGED <<pc, job, scan, client>> BY <1>2 DEF Rewrite
  <2>3. Trusted' => Trusted BY <2>1, <2>2 DEF Trusted
  <2> QED BY <2>2, <2>3 DEF ScanInv, Reads, Resumable, Holds, CapOf, Ended
<1>3. CASE Start BY <1>3 DEF Start, ScanInv, Trusted
<1>4. CASE Render BY <1>4 DEF Render, ScanInv, Trusted
<1>5. CASE \E status \in Failures : Fail(status) BY <1>5 DEF Fail, ScanInv, Trusted
<1>6. CASE Step /\ Advance
  <2>1. /\ (Same' <=> Same) /\ UNCHANGED <<file, client>> /\ job'.token = job.token
        /\ job'.limit = job.limit /\ job'.len0 = job.len0 /\ pc # "idle"
    BY <1>6, AdvanceKeeps, StepsAdvance DEF Advance
  <2>2. CASE Probe \/ Identify \/ Discover \/ Validate
    <3>1. pc' \notin {"scan", "check", "recheck", "render"}
      <4>1. file.doc \in Documents BY DEF TypeInv, FileType
      <4> QED BY <2>2, <4>1, ProbedType DEF Probe, Identify, Discover, Validate, To, Fail
    <3> QED BY <3>1 DEF ScanInv, Trusted
  <2>3. CASE OpenReader
    <3>1. Opened[file.doc].ok /\ pc' = "scan" BY <1>6, <2>3 DEF OpenReader, Fail, Advance, To
    <3>2. Trusted' => Same BY <2>1, <3>1 DEF Trusted
    <3>3. Same => Known' BY <2>3, <3>1, OpeningHolds
    <3> HIDE DEF Known
    <3>4. Trusted' => Known' BY <3>2, <3>3
    <3> QED BY <3>1, <3>4 DEF ScanInv, Known
  <2>4. CASE ScanElement
    <3>1. pc = "scan" /\ pc' = "scan" BY <2>4 DEF ScanElement, To
    <3>2. Trusted' => Trusted BY <2>1, <3>1 DEF Trusted
    <3>3. Trusted => Known BY DEF ScanInv
    <3>4. Trusted => Reads(job', scan') /\ Holds(job', scan', CapOf(client')) /\ scan'.doc = scan.doc
      BY <2>4, <3>3, ScanElementHolds
    <3>5. Trusted => Resumable(job'.token, scan'.doc, CapOf(client')) BY <2>1, <3>3, <3>4 DEF Resumable, CapOf
    <3> QED BY <3>1, <3>2, <3>4, <3>5 DEF ScanInv
  <2>5. CASE ScanEnd
    <3>1. /\ pc = "scan" /\ pc' = "check" /\ scan' = scan /\ job' = job
          /\ scan.full \/ ~InSnapshot
      BY <2>5 DEF ScanEnd, To
    <3>2. Trusted' => Trusted BY <2>1, <3>1 DEF Trusted
    <3>3. Ended(scan') BY <3>1 DEF Ended, InSnapshot, Current
    <3> QED BY <2>1, <3>1, <3>2, <3>3 DEF ScanInv, Reads, Resumable, Holds, CapOf
  <2>6. CASE CheckSource
    <3>1. /\ pc \in {"check", "recheck"} /\ pc' = (IF pc = "check" THEN "recheck" ELSE "render")
          /\ job' = job /\ scan' = [scan EXCEPT !.changed = @ \/ SourceChange]
      BY <2>6 DEF CheckSource, To
    <3>2. /\ scan'.doc = scan.doc /\ scan'.spans = scan.spans /\ scan'.boundary = scan.boundary
          /\ scan'.next = scan.next /\ scan'.selected = scan.selected
          /\ scan'.uninspected = scan.uninspected /\ scan'.full = scan.full
          /\ scan'.changed = (scan.changed \/ SourceChange)
      <4>1. scan \in ScanType BY DEF TypeInv
      <4>2. \A changed : LET ss == [scan EXCEPT !.changed = changed] IN
              /\ ss.doc = scan.doc /\ ss.spans = scan.spans /\ ss.boundary = scan.boundary
              /\ ss.next = scan.next /\ ss.selected = scan.selected
              /\ ss.uninspected = scan.uninspected /\ ss.full = scan.full /\ ss.changed = changed
        BY <4>1 DEF ScanType
      <4>3. scan' = [scan EXCEPT !.changed = scan.changed \/ SourceChange] BY <3>1
      <4> QED BY <4>2, <4>3
    <3>3. ~Same => SourceChange BY <2>1 DEF RunInv, Running
    <3>4. Trusted' => Trusted BY <3>1, <3>2, <3>3 DEF Trusted
    <3>5. Ended(scan) BY <3>1 DEF ScanInv
    <3>6. /\ Reads(job, scan) => Reads(job', scan')
          /\ Holds(job, scan, CapOf(client)) => Holds(job', scan', CapOf(client))
          /\ Ended(scan')
      BY <3>1, <3>2, <3>5, SameScan
    <3> QED BY <2>1, <3>1, <3>2, <3>4, <3>6 DEF ScanInv, Resumable, CapOf
  <2> QED BY <1>6, <2>2, <2>3, <2>4, <2>5, <2>6 DEF Step
<1> QED BY <1>1, <1>2, <1>3, <1>4, <1>5, <1>6, StepsAdvance DEF Next, Query, Step

----------------------------------------------------------------------------
(* The response *)

\* A page behind what was shown: no event between them, none twice, and the order kept.
LEMMA ShownJoins ==
  ASSUME NEW doc \in Documents, NEW next, NEW off, NEW sub, NEW all, Whole(all, doc, next, off, sub),
         NEW n \in Nat, n <= Len(all), NEW sel \in Seq(EventType), n <= Len(sel),
         \A k \in 1..n : sel[k] = all[k], off \in Int, sub \in Nat,
         NEW before, Shows(before, doc, off, sub),
         NEW to, NEW upto, Leads(doc, off, sub, FirstOf(all, n), to, upto)
  PROVE  Shows(before \o SubSeq(sel, 1, n), doc, to, upto)
<1> DEFINE page == SubSeq(sel, 1, n)
           after == before \o page
           b == Len(before)
<1>1. /\ all \in Seq(EventType) /\ InOrder(all)
      /\ before \in Seq(EventType) /\ InOrder(before) /\ AllOf(before) = EventsBefore(doc, off, sub)
  BY DEF Whole, Shows
<1>2. /\ Len(all) \in Nat /\ DOMAIN all = 1..Len(all) /\ Len(sel) \in Nat
      /\ b \in Nat /\ DOMAIN before = 1..b
  BY <1>1, LenProperties
<1>3. \A i \in 1..n : sel[i] \in EventType BY <1>2, ElementOfSeq
<1>4. /\ page \in Seq(EventType) /\ Len(page) = IF 1 <= n THEN n - 1 + 1 ELSE 0
      /\ \A i \in 1..(n - 1 + 1) : page[i] = sel[1 + i - 1]
  BY <1>3, SubSeqProperties
<1>5. Len(page) = n /\ \A i \in 1..n : page[i] = all[i] BY <1>4
<1> HIDE DEF page
<1>6. /\ after \in Seq(EventType) /\ Len(after) = b + n
      /\ \A i \in 1..(b + n) : after[i] = IF i <= b THEN before[i] ELSE page[i - b]
  BY <1>1, <1>4, <1>5, ConcatProperties
<1>7. DOMAIN after = 1..(b + n) BY <1>6, LenProperties
<1> HIDE DEF after, b
<1>8. \A k \in 1..b : k \in DOMAIN after /\ after[k] = before[k] BY <1>2, <1>6, <1>7
<1>9. \A k \in 1..n : b + k \in DOMAIN after /\ after[b + k] = all[k]
  <2> TAKE k \in 1..n
  <2>1. b + k \in 1..(b + n) /\ ~(b + k <= b) /\ (b + k) - b = k BY <1>2
  <2> QED BY <1>5, <1>6, <1>7, <2>1
<1>10. ASSUME NEW k \in DOMAIN after
       PROVE  (k \in 1..b /\ after[k] = before[k])
              \/ (k > b /\ k - b \in 1..n /\ after[k] = all[k - b])
  <2>1. k \in 1..(b + n) BY <1>7
  <2>2. CASE k <= b BY <1>2, <1>6, <2>1, <2>2
  <2>3. CASE k > b
    <3>1. k - b \in 1..n BY <1>2, <2>1, <2>3
    <3> QED BY <1>2, <1>5, <1>6, <2>1, <2>3, <3>1
  <2> QED BY <1>2, <2>1, <2>2, <2>3
<1>11. {after[k] : k \in DOMAIN after} = {before[k] : k \in DOMAIN before} \cup {all[k] : k \in 1..n}
  <2>1. ASSUME NEW k \in DOMAIN after
        PROVE  after[k] \in {before[m] : m \in DOMAIN before} \cup {all[m] : m \in 1..n}
    BY <1>2, <1>10
  <2>2. ASSUME NEW k \in DOMAIN before PROVE before[k] \in {after[m] : m \in DOMAIN after}
    <3>1. k \in DOMAIN after /\ after[k] = before[k] BY <1>2, <1>8
    <3> QED BY <3>1
  <2>3. ASSUME NEW k \in 1..n PROVE all[k] \in {after[m] : m \in DOMAIN after}
    <3>1. b + k \in DOMAIN after /\ after[b + k] = all[k] BY <1>9
    <3> QED BY <3>1
  <2> QED BY <2>1, <2>2, <2>3
<1>12. ASSUME NEW k \in DOMAIN after, NEW l \in DOMAIN after, k < l
       PROVE  Before(after[k], after[l])
  <2>1. k \in Nat /\ l \in Nat BY <1>2, <1>7
  <2>2. CASE l \in 1..b
    <3>1. k \in 1..b BY <1>2, <1>10, <1>12, <2>1, <2>2
    <3> QED BY <1>1, <1>2, <1>8, <1>12, <2>2, <3>1 DEF InOrder
  <2>3. CASE k \in 1..b /\ l > b
    <3>1. after[k] = before[k] /\ after[l] = all[l - b] /\ l - b \in DOMAIN all
      BY <1>2, <1>8, <1>10, <2>1, <2>3
    <3>2. before[k] \in EventsBefore(doc, off, sub) BY <1>1, <1>2, <2>3 DEF AllOf
    <3>3. PICK i, s : IsEvent(doc, i, s) /\ Prior(doc, i, s, off, sub) /\ before[k] = EventAt(doc, i, s)
      BY <3>2, InEventsBefore
    <3>4. PICK j, r : IsEvent(doc, j, r) /\ ~Prior(doc, j, r, off, sub) /\ all[l - b] = EventAt(doc, j, r)
      BY <3>1 DEF Whole
    <3>5. /\ Elements(doc)[i].start \in Nat /\ Elements(doc)[j].start \in Nat /\ s \in Nat /\ r \in Nat
      BY <3>3, <3>4, ElementFacts DEF IsEvent
    <3>6. Prior(doc, i, s, Elements(doc)[j].start, r) BY <3>3, <3>4, <3>5 DEF Prior
    <3> QED BY <3>1, <3>3, <3>4, <3>6, EventOrder
  <2>4. CASE k > b
    <3>1. /\ after[k] = all[k - b] /\ after[l] = all[l - b] /\ k - b \in 1..n /\ l - b \in 1..n
      BY <1>2, <1>10, <1>12, <2>1, <2>4
    <3>2. k - b < l - b BY <1>2, <1>12, <2>1
    <3> QED BY <1>1, <1>2, <3>1, <3>2 DEF InOrder
  <2> QED BY <1>2, <1>10, <2>1, <2>2, <2>3, <2>4
<1>13. InOrder(after) BY <1>12 DEF InOrder
<1>14. AllOf(after) = EventsBefore(doc, to, upto) BY <1>1, <1>11 DEF AllOf, FirstOf, Leads
<1>15. Shows(after, doc, to, upto) BY <1>6, <1>13, <1>14 DEF Shows
<1> QED BY <1>15 DEF after, page

\* What the client was shown before the invocation, as the events before its token.
LEMMA ShownBefore ==
  ASSUME TypeInv, RunInv, BeginInv, ShownInv, pc = "render", NEW doc \in Documents,
         Resumable(job.token, doc, CapOf(client))
  PROVE  Shows(shown, doc, job.token.off, job.token.sub)
<1>1. /\ job.token = client.token
      /\ client.token.kind = "none" => shown = <<>>
      /\ client.token.kind = "none" => client.token.off = 0 /\ client.token.sub = 0
  BY DEF RunInv, Running, BeginInv
<1>2. CASE client.token.kind = "none"
  <2>1. shown = <<>> /\ job.token.off = 0 /\ job.token.sub = 0 BY <1>1, <1>2
  <2>2. AllOf(shown) = {} BY <2>1 DEF AllOf
  <2> QED BY <2>1, <2>2, NothingBeforeTheFirst DEF TypeInv, ShownInv, Shows
<1>3. CASE client.token.kind # "none"
  <2>1. job.token.doc = doc BY <1>1, <1>3 DEF Resumable
  <2> QED BY <1>1, <1>3, <2>1 DEF TypeInv, ShownInv, Shows
<1> QED BY <1>2, <1>3

\* A trusted scan at its response: its selection is the beginning of a whole one, and when the
\* page shows all of it, nothing was cut off.
LEMMA RenderedScan ==
  ASSUME ScannerExact, TypeInv, RunInv, BeginInv, ScanInv, pc = "render", ~scan.changed,
         NEW n \in Pages
  PROVE  /\ n \in Nat /\ n <= Len(scan.selected) /\ Len(scan.selected) \in Nat
         /\ \E all :
              /\ Whole(all, scan.doc, scan.next, job.token.off, job.token.sub)
              /\ Len(scan.selected) <= Len(all)
              /\ \A k \in 1..Len(scan.selected) : scan.selected[k] = all[k]
              /\ n = Len(scan.selected) =>
                   /\ Len(all) = n
                   /\ scan.uninspected = 0 => scan.next = Len(Elements(scan.doc)) + 1
<1>1. /\ Reads(job, scan) /\ Holds(job, scan, CapOf(client)) /\ Ended(scan) BY DEF ScanInv, Trusted
<1>2. scan \in ScanType /\ job.limit \in Nat BY DEF TypeInv, JobType
<1>3. Len(scan.selected) \in Nat BY <1>2, LenProperties DEF ScanType
<1>4. n \in Nat /\ n <= Len(scan.selected) /\ n <= job.limit BY <1>2, <1>3 DEF Pages
<1>5. CASE scan.full /\ scan.uninspected = 0
  <2>1. PICK all : /\ Whole(all, scan.doc, scan.next, job.token.off, job.token.sub)
                   /\ Len(all) > job.limit + 1 /\ Len(scan.selected) = job.limit + 1
                   /\ \A k \in 1..(job.limit + 1) : scan.selected[k] = all[k]
    BY <1>1, <1>5 DEF Holds
  <2>2. Len(all) \in Nat BY <2>1, LenProperties DEF Whole
  <2>3. n # Len(scan.selected) /\ Len(scan.selected) <= Len(all) BY <1>2, <1>4, <2>1, <2>2
  <2> QED BY <1>3, <1>4, <2>1, <2>3
<1>6. CASE ~(scan.full /\ scan.uninspected = 0)
  <2>1. Whole(scan.selected, scan.doc, scan.next, job.token.off, job.token.sub) BY <1>1, <1>6 DEF Holds
  <2>2. scan.uninspected = 0 => scan.next = Len(Elements(scan.doc)) + 1
    <3>1. SUFFICES ASSUME scan.uninspected = 0 PROVE scan.next = Len(Elements(scan.doc)) + 1 OBVIOUS
    <3>2. ~(scan.next \in DOMAIN scan.spans /\ scan.spans[scan.next].end <= scan.boundary)
      BY <1>1, <1>6, <3>1 DEF Ended
    <3>3. scan.doc \in Documents /\ scan.next \in Nat \ {0} BY <1>2 DEF ScanType
    <3>4. Exact(scan.doc, scan.spans) /\ scan.boundary = Length(scan.doc)
      BY <1>1, <3>3 DEF Reads, ScannerExact
    <3>5. scan.next \notin DOMAIN Elements(scan.doc)
      BY <3>2, <3>3, <3>4, ElementFacts DEF Exact, Elements
    <3>6. scan.next <= Len(Elements(scan.doc)) + 1 BY <1>1 DEF Holds
    <3> QED BY <3>3, <3>5, <3>6, ElementFacts
  <2> QED BY <1>3, <1>4, <2>1, <2>2
<1> QED BY <1>4, <1>3, <1>5, <1>6

\* A response, by the number of events it shows.
LEMMA ResponseIs ==
  ASSUME Render
  PROVE  \E n \in Pages :
           /\ shown' = IF scan.changed THEN <<>> ELSE shown \o SubSeq(scan.selected, 1, n)
           /\ client'.token = NextToken(n)
           /\ answer' = [status |-> IF scan.changed \/ scan.uninspected # 0 THEN "partial" ELSE "ok",
                         exhausted |-> n = Len(scan.selected) /\ scan.uninspected = 0]
BY DEF Render

\* The response shows a part of the selection, and its cursor stands where that part ends;
\* without a cursor the document was shown to its end.
LEMMA RenderPlace ==
  ASSUME ScannerExact, TypeInv, RunInv, BeginInv, ScanInv, ShownInv, Render, ~scan.changed
  PROVE  \E to \in Nat, upto \in Nat :
           /\ Shows(shown', scan.doc, to, upto)
           /\ client'.token.kind # "none" =>
                client'.token.doc = scan.doc /\ client'.token.off = to /\ client'.token.sub = upto
           /\ client'.token.kind = "none" => to = Length(scan.doc) /\ upto = 0
           /\ answer'.status = "ok" /\ answer'.exhausted => client'.token.kind = "none"
<1>1. PICK n \in Pages :
        /\ shown' = IF scan.changed THEN <<>> ELSE shown \o SubSeq(scan.selected, 1, n)
        /\ client'.token = NextToken(n)
        /\ answer' = [status |-> IF scan.changed \/ scan.uninspected # 0 THEN "partial" ELSE "ok",
                      exhausted |-> n = Len(scan.selected) /\ scan.uninspected = 0]
  BY ResponseIs
<1>2. pc = "render" BY DEF Render
<1>3. NoToken.kind = "none" BY DEF NoToken
<1>4. /\ answer'.status = "ok" => ~scan.changed /\ scan.uninspected = 0
      /\ answer'.exhausted => n = Len(scan.selected) /\ scan.uninspected = 0
  BY <1>1
<1>6. ~scan.changed OBVIOUS
<1>7. \E to \in Nat, upto \in Nat :
        /\ Shows(shown', scan.doc, to, upto)
        /\ client'.token.kind # "none" =>
             client'.token.doc = scan.doc /\ client'.token.off = to /\ client'.token.sub = upto
        /\ client'.token.kind = "none" => to = Length(scan.doc) /\ upto = 0
        /\ answer'.status = "ok" /\ answer'.exhausted => client'.token.kind = "none"
  <2> DEFINE doc == scan.doc
             next == scan.next
             off == job.token.off
             sub == job.token.sub
             sel == scan.selected
  <2>1. /\ doc \in Documents /\ next \in Nat /\ off \in Int /\ sub \in Nat /\ sel \in Seq(EventType)
    BY DEF TypeInv, ScanType, JobType, TokenType
  <2>2. /\ Reads(job, scan) /\ Resumable(job.token, doc, CapOf(client))
        /\ Holds(job, scan, CapOf(client))
    BY <1>2, <1>6 DEF ScanInv, Trusted
  <2>3. n \in Nat /\ n <= Len(sel) /\ Len(sel) \in Nat BY <1>2, <1>6, RenderedScan
  <2>4. PICK all :
          /\ Whole(all, doc, next, off, sub)
          /\ Len(sel) <= Len(all)
          /\ \A k \in 1..Len(sel) : sel[k] = all[k]
          /\ n = Len(sel) =>
               /\ Len(all) = n
               /\ scan.uninspected = 0 => next = Len(Elements(doc)) + 1
    BY <1>2, <1>6, RenderedScan
  <2> HIDE DEF doc, next, off, sub, sel
  <2>5. /\ Whole(all, doc, next, off, sub)
        /\ Len(all) \in Nat /\ DOMAIN all = 1..Len(all)
    BY <2>4, LenProperties DEF Whole
  <2>6. Len(sel) <= Len(all) /\ \A k \in 1..Len(sel) : sel[k] = all[k] BY <2>4
  <2>7. /\ n <= Len(all) /\ \A k \in 1..n : sel[k] = all[k] BY <2>3, <2>5, <2>6
  <2>8. Shows(shown, doc, off, sub) BY <1>2, <2>1, <2>2, ShownBefore DEF off, sub
  <2>9. shown' = shown \o SubSeq(sel, 1, n) BY <1>1, <1>6 DEF sel
  <2>10. ASSUME NEW to, NEW upto, Leads(doc, off, sub, FirstOf(all, n), to, upto)
         PROVE  Shows(shown', doc, to, upto)
    <3>1. Shows(shown \o SubSeq(sel, 1, n), doc, to, upto)
      BY <2>1, <2>3, <2>5, <2>7, <2>8, <2>10, ShownJoins
    <3> QED BY <2>9, <3>1
  <2>11. CASE n < Len(sel)
    <3> DEFINE after == sel[n + 1]
    <3>1. client'.token = PageCursor("page", after.off, after.sub, after.line)
      BY <1>1, <1>6, <2>11 DEF NextToken, sel
    <3>2. /\ client'.token.kind # "none" /\ client'.token.doc = doc
          /\ client'.token.off = after.off /\ client'.token.sub = after.sub
      BY <3>1 DEF PageCursor, doc
    <3>3. n + 1 \in 1..Len(sel) /\ n < Len(all) BY <2>3, <2>5, <2>6, <2>11
    <3>4. after = all[n + 1] BY <2>6, <3>3
    <3>5. Leads(doc, off, sub, FirstOf(all, n), all[n + 1].off, all[n + 1].sub)
      BY <2>1, <2>3, <2>5, <3>3, WholeUpTo
    <3>6. ~answer'.exhausted BY <1>4, <2>3, <2>11 DEF sel
    <3>7. after.off \in Nat /\ after.sub \in Nat
      <4>1. n + 1 \in DOMAIN all BY <2>3, <2>5, <3>3
      <4>2. PICK i, s : IsEvent(doc, i, s) /\ all[n + 1] = EventAt(doc, i, s)
        BY <2>5, <4>1 DEF Whole
      <4> QED BY <2>1, <3>4, <4>2, ElementFacts DEF IsEvent, EventAt
    <3> HIDE DEF after
    <3>8. Shows(shown', doc, after.off, after.sub) BY <2>10, <3>4, <3>5
    <3> QED BY <3>2, <3>6, <3>7, <3>8 DEF doc
  <2>12. CASE n = Len(sel)
    <3>1. AllOf(all) = FirstOf(all, n)
      <4>1. DOMAIN all = 1..n BY <2>4, <2>5, <2>12
      <4> QED BY <4>1 DEF AllOf, FirstOf
    <3>2. ~(n < Len(sel)) BY <2>3, <2>12
    <3>3. job.token.kind = "none" => off = 0 /\ sub = 0
      BY <1>2 DEF RunInv, Running, BeginInv, off, sub
    <3>4. /\ DOMAIN Elements(doc) = 1..Len(Elements(doc)) /\ Len(Elements(doc)) \in Nat
          /\ Length(doc) \in Nat
          /\ \A i \in DOMAIN Elements(doc) :
               /\ Elements(doc)[i].start \in Nat /\ Elements(doc)[i].end \in Nat
               /\ Elements(doc)[i].start < Elements(doc)[i].end
               /\ Elements(doc)[i].end <= Length(doc)
      BY <2>1, ElementFacts
    <3>5. job.token.kind # "none" =>
            \E i \in DOMAIN Elements(doc) :
              /\ Elements(doc)[i].start = off
              /\ Elements(doc)[i].end - Elements(doc)[i].start <= CapOf(client)
      BY <2>2 DEF Resumable, off
    <3>6. CASE scan.uninspected = 0
      <4>1. next = Len(Elements(doc)) + 1 BY <2>4, <2>12, <3>6
      <4>2. \A i \in DOMAIN Elements(doc) : i < next <=> Elements(doc)[i].start < Length(doc)
        BY <3>4, <4>1
      <4>3. off < Length(doc) \/ (off = Length(doc) /\ sub = 0)
        <5>1. CASE job.token.kind = "none" BY <3>3, <3>4, <5>1
        <5>2. CASE job.token.kind # "none" BY <3>4, <3>5, <5>2
        <5> QED BY <5>1, <5>2
      <4>4. Leads(doc, off, sub, AllOf(all), Length(doc), 0)
        BY <2>1, <2>5, <3>4, <4>2, <4>3, WholeOfAll
      <4>5. client'.token = NoToken BY <1>1, <1>6, <3>2, <3>6 DEF NextToken, sel
      <4>6. Shows(shown', doc, Length(doc), 0) BY <2>10, <3>1, <4>4
      <4> QED BY <1>3, <3>4, <4>5, <4>6 DEF doc
    <3>7. CASE scan.uninspected # 0
      <4>1. /\ scan.uninspected = next /\ next \in DOMAIN Elements(doc)
            /\ Elements(doc)[next].end - Elements(doc)[next].start > CapOf(client)
            /\ \A i \in DOMAIN Elements(doc) : i >= next => Elements(doc)[i].start >= off
        BY <2>2, <3>7 DEF Holds, doc, next, off
      <4> DEFINE start == Elements(doc)[next].start
      <4>2. start = scan.spans[scan.uninspected].start
        <5>1. Exact(doc, scan.spans) BY <2>1, <2>2 DEF Reads, ScannerExact, doc
        <5> QED BY <4>1, <5>1 DEF Exact, Elements
      <4>3. client'.token = PageCursor("retry", start, 0, scan.spans[scan.uninspected].line)
        BY <1>1, <1>6, <3>2, <3>7, <4>2 DEF NextToken, sel
      <4>4. /\ client'.token.kind # "none" /\ client'.token.doc = doc
            /\ client'.token.off = start /\ client'.token.sub = 0
        BY <4>3 DEF PageCursor, doc
      <4>5. \A i \in DOMAIN Elements(doc) : i < next <=> Elements(doc)[i].start < start
        <5> TAKE i \in DOMAIN Elements(doc)
        <5>1. /\ i < next => Elements(doc)[i].start < Elements(doc)[next].start
              /\ next < i => Elements(doc)[next].start < Elements(doc)[i].start
          BY <2>1, <4>1, ElementFacts
        <5> QED BY <3>4, <4>1, <5>1
      <4>6. start >= off /\ start \in Nat BY <2>1, <3>4, <4>1
      <4>7. off < start \/ (off = start /\ sub = 0)
        <5>1. CASE job.token.kind = "none" BY <3>3, <4>6, <5>1
        <5>2. CASE job.token.kind # "none"
          <6>1. PICK i \in DOMAIN Elements(doc) :
                  /\ Elements(doc)[i].start = off
                  /\ Elements(doc)[i].end - Elements(doc)[i].start <= CapOf(client)
            BY <3>5, <5>2
          <6>2. i # next
            <7>1. CapOf(client) \in Nat BY PagesAssumption DEF CapOf
            <7> QED BY <3>4, <4>1, <6>1, <7>1
          <6>3. /\ i < next => Elements(doc)[i].start < Elements(doc)[next].start
                /\ next < i => Elements(doc)[next].start < Elements(doc)[i].start
            BY <2>1, <4>1, ElementFacts
          <6> QED BY <2>1, <3>4, <4>1, <4>6, <6>1, <6>2, <6>3
        <5> QED BY <5>1, <5>2
      <4>8. Leads(doc, off, sub, AllOf(all), start, 0)
        BY <2>1, <2>5, <4>5, <4>6, <4>7, WholeOfAll
      <4>9. ~(answer'.status = "ok") BY <1>4, <3>7
      <4> HIDE DEF start
      <4>10. Shows(shown', doc, start, 0) BY <2>10, <3>1, <4>8
      <4> QED BY <4>4, <4>6, <4>9, <4>10 DEF doc
    <3> QED BY <3>6, <3>7
  <2> QED BY <2>3, <2>11, <2>12
<1> QED BY <1>7

\* The position of the cursor and what was shown fit together.
LEMMA RenderShows ==
  ASSUME ScannerExact, TypeInv, RunInv, BeginInv, ScanInv, ShownInv, Render
  PROVE  ShownInv'
<1>1. CASE scan.changed
  <2>1. client'.token = NoToken /\ shown' = <<>> /\ answer'.status # "ok"
    BY <1>1 DEF Render, NextToken
  <2>2. InOrder(<<>>) BY DEF InOrder
  <2>3. NoToken.kind = "none" BY DEF NoToken
  <2> QED BY <2>1, <2>2, <2>3 DEF ShownInv
<1>2. CASE ~scan.changed
  <2> DEFINE doc == scan.doc
  <2>1. doc \in Documents BY DEF TypeInv, ScanType
  <2>2. PICK to \in Nat, upto \in Nat :
          /\ Shows(shown', doc, to, upto)
          /\ client'.token.kind # "none" =>
               client'.token.doc = doc /\ client'.token.off = to /\ client'.token.sub = upto
          /\ client'.token.kind = "none" => to = Length(doc) /\ upto = 0
          /\ answer'.status = "ok" /\ answer'.exhausted => client'.token.kind = "none"
    BY <1>2, RenderPlace
  <2> HIDE DEF doc
  <2>3. shown' \in Seq(EventType) /\ InOrder(shown') /\ AllOf(shown') = EventsBefore(doc, to, upto)
    BY <2>2 DEF Shows
  <2>4. shown' = <<>> \/ shown'[1].doc = doc
    <3>1. SUFFICES ASSUME shown' # <<>> PROVE shown'[1].doc = doc OBVIOUS
    <3>2. 1 \in DOMAIN shown' BY <2>3, <3>1, EmptySeq, LenProperties
    <3>3. shown'[1] \in EventsBefore(doc, to, upto) BY <2>3, <3>2 DEF AllOf
    <3>4. PICK i, s : shown'[1] = EventAt(doc, i, s) BY <2>1, <3>3, InEventsBefore
    <3> QED BY <3>4 DEF EventAt
  <2>5. answer'.status = "ok" /\ answer'.exhausted =>
          AllOf(shown') = EventsBefore(doc, Length(doc), 0)
    BY <2>2, <2>3
  <2> QED BY <2>1, <2>2, <2>3, <2>4, <2>5 DEF ShownInv
<1> QED BY <1>1, <1>2

\* Only a response changes what was shown, and a new beginning empties it.
LEMMA ShownStep ==
  ASSUME ScannerExact
  PROVE  TypeInv /\ RunInv /\ BeginInv /\ ScanInv /\ ShownInv /\ [Next]_vars => ShownInv'
<1> SUFFICES ASSUME TypeInv, RunInv, BeginInv, ScanInv, ShownInv, [Next]_vars PROVE ShownInv' OBVIOUS
<1>1. CASE UNCHANGED <<client, shown, answer>> BY <1>1 DEF ShownInv
<1>2. CASE UNCHANGED vars BY <1>1, <1>2 DEF vars
<1>3. CASE Rewrite BY <1>1, <1>3 DEF Rewrite
<1>4. CASE Start
  <2>1. /\ client' = client /\ answer' = NoAnswer
        /\ client.token.kind # "none" => shown' = shown
        /\ shown' = <<>> \/ shown' = shown
    BY <1>4 DEF Start
  <2>2. NoAnswer.status # "ok" BY DEF NoAnswer
  <2>3. InOrder(<<>>) BY DEF InOrder
  <2> QED BY <2>1, <2>2, <2>3 DEF ShownInv
<1>5. CASE \E status \in Failures : Fail(status)
  <2>1. PICK status \in Failures : Fail(status) BY <1>5
  <2>2. shown' = shown /\ answer'.status = status BY <2>1 DEF Fail, NoAnswer
  <2>3. status # "ok" BY DEF Failures
  <2>4. client'.token = client.token \/ client'.token = NoToken
    <3>1. client' = client \/ client' = [client EXCEPT !.token = NoToken] BY <2>1 DEF Fail
    <3> QED BY <3>1 DEF TypeInv, ClientType
  <2>5. NoToken.kind = "none" BY DEF NoToken
  <2> QED BY <2>2, <2>3, <2>4, <2>5 DEF ShownInv
<1>6. CASE Step /\ Advance BY <1>1, <1>6 DEF Advance
<1>7. CASE Render BY <1>7, RenderShows
<1> QED BY <1>2, <1>3, <1>4, <1>5, <1>6, <1>7, StepsAdvance DEF Next, Query, Step

\* Nothing was shown at the beginning.
LEMMA InitPages == Init => PagesInv
<1> SUFFICES ASSUME Init PROVE PagesInv OBVIOUS
<1>1. TypeInv BY InitTypes
<1>2. pc = "idle" /\ client.token = NoToken /\ shown = <<>> /\ answer = NoAnswer BY DEF Init
<1>3. NoToken.kind = "none" /\ NoToken.off = 0 /\ NoToken.sub = 0 /\ NoAnswer.status # "ok"
  BY DEF NoToken, NoAnswer
<1>4. InOrder(<<>>) BY DEF InOrder
<1> QED BY <1>1, <1>2, <1>3, <1>4 DEF PagesInv, RunInv, BeginInv, ScanInv, Trusted, ShownInv

\* When the scanner reads the documents it opens as they are, and no other process writes a longer
\* export in place while a query runs, a client that follows its page and retry cursors is shown
\* one document, never a mixture of two: each event before its position once, in order and under
\* the document's session id, and all of them when a response says ok and exhausted.  The export
\* may be replaced, cut or rewritten at its length at any moment, and grow between invocations
\* (runner.rs:861-1061, 1456-1500, 1923-1969).
THEOREM PagesShowOneDocument ==
  ASSUME ScannerExact, ~Growing
  PROVE  Spec => []PagesOfOneDocument
<1>1. PagesInv /\ [Next]_vars => PagesInv'
  BY NextTypes, RunStep, BeginStep, ScanStep, ShownStep DEF PagesInv
<1>2. PagesInv => PagesOfOneDocument
  BY DEF PagesInv, ShownInv, PagesOfOneDocument, AllOf, InOrder, Before
<1> QED BY InitPages, <1>1, <1>2, PTL DEF Spec

----------------------------------------------------------------------------
(* The client is fed as Feed promises *)

\* What is before a position of a document, shown in order, is a beginning of the document.
LEMMA ShowsBeginning ==
  ASSUME NEW doc \in Documents, NEW s, NEW to \in Nat, NEW upto \in Nat, Shows(s, doc, to, upto)
  PROVE  Feeds!Beginning(s, EventsOf[doc])
<1> DEFINE all == EventsBefore(doc, Length(doc), 0)
<1>1. EventsOf[doc] = all BY DEF EventsOf
<1>2. \A k \in DOMAIN s : s[k] \in EventsBefore(doc, to, upto) BY DEF Shows, AllOf
<1>3. \A i, r : IsEvent(doc, i, r) => Prior(doc, i, r, Length(doc), 0)
  BY ElementFacts DEF IsEvent, Prior
<1>4. ASSUME NEW k \in DOMAIN s PROVE s[k] \in all
  <2>1. PICK i, r : IsEvent(doc, i, r) /\ s[k] = EventAt(doc, i, r) BY <1>2, InEventsBefore
  <2> QED BY <1>3, <2>1, InEventsBefore
<1>5. ASSUME NEW k \in DOMAIN s, NEW e \in all, Before(e, s[k])
      PROVE  \E l \in DOMAIN s : s[l] = e
  <2>1. PICK i, r : IsEvent(doc, i, r) /\ Prior(doc, i, r, to, upto) /\ s[k] = EventAt(doc, i, r)
    BY <1>2, InEventsBefore
  <2>2. PICK j, q : IsEvent(doc, j, q) /\ e = EventAt(doc, j, q) BY InEventsBefore
  <2>3. Prior(doc, j, q, Elements(doc)[i].start, r) BY <1>5, <2>1, <2>2, EventOrder
  <2>4. /\ Elements(doc)[i].start \in Nat /\ Elements(doc)[j].start \in Nat
        /\ r \in Nat /\ q \in Nat
    BY <2>1, <2>2, ElementFacts DEF IsEvent
  <2>5. Prior(doc, j, q, to, upto) BY <2>1, <2>3, <2>4 DEF Prior
  <2>6. e \in EventsBefore(doc, to, upto) BY <2>2, <2>5, InEventsBefore
  <2> QED BY <2>6 DEF Shows, AllOf
<1> HIDE DEF all
<1>6. \A k, l \in DOMAIN s : k < l => Before(s[k], s[l]) BY DEF Shows, InOrder
<1> QED BY <1>1, <1>4, <1>5, <1>6 DEF Feeds!Beginning

\* What is put behind a sequence continues it.
LEMMA Joined ==
  ASSUME NEW s \in Seq(EventType), NEW t \in Seq(EventType), NEW n \in 0..Len(t)
  PROVE  Feeds!Continues(s \o SubSeq(t, 1, n), s)
<1> DEFINE page == SubSeq(t, 1, n)
           more == s \o page
<1>1. Len(t) \in Nat /\ n \in Nat /\ Len(s) \in Nat BY LenProperties
<1>2. \A i \in 1..n : t[i] \in EventType BY <1>1, ElementOfSeq
<1>3. page \in Seq(EventType) BY <1>1, <1>2, SubSeqProperties
<1> HIDE DEF page
<1>4. /\ more \in Seq(EventType) /\ Len(more) = Len(s) + Len(page) /\ Len(page) \in Nat
      /\ \A i \in 1..(Len(s) + Len(page)) : more[i] = IF i <= Len(s) THEN s[i] ELSE page[i - Len(s)]
  BY <1>3, ConcatProperties, LenProperties
<1> HIDE DEF more
<1>5. Len(s) <= Len(more) /\ \A i \in 1..Len(s) : more[i] = s[i] BY <1>1, <1>4
<1>6. \A i \in 1..Len(s) : more[i] \in EventType BY <1>1, <1>4, <1>5, ElementOfSeq
<1>7. /\ SubSeq(more, 1, Len(s)) \in Seq(EventType)
      /\ Len(SubSeq(more, 1, Len(s))) = Len(s)
      /\ \A i \in 1..Len(s) : SubSeq(more, 1, Len(s))[i] = more[i]
  BY <1>1, <1>6, SubSeqProperties
<1>8. SubSeq(more, 1, Len(s)) = s BY <1>5, <1>7, SeqEqual
<1> QED BY <1>5, <1>8 DEF Feeds!Continues, more, page

\* A response adds to what the client was shown of the document, or begins afresh.
LEMMA RenderFeeds ==
  ASSUME ScannerExact, PagesInv, Render
  PROVE  Feeds!Deliver \/ Feeds!BeginAfresh
<1>0. TypeInv /\ RunInv /\ BeginInv /\ ScanInv /\ ShownInv BY DEF PagesInv
<1>1. PICK n \in Pages :
        /\ shown' = IF scan.changed THEN <<>> ELSE shown \o SubSeq(scan.selected, 1, n)
        /\ client'.token = NextToken(n)
  BY DEF Render
<1>2. pc = "render" BY DEF Render
<1>3. EventsOf' = EventsOf BY DEF EventsOf, EventsBefore, Opened
<1>4. CASE scan.changed
  <2>1. client'.token = NoToken /\ shown' = <<>> BY <1>1, <1>4 DEF NextToken
  <2>2. Held' = {} BY <2>1 DEF Held, NoToken
  <2> QED BY <1>3, <2>1, <2>2 DEF Feeds!BeginAfresh
<1>5. CASE ~scan.changed
  <2> DEFINE doc == scan.doc
  <2>1. /\ doc \in Documents /\ scan.selected \in Seq(EventType) /\ shown \in Seq(EventType)
    BY <1>0 DEF TypeInv, ScanType
  <2>2. PICK to \in Nat, upto \in Nat :
          /\ Shows(shown', doc, to, upto)
          /\ client'.token.kind # "none" => client'.token.doc = doc
    BY <1>0, <1>5, RenderPlace
  <2>3. Feeds!Beginning(shown', EventsOf[doc]) BY <2>1, <2>2, ShowsBeginning
  <2>4. Feeds!Continues(shown', shown)
    <3>1. n \in 0..Len(scan.selected)
      <4>1. n \in Nat /\ n <= Len(scan.selected) /\ Len(scan.selected) \in Nat
        BY <1>0, <1>2, <1>5, RenderedScan
      <4> QED BY <4>1
    <3> QED BY <1>1, <1>5, <2>1, <3>1, Joined
  <2>5. Held = {doc} \/ (Held = {} /\ shown = <<>>)
    <3>1. Resumable(job.token, doc, CapOf(client)) BY <1>0, <1>2, <1>5 DEF ScanInv, Trusted
    <3>2. /\ job.token = client.token
          /\ client.token.kind = "none" => shown = <<>>
      BY <1>0, <1>2 DEF RunInv, Running
    <3> QED BY <3>1, <3>2 DEF Resumable, Held
  <2>6. Held' \in {{}, {doc}} BY <2>2 DEF Held
  <2> QED BY <1>3, <2>1, <2>3, <2>4, <2>5, <2>6 DEF Feeds!Deliver
<1> QED BY <1>4, <1>5

\* Every step is a step of Feed, or none.
LEMMA FeedStep ==
  ASSUME ScannerExact
  PROVE  PagesInv /\ [Next]_vars => [Feeds!Next]_(Feeds!vars)
<1> SUFFICES ASSUME PagesInv, [Next]_vars
             PROVE  Feeds!Next \/ UNCHANGED <<EventsOf, Held, shown>>
  BY DEF Feeds!vars
<1>1. EventsOf' = EventsOf BY DEF EventsOf, EventsBefore, Opened
<1>2. CASE UNCHANGED <<client, shown>> BY <1>1, <1>2 DEF Held
<1>3. CASE UNCHANGED vars BY <1>2, <1>3 DEF vars
<1>4. CASE Rewrite BY <1>2, <1>4 DEF Rewrite
<1>5. CASE Start
  <2>1. client' = client /\ shown' = IF client.token.kind = "none" THEN <<>> ELSE shown
    BY <1>5 DEF Start
  <2>2. CASE client.token.kind = "none"
    <3>1. Held' = {} /\ shown' = <<>> BY <2>1, <2>2 DEF Held
    <3> QED BY <1>1, <3>1 DEF Feeds!Next, Feeds!BeginAfresh
  <2>3. CASE client.token.kind # "none" BY <1>2, <2>1, <2>3
  <2> QED BY <2>2, <2>3
<1>6. CASE \E status \in Failures : Fail(status)
  <2>1. PICK status \in Failures : Fail(status) BY <1>6
  <2>2. shown' = shown BY <2>1 DEF Fail
  <2>3. CASE client' = client BY <1>2, <2>2, <2>3
  <2>4. CASE client' = [client EXCEPT !.token = NoToken]
    <3>1. client'.token = NoToken BY <2>4 DEF PagesInv, TypeInv, ClientType
    <3>2. Held' = {} BY <3>1 DEF Held, NoToken
    <3> QED BY <1>1, <2>2, <3>2 DEF Feeds!Next, Feeds!Lose
  <2> QED BY <2>1, <2>3, <2>4 DEF Fail
<1>7. CASE Step /\ Advance BY <1>2, <1>7 DEF Advance
<1>8. CASE Render BY <1>8, RenderFeeds DEF Feeds!Next
<1>9. TypeInv BY DEF PagesInv
<1> QED BY <1>3, <1>4, <1>5, <1>6, <1>7, <1>8, <1>9, StepsAdvance DEF Next, Query, Step

\* Under the same assumptions a client of an export is fed as Feed promises: it is shown a
\* beginning of one document's events, each response goes on where the last one ended, and a
\* document that took the place of the first is begun afresh (runner.rs:531-1544).
THEOREM ExportClientIsFed ==
  ASSUME ScannerExact, ~Growing
  PROVE  Spec => ImplementsFeed
<1>1. Init => PagesInv /\ Feeds!Init
  <2> SUFFICES ASSUME Init PROVE PagesInv /\ Feeds!Init OBVIOUS
  <2>1. client.token = NoToken /\ shown = <<>> BY DEF Init
  <2>2. Held = {} BY <2>1 DEF Held, NoToken
  <2>3. DOMAIN EventsOf = Documents BY DEF EventsOf
  <2> QED BY <2>1, <2>2, <2>3, InitPages DEF Feeds!Init
<1>2. PagesInv /\ [Next]_vars => PagesInv'
  BY NextTypes, RunStep, BeginStep, ScanStep, ShownStep DEF PagesInv
<1>3. PagesInv /\ [Next]_vars => [Feeds!Next]_(Feeds!vars) BY FeedStep
<1> QED BY <1>1, <1>2, <1>3, PTL DEF Spec, ImplementsFeed, Feeds!Spec
=============================================================================
