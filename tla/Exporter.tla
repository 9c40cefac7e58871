------------------------------- MODULE Exporter -------------------------------
(***************************************************************************)
(* The commands of src/runner.rs: an export reads a session log twice (to  *)
(* detect its format, then to convert it), cleans its events and writes up *)
(* to three files; install-skills writes one file per agent.  The log      *)
(* grows meanwhile, other processes work in the output directory, every    *)
(* system call may fail and the process may be killed.                     *)
(*                                                                         *)
(* Unlike the viewer's reader, for_each_jsonl_record reads to the end of   *)
(* the file as it finds it: a record caught half-written comes as two      *)
(* lines, neither of which parses.                                         *)
(***************************************************************************)
EXTENDS OutputFiles, Cleaner, FiniteSets

CONSTANTS Scenes,           \* the situations a behaviour may start from
          Appended,         \* records the agent may append
          MaxRecords,       \* bound on the records of the log
          MaxRuns,          \* bound on the commands, one after the other
          Sample            \* records detect_format looks at

ASSUME ExporterAssumption ==
  MaxRecords \in Nat /\ MaxRuns \in Nat /\ Sample \in Nat /\ Appended \subseteq Record

\* What a command line can say, and what a directory can hold before the first command: nothing
\* of that command; and an installation has no input.
ASSUME SceneAssumption ==
  \A s \in Scenes :
    /\ s.log \in Seq(Record) /\ Len(s.log) <= MaxRecords
    /\ s.request.command \in {"export", "install"}
    /\ s.request.todo \in Seq(Destinations) \ {<<>>}
    /\ s.request.command = "export" => /\ s.request.format \in Formats \cup {"auto"}
                                      /\ s.request.hint \in Formats \cup {"none"}
    /\ s.dir \in [Destinations -> Contents \ {"new", "part"}]
    /\ s.request.command = "install" => \A d \in Destinations : s.dir[d] # "input"
    /\ s.meddling \in 0..MaxMeddling /\ s.runs \in 0..MaxRuns

VARIABLES log,              \* the records of the session log
          tail,             \* how much of its last record is there: "front" (a part),
                            \* "all" (all but the newline), or "none" is missing
          request,          \* the command line
          job,              \* where the running command stands
          queue,            \* events of the current record not yet cleaned
          cleaner,          \* the Cleaner
          kept,             \* the events kept for the output
          got               \* history: the lines of the conversion that held a record

inputVars == <<log, tail>>
convertVars == <<queue, cleaner, kept, got>>
vars == <<outputVars, inputVars, request, job, convertVars>>

Running == {"detect", "convert", "prepare", "check", "gate", "create", "fill",
            "recheck", "persist", "report"}
Ended == {"idle", "done", "failed", "refused", "killed"}

Complete == IF tail = "none" THEN Len(log) ELSE Len(log) - 1

NoJob == [phase |-> "idle", runs |-> 0, kills |-> 0, pos |-> 0, mid |-> "none",
          seen |-> 0, hits |-> NoHits, format |-> "codex", synthesized |-> FALSE,
          at |-> 1, sampled |-> 0, opened |-> 0, begun |-> 0]

JobType ==
  [phase : Running \cup Ended, runs : 0..MaxRuns, kills : 0..MaxRuns,
   pos : 0..MaxRecords, mid : {"none", "front", "all"}, seen : 0..Sample,
   hits : [Formats -> 0..Sample], format : Formats, synthesized : BOOLEAN,
   at : Nat \ {0}, sampled : 0..MaxRecords, opened : 0..MaxRecords, begun : 0..MaxRecords]

Init ==
  /\ \E s \in Scenes :
       /\ log = s.log /\ tail = "none" /\ request = s.request
       /\ OutputInit(s.dir, s.meddling)
       /\ job = [NoJob EXCEPT !.runs = s.runs]
  /\ queue = <<>> /\ cleaner = NewCleaner /\ kept = <<>> /\ got = <<>>

----------------------------------------------------------------------------
(* The log grows under the command.  What is written once it has been read *)
(* is seen by nobody.                                                      *)

PastReading == job.phase \notin {"idle", "detect", "convert"}

AppendTo(t) ==
  /\ ~PastReading
  /\ tail = "none" /\ Len(log) < MaxRecords
  /\ \E r \in Appended : log' = Append(log, r)
  /\ tail' = t
  /\ UNCHANGED <<outputVars, request, job, convertVars>>

Continue ==
  /\ ~PastReading
  /\ tail # "none"
  /\ tail' = IF tail = "front" THEN "all" ELSE "none"
  /\ UNCHANGED <<outputVars, log, request, job, convertVars>>

Grow == AppendTo("front") \/ AppendTo("none") \/ Continue

----------------------------------------------------------------------------
(* for_each_jsonl_record_until: the lines of the file. *)

Line(what, pos, mid) == [what |-> what, pos |-> pos, mid |-> mid]

\* Mutant of NextLine: a last line without its newline is left out.
NextLineComplete ==
  IF job.pos < Complete THEN Line("whole", job.pos + 1, "none") ELSE Line("end", job.pos, "none")

\* What read_until returns: up to a newline, or what there is of the last record.
NextLine ==
  LET n == job.pos + 1 IN
  IF n <= Complete
  THEN Line(IF job.mid = "none" THEN "whole" ELSE IF job.mid = "front" THEN "rest" ELSE "blank",
            n, "none")
  ELSE IF n > Len(log) \/ job.mid = tail
  THEN Line("end", job.pos, job.mid)
  ELSE Line(IF job.mid = "front" THEN "rest" ELSE IF tail = "all" THEN "whole" ELSE "front",
            job.pos, tail)

\* parse_record: neither part of a split record is JSON.
RecordOf(what, n) ==
  IF what = "whole" THEN log[n] ELSE [agent |-> "none", form |-> "bad", body |-> NoBody]

\* A file is opened: the next line is its first.
OpenLog(j) == [j EXCEPT !.pos = 0, !.mid = "none"]

OpenConversion(j) == [OpenLog(j) EXCEPT !.phase = "convert", !.opened = Complete, !.begun = Len(log)]

----------------------------------------------------------------------------
(* run *)

NewJob == [NoJob EXCEPT !.runs = job.runs + 1, !.kills = job.kills]

Start ==
  /\ job.phase \in Ended /\ job.runs < MaxRuns
  /\ \/ /\ request.command = "install"
        /\ job' = [NewJob EXCEPT !.phase = "gate"]
     \/ /\ request.command = "export" /\ request.format = "auto"
        /\ job' = [NewJob EXCEPT !.phase = "detect", !.sampled = Complete]
     \/ /\ request.command = "export" /\ request.format # "auto"
        /\ job' = OpenConversion([NewJob EXCEPT !.format = request.format])
  /\ queue' = <<>> /\ cleaner' = NewCleaner /\ kept' = <<>> /\ got' = <<>>
  /\ Settle
  /\ UNCHANGED <<inputVars, request>>

\* The pass stops at the end of the file or at the record after the sample.
SampleTaken(line) == line.what = "end" \/ (line.what # "blank" /\ job.seen >= Sample)

DetectLine ==
  /\ job.phase = "detect"
  /\ LET line == NextLine
         moved == [job EXCEPT !.pos = line.pos, !.mid = line.mid]
     IN \/ /\ SampleTaken(line)
           /\ job' = OpenConversion([job EXCEPT !.format = Verdict(job.hits, request.hint)])
        \/ /\ ~SampleTaken(line) /\ line.what = "blank"
           /\ job' = moved
        \/ /\ ~SampleTaken(line) /\ line.what # "blank"
           /\ job' = [moved EXCEPT !.seen = @ + 1,
                                   !.hits = Hit(@, RecordOf(line.what, job.pos + 1))]
  /\ UNCHANGED <<outputVars, inputVars, request, convertVars>>

\* The callback: the session event is synthesized once, before the record's own events.
ConvertLine ==
  /\ job.phase = "convert" /\ queue = <<>>
  /\ LET line == NextLine
         r == RecordOf(line.what, job.pos + 1)
         session == ~job.synthesized /\ Synthesizes(r, job.format)
     IN /\ line.what \notin {"end", "blank"}
        /\ job' = [job EXCEPT !.pos = line.pos, !.mid = line.mid, !.synthesized = @ \/ session]
        /\ queue' = (IF session THEN <<Event("session", NoBody)>> ELSE <<>>)
                    \o Classify(r, job.format)
        /\ got' = Append(got, [what |-> line.what, rec |-> job.pos + 1])
  /\ UNCHANGED <<outputVars, inputVars, request, cleaner, kept>>

ConvertBlank ==
  /\ job.phase = "convert" /\ queue = <<>>
  /\ NextLine.what = "blank"
  /\ job' = [job EXCEPT !.pos = NextLine.pos, !.mid = NextLine.mid]
  /\ UNCHANGED <<outputVars, inputVars, request, convertVars>>

\* Mutant of ConvertEnd: the end of the file waits for the rest of a record.
ConvertEndWhole ==
  /\ job.phase = "convert" /\ queue = <<>>
  /\ NextLine.what = "end" /\ job.mid # "front"
  /\ job' = [job EXCEPT !.phase = IF request.stats THEN "done" ELSE "prepare"]
  /\ UNCHANGED <<outputVars, inputVars, request, convertVars>>

ConvertEnd ==
  /\ job.phase = "convert" /\ queue = <<>>
  /\ NextLine.what = "end"
  /\ job' = [job EXCEPT !.phase = IF request.stats THEN "done" ELSE "prepare"]
  /\ UNCHANGED <<outputVars, inputVars, request, convertVars>>

\* Cleaner::accept of one event.
Accept ==
  /\ job.phase = "convert" /\ queue # <<>>
  /\ queue' = Tail(queue)
  /\ LET e == Truncated(Head(queue), request.cut)
         keeps == e.kind \in KeepSet(job.format, request.channel)
     IN /\ kept' = IF keeps /\ ~Repeated(cleaner, e, request.dedup) THEN Append(kept, e) ELSE kept
        /\ cleaner' = IF keeps THEN Noted(cleaner, e, request.dedup) ELSE cleaner
  /\ UNCHANGED <<outputVars, inputVars, request, job, got>>

----------------------------------------------------------------------------
(* The outputs, and install_skills. *)

Goto(phase) == job' = [job EXCEPT !.phase = phase]

Destination == request.todo[job.at]

Quiet == UNCHANGED <<outputVars, inputVars, request, convertVars>>

\* create_dir_all of the output directory.
Prepare == job.phase = "prepare" /\ Goto("check") /\ Quiet

\* Mutant of CheckDestination: the writes begin at the destination checked last.
CheckDestinationKeeping ==
  /\ job.phase = "check"
  /\ IF ~WritableBesideInput(Destination) THEN Goto("refused")
     ELSE job' = IF job.at < Len(request.todo) THEN [job EXCEPT !.at = @ + 1]
                 ELSE [job EXCEPT !.phase = "create"]
  /\ Quiet

\* Every destination is checked before the first is written.
CheckDestination ==
  /\ job.phase = "check"
  /\ IF ~WritableBesideInput(Destination) THEN Goto("refused")
     ELSE job' = IF job.at < Len(request.todo) THEN [job EXCEPT !.at = @ + 1]
                 ELSE [job EXCEPT !.phase = "create", !.at = 1]
  /\ Quiet

\* Mutant of NextDestination: each destination is checked when its turn comes.
NextDestinationChecking ==
  IF job.at < Len(request.todo)
  THEN [job EXCEPT !.at = @ + 1, !.phase = IF request.command = "install" THEN "gate" ELSE "check"]
  ELSE [job EXCEPT !.phase = IF request.command = "install" THEN "done" ELSE "report"]

\* The next destination: of an export the next write, of an installation the next agent.
NextDestination ==
  IF job.at < Len(request.todo)
  THEN [job EXCEPT !.at = @ + 1, !.phase = IF request.command = "install" THEN "gate" ELSE "create"]
  ELSE [job EXCEPT !.phase = IF request.command = "install" THEN "done" ELSE "report"]

\* Mutant of KeepsInstalled: naming the agent counts as --force.
KeepsInstalledUnnamed(d) == dir[d] # "absent" /\ ~request.force /\ ~request.explicit

KeepsInstalled(d) == dir[d] # "absent" /\ ~request.force

\* install_skills, before the write: what is skipped, refused and created.
Gate ==
  /\ job.phase = "gate"
  /\ LET absent == request.home[Destination] = "missing" /\ ~request.explicit
         refused == request.home[Destination] = "linked" \/ ~Writable(Destination)
         stays == KeepsInstalled(Destination)
     IN \/ absent /\ job' = NextDestination
        \/ ~absent /\ refused /\ Goto("refused")
        \/ ~absent /\ ~refused /\ stays /\ job' = NextDestination
        \/ ~absent /\ ~refused /\ ~stays /\ Goto("create")
  /\ Quiet

WriteCreate ==
  /\ job.phase = "create" /\ Goto("fill") /\ CreateTemporary
  /\ UNCHANGED <<inputVars, request, convertVars>>

WriteFill ==
  /\ job.phase = "fill" /\ Goto("recheck") /\ FillTemporary
  /\ UNCHANGED <<inputVars, request, convertVars>>

WriteRecheck ==
  /\ job.phase = "recheck" /\ Writable(Destination) /\ Goto("persist") /\ Quiet

WriteRefused ==
  /\ job.phase = "recheck" /\ ~Writable(Destination) /\ Goto("failed") /\ DropTemporary
  /\ UNCHANGED <<inputVars, request, convertVars>>

WritePersist ==
  /\ job.phase = "persist" /\ Persistable(Destination)
  /\ job' = NextDestination
  /\ Persist(Destination)
  /\ UNCHANGED <<inputVars, request, convertVars>>

WritePersistFails ==
  /\ job.phase = "persist" /\ ~Persistable(Destination) /\ Goto("failed") /\ DropTemporary
  /\ UNCHANGED <<inputVars, request, convertVars>>

\* The length of the input is read once more for the report.
Report == job.phase = "report" /\ Goto("done") /\ Quiet

\* Any call may fail; `?` leaves the function and drops the temporary file.
Fail ==
  /\ job.phase \in Running
  /\ Goto("failed") /\ DropTemporary
  /\ UNCHANGED <<inputVars, request, convertVars>>

Kill ==
  /\ job.phase \in Running
  /\ job' = [job EXCEPT !.phase = "killed", !.kills = @ + 1]
  /\ LeaveTemporary
  /\ UNCHANGED <<inputVars, request, convertVars>>

Convert == DetectLine \/ ConvertLine \/ ConvertBlank \/ ConvertEnd \/ Accept
Write ==
  \/ Prepare \/ CheckDestination \/ Gate
  \/ WriteCreate \/ WriteFill \/ WriteRecheck \/ WriteRefused \/ WritePersist \/ WritePersistFails
  \/ Report
Step == Convert \/ Write

Others == Meddle /\ UNCHANGED <<inputVars, request, job, convertVars>>

Next == Start \/ Step \/ Fail \/ Kill \/ Grow \/ Others

Spec == Init /\ [][Next]_vars /\ WF_vars(Step)

----------------------------------------------------------------------------
(* Properties *)

\* Types of the exporter's state.
TypeOK ==
  /\ OutputTypeOK
  /\ log \in Seq(Record)
  /\ tail \in {"none", "front", "all"}
  /\ job \in JobType
  /\ job.at <= Len(request.todo)
  /\ \A i \in DOMAIN got : got[i].what \in {"whole", "front", "rest"}

Converted == job.phase \in {"prepare", "check", "create", "fill", "recheck", "persist", "report", "done", "refused"}

\* The events of the k-th record read, with the synthesized session event before the first
\* record that names the session.
RecordRead(k) == RecordOf(got[k].what, got[k].rec)
NamesSession(k) == Synthesizes(RecordRead(k), job.format)
EventsOf(k) ==
  (IF NamesSession(k) /\ \A j \in 1..(k - 1) : ~NamesSession(j)
   THEN <<Event("session", NoBody)>> ELSE <<>>) \o Classify(RecordRead(k), job.format)

\* The events read of the chosen channel, as they will be written, by their places: the i-th
\* event of the k-th record is at <<k, i>>.
Places == UNION {{k} \X DOMAIN EventsOf(k) : k \in DOMAIN got}
Written(p) == Truncated(EventsOf(p[1])[p[2]], request.cut)
Shown == {p \in Places : Written(p).kind \in KeepSet(job.format, request.channel)}
Channel == [p \in Shown |-> Written(p)]

Precedes(p, q) ==
  \/ p[1] < q[1]
  \/ p[1] = q[1] /\ p[2] < q[2]
Earlier(events, p, kinds) == {q \in DOMAIN events : Precedes(q, p) /\ events[q].kind \in kinds}

\* What cleaning means: a later session event, a repeated web search, and a message equal to the
\* message before it go.
Repetition(events, p, dedup) ==
  \/ events[p].kind = "session" /\ Earlier(events, p, {"session"}) # {}
  \/ /\ dedup /\ events[p].kind = "web_search"
     /\ \E q \in Earlier(events, p, {"web_search"}) : events[q] = events[p]
  \/ /\ dedup /\ events[p].kind \in DedupTextKinds
     /\ \E q \in Earlier(events, p, DedupTextKinds) :
          /\ events[q] = events[p]
          /\ \A m \in Earlier(events, p, DedupTextKinds) : ~Precedes(q, m)
Clean(events, dedup) == {p \in DOMAIN events : ~Repetition(events, p, dedup)}

\* `out` is the events at these places, in order.
Lists(out, events, places) ==
  /\ Len(out) = Cardinality(places)
  /\ \A p \in places : out[Cardinality({q \in places : Precedes(q, p)}) + 1] = events[p]

\* The kept events are those of the records read, in order, less exactly the repetitions: the
\* incremental Cleaner (clean.rs:116-172) drops nothing else and lets nothing else through, the
\* halves of a record caught half-written, which appear as parse errors, included.
KeptIsClean ==
  (job.phase = "convert" \/ Converted) /\ queue = <<>> =>
    Lists(kept, Channel, Clean(Channel, request.dedup))

\* The conversion (util.rs:28-45) has read, in file order, every record that was begun when it
\* opened the log: whole if it was complete by then, and otherwise whole or in two parts.
EveryRecordRead ==
  /\ \A i, j \in DOMAIN got :
       i < j => \/ got[i].rec < got[j].rec
                \/ got[i].rec = got[j].rec /\ got[i].what = "front" /\ got[j].what = "rest"
  /\ Converted /\ request.command = "export" =>
       /\ \A r \in 1..job.opened : \E k \in DOMAIN got : got[k] = [what |-> "whole", rec |-> r]
       /\ \A r \in 1..job.begun : \E k \in DOMAIN got : got[k].rec = r

\* A log of one agent is read under that agent's schema (detect.rs:37-84) as soon as one of its
\* records was complete within the sample, whatever the path suggests and however the log grew.
FormatOfTheLog ==
  job.phase \in (Running \ {"gate", "detect"}) /\ request.command = "export" /\ request.format = "auto" =>
    \A f \in Formats :
      /\ \A i \in DOMAIN log : log[i].agent \in {f, "none"}
      /\ \E i \in 1..Sample : i <= job.sampled /\ log[i].agent = f /\ log[i].form # "bad"
      => job.format = f

\* No destination ever holds the beginning of an output: a reader of the directory finds what was
\* there before or a complete file (runner.rs:541-555), wherever a write fails or is killed.
NeverTorn == \A d \in Destinations : dir[d] # "part"

\* A command that ends without being killed has removed its temporary file, and a killed one
\* leaves at most one behind.
TemporariesRemoved ==
  /\ job.phase \in Ended => temp = "none"
  /\ litter <= job.kills

\* An export refused because of one destination has written none of the others
\* (runner.rs:234-247, "Check every destination before writing any output").
RefusedWritesNothing ==
  job.phase = "refused" /\ request.command = "export" => \A d \in Destinations : dir[d] # "new"

\* Unless another process interfered, a finished export has replaced all its destinations, an
\* interrupted one the first few of them in order, and neither anything else.
WrittenInOrder ==
  meddling = 0 =>
    /\ \A d \in Destinations : dir[d] = "new" => \E i \in 1..job.at : request.todo[i] = d
    /\ request.command = "export" =>
         /\ \A i \in 1..Len(request.todo) : i < job.at /\ job.phase \notin {"check", "refused", "failed", "killed"}
                                            => dir[request.todo[i]] = "new"
         /\ job.phase = "done" /\ ~request.stats =>
              \A i \in 1..Len(request.todo) : dir[request.todo[i]] = "new"

\* The session log that is exported is never replaced, under whichever of its names a destination
\* reaches it (check_destination, runner.rs:519-531).
InputKept == [][\A d \in Destinations : dir[d] = "input" => dir'[d] = "input"]_vars

\* Without --force an installed skill that is there stays (runner.rs:494-499), whether an earlier
\* installation, finished or not, or the user put it there.
SkillKept ==
  [][\A d \in Destinations :
       request.command = "install" /\ ~request.force /\ meddling' = 0 /\ dir[d] = "old"
       => dir'[d] = "old"]_vars

\* Every command ends, the one that reads a log whose last record is never finished included.
RunEnds == job.phase \in Running ~> job.phase \in Ended
=============================================================================
