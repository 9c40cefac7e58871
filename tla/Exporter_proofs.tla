--------------------------- MODULE Exporter_proofs ---------------------------
(***************************************************************************)
(* Proofs about Exporter, for every log and the ways it grows, every set   *)
(* of destinations and what they hold, every command line, and any number  *)
(* of commands, failures, kills and changes by other processes.            *)
(*                                                                         *)
(* The properties of the outputs are about what has been established when  *)
(* a file is replaced: OutputIInv says, for each place where a command may *)
(* stand, what its temporary file holds, which destinations it has checked *)
(* and which it has written.                                               *)
(***************************************************************************)
EXTENDS Exporter, SequenceTheorems, TLAPS

CallOK ==
  /\ request.command \in {"export", "install"}
  /\ request.todo \in Seq(Destinations) \ {<<>>}
  /\ request.command = "export" => /\ request.format \in Formats \cup {"auto"}
                                   /\ request.hint \in Formats \cup {"none"}

\* The part of TypeOK that a step of the command keeps by itself, and what it needs for it.
LogInv == /\ log \in Seq(Record) /\ Len(log) <= MaxRecords
          /\ tail \in {"none", "front", "all"}
          /\ tail # "none" => Len(log) > 0
JobInv == /\ job \in JobType
          /\ job.at <= Len(request.todo)
          /\ \A f \in Formats : job.hits[f] <= job.seen
          /\ job.kills <= job.runs
          /\ job.phase \in Running => job.kills < job.runs
          /\ job.phase = "gate" => request.command = "install"
          /\ job.phase \in {"detect", "convert", "prepare", "check", "report"}
               => request.command = "export"
GotInv == got \in Seq([what : {"whole", "front", "rest"}, rec : Nat])

TypeIInv == CallOK /\ LogInv /\ OutputTypeOK /\ JobInv /\ GotInv

\* What reading a line may yield.
LEMMA NextLineType ==
  ASSUME TypeIInv
  PROVE  /\ NextLine.what \in {"whole", "rest", "blank", "front", "end"}
         /\ NextLine.pos \in 0..MaxRecords
         /\ NextLine.mid \in {"none", "front", "all"}
  <1>1. /\ job.pos \in 0..MaxRecords /\ job.mid \in {"none", "front", "all"}
        /\ Len(log) \in Nat /\ Len(log) <= MaxRecords /\ MaxRecords \in Nat
        /\ tail \in {"none", "front", "all"}
    BY ExporterAssumption DEF TypeIInv, LogInv, JobInv, JobType
  <1>2. Complete \in Int /\ Complete <= Len(log)
    BY <1>1 DEF Complete
  <1>3. CASE job.pos + 1 <= Complete
    BY <1>1, <1>2, <1>3 DEF NextLine, Line
  <1>4. CASE ~(job.pos + 1 <= Complete)
    BY <1>1, <1>2, <1>4 DEF NextLine, Line
  <1> QED BY <1>3, <1>4

\* The format of a log is one of the three, whatever was counted and hinted.
LEMMA VerdictType ==
  ASSUME NEW hits, NEW hint \in Formats \cup {"none"}
  PROVE  Verdict(hits, hint) \in Formats
  BY DEF Verdict, Formats

\* A behaviour starts from well-typed state.
LEMMA InitTypes == Init => TypeIInv
  <1> SUFFICES ASSUME Init PROVE TypeIInv
    OBVIOUS
  <1>1. PICK s \in Scenes : /\ log = s.log /\ tail = "none" /\ request = s.request
                            /\ OutputInit(s.dir, s.meddling)
                            /\ job = [NoJob EXCEPT !.runs = s.runs]
    BY DEF Init
  <1>2. CallOK /\ LogInv
    BY <1>1, SceneAssumption DEF CallOK, LogInv
  <1>3. OutputTypeOK
    BY <1>1, SceneAssumption DEF OutputInit, OutputTypeOK, Contents
  <1>4. JobInv
    <2>1. request.todo \in Seq(Destinations) /\ request.todo # <<>>
      BY <1>2 DEF CallOK
    <2>2. Len(request.todo) >= 1
      BY <2>1, EmptySeq, LenProperties
    <2>3. NoHits \in [Formats -> 0..Sample] /\ \A f \in Formats : NoHits[f] = 0
      BY ExporterAssumption DEF NoHits
    <2>4. NoJob \in JobType
      BY <2>3, ExporterAssumption DEF NoJob, JobType, Ended, Formats
    <2>5. s.runs \in 0..MaxRuns
      BY SceneAssumption
    <2>6. job \in JobType
      BY <1>1, <2>4, <2>5 DEF JobType
    <2>7. /\ job.at = 1 /\ job.hits = NoHits /\ job.seen = 0 /\ job.kills = 0
          /\ job.runs = s.runs /\ job.phase = "idle"
      BY <1>1 DEF NoJob
    <2> QED BY <2>2, <2>3, <2>5, <2>6, <2>7 DEF JobInv, Running
  <1>5. GotInv
    BY DEF Init, GotInv
  <1> QED BY <1>2, <1>3, <1>4, <1>5 DEF TypeIInv

\* The directory keeps its type, whatever a command or another process does to it.
LEMMA OutputTypes ==
  ASSUME OutputTypeOK,
         \/ UNCHANGED outputVars \/ CreateTemporary \/ FillTemporary \/ DropTemporary
         \/ LeaveTemporary \/ Settle \/ Meddle \/ \E d \in Destinations : Persist(d)
  PROVE  OutputTypeOK'
  <1> USE OutputAssumption DEF OutputTypeOK, Contents
  <1>1. CASE UNCHANGED outputVars
    BY <1>1 DEF outputVars
  <1>2. CASE CreateTemporary \/ FillTemporary \/ DropTemporary
    BY <1>2 DEF CreateTemporary, FillTemporary, DropTemporary
  <1>3. CASE LeaveTemporary
    BY <1>3 DEF LeaveTemporary
  <1>4. CASE Settle
    BY <1>4 DEF Settle
  <1>5. CASE Meddle
    BY <1>5 DEF Meddle
  <1>6. CASE \E d \in Destinations : Persist(d)
    BY <1>6 DEF Persist
  <1> QED BY <1>1, <1>2, <1>3, <1>4, <1>5, <1>6

\* A running command moves to another phase that its kind of command has.
LEMMA GotoTypes ==
  ASSUME TypeIInv, job.phase \in Running, NEW phase \in Running \cup Ended, Goto(phase),
         request' = request,
         phase = "gate" => request.command = "install",
         phase \in {"detect", "convert", "prepare", "check", "report"} => request.command = "export"
  PROVE  JobInv'
  <1>1. job \in JobType /\ JobInv
    BY DEF TypeIInv, JobInv
  <1>2. job' = [job EXCEPT !.phase = phase]
    BY DEF Goto
  <1>3. job' \in JobType
    BY <1>1, <1>2 DEF JobType
  <1>4. /\ job'.phase = phase /\ job'.at = job.at /\ job'.hits = job.hits
        /\ job'.seen = job.seen /\ job'.kills = job.kills /\ job'.runs = job.runs
    BY <1>1, <1>2 DEF JobType
  <1> QED BY <1>1, <1>3, <1>4 DEF JobInv

\* A destination is done with: the next one is within the list.
LEMMA NextDestinationTypes ==
  ASSUME TypeIInv, job.phase \in {"gate", "persist"}, job' = NextDestination, request' = request
  PROVE  JobInv'
  <1>1. job \in JobType /\ JobInv /\ CallOK
    BY DEF TypeIInv, JobInv
  <1>2. request.todo \in Seq(Destinations) /\ Len(request.todo) \in Nat /\ job.at \in Nat \ {0}
    BY <1>1 DEF CallOK, JobType
  <1>3. CASE job.at < Len(request.todo)
    <2> DEFINE phase == IF request.command = "install" THEN "gate" ELSE "create"
    <2>1. job' = [job EXCEPT !.at = job.at + 1, !.phase = phase]
      BY <1>1, <1>3 DEF NextDestination, JobType
    <2>4. phase \in Running /\ job.at + 1 \in Nat \ {0}
      BY <1>2 DEF Running
    <2>2. job' \in JobType
      <3> HIDE DEF phase
      <3> QED BY <1>1, <2>1, <2>4 DEF JobType
    <2>3. /\ job'.phase = phase /\ job'.at = job.at + 1 /\ job'.hits = job.hits
          /\ job'.seen = job.seen /\ job'.kills = job.kills /\ job'.runs = job.runs
      BY <1>1, <2>1 DEF JobType
    <2>5. job.at + 1 <= Len(request.todo)
      BY <1>2, <1>3
    <2> QED BY <1>1, <2>2, <2>3, <2>5 DEF JobInv, CallOK, Running
  <1>4. CASE ~(job.at < Len(request.todo))
    <2> DEFINE phase == IF request.command = "install" THEN "done" ELSE "report"
    <2>1. job' = [job EXCEPT !.phase = phase]
      BY <1>4 DEF NextDestination
    <2>2. job' \in JobType
      BY <1>1, <2>1 DEF JobType, Running, Ended
    <2>3. /\ job'.phase = phase /\ job'.at = job.at /\ job'.hits = job.hits
          /\ job'.seen = job.seen /\ job'.kills = job.kills /\ job'.runs = job.runs
      BY <1>1, <2>1 DEF JobType
    <2> QED BY <1>1, <2>2, <2>3 DEF JobInv, CallOK, Running
  <1> QED BY <1>3, <1>4

\* Reading moves the place in the log, counts records towards the sample and may open the log anew.
LEMMA ReadTypes ==
  ASSUME TypeIInv, request' = request, NEW j \in JobType, job' = j,
         job.phase \in {"detect", "convert"},
         j.phase \in {"detect", "convert", "prepare", "done"},
         j.at = job.at, j.kills = job.kills, j.runs = job.runs,
         \A f \in Formats : j.hits[f] <= j.seen
  PROVE  JobInv'
  BY DEF TypeIInv, JobInv, Running

\* The conversion opens the log at its beginning.
LEMMA OpenTypes ==
  ASSUME LogInv, NEW j \in JobType
  PROVE  /\ OpenConversion(j) \in JobType
         /\ OpenConversion(j).phase = "convert" /\ OpenConversion(j).at = j.at
         /\ OpenConversion(j).kills = j.kills /\ OpenConversion(j).runs = j.runs
         /\ OpenConversion(j).hits = j.hits /\ OpenConversion(j).seen = j.seen
  <1>1. /\ Len(log) \in Nat /\ Len(log) <= MaxRecords /\ MaxRecords \in Nat
        /\ tail # "none" => Len(log) > 0
    BY ExporterAssumption DEF LogInv
  <1>2. Complete \in 0..MaxRecords /\ Len(log) \in 0..MaxRecords
    BY <1>1 DEF Complete
  <1>0. 0 \in 0..MaxRecords
    BY ExporterAssumption
  <1>3. OpenLog(j) \in JobType
    BY <1>0 DEF OpenLog, JobType
  <1>4. /\ OpenLog(j).at = j.at /\ OpenLog(j).kills = j.kills /\ OpenLog(j).runs = j.runs
        /\ OpenLog(j).hits = j.hits /\ OpenLog(j).seen = j.seen
    BY DEF OpenLog, JobType
  <1> HIDE DEF OpenLog
  <1>5. "convert" \in Running
    BY DEF Running
  <1> QED BY <1>2, <1>3, <1>4, <1>5 DEF OpenConversion, JobType

\* A pass over the log that was started, or a record of it, keeps the command's type.
LEMMA StartTypes ==
  ASSUME TypeIInv, Start
  PROVE  JobInv'
  <1>1. /\ job \in JobType /\ JobInv /\ CallOK /\ LogInv /\ request' = request
        /\ job.runs < MaxRuns /\ job.phase \in Ended
    BY DEF TypeIInv, JobInv, Start
  <1>2. /\ NewJob \in JobType /\ NewJob.at = 1 /\ NewJob.hits = NoHits /\ NewJob.seen = 0
        /\ NewJob.kills = job.kills /\ NewJob.runs = job.runs + 1 /\ NewJob.phase = "idle"
    <2>1. NoHits \in [Formats -> 0..Sample]
      BY ExporterAssumption DEF NoHits
    <2>2. /\ NoJob \in JobType /\ NoJob.at = 1 /\ NoJob.hits = NoHits /\ NoJob.seen = 0
          /\ NoJob.phase = "idle"
      BY <2>1, ExporterAssumption DEF NoJob, JobType, Ended, Formats
    <2>3. job.runs + 1 \in 0..MaxRuns /\ job.kills \in 0..MaxRuns
      BY <1>1, ExporterAssumption DEF JobType
    <2> QED BY <2>2, <2>3 DEF NewJob, JobType
  <1>3. \A f \in Formats : NoHits[f] = 0
    BY DEF NoHits
  <1>4. Len(request.todo) >= 1
    <2>1. request.todo \in Seq(Destinations) /\ request.todo # <<>>
      BY <1>1 DEF CallOK
    <2> QED BY <2>1, EmptySeq, LenProperties
  <1>5. job.kills < job.runs + 1 /\ job.kills <= job.runs + 1
    BY <1>1, ExporterAssumption DEF JobInv, JobType
  <1>6. CASE request.command = "install" /\ job' = [NewJob EXCEPT !.phase = "gate"]
    <2>1. /\ job' \in JobType /\ job'.phase = "gate" /\ job'.at = 1 /\ job'.hits = NoHits
          /\ job'.seen = 0 /\ job'.kills = job.kills /\ job'.runs = job.runs + 1
      BY <1>2, <1>6 DEF JobType, Running
    <2> QED BY <1>1, <1>3, <1>4, <1>5, <1>6, <2>1 DEF JobInv, CallOK
  <1>7. CASE request.command = "export" /\ job' = [NewJob EXCEPT !.phase = "detect", !.sampled = Complete]
    <2>1. Complete \in 0..MaxRecords
      BY <1>1, ExporterAssumption DEF Complete, LogInv
    <2>2. /\ job' \in JobType /\ job'.phase = "detect" /\ job'.at = 1 /\ job'.hits = NoHits
          /\ job'.seen = 0 /\ job'.kills = job.kills /\ job'.runs = job.runs + 1
      BY <1>2, <1>7, <2>1 DEF JobType, Running
    <2> QED BY <1>1, <1>3, <1>4, <1>5, <1>7, <2>2 DEF JobInv, CallOK
  <1>8. CASE /\ request.command = "export" /\ request.format # "auto"
             /\ job' = OpenConversion([NewJob EXCEPT !.format = request.format])
    <2> DEFINE j == [NewJob EXCEPT !.format = request.format]
    <2>1. request.format \in Formats
      BY <1>1, <1>8 DEF CallOK
    <2>2. /\ j \in JobType /\ j.at = 1 /\ j.hits = NoHits
          /\ j.seen = 0 /\ j.kills = job.kills /\ j.runs = job.runs + 1
      BY <1>2, <2>1 DEF JobType
    <2>3. /\ job' \in JobType /\ job'.phase = "convert" /\ job'.at = 1 /\ job'.hits = NoHits
          /\ job'.seen = 0 /\ job'.kills = job.kills /\ job'.runs = job.runs + 1
      <3> HIDE DEF j
      <3>1. job' = OpenConversion(j)
        BY <1>8 DEF j
      <3> QED BY <1>1, <2>2, <3>1, OpenTypes
    <2> QED BY <1>1, <1>3, <1>4, <1>5, <1>8, <2>3 DEF JobInv, CallOK
  <1> QED BY <1>6, <1>7, <1>8 DEF Start

\* A step of detect_format counts at most one record of the sample.
LEMMA DetectTypes ==
  ASSUME TypeIInv, DetectLine
  PROVE  JobInv'
  <1> DEFINE line == NextLine
             moved == [job EXCEPT !.pos = line.pos, !.mid = line.mid]
  <1>1. /\ job \in JobType /\ JobInv /\ CallOK /\ LogInv /\ request' = request /\ job.phase = "detect"
    BY DEF TypeIInv, JobInv, DetectLine
  <1>2. request.command = "export"
    BY <1>1 DEF JobInv
  <1>3. moved \in JobType /\ moved.at = job.at /\ moved.kills = job.kills /\ moved.runs = job.runs
        /\ moved.hits = job.hits /\ moved.seen = job.seen /\ moved.phase = job.phase
    BY <1>1, NextLineType DEF JobType
  <1> HIDE DEF moved
  <1>4. \A f \in Formats : job.hits[f] <= job.seen
    BY <1>1 DEF JobInv
  <1>5. CASE job' = OpenConversion([job EXCEPT !.format = Verdict(job.hits, request.hint)])
    <2> DEFINE j == [job EXCEPT !.format = Verdict(job.hits, request.hint)]
    <2>1. Verdict(job.hits, request.hint) \in Formats
      BY <1>1, <1>2, VerdictType DEF CallOK
    <2>2. /\ j \in JobType /\ j.at = job.at /\ j.hits = job.hits
          /\ j.seen = job.seen /\ j.kills = job.kills /\ j.runs = job.runs
      BY <1>1, <2>1 DEF JobType
    <2>3. job' = OpenConversion(j)
      BY <1>5
    <2> HIDE DEF j
    <2>4. /\ job' \in JobType /\ job'.phase = "convert" /\ job'.at = job.at /\ job'.hits = job.hits
          /\ job'.seen = job.seen /\ job'.kills = job.kills /\ job'.runs = job.runs
      BY <1>1, <2>2, <2>3, OpenTypes
    <2> QED BY <1>1, <1>4, <2>4, ReadTypes
  <1>6. CASE job' = moved
    BY <1>1, <1>3, <1>4, <1>6, ReadTypes
  <1>7. CASE /\ ~SampleTaken(line) /\ line.what # "blank"
             /\ job' = [moved EXCEPT !.seen = @ + 1,
                                     !.hits = Hit(@, RecordOf(line.what, job.pos + 1))]
    <2> DEFINE hits == Hit(job.hits, RecordOf(line.what, job.pos + 1))
    <2>1. job.seen \in 0..Sample /\ job.seen < Sample /\ Sample \in Nat
      BY <1>1, <1>7, ExporterAssumption DEF SampleTaken, JobType
    <2>2. job.hits \in [Formats -> 0..Sample]
      BY <1>1 DEF JobType
    <2>3. hits \in [Formats -> 0..Sample] /\ \A f \in Formats : hits[f] <= job.seen + 1
      BY <1>4, <2>1, <2>2 DEF Hit
    <2> HIDE DEF hits
    <2>4. job' = [moved EXCEPT !.seen = job.seen + 1, !.hits = hits]
      BY <1>3, <1>7 DEF hits
    <2>5. job.seen + 1 \in 0..Sample
      BY <2>1
    <2>6. job' \in JobType
      BY <1>3, <2>3, <2>4, <2>5 DEF JobType
    <2>7. /\ job'.phase = "detect" /\ job'.at = job.at /\ job'.hits = hits
          /\ job'.seen = job.seen + 1 /\ job'.kills = job.kills /\ job'.runs = job.runs
      BY <1>1, <1>3, <2>4 DEF JobType
    <2> QED BY <1>1, <2>3, <2>6, <2>7, ReadTypes
  <1> QED BY <1>5, <1>6, <1>7 DEF DetectLine, moved

\* The conversion of one line or event.
LEMMA ConvertTypes ==
  ASSUME TypeIInv, ConvertLine \/ ConvertBlank \/ ConvertEnd
  PROVE  JobInv' /\ GotInv'
  <1>1. /\ job \in JobType /\ JobInv /\ GotInv /\ request' = request /\ job.phase = "convert"
    BY DEF TypeIInv, JobInv, ConvertLine, ConvertBlank, ConvertEnd
  <1>2. \A f \in Formats : job.hits[f] <= job.seen
    BY <1>1 DEF JobInv
  <1>3. CASE ConvertLine
    <2>1. NextLine.what \in {"whole", "front", "rest"} /\ job.pos + 1 \in Nat
      BY <1>1, <1>3, NextLineType, ExporterAssumption DEF ConvertLine, JobType
    <2>2. PICK b \in BOOLEAN :
            job' = [job EXCEPT !.pos = NextLine.pos, !.mid = NextLine.mid, !.synthesized = b]
      <3> DEFINE b == job.synthesized \/ (~job.synthesized
                        /\ Synthesizes(RecordOf(NextLine.what, job.pos + 1), job.format))
      <3>1. job' = [job EXCEPT !.pos = NextLine.pos, !.mid = NextLine.mid, !.synthesized = b]
        BY <1>1, <1>3 DEF ConvertLine, JobType
      <3>2. b \in BOOLEAN
        OBVIOUS
      <3> HIDE DEF b
      <3> QED BY <3>1, <3>2
    <2>3. /\ job' \in JobType /\ job'.phase = "convert" /\ job'.at = job.at /\ job'.hits = job.hits
          /\ job'.seen = job.seen /\ job'.kills = job.kills /\ job'.runs = job.runs
      BY <1>1, <2>2, NextLineType DEF JobType
    <2>4. JobInv'
      BY <1>1, <1>2, <2>3, ReadTypes
    <2>5. GotInv'
      <3>1. got' = Append(got, [what |-> NextLine.what, rec |-> job.pos + 1])
        BY <1>3 DEF ConvertLine
      <3> QED BY <1>1, <2>1, <3>1, AppendProperties DEF GotInv
    <2> QED BY <2>4, <2>5
  <1>4. CASE ConvertBlank
    <2>1. job' = [job EXCEPT !.pos = NextLine.pos, !.mid = NextLine.mid] /\ got' = got
      BY <1>4 DEF ConvertBlank, convertVars
    <2>2. /\ job' \in JobType /\ job'.phase = "convert" /\ job'.at = job.at /\ job'.hits = job.hits
          /\ job'.seen = job.seen /\ job'.kills = job.kills /\ job'.runs = job.runs
      BY <1>1, <2>1, NextLineType DEF JobType
    <2> QED BY <1>1, <1>2, <2>1, <2>2, ReadTypes DEF GotInv
  <1>5. CASE ConvertEnd
    <2> DEFINE phase == IF request.stats THEN "done" ELSE "prepare"
    <2>1. job' = [job EXCEPT !.phase = phase] /\ got' = got
      BY <1>5 DEF ConvertEnd, convertVars
    <2>2. phase \in {"done", "prepare"} /\ phase \in Running \cup Ended
      BY DEF Running, Ended
    <2> HIDE DEF phase
    <2>3. /\ job' \in JobType /\ job'.phase = phase /\ job'.at = job.at /\ job'.hits = job.hits
          /\ job'.seen = job.seen /\ job'.kills = job.kills /\ job'.runs = job.runs
      BY <1>1, <2>1, <2>2 DEF JobType
    <2> QED BY <1>1, <1>2, <2>1, <2>2, <2>3, ReadTypes DEF GotInv
  <1> QED BY <1>3, <1>4, <1>5

\* The steps of a command that writes.
LEMMA WriteTypes ==
  ASSUME TypeIInv, Write \/ Fail \/ Kill
  PROVE  JobInv'
  <1>1. /\ job \in JobType /\ JobInv /\ CallOK /\ request' = request
        /\ job.phase \in Running
    BY DEF TypeIInv, JobInv, Write, Fail, Kill, Prepare, CheckDestination, Gate, WriteCreate,
           WriteFill, WriteRecheck, WriteRefused, WritePersist, WritePersistFails, Report, Quiet, Running
  <1>2. CASE Prepare
    BY <1>1, <1>2, GotoTypes DEF Prepare, JobInv, Running
  <1>3. CASE CheckDestination
    <2>1. request.command = "export" /\ job.phase = "check"
      BY <1>1, <1>3 DEF CheckDestination, JobInv
    <2>2. CASE Goto("refused")
      BY <1>1, <2>2, GotoTypes DEF Ended
    <2>3. CASE job.at < Len(request.todo) /\ job' = [job EXCEPT !.at = job.at + 1]
      <3>1. job.at + 1 \in Nat \ {0} /\ job.at + 1 <= Len(request.todo)
        BY <1>1, <2>3, LenProperties DEF JobType, CallOK
      <3>2. /\ job' \in JobType /\ job'.phase = job.phase /\ job'.at = job.at + 1 /\ job'.hits = job.hits
            /\ job'.seen = job.seen /\ job'.kills = job.kills /\ job'.runs = job.runs
        BY <1>1, <2>3, <3>1 DEF JobType
      <3> QED BY <1>1, <2>1, <3>1, <3>2 DEF JobInv
    <2>4. CASE job' = [job EXCEPT !.phase = "create", !.at = 1]
      <3>1. Len(request.todo) >= 1
        BY <1>1, EmptySeq, LenProperties DEF CallOK
      <3>2. "create" \in Running /\ 1 \in Nat \ {0}
        BY DEF Running
      <3>3. job' \in JobType
        BY <1>1, <2>4, <3>2 DEF JobType
      <3>4. /\ job'.phase = "create" /\ job'.at = 1 /\ job'.hits = job.hits
            /\ job'.seen = job.seen /\ job'.kills = job.kills /\ job'.runs = job.runs
        BY <1>1, <2>4 DEF JobType
      <3> QED BY <1>1, <3>1, <3>3, <3>4 DEF JobInv
    <2>5. job.at \in Nat
      BY <1>1 DEF JobType
    <2> QED BY <1>1, <1>3, <2>2, <2>3, <2>4, <2>5 DEF CheckDestination, JobType
  <1>4. CASE Gate
    <2>1. request.command = "install" /\ job.phase = "gate"
      BY <1>1, <1>4 DEF Gate, JobInv
    <2>2. job' = NextDestination \/ Goto("refused") \/ Goto("create")
      BY <1>4 DEF Gate
    <2>3. CASE job' = NextDestination
      BY <1>1, <2>1, <2>3, NextDestinationTypes
    <2>4. CASE Goto("refused") \/ Goto("create")
      BY <1>1, <2>4, GotoTypes DEF Running, Ended
    <2> QED BY <2>2, <2>3, <2>4
  <1>5. CASE WriteCreate
    BY <1>1, <1>5, GotoTypes DEF WriteCreate, Running
  <1>6. CASE WriteFill
    BY <1>1, <1>6, GotoTypes DEF WriteFill, Running
  <1>7. CASE WriteRecheck
    BY <1>1, <1>7, GotoTypes DEF WriteRecheck, Running
  <1>8. CASE WriteRefused \/ WritePersistFails \/ Fail
    BY <1>1, <1>8, GotoTypes DEF WriteRefused, WritePersistFails, Fail, Ended
  <1>9. CASE WritePersist
    BY <1>1, <1>9, NextDestinationTypes DEF WritePersist
  <1>10. CASE Report
    BY <1>1, <1>10, GotoTypes DEF Report, Ended
  <1>11. CASE Kill
    <2>1. job.kills < job.runs /\ job.kills \in 0..MaxRuns /\ job.runs \in 0..MaxRuns
      BY <1>1 DEF JobInv, JobType
    <2>2. job.kills + 1 \in 0..MaxRuns /\ job.kills + 1 <= job.runs
      BY <2>1, ExporterAssumption
    <2>3. job' = [job EXCEPT !.phase = "killed", !.kills = job.kills + 1]
      BY <1>1, <1>11 DEF Kill, JobType
    <2>4. /\ job' \in JobType /\ job'.phase = "killed" /\ job'.at = job.at /\ job'.hits = job.hits
          /\ job'.seen = job.seen /\ job'.kills = job.kills + 1 /\ job'.runs = job.runs
      BY <1>1, <2>2, <2>3 DEF JobType, Ended
    <2> QED BY <1>1, <2>2, <2>4 DEF JobInv, Running
  <1> QED BY <1>2, <1>3, <1>4, <1>5, <1>6, <1>7, <1>8, <1>9, <1>10, <1>11 DEF Write

\* What the agent appends is a record, and the log stays within its bound.
LEMMA GrowTypes ==
  ASSUME LogInv, Grow
  PROVE  LogInv'
  <1>1. CASE AppendTo("front") \/ AppendTo("none")
    <2>1. PICK r \in Appended : log' = Append(log, r)
      BY <1>1 DEF AppendTo
    <2>2. Len(log) < MaxRecords /\ tail' \in {"none", "front", "all"}
      BY <1>1 DEF AppendTo
    <2>3. r \in Record /\ MaxRecords \in Nat
      BY ExporterAssumption
    <2>4. log' \in Seq(Record) /\ Len(log') = Len(log) + 1 /\ Len(log) \in Nat
      BY <2>1, <2>3, AppendProperties, LenProperties DEF LogInv
    <2> QED BY <2>2, <2>3, <2>4 DEF LogInv
  <1>2. CASE Continue
    BY <1>2 DEF Continue, LogInv
  <1> QED BY <1>1, <1>2 DEF Grow

\* Every step keeps the types.
LEMMA NextTypes == TypeIInv /\ [Next]_vars => TypeIInv'
  <1> SUFFICES ASSUME TypeIInv, [Next]_vars PROVE TypeIInv'
    OBVIOUS
  <1> USE DEF TypeIInv
  <1>1. CASE Start
    <2>1. UNCHANGED <<inputVars, request>> /\ Settle /\ got' = <<>>
      BY <1>1 DEF Start
    <2>2. CallOK' /\ LogInv'
      BY <2>1 DEF CallOK, LogInv, inputVars
    <2>3. GotInv'
      BY <2>1, EmptySeq DEF GotInv
    <2> QED BY <1>1, <2>1, <2>2, <2>3, OutputTypes, StartTypes
  <1>2. CASE DetectLine \/ ConvertLine \/ ConvertBlank \/ ConvertEnd
    <2>1. UNCHANGED <<outputVars, inputVars, request>>
      BY <1>2 DEF DetectLine, ConvertLine, ConvertBlank, ConvertEnd
    <2>2. CallOK' /\ LogInv'
      BY <2>1 DEF CallOK, LogInv, inputVars
    <2>3. OutputTypeOK'
      BY <2>1, OutputTypes
    <2>4. CASE DetectLine
      <3>1. GotInv'
        BY <2>4 DEF DetectLine, convertVars, GotInv
      <3> QED BY <2>2, <2>3, <2>4, <3>1, DetectTypes
    <2>5. CASE ConvertLine \/ ConvertBlank \/ ConvertEnd
      BY <2>2, <2>3, <2>5, ConvertTypes
    <2> QED BY <1>2, <2>4, <2>5
  <1>3. CASE Accept \/ Grow \/ Others \/ UNCHANGED vars
    <2>1. UNCHANGED <<request, job, got>>
      BY <1>3 DEF Accept, Grow, AppendTo, Continue, Others, vars, convertVars
    <2>2. CallOK' /\ JobInv' /\ GotInv'
      BY <2>1 DEF CallOK, JobInv, GotInv
    <2>3. LogInv'
      <3>1. CASE Grow
        BY <3>1, GrowTypes
      <3>2. CASE Accept \/ Others \/ UNCHANGED vars
        BY <3>2 DEF Accept, Others, vars, inputVars, LogInv
      <3> QED BY <1>3, <3>1, <3>2
    <2>4. OutputTypeOK'
      <3>1. UNCHANGED outputVars \/ Meddle
        BY <1>3 DEF Accept, Grow, AppendTo, Continue, Others, vars
      <3> QED BY <3>1, OutputTypes
    <2> QED BY <2>2, <2>3, <2>4
  <1>4. CASE Write \/ Fail \/ Kill
    <2>1. UNCHANGED <<inputVars, request, convertVars>>
      BY <1>4 DEF Write, Fail, Kill, Prepare, CheckDestination, Gate, WriteCreate, WriteFill,
                  WriteRecheck, WriteRefused, WritePersist, WritePersistFails, Report, Quiet
    <2>2. CallOK' /\ LogInv' /\ GotInv'
      BY <2>1 DEF CallOK, LogInv, GotInv, inputVars, convertVars
    <2>3. OutputTypeOK'
      <3>1. \/ UNCHANGED outputVars \/ CreateTemporary \/ FillTemporary \/ DropTemporary
            \/ LeaveTemporary \/ Persist(Destination)
        BY <1>4 DEF Write, Fail, Kill, Prepare, CheckDestination, Gate, WriteCreate, WriteFill,
                    WriteRecheck, WriteRefused, WritePersist, WritePersistFails, Report, Quiet
      <3>2. Destination \in Destinations
        <4>1. request.todo \in Seq(Destinations) /\ job.at \in 1..Len(request.todo)
          BY LenProperties DEF CallOK, JobInv, JobType
        <4> QED BY <4>1, ElementOfSeq DEF Destination
      <3> QED BY <3>1, <3>2, OutputTypes
    <2> QED BY <1>4, <2>2, <2>3, WriteTypes
  <1> QED BY <1>1, <1>2, <1>3, <1>4 DEF Next, Step, Convert

\* The types of the exporter's state, for every log, command line and directory.
THEOREM ExporterTypes == Spec => []TypeOK
  <1>1. TypeIInv => TypeOK
    <2> SUFFICES ASSUME TypeIInv PROVE TypeOK
      OBVIOUS
    <2>1. \A i \in DOMAIN got : got[i].what \in {"whole", "front", "rest"}
      <3> DEFINE L == [what : {"whole", "front", "rest"}, rec : Nat]
      <3>1. got \in Seq(L)
        BY DEF TypeIInv, GotInv
      <3> SUFFICES ASSUME NEW i \in DOMAIN got PROVE got[i].what \in {"whole", "front", "rest"}
        OBVIOUS
      <3>2. got[i] \in L
        BY <3>1, LenProperties, ElementOfSeq
      <3> QED BY <3>2
    <2> QED BY <2>1 DEF TypeIInv, LogInv, JobInv, TypeOK
  <1> QED BY <1>1, InitTypes, NextTypes, PTL DEF Spec

----------------------------------------------------------------------------
(* What has been checked and written when a file is replaced. *)

Writing == {"create", "fill", "recheck", "persist"}
Before == {"idle", "detect", "convert", "prepare"}

TempInv == temp = IF job.phase = "fill" THEN "part"
                  ELSE IF job.phase \in {"recheck", "persist"} THEN "full" ELSE "none"

LitterInv == litter <= job.kills

\* Until every destination is checked, and after a refusal, nothing is written.
RefusedInv ==
  request.command = "export" /\ job.phase \in {"detect", "convert", "prepare", "check", "refused"}
    => \A d \in Destinations : dir[d] # "new"

\* The destinations checked so far are not the input.
InputInv ==
  /\ request.command = "install" => \A d \in Destinations : dir[d] # "input"
  /\ request.command = "export" =>
       \A i \in 1..Len(request.todo) :
         (job.phase = "check" /\ i < job.at) \/ job.phase \in Writing
           => dir[request.todo[i]] # "input"

\* Without --force only a missing file is written.
SkillInv ==
  request.command = "install" /\ ~request.force /\ meddling = 0 /\ job.phase \in Writing
    => dir[Destination] = "absent"

OrderInv ==
  /\ job.phase \in Before => job.at = 1
  /\ \A d \in Destinations : dir[d] = "new" => \E i \in 1..job.at : request.todo[i] = d
  /\ meddling = 0 /\ request.command = "export" =>
       \A i \in 1..Len(request.todo) :
         \/ i < job.at /\ job.phase \notin {"check", "refused", "failed", "killed"}
         \/ job.phase = "report"
         \/ job.phase = "done" /\ ~request.stats
         => dir[request.todo[i]] = "new"

OutputIInv == NeverTorn /\ TempInv /\ LitterInv /\ RefusedInv /\ InputInv /\ SkillInv /\ OrderInv

\* Before the first command no output is torn or left over.
LEMMA InitOutputs == Init => OutputIInv
  <1> SUFFICES ASSUME Init PROVE OutputIInv
    OBVIOUS
  <1>1. PICK s \in Scenes : /\ request = s.request /\ dir = s.dir /\ temp = "none" /\ litter = 0
                            /\ job = [NoJob EXCEPT !.runs = s.runs]
    BY DEF Init, OutputInit
  <1>2. /\ job.phase = "idle" /\ job.at = 1 /\ job.kills = 0
    BY <1>1 DEF NoJob
  <1>3. \A d \in Destinations : dir[d] \notin {"new", "part"}
    BY <1>1, SceneAssumption
  <1>4. request.command = "install" => \A d \in Destinations : dir[d] # "input"
    BY <1>1, SceneAssumption
  <1> QED BY <1>1, <1>2, <1>3, <1>4
          DEF OutputIInv, NeverTorn, TempInv, LitterInv, RefusedInv, InputInv, SkillInv, OrderInv,
              Writing, Before

\* Reading the log leads from one pass to the next and then to the outputs.
LEMMA ReadStep ==
  ASSUME TypeIInv, DetectLine \/ ConvertLine \/ ConvertBlank \/ ConvertEnd
  PROVE  /\ job.phase \in {"detect", "convert"}
         /\ job'.phase \in {"detect", "convert", "prepare", "done"}
         /\ job'.phase = "done" => request.stats
         /\ job'.at = job.at /\ job'.kills = job.kills
         /\ UNCHANGED <<outputVars, request>>
  <1>1. job \in JobType /\ LogInv /\ CallOK /\ JobInv
    BY DEF TypeIInv, JobInv
  <1>2. CASE DetectLine
    <2>1. job.phase = "detect" /\ request.command = "export" /\ UNCHANGED <<outputVars, request>>
      BY <1>1, <1>2 DEF DetectLine, JobInv
    <2>2. CASE job' = OpenConversion([job EXCEPT !.format = Verdict(job.hits, request.hint)])
      <3> DEFINE j == [job EXCEPT !.format = Verdict(job.hits, request.hint)]
      <3>1. Verdict(job.hits, request.hint) \in Formats
        BY <1>1, <2>1, VerdictType DEF CallOK
      <3>2. j \in JobType /\ j.at = job.at /\ j.kills = job.kills
        BY <1>1, <3>1 DEF JobType
      <3>3. job' = OpenConversion(j)
        BY <2>2
      <3> HIDE DEF j
      <3> QED BY <1>1, <2>1, <3>2, <3>3, OpenTypes
    <2>3. CASE ~SampleTaken(NextLine)
      <3> DEFINE moved == [job EXCEPT !.pos = NextLine.pos, !.mid = NextLine.mid]
      <3>1. moved \in JobType /\ moved.at = job.at /\ moved.kills = job.kills /\ moved.phase = job.phase
        BY <1>1, NextLineType DEF JobType
      <3>2. \/ job' = moved
            \/ job' = [moved EXCEPT !.seen = @ + 1,
                                    !.hits = Hit(@, RecordOf(NextLine.what, job.pos + 1))]
        BY <1>2, <2>3 DEF DetectLine
      <3> HIDE DEF moved
      <3> QED BY <2>1, <3>1, <3>2 DEF JobType
    <2> QED BY <1>2, <2>2, <2>3 DEF DetectLine
  <1>3. CASE ConvertLine \/ ConvertBlank
    <2>1. job.phase = "convert" /\ UNCHANGED <<outputVars, request>>
      BY <1>3 DEF ConvertLine, ConvertBlank
    <2>2. job'.phase = job.phase /\ job'.at = job.at /\ job'.kills = job.kills
      BY <1>1, <1>3 DEF ConvertLine, ConvertBlank, JobType
    <2> QED BY <2>1, <2>2
  <1>4. CASE ConvertEnd
    <2>1. job.phase = "convert" /\ UNCHANGED <<outputVars, request>>
      BY <1>4 DEF ConvertEnd
    <2>2. /\ job'.phase = IF request.stats THEN "done" ELSE "prepare"
          /\ job'.at = job.at /\ job'.kills = job.kills
      BY <1>1, <1>4 DEF ConvertEnd, JobType
    <2> QED BY <2>1, <2>2
  <1> QED BY <1>2, <1>3, <1>4

\* A new command counts what earlier ones wrote as someone else's, and reads.
LEMMA StartOutputs ==
  ASSUME TypeIInv, OutputIInv, Start
  PROVE  OutputIInv'
  <1>1. job \in JobType /\ LogInv /\ CallOK /\ dir \in [Destinations -> Contents]
    BY DEF TypeIInv, JobInv, OutputTypeOK
  <1>2. /\ UNCHANGED <<temp, litter, meddling, request>>
        /\ dir' = [d \in Destinations |-> IF dir[d] = "new" THEN "old" ELSE dir[d]]
    BY DEF Start, Settle
  <1>3. /\ job'.phase \in {"gate", "detect", "convert"} /\ job'.at = 1 /\ job'.kills = job.kills
        /\ job'.phase = "gate" => request.command = "install"
    <2>1. NewJob.at = 1 /\ NewJob.kills = job.kills
      BY DEF NewJob, NoJob
    <2>2. CASE job' = [NewJob EXCEPT !.phase = "gate"] /\ request.command = "install"
      BY <2>1, <2>2 DEF NewJob, NoJob
    <2>3. CASE job' = [NewJob EXCEPT !.phase = "detect", !.sampled = Complete]
      BY <2>1, <2>3 DEF NewJob, NoJob
    <2>4. CASE job' = OpenConversion([NewJob EXCEPT !.format = request.format])
      BY <2>1, <2>4 DEF NewJob, NoJob, OpenConversion, OpenLog
    <2> QED BY <2>2, <2>3, <2>4 DEF Start
  <1>4. temp = "none"
    <2>1. job.phase \in Ended
      BY DEF Start
    <2> QED BY <2>1 DEF OutputIInv, TempInv, Ended
  <1>5. /\ \A d \in Destinations : dir'[d] \notin {"new", "part"}
        /\ request.command = "install" => \A d \in Destinations : dir'[d] # "input"
    BY <1>2 DEF OutputIInv, NeverTorn, InputInv
  <1>6. litter <= job.kills
    BY DEF OutputIInv, LitterInv
  <1>7. NeverTorn' /\ TempInv' /\ LitterInv' /\ RefusedInv'
    BY <1>2, <1>3, <1>4, <1>5, <1>6 DEF NeverTorn, TempInv, LitterInv, RefusedInv
  <1>8. InputInv' /\ SkillInv'
    BY <1>2, <1>3, <1>5 DEF InputInv, SkillInv, Writing
  <1>9. OrderInv'
    BY <1>2, <1>3, <1>5 DEF OrderInv, Before
  <1> QED BY <1>7, <1>8, <1>9 DEF OutputIInv

\* Reading the log does not touch the outputs.
LEMMA ReadOutputs ==
  ASSUME TypeIInv, OutputIInv, DetectLine \/ ConvertLine \/ ConvertBlank \/ ConvertEnd
  PROVE  OutputIInv'
  <1>1. /\ job.phase \in {"detect", "convert"}
        /\ job'.phase \in {"detect", "convert", "prepare", "done"}
        /\ job'.phase = "done" => request.stats
        /\ job'.at = job.at /\ job'.kills = job.kills
        /\ UNCHANGED <<dir, temp, litter, meddling, request>>
    BY ReadStep DEF outputVars
  <1>2. job.at = 1 /\ request.command = "export"
    BY <1>1 DEF TypeIInv, JobInv, OutputIInv, OrderInv, Before
  <1>3. NeverTorn' /\ TempInv' /\ LitterInv' /\ RefusedInv'
    BY <1>1, <1>2 DEF OutputIInv, NeverTorn, TempInv, LitterInv, RefusedInv
  <1>4. InputInv' /\ SkillInv'
    BY <1>1, <1>2 DEF OutputIInv, InputInv, SkillInv, Writing
  <1>5. OrderInv'
    BY <1>1, <1>2 DEF OutputIInv, OrderInv, Before
  <1> QED BY <1>3, <1>4, <1>5 DEF OutputIInv

\* A step that ends the command where it stands, and removes or leaves its temporary file.
LEMMA EndOutputs ==
  ASSUME TypeIInv, OutputIInv, WriteRefused \/ WritePersistFails \/ Fail \/ Kill
  PROVE  OutputIInv'
  <1>1. /\ UNCHANGED <<dir, meddling, request>> /\ temp' = "none"
        /\ job' \in {[job EXCEPT !.phase = "failed"],
                     [job EXCEPT !.phase = "killed", !.kills = @ + 1]}
        /\ \/ litter' = litter /\ job' = [job EXCEPT !.phase = "failed"]
           \/ /\ litter' = litter + (IF temp = "none" THEN 0 ELSE 1)
              /\ job' = [job EXCEPT !.phase = "killed", !.kills = @ + 1]
    BY DEF WriteRefused, WritePersistFails, Fail, Kill, Goto, DropTemporary, LeaveTemporary
  <1>2. job \in JobType /\ job.kills \in Nat /\ litter \in Nat
    BY ExporterAssumption DEF TypeIInv, JobInv, JobType, OutputTypeOK
  <1>3. /\ job'.phase \in {"failed", "killed"} /\ job'.at = job.at
        /\ \/ job'.kills = job.kills /\ litter' = litter
           \/ job'.kills = job.kills + 1 /\ litter' = litter + (IF temp = "none" THEN 0 ELSE 1)
    BY <1>1, <1>2 DEF JobType
  <1>4. NeverTorn' /\ TempInv' /\ RefusedInv'
    BY <1>1, <1>3 DEF OutputIInv, NeverTorn, TempInv, RefusedInv
  <1>5. LitterInv'
    BY <1>2, <1>3 DEF OutputIInv, LitterInv
  <1>6. InputInv' /\ SkillInv'
    BY <1>1, <1>3 DEF OutputIInv, InputInv, SkillInv, Writing
  <1>7. OrderInv'
    BY <1>1, <1>3 DEF OutputIInv, OrderInv, Before
  <1> QED BY <1>4, <1>5, <1>6, <1>7 DEF OutputIInv

\* The destinations of a command line are where it says.
LEMMA TodoType ==
  ASSUME TypeIInv
  PROVE  /\ job \in JobType /\ job.at \in 1..Len(request.todo)
         /\ Destination \in Destinations
         /\ Len(request.todo) \in Nat
         /\ \A i \in 1..Len(request.todo) : request.todo[i] \in Destinations
  <1>1. request.todo \in Seq(Destinations) /\ job \in JobType /\ job.at \in 1..Len(request.todo)
    BY LenProperties DEF TypeIInv, CallOK, JobInv, JobType
  <1> QED BY <1>1, ElementOfSeq, LenProperties DEF Destination

\* The checks before the first write.
LEMMA CheckOutputs ==
  ASSUME TypeIInv, OutputIInv, Prepare \/ CheckDestination
  PROVE  OutputIInv'
  <1>1. /\ job \in JobType /\ job.at \in 1..Len(request.todo) /\ Len(request.todo) \in Nat
        /\ request.command = "export"
    <2>1. job.phase \in {"prepare", "check"}
      BY DEF Prepare, CheckDestination
    <2> QED BY <2>1, TodoType DEF TypeIInv, JobInv
  <1>2. UNCHANGED <<dir, temp, litter, meddling, request>>
    BY DEF Prepare, CheckDestination, Quiet, outputVars
  <1>3. /\ NeverTorn /\ TempInv /\ LitterInv /\ RefusedInv /\ InputInv /\ OrderInv
    BY DEF OutputIInv
  <1>4. CASE Prepare
    <2>1. /\ job.phase = "prepare" /\ job'.phase = "check" /\ job'.at = job.at /\ job'.kills = job.kills
      BY <1>1, <1>4 DEF Prepare, Goto, JobType
    <2>2. job.at = 1
      BY <1>3, <2>1 DEF OrderInv, Before
    <2>3. NeverTorn' /\ TempInv' /\ LitterInv' /\ RefusedInv'
      BY <1>1, <1>2, <1>3, <2>1 DEF NeverTorn, TempInv, LitterInv, RefusedInv
    <2>4. InputInv' /\ SkillInv'
      BY <1>1, <1>2, <2>1, <2>2 DEF InputInv, SkillInv, Writing
    <2>5. OrderInv'
      BY <1>1, <1>2, <1>3, <2>1 DEF OrderInv, Before
    <2> QED BY <2>3, <2>4, <2>5 DEF OutputIInv
  <1>5. CASE CheckDestination
    <2>1. job.phase = "check"
      BY <1>5 DEF CheckDestination
    <2>2. \A d \in Destinations : dir[d] # "new"
      BY <1>1, <1>3, <2>1 DEF RefusedInv
    <2>3. temp = "none" /\ litter <= job.kills
      BY <1>3, <2>1 DEF TempInv, LitterInv
    <2>4. /\ job'.phase \in {"check", "refused", "create"} /\ job'.kills = job.kills
          /\ job'.phase = "create" => job'.at = 1
      BY <1>1, <1>5, <2>1 DEF CheckDestination, Goto, JobType
    <2>5. NeverTorn' /\ TempInv' /\ LitterInv' /\ RefusedInv'
      BY <1>2, <1>3, <2>2, <2>3, <2>4 DEF NeverTorn, TempInv, LitterInv, RefusedInv
    <2>6. OrderInv'
      BY <1>1, <1>2, <2>2, <2>4 DEF OrderInv, Before
    <2>7. InputInv'
      <3>1. CASE job' = [job EXCEPT !.phase = "refused"]
        <4>1. job'.phase = "refused"
          BY <1>1, <3>1 DEF JobType
        <4> QED BY <1>1, <1>2, <4>1 DEF InputInv, Writing
      <3>2. CASE /\ WritableBesideInput(Destination)
                 /\ job.at < Len(request.todo) /\ job' = [job EXCEPT !.at = job.at + 1]
        <4>1. job'.phase = "check" /\ job'.at = job.at + 1
          BY <1>1, <2>1, <3>2 DEF JobType
        <4>2. dir[request.todo[job.at]] # "input"
          BY <3>2 DEF WritableBesideInput, Destination
        <4>3. \A i \in 1..Len(request.todo) : i < job.at + 1 => i < job.at \/ i = job.at
          BY <1>1
        <4> QED BY <1>1, <1>2, <1>3, <2>1, <4>1, <4>2, <4>3 DEF InputInv, Writing
      <3>3. CASE /\ WritableBesideInput(Destination)
                 /\ ~(job.at < Len(request.todo))
                 /\ job' = [job EXCEPT !.phase = "create", !.at = 1]
        <4>1. job'.phase = "create"
          BY <1>1, <3>3 DEF JobType
        <4>2. dir[request.todo[job.at]] # "input"
          BY <3>3 DEF WritableBesideInput, Destination
        <4>3. \A i \in 1..Len(request.todo) : i < job.at \/ i = job.at
          BY <1>1, <3>3
        <4> QED BY <1>1, <1>2, <1>3, <2>1, <4>1, <4>2, <4>3 DEF InputInv, Writing
      <3>4. job.at + 1 = job.at + 1 /\ [job EXCEPT !.at = @ + 1] = [job EXCEPT !.at = job.at + 1]
        BY <1>1 DEF JobType
      <3> QED BY <1>5, <3>1, <3>2, <3>3, <3>4 DEF CheckDestination, Goto
    <2>8. SkillInv'
      BY <1>1, <1>2 DEF SkillInv
    <2> QED BY <2>5, <2>6, <2>7, <2>8 DEF OutputIInv
  <1> QED BY <1>4, <1>5

\* What an installation skips, refuses and goes on to write.
LEMMA GateOutputs ==
  ASSUME TypeIInv, OutputIInv, Gate
  PROVE  OutputIInv'
  <1>1. /\ job \in JobType /\ job.at \in 1..Len(request.todo) /\ Len(request.todo) \in Nat
        /\ request.command = "install" /\ job.phase = "gate"
    BY TodoType DEF TypeIInv, JobInv, Gate
  <1>2. UNCHANGED <<dir, temp, litter, meddling, request>>
    BY DEF Gate, Quiet, outputVars
  <1>3. temp = "none" /\ litter <= job.kills /\ NeverTorn /\ InputInv /\ OrderInv
    BY <1>1 DEF OutputIInv, TempInv, LitterInv
  <1>4. CASE \/ job' = NextDestination
             \/ Goto("refused")
    <2>1. /\ job'.phase \in {"gate", "done", "refused"} /\ job'.at \in {job.at, job.at + 1}
          /\ job'.kills = job.kills
      BY <1>1, <1>4 DEF NextDestination, Goto, JobType
    <2>2. NeverTorn' /\ TempInv' /\ LitterInv' /\ RefusedInv' /\ InputInv' /\ SkillInv'
      BY <1>1, <1>2, <1>3, <2>1
      DEF NeverTorn, TempInv, LitterInv, RefusedInv, InputInv, SkillInv, Writing
    <2>3. OrderInv'
      <3>1. 1..job.at \subseteq 1..job'.at
        BY <1>1, <2>1
      <3> QED BY <1>1, <1>2, <1>3, <2>1, <3>1 DEF OrderInv, Before
    <2> QED BY <2>2, <2>3 DEF OutputIInv
  <1>5. CASE Goto("create") /\ ~KeepsInstalled(Destination)
    <2>1. job'.phase = "create" /\ job'.at = job.at /\ job'.kills = job.kills
      BY <1>1, <1>5 DEF Goto, JobType
    <2>2. ~request.force => dir[Destination] = "absent"
      BY <1>5 DEF KeepsInstalled
    <2>3. NeverTorn' /\ TempInv' /\ LitterInv' /\ RefusedInv' /\ InputInv'
      BY <1>1, <1>2, <1>3, <2>1 DEF NeverTorn, TempInv, LitterInv, RefusedInv, InputInv, Writing
    <2>4. SkillInv'
      BY <1>2, <2>1, <2>2 DEF SkillInv, Destination
    <2>5. OrderInv'
      BY <1>1, <1>2, <1>3, <2>1 DEF OrderInv, Before
    <2> QED BY <2>3, <2>4, <2>5 DEF OutputIInv
  <1> QED BY <1>4, <1>5 DEF Gate

\* The steps of write_atomic before the rename, and the report.
LEMMA FillOutputs ==
  ASSUME TypeIInv, OutputIInv, WriteCreate \/ WriteFill \/ WriteRecheck \/ Report
  PROVE  OutputIInv'
  <1>1. /\ job \in JobType /\ job.phase \in {"create", "fill", "recheck", "report"}
        /\ UNCHANGED <<dir, litter, meddling, request>>
    BY DEF TypeIInv, JobInv, WriteCreate, WriteFill, WriteRecheck, Report, CreateTemporary,
           FillTemporary, Quiet, outputVars
  <1>2. job'.at = job.at /\ job'.kills = job.kills
    BY <1>1 DEF WriteCreate, WriteFill, WriteRecheck, Report, Goto, JobType
  <1>3. \/ job.phase = "create" /\ job'.phase = "fill" /\ temp' = "part"
        \/ job.phase = "fill" /\ job'.phase = "recheck" /\ temp' = "full"
        \/ job.phase = "recheck" /\ job'.phase = "persist" /\ temp' = temp
        \/ job.phase = "report" /\ job'.phase = "done" /\ temp' = temp
    BY <1>1 DEF WriteCreate, WriteFill, WriteRecheck, Report, Goto, JobType, CreateTemporary,
                FillTemporary, Quiet, outputVars
  <1>4. NeverTorn' /\ TempInv' /\ LitterInv' /\ RefusedInv'
    BY <1>1, <1>2, <1>3 DEF OutputIInv, NeverTorn, TempInv, LitterInv, RefusedInv
  <1>5. InputInv' /\ SkillInv'
    BY <1>1, <1>2, <1>3 DEF OutputIInv, InputInv, SkillInv, Writing, Destination
  <1>6. OrderInv'
    BY <1>1, <1>2, <1>3 DEF OutputIInv, OrderInv, Before
  <1> QED BY <1>4, <1>5, <1>6 DEF OutputIInv

\* The rename: the destination holds the whole output, and the command goes on to the next.
LEMMA PersistOutputs ==
  ASSUME TypeIInv, OutputIInv, WritePersist
  PROVE  OutputIInv'
  <1>1. /\ job \in JobType /\ job.at \in 1..Len(request.todo) /\ Len(request.todo) \in Nat
        /\ job.phase = "persist" /\ Destination \in Destinations
        /\ dir \in [Destinations -> Contents] /\ temp = "full"
        /\ \A i \in 1..Len(request.todo) : request.todo[i] \in Destinations
        /\ request.command \in {"export", "install"}
    BY TodoType DEF TypeIInv, CallOK, OutputTypeOK, WritePersist, OutputIInv, TempInv
  <1>2. /\ dir' = [dir EXCEPT ![Destination] = "new"] /\ temp' = "none"
        /\ UNCHANGED <<litter, meddling, request>>
    BY <1>1 DEF WritePersist, Persist
  <1>3. /\ dir'[Destination] = "new"
        /\ \A d \in Destinations : d # Destination => dir'[d] = dir[d]
    BY <1>1, <1>2
  <1>4. /\ job'.kills = job.kills
        /\ \/ /\ job.at < Len(request.todo) /\ job'.at = job.at + 1
              /\ job'.phase = IF request.command = "install" THEN "gate" ELSE "create"
           \/ /\ job.at = Len(request.todo) /\ job'.at = job.at
              /\ job'.phase = IF request.command = "install" THEN "done" ELSE "report"
    BY <1>1 DEF WritePersist, NextDestination, JobType
  <1> HIDE DEF Destination
  <1>5. NeverTorn' /\ TempInv' /\ LitterInv' /\ RefusedInv'
    BY <1>1, <1>2, <1>3, <1>4 DEF OutputIInv, NeverTorn, TempInv, LitterInv, RefusedInv
  <1>6. InputInv' /\ SkillInv'
    BY <1>1, <1>2, <1>3, <1>4 DEF OutputIInv, InputInv, SkillInv, Writing
  <1>7. OrderInv'
    <2>1. Destination = request.todo[job.at]
      BY DEF Destination
    <2>2. OrderInv
      BY DEF OutputIInv
    <2>3. \A d \in Destinations : dir'[d] = "new" => \E i \in 1..job.at : request.todo[i] = d
      BY <1>1, <1>3, <2>1, <2>2 DEF OrderInv
    <2>4. 1..job.at \subseteq 1..job'.at /\ job'.phase \notin Before
      BY <1>1, <1>4 DEF Before
    <2>5. ASSUME meddling = 0, request.command = "export", NEW i \in 1..Len(request.todo),
                 i < job'.at \/ job'.phase = "report"
          PROVE  dir'[request.todo[i]] = "new"
      <3>1. i <= job.at
        BY <1>1, <1>4, <2>5
      <3>2. i = job.at \/ i < job.at
        BY <1>1, <3>1
      <3>3. CASE i = job.at
        BY <1>3, <2>1, <3>3
      <3>4. CASE i < job.at
        BY <1>1, <1>3, <2>2, <2>5, <3>4 DEF OrderInv
      <3> QED BY <3>2, <3>3, <3>4
    <2>6. job'.phase = "done" => request.command = "install"
      BY <1>4
    <2> QED BY <1>2, <2>3, <2>4, <2>5, <2>6 DEF OrderInv
  <1> QED BY <1>5, <1>6, <1>7 DEF OutputIInv

\* Another process replaces a destination that is not the input, with nothing of this command.
LEMMA MeddleOutputs ==
  ASSUME TypeIInv, OutputIInv, Others
  PROVE  OutputIInv'
  <1>1. /\ job \in JobType /\ dir \in [Destinations -> Contents] /\ meddling \in Nat
        /\ \A i \in 1..Len(request.todo) : request.todo[i] \in Destinations
    BY TodoType, OutputAssumption DEF TypeIInv, OutputTypeOK
  <1>2. UNCHANGED <<temp, litter, request, job>> /\ meddling' = meddling + 1
    BY DEF Others, Meddle
  <1>3. \A d \in Destinations : dir'[d] # dir[d] => dir'[d] \notin {"new", "part", "input"}
    BY <1>1 DEF Others, Meddle
  <1>4. NeverTorn' /\ TempInv' /\ LitterInv' /\ RefusedInv'
    BY <1>2, <1>3 DEF OutputIInv, NeverTorn, TempInv, LitterInv, RefusedInv
  <1>5. InputInv' /\ SkillInv'
    BY <1>1, <1>2, <1>3 DEF OutputIInv, InputInv, SkillInv
  <1>6. OrderInv'
    BY <1>1, <1>2, <1>3 DEF OutputIInv, OrderInv
  <1> QED BY <1>4, <1>5, <1>6 DEF OutputIInv

\* Every step keeps what the outputs promise.
LEMMA NextOutputs == TypeIInv /\ OutputIInv /\ [Next]_vars => OutputIInv'
  <1> SUFFICES ASSUME TypeIInv, OutputIInv, [Next]_vars PROVE OutputIInv'
    OBVIOUS
  <1>1. CASE Accept \/ Grow \/ UNCHANGED vars
    <2>1. UNCHANGED <<dir, temp, litter, meddling, request, job>>
      BY <1>1 DEF Accept, Grow, AppendTo, Continue, vars, outputVars
    <2> QED BY <2>1 DEF OutputIInv, NeverTorn, TempInv, LitterInv, RefusedInv, InputInv, SkillInv,
                        OrderInv, Destination
  <1> QED BY <1>1, StartOutputs, ReadOutputs, EndOutputs, CheckOutputs, GateOutputs, FillOutputs,
             PersistOutputs, MeddleOutputs DEF Next, Step, Convert, Write

\* The inductive invariant of write_atomic and of the order of the writes holds throughout.
THEOREM OutputsHold == Spec => [](TypeIInv /\ OutputIInv)
  <1>1. Init => TypeIInv /\ OutputIInv
    BY InitTypes, InitOutputs
  <1>2. TypeIInv /\ OutputIInv /\ [Next]_vars => TypeIInv' /\ OutputIInv'
    BY NextTypes, NextOutputs
  <1> QED BY <1>1, <1>2, PTL DEF Spec

\* No destination ever holds the beginning of an output, wherever a write_atomic is interrupted.
THEOREM ExporterNeverTorn == Spec => []NeverTorn
  <1>1. OutputIInv => NeverTorn
    BY DEF OutputIInv
  <1> QED BY <1>1, OutputsHold, PTL

\* A command that ends removes its temporary file; only a killed one leaves its one file behind.
THEOREM ExporterTemporariesRemoved == Spec => []TemporariesRemoved
  <1>1. OutputIInv => TemporariesRemoved
    BY DEF OutputIInv, TempInv, LitterInv, TemporariesRemoved, Ended
  <1> QED BY <1>1, OutputsHold, PTL

\* An export refused because of one destination has written none of the others.
THEOREM ExporterRefusedWritesNothing == Spec => []RefusedWritesNothing
  <1>1. OutputIInv => RefusedWritesNothing
    BY DEF OutputIInv, RefusedInv, RefusedWritesNothing
  <1> QED BY <1>1, OutputsHold, PTL

\* Only destinations of the command line are replaced, of an export in their order and all of them
\* before it reports success.
THEOREM ExporterWrittenInOrder == Spec => []WrittenInOrder
  <1>1. OutputIInv => WrittenInOrder
    BY DEF OutputIInv, OrderInv, WrittenInOrder
  <1> QED BY <1>1, OutputsHold, PTL

\* The session log that is exported is never replaced, whatever other processes do to its names'
\* neighbours between the check of a destination and the rename.
THEOREM ExporterInputKept == Spec => InputKept
  <1> DEFINE Kept == \A d \in Destinations : dir[d] = "input" => dir'[d] = "input"
  <1>1. TypeIInv /\ OutputIInv /\ [Next]_vars => Kept
    <2> SUFFICES ASSUME TypeIInv, OutputIInv, [Next]_vars PROVE Kept
      OBVIOUS
    <2>1. dir \in [Destinations -> Contents]
      BY DEF TypeIInv, OutputTypeOK
    <2>2. CASE UNCHANGED dir
      BY <2>2
    <2>3. CASE Start
      BY <2>1, <2>3 DEF Start, Settle
    <2>4. CASE Others
      BY <2>1, <2>4 DEF Others, Meddle
    <2>5. CASE WritePersist
      <3>1. /\ job.phase = "persist" /\ job.at \in 1..Len(request.todo)
            /\ request.command \in {"export", "install"} /\ Destination \in Destinations
        BY <2>5, TodoType DEF WritePersist, TypeIInv, CallOK
      <3>2. dir[Destination] # "input"
        BY <3>1 DEF OutputIInv, InputInv, Writing, Destination
      <3> QED BY <2>1, <2>5, <3>1, <3>2 DEF WritePersist, Persist
    <2>6. UNCHANGED dir \/ Start \/ Others \/ WritePersist
      BY DEF Next, Step, Convert, Write, Fail, Kill, Prepare, CheckDestination, Gate, WriteCreate,
             WriteFill, WriteRecheck, WriteRefused, WritePersistFails, Report, Quiet, DetectLine,
             ConvertLine, ConvertBlank, ConvertEnd, Accept, Grow, AppendTo, Continue,
             CreateTemporary, FillTemporary, DropTemporary, LeaveTemporary, vars, outputVars
    <2> QED BY <2>2, <2>3, <2>4, <2>5, <2>6
  <1>2. TypeIInv /\ OutputIInv /\ [Next]_vars => [Kept]_vars
    BY <1>1
  <1> QED BY <1>2, OutputsHold, PTL DEF Spec, InputKept

\* Without --force an installed skill stays, unless another process changes it.
THEOREM ExporterSkillKept == Spec => SkillKept
  <1> DEFINE Kept == \A d \in Destinations :
                       request.command = "install" /\ ~request.force /\ meddling' = 0 /\ dir[d] = "old"
                       => dir'[d] = "old"
  <1>1. TypeIInv /\ OutputIInv /\ [Next]_vars => Kept
    <2> SUFFICES ASSUME TypeIInv, OutputIInv, [Next]_vars PROVE Kept
      OBVIOUS
    <2>1. dir \in [Destinations -> Contents] /\ meddling \in Nat
      BY OutputAssumption DEF TypeIInv, OutputTypeOK
    <2>2. CASE UNCHANGED dir
      BY <2>2
    <2>3. CASE Start
      BY <2>1, <2>3 DEF Start, Settle
    <2>4. CASE Others
      BY <2>1, <2>4 DEF Others, Meddle
    <2>5. CASE WritePersist
      <3>1. job.phase = "persist" /\ Destination \in Destinations /\ meddling' = meddling
        BY <2>5, TodoType DEF WritePersist, Persist
      <3>2. request.command = "install" /\ ~request.force /\ meddling = 0 => dir[Destination] = "absent"
        BY <3>1 DEF OutputIInv, SkillInv, Writing
      <3> QED BY <2>1, <2>5, <3>1, <3>2 DEF WritePersist, Persist
    <2>6. UNCHANGED dir \/ Start \/ Others \/ WritePersist
      BY DEF Next, Step, Convert, Write, Fail, Kill, Prepare, CheckDestination, Gate, WriteCreate,
             WriteFill, WriteRecheck, WriteRefused, WritePersistFails, Report, Quiet, DetectLine,
             ConvertLine, ConvertBlank, ConvertEnd, Accept, Grow, AppendTo, Continue,
             CreateTemporary, FillTemporary, DropTemporary, LeaveTemporary, vars, outputVars
    <2> QED BY <2>2, <2>3, <2>4, <2>5, <2>6
  <1>2. TypeIInv /\ OutputIInv /\ [Next]_vars => [Kept]_vars
    BY <1>1
  <1> QED BY <1>2, OutputsHold, PTL DEF Spec, SkillKept
=============================================================================
