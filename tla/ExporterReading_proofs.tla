------------------------ MODULE ExporterReading_proofs ------------------------
(***************************************************************************)
(* Proofs about how Exporter reads the session log: which format it takes  *)
(* it for, which lines the conversion gets and which of their events it    *)
(* keeps, for every log and however it grows while it is read.             *)
(*                                                                         *)
(* A record of which a part has been read is the last one there was then,  *)
(* so every record complete when a pass opened the log is read as one      *)
(* line.  PlaceInv says so of the place a pass stands at, ScoreInv what    *)
(* detect_format has counted up to there, LinesInv what the conversion has *)
(* got, CleanIInv what the Cleaner has made of the events of these lines.  *)
(***************************************************************************)
EXTENDS Exporter_proofs, FiniteSetTheorems

\* A place in the log: a record begun is there, and what was read of it does not shrink.
Place(pos, mid) ==
  /\ mid # "none" => pos + 1 <= Len(log)
  /\ mid = "all" /\ pos + 1 = Len(log) => tail # "front"

\* The first s records are complete, and one that was read in part lies behind them.
Reaches(s, pos, mid) == s <= Complete /\ (mid # "none" => s <= pos)

PlaceInv ==
  /\ job.sampled <= Len(log)
  /\ job.phase = "detect" => Place(job.pos, job.mid) /\ Reaches(job.sampled, job.pos, job.mid)
  /\ job.phase = "convert" => /\ Place(job.pos, job.mid)
                              /\ Reaches(job.opened, job.pos, job.mid)
                              /\ job.begun <= Len(log)

\* What detect_format has counted: nothing that is not in the log, every record of the sample it
\* has passed, and no line twice before the records that were complete are read.
Scored(hits, pos) ==
  /\ \A f \in Formats : hits[f] > 0 => \E i \in 1..Len(log) : log[i].agent = f
  /\ \A i \in 1..Len(log), f \in Formats :
       i <= job.sampled /\ i <= pos /\ log[i].form # "bad" /\ log[i].agent = f => hits[f] > 0

ScoreInv ==
  job.phase = "detect" => /\ Scored(job.hits, job.pos)
                          /\ job.pos < job.sampled => job.seen = job.pos

LineRead == [what : {"whole", "front", "rest"}, rec : Nat]

Gets(lines, r) == \E k \in DOMAIN lines : lines[k].rec = r
GetsWhole(lines, r) == \E k \in DOMAIN lines : lines[k] = [what |-> "whole", rec |-> r]

InOrder(lines) ==
  \A i, j \in DOMAIN lines :
    i < j => \/ lines[i].rec < lines[j].rec
             \/ lines[i].rec = lines[j].rec /\ lines[i].what = "front" /\ lines[j].what = "rest"

\* What the lines got so far are, when the conversion stands at a place.
LinesUpTo(lines, opened, pos, mid) ==
  /\ \A k \in DOMAIN lines :
       \/ lines[k].rec <= pos
       \/ lines[k].rec = pos + 1 /\ mid # "none" /\ (mid = "front" => lines[k].what = "front")
  /\ \A r \in 1..opened : r <= pos => GetsWhole(lines, r)
  /\ \A r \in 1..pos : Gets(lines, r)
  /\ mid # "none" => Gets(lines, pos + 1)

LinesInv ==
  /\ job.phase = "detect" => got = <<>>
  /\ job.phase = "convert" => LinesUpTo(got, job.opened, job.pos, job.mid)

ReadIInv == PlaceInv /\ ScoreInv /\ FormatOfTheLog /\ LinesInv /\ EveryRecordRead

----------------------------------------------------------------------------
\* The log and the place in it.
LEMMA PlaceTypes ==
  ASSUME TypeIInv
  PROVE  /\ job \in JobType /\ log \in Seq(Record) /\ Len(log) \in Nat
         /\ job.pos \in Nat /\ job.mid \in {"none", "front", "all"}
         /\ job.sampled \in Nat /\ job.opened \in Nat /\ job.begun \in Nat /\ job.seen \in Nat
         /\ \A f \in Formats : job.hits[f] \in Nat
         /\ tail \in {"none", "front", "all"}
         /\ Complete \in Nat /\ Complete <= Len(log)
         /\ Complete = IF tail = "none" THEN Len(log) ELSE Len(log) - 1
         /\ \A i \in 1..Len(log) : log[i] \in Record
         /\ Sample \in Nat
  <1>1. job \in JobType /\ log \in Seq(Record) /\ MaxRecords \in Nat /\ Sample \in Nat
    BY ExporterAssumption DEF TypeIInv, JobInv, LogInv
  <1>2. /\ job.pos \in 0..MaxRecords /\ job.mid \in {"none", "front", "all"}
        /\ job.sampled \in 0..MaxRecords /\ job.opened \in 0..MaxRecords
        /\ job.begun \in 0..MaxRecords /\ job.seen \in 0..Sample
        /\ job.hits \in [Formats -> 0..Sample]
    BY <1>1 DEF JobType
  <1>3. Len(log) \in Nat /\ tail \in {"none", "front", "all"} /\ (tail # "none" => Len(log) > 0)
    BY <1>1, LenProperties DEF TypeIInv, LogInv
  <1>4. /\ Complete \in Nat /\ Complete <= Len(log)
        /\ Complete = IF tail = "none" THEN Len(log) ELSE Len(log) - 1
    BY <1>3 DEF Complete
  <1>5. \A i \in 1..Len(log) : log[i] \in Record
    BY <1>1, ElementOfSeq
  <1> QED BY <1>1, <1>2, <1>3, <1>4, <1>5

\* What the next line is: a complete record or the rest of it, the end, or what there is of the
\* last record.
LEMMA NextLineCases ==
  ASSUME TypeIInv, Place(job.pos, job.mid)
  PROVE  \/ /\ job.pos + 1 <= Complete
            /\ NextLine.pos = job.pos + 1 /\ NextLine.mid = "none"
            /\ job.mid = "none" => NextLine.what = "whole"
            /\ job.mid = "front" => NextLine.what = "rest"
            /\ job.mid = "all" => NextLine.what = "blank"
         \/ /\ Complete < job.pos + 1
            /\ NextLine.what = "end" /\ NextLine.pos = job.pos /\ NextLine.mid = job.mid
            /\ job.mid = "none" => job.pos >= Len(log)
            /\ job.mid # "none" => job.pos + 1 = Len(log)
         \/ /\ Complete < job.pos + 1 /\ job.pos + 1 = Len(log)
            /\ NextLine.pos = job.pos /\ NextLine.mid = tail /\ tail \in {"front", "all"}
            /\ job.mid = "none" => NextLine.what = IF tail = "all" THEN "whole" ELSE "front"
            /\ job.mid # "none" => job.mid = "front" /\ tail = "all" /\ NextLine.what = "rest"
  <1>1. /\ Len(log) \in Nat /\ job.pos \in Nat /\ job.mid \in {"none", "front", "all"}
        /\ tail \in {"none", "front", "all"} /\ Complete \in Nat
        /\ Complete = IF tail = "none" THEN Len(log) ELSE Len(log) - 1
    BY PlaceTypes
  <1> DEFINE n == job.pos + 1
  <1>2. CASE n <= Complete
    <2>1. NextLine = Line(IF job.mid = "none" THEN "whole"
                          ELSE IF job.mid = "front" THEN "rest" ELSE "blank", n, "none")
      BY <1>2 DEF NextLine
    <2> QED BY <1>1, <1>2, <2>1 DEF Line
  <1>3. CASE ~(n <= Complete) /\ (n > Len(log) \/ job.mid = tail)
    <2>1. NextLine = Line("end", job.pos, job.mid)
      BY <1>3 DEF NextLine
    <2>2. Complete < n /\ (job.mid = "none" => job.pos >= Len(log))
          /\ (job.mid # "none" => n = Len(log))
      BY <1>1, <1>3 DEF Place
    <2> QED BY <2>1, <2>2 DEF Line
  <1>4. CASE ~(n <= Complete) /\ ~(n > Len(log) \/ job.mid = tail)
    <2>1. NextLine = Line(IF job.mid = "front" THEN "rest" ELSE IF tail = "all" THEN "whole"
                          ELSE "front", job.pos, tail)
      BY <1>4 DEF NextLine
    <2>2. Complete < n /\ n = Len(log) /\ tail # "none"
      BY <1>1, <1>4
    <2>3. job.mid # "none" => job.mid = "front" /\ tail = "all"
      BY <1>1, <1>4, <2>2 DEF Place
    <2> QED BY <1>1, <2>1, <2>2, <2>3 DEF Line
  <1> QED BY <1>2, <1>3, <1>4

\* Reading on keeps the place, and a record complete when the pass began is never read in part.
LEMMA PlaceKept ==
  ASSUME TypeIInv, Place(job.pos, job.mid), NEW s \in Nat, Reaches(s, job.pos, job.mid)
  PROVE  /\ Place(NextLine.pos, NextLine.mid)
         /\ Reaches(s, NextLine.pos, NextLine.mid)
  BY PlaceTypes, NextLineCases DEF Place, Reaches

\* The log only grows, and what was complete stays.
LEMMA LogGrows ==
  ASSUME TypeIInv, Grow
  PROVE  /\ job.phase \in {"idle", "detect", "convert"}
         /\ UNCHANGED <<request, job, got>>
         /\ Len(log') \in Nat /\ Len(log) <= Len(log')
         /\ \A i \in 1..Len(log) : log'[i] = log[i]
         /\ Complete <= Complete'
         /\ Len(log') = Len(log) => tail' # "front"
  <1>1. /\ job.phase \in {"idle", "detect", "convert"} /\ UNCHANGED <<request, job, got>>
    BY DEF Grow, AppendTo, Continue, PastReading, convertVars
  <1>2. /\ log \in Seq(Record) /\ Len(log) \in Nat
        /\ Complete = IF tail = "none" THEN Len(log) ELSE Len(log) - 1
    BY PlaceTypes
  <1>3. CASE AppendTo("front") \/ AppendTo("none")
    <2>1. PICK r \in Appended : log' = Append(log, r) /\ tail = "none" /\ tail' \in {"front", "none"}
      BY <1>3 DEF AppendTo
    <2>2. r \in Record
      BY ExporterAssumption
    <2>3. Len(log') = Len(log) + 1 /\ \A i \in 1..Len(log) : log'[i] = log[i]
      BY <1>2, <2>1, <2>2, AppendProperties
    <2> QED BY <1>1, <1>2, <2>1, <2>3 DEF Complete
  <1>4. CASE Continue
    <2>1. log' = log /\ tail # "none" /\ tail' # "front"
      BY <1>4 DEF Continue
    <2> QED BY <1>1, <1>2, <2>1 DEF Complete
  <1> QED BY <1>3, <1>4 DEF Grow

----------------------------------------------------------------------------
\* What one more line adds to those got.
LEMMA LineAdded ==
  ASSUME NEW lines \in Seq(LineRead), NEW line \in LineRead
  PROVE  LET more == Append(lines, line) IN
         /\ \A r : Gets(more, r) <=> Gets(lines, r) \/ line.rec = r
         /\ \A r : GetsWhole(lines, r) \/ line = [what |-> "whole", rec |-> r] => GetsWhole(more, r)
         /\ \A k \in DOMAIN more : (k \in DOMAIN lines /\ more[k] = lines[k]) \/ more[k] = line
         /\ InOrder(lines)
            /\ (\A k \in DOMAIN lines :
                  \/ lines[k].rec < line.rec
                  \/ lines[k].rec = line.rec /\ lines[k].what = "front" /\ line.what = "rest")
            => InOrder(more)
  <1> DEFINE more == Append(lines, line)
             n == Len(lines) + 1
  <1>1. /\ Len(lines) \in Nat /\ DOMAIN lines = 1..Len(lines)
        /\ more \in Seq(LineRead) /\ DOMAIN more = 1..n
        /\ \A k \in 1..Len(lines) : more[k] = lines[k]
        /\ more[n] = line
    <2>1. /\ more \in Seq(LineRead) /\ Len(more) = n
          /\ \A k \in 1..Len(lines) : more[k] = lines[k]
          /\ more[n] = line
      BY AppendProperties
    <2> HIDE DEF more
    <2> QED BY <2>1, LenProperties
  <1>2. /\ DOMAIN lines \subseteq DOMAIN more /\ n \in DOMAIN more
        /\ \A k \in DOMAIN more : k \in DOMAIN lines \/ k = n
    BY <1>1
  <1> HIDE DEF more
  <1>3. \A r : Gets(more, r) <=> Gets(lines, r) \/ line.rec = r
    BY <1>1, <1>2 DEF Gets
  <1>4. \A r : GetsWhole(lines, r) \/ line = [what |-> "whole", rec |-> r] => GetsWhole(more, r)
    BY <1>1, <1>2 DEF GetsWhole
  <1>5. \A k \in DOMAIN more : (k \in DOMAIN lines /\ more[k] = lines[k]) \/ more[k] = line
    BY <1>1, <1>2
  <1>6. ASSUME InOrder(lines),
               \A k \in DOMAIN lines :
                  \/ lines[k].rec < line.rec
                  \/ lines[k].rec = line.rec /\ lines[k].what = "front" /\ line.what = "rest"
        PROVE  InOrder(more)
    <2> SUFFICES ASSUME NEW i \in DOMAIN more, NEW j \in DOMAIN more, i < j
                 PROVE  \/ more[i].rec < more[j].rec
                        \/ more[i].rec = more[j].rec /\ more[i].what = "front"
                           /\ more[j].what = "rest"
      BY DEF InOrder
    <2>1. i \in DOMAIN lines
      BY <1>1
    <2>2. CASE j \in DOMAIN lines
      BY <1>1, <1>6, <2>1, <2>2 DEF InOrder
    <2>3. CASE j = n
      BY <1>1, <1>6, <2>1, <2>3
    <2> QED BY <1>2, <2>2, <2>3
  <1> QED BY <1>3, <1>4, <1>5, <1>6 DEF more

\* A line of the conversion extends what it has got.
LEMMA LineEffect ==
  ASSUME TypeIInv, ReadIInv, ConvertLine
  PROVE  /\ LinesUpTo(got', job.opened, NextLine.pos, NextLine.mid)
         /\ InOrder(got')
  <1> DEFINE n == job.pos + 1
             line == [what |-> NextLine.what, rec |-> n]
             opened == job.opened
  <1>1. /\ job.phase = "convert" /\ got' = Append(got, line)
        /\ NextLine.what \notin {"end", "blank"}
    BY DEF ConvertLine
  <1>2. /\ Place(job.pos, job.mid) /\ Reaches(job.opened, job.pos, job.mid)
        /\ LinesUpTo(got, job.opened, job.pos, job.mid)
        /\ InOrder(got)
    BY <1>1 DEF ReadIInv, PlaceInv, LinesInv, EveryRecordRead, InOrder
  <1>3. /\ job.pos \in Nat /\ opened \in Nat /\ job.mid \in {"none", "front", "all"}
        /\ Complete \in Nat
    BY PlaceTypes
  <1>4. got \in Seq(LineRead) /\ line \in LineRead
    BY <1>1, <1>3, NextLineType DEF TypeIInv, GotInv, LineRead
  <1> HIDE DEF line
  <1>5. \A k \in DOMAIN got : got[k].rec \in Nat
    <2> TAKE k \in DOMAIN got
    <2>1. got[k] \in LineRead
      BY <1>4, LenProperties, ElementOfSeq
    <2> QED BY <2>1 DEF LineRead
  <1>6. line.rec = n /\ line.what = NextLine.what
    BY DEF line
  <1>7. /\ \A r : Gets(got', r) <=> Gets(got, r) \/ line.rec = r
        /\ \A r : GetsWhole(got, r) \/ line = [what |-> "whole", rec |-> r] => GetsWhole(got', r)
        /\ \A k \in DOMAIN got' : (k \in DOMAIN got /\ got'[k] = got[k]) \/ got'[k] = line
    BY <1>1, <1>4, LineAdded
  <1>8. InOrder(got')
    <2>1. ASSUME NEW k \in DOMAIN got
          PROVE  \/ got[k].rec < line.rec
                 \/ got[k].rec = line.rec /\ got[k].what = "front" /\ line.what = "rest"
      <3>1. CASE got[k].rec <= job.pos
        BY <1>3, <1>5, <1>6, <3>1
      <3>2. CASE got[k].rec = n /\ job.mid # "none" /\ (job.mid = "front" => got[k].what = "front")
        BY <1>1, <1>2, <1>3, <1>6, <3>2, NextLineCases
      <3> QED BY <1>2, <3>1, <3>2 DEF LinesUpTo
    <2> QED BY <1>1, <1>2, <1>4, <2>1, LineAdded
  <1>9. CASE job.pos + 1 <= Complete
    <2>1. /\ NextLine.pos = n /\ NextLine.mid = "none"
          /\ job.mid = "none" => NextLine.what = "whole"
      BY <1>1, <1>2, <1>3, <1>9, NextLineCases
    <2>2. ASSUME NEW k \in DOMAIN got' PROVE got'[k].rec <= n
      <3>1. CASE got'[k] = line
        BY <1>3, <1>6, <3>1
      <3>2. CASE k \in DOMAIN got /\ got'[k] = got[k]
        BY <1>2, <1>3, <1>5, <3>2 DEF LinesUpTo
      <3> QED BY <1>7, <3>1, <3>2
    <2>3. ASSUME NEW r \in 1..opened, r <= n PROVE GetsWhole(got', r)
      <3>1. CASE r <= job.pos
        BY <1>2, <1>7, <3>1 DEF LinesUpTo
      <3>2. CASE r = n
        <4>1. job.mid = "none"
          BY <1>2, <1>3, <3>2 DEF Reaches
        <4>2. line = [what |-> "whole", rec |-> r]
          BY <2>1, <3>2, <4>1 DEF line
        <4> QED BY <1>7, <4>2
      <3> QED BY <1>3, <2>3, <3>1, <3>2
    <2>4. ASSUME NEW r \in 1..n PROVE Gets(got', r)
      <3>1. r \in 1..job.pos \/ r = n
        BY <1>3
      <3> QED BY <1>2, <1>6, <1>7, <3>1 DEF LinesUpTo
    <2>5. LinesUpTo(got', opened, n, "none")
      BY <2>2, <2>3, <2>4 DEF LinesUpTo
    <2> QED BY <1>8, <2>1, <2>5
  <1>10. CASE ~(job.pos + 1 <= Complete)
    <2>1. /\ NextLine.pos = job.pos /\ NextLine.mid \in {"front", "all"}
          /\ NextLine.mid = "front" => job.mid = "none" /\ NextLine.what = "front"
      BY <1>1, <1>2, <1>3, <1>10, NextLineCases
    <2> DEFINE mid == NextLine.mid
    <2>2. ASSUME NEW k \in DOMAIN got'
          PROVE  \/ got'[k].rec <= job.pos
                 \/ got'[k].rec = n /\ mid # "none" /\ (mid = "front" => got'[k].what = "front")
      <3>1. CASE got'[k] = line
        BY <1>6, <2>1, <3>1
      <3>2. CASE k \in DOMAIN got /\ got'[k] = got[k]
        BY <1>2, <2>1, <3>2 DEF LinesUpTo
      <3> QED BY <1>7, <3>1, <3>2
    <2>3. \A r \in 1..opened : r <= job.pos => GetsWhole(got', r)
      BY <1>2, <1>7 DEF LinesUpTo
    <2>4. \A r \in 1..job.pos : Gets(got', r)
      BY <1>2, <1>7 DEF LinesUpTo
    <2>5. Gets(got', n)
      BY <1>6, <1>7
    <2>6. LinesUpTo(got', opened, job.pos, mid)
      BY <2>2, <2>3, <2>4, <2>5 DEF LinesUpTo
    <2> QED BY <1>8, <2>1, <2>6
  <1> QED BY <1>9, <1>10

----------------------------------------------------------------------------
(* The steps of the conversion. *)

\* A conversion that goes on leaves the command where it is in all else.
LEMMA ConvertEffect ==
  ASSUME TypeIInv, ConvertLine \/ ConvertBlank
  PROVE  /\ job.phase = "convert" /\ UNCHANGED <<log, tail, request>>
         /\ job'.phase = "convert" /\ job'.pos = NextLine.pos /\ job'.mid = NextLine.mid
         /\ job'.sampled = job.sampled /\ job'.opened = job.opened /\ job'.begun = job.begun
         /\ job'.format = job.format
  <1>1. job \in JobType
    BY PlaceTypes
  <1>2. job.phase = "convert" /\ UNCHANGED <<log, tail, request>>
    BY DEF ConvertLine, ConvertBlank, inputVars
  <1>3. \/ job' = [job EXCEPT !.pos = NextLine.pos, !.mid = NextLine.mid]
        \/ \E b : job' = [job EXCEPT !.pos = NextLine.pos, !.mid = NextLine.mid, !.synthesized = b]
    <2>1. CASE ConvertBlank
      BY <2>1 DEF ConvertBlank
    <2>2. CASE ConvertLine
      <3> DEFINE b == job.synthesized \/ (~job.synthesized
                        /\ Synthesizes(RecordOf(NextLine.what, job.pos + 1), job.format))
      <3>1. job' = [job EXCEPT !.pos = NextLine.pos, !.mid = NextLine.mid, !.synthesized = b]
        BY <1>1, <2>2 DEF ConvertLine, JobType
      <3> HIDE DEF b
      <3> QED BY <3>1
    <2> QED BY <2>1, <2>2
  <1> QED BY <1>1, <1>2, <1>3 DEF JobType

\* An empty line ends a record whose every byte was read before.
LEMMA BlankEffect ==
  ASSUME TypeIInv, ReadIInv, ConvertBlank
  PROVE  got' = got /\ LinesUpTo(got', job.opened, NextLine.pos, NextLine.mid)
  <1>1. job.phase = "convert" /\ got' = got /\ NextLine.what = "blank"
    BY DEF ConvertBlank, convertVars
  <1>2. /\ Place(job.pos, job.mid) /\ Reaches(job.opened, job.pos, job.mid)
        /\ LinesUpTo(got, job.opened, job.pos, job.mid)
    BY <1>1 DEF ReadIInv, PlaceInv, LinesInv
  <1>3. job.pos \in Nat /\ job.opened \in Nat /\ job.mid \in {"none", "front", "all"}
        /\ Complete \in Nat /\ got \in Seq(LineRead)
    BY PlaceTypes DEF TypeIInv, GotInv, LineRead
  <1>4. job.mid = "all" /\ NextLine.pos = job.pos + 1 /\ NextLine.mid = "none"
    BY <1>1, <1>2, <1>3, NextLineCases
  <1>5. \A k \in DOMAIN got : got[k].rec \in Nat
    <2> TAKE k \in DOMAIN got
    <2>1. got[k] \in LineRead
      BY <1>3, LenProperties, ElementOfSeq
    <2> QED BY <2>1 DEF LineRead
  <1>6. \A k \in DOMAIN got : got[k].rec <= job.pos + 1
    BY <1>2, <1>3, <1>5 DEF LinesUpTo
  <1>7. \A r \in 1..job.opened : r <= job.pos + 1 => GetsWhole(got, r)
    <2>1. job.opened <= job.pos
      BY <1>2, <1>4 DEF Reaches
    <2> QED BY <1>2, <1>3, <2>1 DEF LinesUpTo
  <1>8. \A r \in 1..(job.pos + 1) : Gets(got, r)
    <2> TAKE r \in 1..(job.pos + 1)
    <2>1. r \in 1..job.pos \/ r = job.pos + 1
      BY <1>3
    <2> QED BY <1>2, <1>4, <2>1 DEF LinesUpTo
  <1> QED BY <1>1, <1>4, <1>6, <1>7, <1>8 DEF LinesUpTo

\* At the end every record that was begun when the conversion opened the log has been read.
LEMMA EndEffect ==
  ASSUME TypeIInv, ReadIInv, ConvertEnd
  PROVE  /\ \A r \in 1..job.opened : GetsWhole(got, r)
         /\ \A r \in 1..job.begun : Gets(got, r)
  <1>1. job.phase = "convert" /\ NextLine.what = "end"
    BY DEF ConvertEnd
  <1>2. /\ Place(job.pos, job.mid) /\ Reaches(job.opened, job.pos, job.mid)
        /\ LinesUpTo(got, job.opened, job.pos, job.mid)
        /\ job.begun <= Len(log)
    BY <1>1 DEF ReadIInv, PlaceInv, LinesInv
  <1>3. /\ job.pos \in Nat /\ job.opened \in Nat /\ job.begun \in Nat
        /\ job.mid \in {"none", "front", "all"}
        /\ Complete \in Nat /\ Len(log) \in Nat /\ tail \in {"none", "front", "all"}
    BY PlaceTypes
  <1>4. /\ Complete < job.pos + 1
        /\ job.mid = "none" => job.pos >= Len(log)
        /\ job.mid # "none" => job.pos + 1 = Len(log)
    BY <1>1, <1>2, <1>3, NextLineCases
  <1>5. \A r \in 1..job.opened : r <= job.pos
    BY <1>2, <1>3, <1>4 DEF Reaches
  <1>6. ASSUME NEW r \in 1..job.begun PROVE Gets(got, r)
    <2>1. r \in 1..job.pos \/ (r = job.pos + 1 /\ job.mid # "none")
      BY <1>2, <1>3, <1>4
    <2> QED BY <1>2, <2>1 DEF LinesUpTo
  <1> QED BY <1>2, <1>5, <1>6 DEF LinesUpTo

----------------------------------------------------------------------------
(* The steps of detect_format. *)

\* What counts a line more has counted no other.
LEMMA HitCounts ==
  ASSUME NEW hits \in [Formats -> Nat], NEW r
  PROVE  \A f \in Formats :
           /\ Hit(hits, r)[f] \in Nat
           /\ hits[f] > 0 => Hit(hits, r)[f] > 0
           /\ r.form # "bad" /\ r.agent = f => Hit(hits, r)[f] > 0
           /\ Hit(hits, r)[f] > 0 => hits[f] > 0 \/ (r.form # "bad" /\ r.agent = f)
  BY DEF Hit

\* A step of detect_format either opens the conversion or moves on by a line.
LEMMA DetectEffect ==
  ASSUME TypeIInv, DetectLine
  PROVE  /\ job.phase = "detect" /\ UNCHANGED <<log, tail, request, got>>
         /\ job'.sampled = job.sampled
         /\ \/ /\ SampleTaken(NextLine)
               /\ job'.phase = "convert" /\ job'.pos = 0 /\ job'.mid = "none"
               /\ job'.opened = Complete /\ job'.begun = Len(log)
               /\ job'.format = Verdict(job.hits, request.hint)
            \/ /\ job'.phase = "detect"
               /\ job'.pos = NextLine.pos /\ job'.mid = NextLine.mid
               /\ \/ /\ NextLine.what = "blank"
                     /\ job'.hits = job.hits /\ job'.seen = job.seen
                  \/ /\ NextLine.what \in {"whole", "front", "rest"}
                     /\ job'.hits = Hit(job.hits, RecordOf(NextLine.what, job.pos + 1))
                     /\ job'.seen = job.seen + 1
  <1> DEFINE line == NextLine
             moved == [job EXCEPT !.pos = line.pos, !.mid = line.mid]
  <1>1. job \in JobType /\ job.phase = "detect" /\ UNCHANGED <<log, tail, request, got>>
    BY PlaceTypes DEF DetectLine, inputVars, convertVars
  <1>2. CASE SampleTaken(line) /\ job' = OpenConversion([job EXCEPT !.format = Verdict(job.hits, request.hint)])
    <2> DEFINE verdict == Verdict(job.hits, request.hint)
    <2> HIDE DEF verdict
    <2>1. job' = [[[job EXCEPT !.format = verdict] EXCEPT !.pos = 0, !.mid = "none"]
                    EXCEPT !.phase = "convert", !.opened = Complete, !.begun = Len(log)]
      BY <1>2 DEF OpenConversion, OpenLog, verdict
    <2>2. /\ job'.phase = "convert" /\ job'.pos = 0 /\ job'.mid = "none"
          /\ job'.opened = Complete /\ job'.begun = Len(log)
          /\ job'.format = verdict /\ job'.sampled = job.sampled
      BY <1>1, <2>1 DEF JobType
    <2> QED BY <1>1, <1>2, <2>2 DEF verdict
  <1>3. moved.phase = "detect" /\ moved.pos = line.pos /\ moved.mid = line.mid
        /\ moved.hits = job.hits /\ moved.seen = job.seen /\ moved.sampled = job.sampled
        /\ moved \in JobType
    BY <1>1, NextLineType DEF JobType
  <1> HIDE DEF moved
  <1>4. CASE ~SampleTaken(line) /\ line.what = "blank" /\ job' = moved
    BY <1>1, <1>3, <1>4
  <1>5. CASE /\ ~SampleTaken(line) /\ line.what # "blank"
             /\ job' = [moved EXCEPT !.seen = @ + 1,
                                     !.hits = Hit(@, RecordOf(line.what, job.pos + 1))]
    <2> DEFINE hits == Hit(job.hits, RecordOf(line.what, job.pos + 1))
    <2>1. job' = [moved EXCEPT !.seen = job.seen + 1, !.hits = hits]
      BY <1>3, <1>5
    <2> HIDE DEF hits
    <2>2. /\ job'.phase = "detect" /\ job'.pos = line.pos /\ job'.mid = line.mid
          /\ job'.hits = hits /\ job'.seen = job.seen + 1 /\ job'.sampled = job.sampled
      BY <1>3, <2>1 DEF JobType
    <2>3. line.what \in {"whole", "front", "rest"}
      BY <1>5, NextLineType DEF SampleTaken
    <2> QED BY <1>1, <2>2, <2>3 DEF hits
  <1> QED BY <1>2, <1>4, <1>5 DEF DetectLine, moved

\* Counting a line keeps what is known of the counts.
LEMMA ScoreKept ==
  ASSUME TypeIInv, ReadIInv, DetectLine, job'.phase = "detect"
  PROVE  ScoreInv'
  <1>1. /\ job.phase = "detect" /\ UNCHANGED <<log, tail, request>>
        /\ job'.sampled = job.sampled
        /\ job'.pos = NextLine.pos /\ job'.mid = NextLine.mid
        /\ \/ /\ NextLine.what = "blank"
              /\ job'.hits = job.hits /\ job'.seen = job.seen
           \/ /\ NextLine.what \in {"whole", "front", "rest"}
              /\ job'.hits = Hit(job.hits, RecordOf(NextLine.what, job.pos + 1))
              /\ job'.seen = job.seen + 1
    BY DetectEffect
  <1>2. /\ Place(job.pos, job.mid) /\ Reaches(job.sampled, job.pos, job.mid)
        /\ Scored(job.hits, job.pos) /\ (job.pos < job.sampled => job.seen = job.pos)
    BY <1>1 DEF ReadIInv, PlaceInv, ScoreInv
  <1>3. /\ job.pos \in Nat /\ job.sampled \in Nat /\ job.seen \in Nat
        /\ job.mid \in {"none", "front", "all"}
        /\ Complete \in Nat /\ Len(log) \in Nat /\ Complete <= Len(log)
        /\ job.hits \in [Formats -> Nat] /\ job \in JobType
    <2>1. job.hits \in [Formats -> 0..Sample] /\ Sample \in Nat
      BY PlaceTypes DEF JobType
    <2> QED BY <2>1, PlaceTypes
  <1> DEFINE n == job.pos + 1
             r == RecordOf(NextLine.what, n)
  <1>4. r.form # "bad" => NextLine.what = "whole" /\ r = log[n] /\ n \in 1..Len(log)
    <2>1. r.form # "bad" => NextLine.what = "whole"
      BY DEF RecordOf
    <2>2. NextLine.what = "whole" => n <= Len(log)
      BY <1>2, <1>3, NextLineCases
    <2> QED BY <1>3, <2>1, <2>2 DEF RecordOf
  <1>5. ASSUME NextLine.pos # job.pos, n <= job.sampled
        PROVE  NextLine.what = "whole" /\ NextLine.pos = n
    <2>1. job.mid = "none"
      BY <1>2, <1>3, <1>5 DEF Reaches
    <2> QED BY <1>2, <1>3, <1>5, <2>1, NextLineCases
  <1>6. NextLine.pos \in {job.pos, n}
    BY <1>2, <1>3, NextLineCases
  <1>7. ASSUME NextLine.pos = job.pos PROVE job.pos >= job.sampled
    <2>1. Complete < n
      BY <1>1, <1>2, <1>3, <1>7, NextLineCases
    <2> QED BY <1>2, <1>3, <2>1 DEF Reaches
  <1>8. \A f \in Formats :
           /\ job.hits[f] > 0 => job'.hits[f] > 0
           /\ r.form # "bad" /\ r.agent = f /\ NextLine.what # "blank" => job'.hits[f] > 0
           /\ job'.hits[f] > 0 => job.hits[f] > 0 \/ (r.form # "bad" /\ r.agent = f)
    <2> HIDE DEF r
    <2>1. CASE job'.hits = job.hits /\ NextLine.what = "blank"
      BY <2>1
    <2>2. CASE job'.hits = Hit(job.hits, r)
      BY <1>3, <2>2, HitCounts
    <2> QED BY <1>1, <2>1, <2>2 DEF r
  <1> HIDE DEF r
  <1>9. ASSUME NEW f \in Formats, job'.hits[f] > 0
        PROVE  \E i \in 1..Len(log) : log[i].agent = f
    BY <1>2, <1>4, <1>8, <1>9 DEF Scored
  <1>10. ASSUME NEW i \in 1..Len(log), NEW f \in Formats, i <= job.sampled, i <= NextLine.pos,
                log[i].form # "bad", log[i].agent = f
         PROVE  job'.hits[f] > 0
    <2>1. CASE i <= job.pos
      BY <1>2, <1>8, <1>10, <2>1 DEF Scored
    <2>2. CASE ~(i <= job.pos)
      <3>1. NextLine.pos = n /\ i = n /\ NextLine.pos # job.pos
        BY <1>3, <1>6, <1>10, <2>2
      <3>2. NextLine.what = "whole"
        BY <1>5, <1>10, <3>1
      <3>3. r = log[i]
        BY <3>1, <3>2 DEF r, RecordOf
      <3> QED BY <1>8, <1>10, <3>2, <3>3
    <2> QED BY <2>1, <2>2
  <1>11. ASSUME NextLine.pos < job.sampled PROVE job'.seen = NextLine.pos
    <2>1. NextLine.pos = n /\ NextLine.what = "whole"
      BY <1>3, <1>5, <1>6, <1>7, <1>11
    <2>2. job.seen = job.pos
      BY <1>2, <1>3, <1>11, <2>1
    <2> QED BY <1>1, <2>1, <2>2
  <1> QED BY <1>1, <1>9, <1>10, <1>11 DEF ScoreInv, Scored

\* The verdict on a log in which one schema alone was counted.
LEMMA VerdictOfOne ==
  ASSUME NEW hits \in [Formats -> Nat], NEW hint, NEW f \in Formats,
         hits[f] > 0, \A g \in Formats \ {f} : hits[g] = 0
  PROVE  Verdict(hits, hint) = f
  <1>1. hits["codex"] \in Nat /\ hits["claude"] \in Nat /\ hits["opencode"] \in Nat
    BY DEF Formats
  <1>2. CASE f = "codex"
    BY <1>1, <1>2 DEF Formats, Verdict
  <1>3. CASE f = "claude"
    BY <1>1, <1>3 DEF Formats, Verdict
  <1>4. CASE f = "opencode"
    BY <1>1, <1>4 DEF Formats, Verdict
  <1> QED BY <1>2, <1>3, <1>4 DEF Formats

\* The format settled when the sample is taken is the one agent's, if one of its records was in it.
LEMMA FormatSettled ==
  ASSUME TypeIInv, ReadIInv, DetectLine, job'.phase = "convert"
  PROVE  FormatOfTheLog'
  <1>1. /\ job.phase = "detect" /\ UNCHANGED <<log, tail, request>>
        /\ job'.sampled = job.sampled
        /\ SampleTaken(NextLine)
        /\ job'.format = Verdict(job.hits, request.hint)
    BY DetectEffect
  <1>2. /\ Place(job.pos, job.mid) /\ Reaches(job.sampled, job.pos, job.mid)
        /\ Scored(job.hits, job.pos) /\ (job.pos < job.sampled => job.seen = job.pos)
        /\ job.sampled <= Len(log)
    BY <1>1 DEF ReadIInv, PlaceInv, ScoreInv
  <1>3. /\ job.pos \in Nat /\ job.sampled \in Nat /\ job.seen \in Nat /\ Sample \in Nat
        /\ job.mid \in {"none", "front", "all"}
        /\ Complete \in Nat /\ Len(log) \in Nat
        /\ job.hits \in [Formats -> Nat]
    <2>1. job.hits \in [Formats -> 0..Sample] /\ Sample \in Nat
      BY PlaceTypes DEF JobType
    <2> QED BY <2>1, PlaceTypes
  <1>4. SUFFICES ASSUME NEW f \in Formats,
                        \A i \in DOMAIN log : log[i].agent \in {f, "none"},
                        NEW i \in 1..Sample, i <= job.sampled,
                        log[i].agent = f, log[i].form # "bad"
                 PROVE  Verdict(job.hits, request.hint) = f
    BY <1>1 DEF FormatOfTheLog
  <1>5. DOMAIN log = 1..Len(log)
    BY PlaceTypes, LenProperties
  <1>6. i <= job.pos
    <2>1. CASE NextLine.what = "end"
      <3>1. Complete < job.pos + 1
        BY <1>2, <1>3, <2>1, NextLineCases
      <3> QED BY <1>2, <1>3, <1>4, <3>1 DEF Reaches
    <2>2. CASE job.seen >= Sample
      BY <1>2, <1>3, <1>4, <2>2
    <2> QED BY <1>1, <2>1, <2>2 DEF SampleTaken
  <1>7. job.hits[f] > 0
    <2>1. i \in 1..Len(log)
      BY <1>2, <1>3, <1>4
    <2> QED BY <1>2, <1>4, <1>6, <2>1 DEF Scored
  <1>8. ASSUME NEW g \in Formats \ {f} PROVE job.hits[g] = 0
    <2>1. g # "none"
      BY DEF Formats
    <2>2. ~(job.hits[g] > 0)
      BY <1>2, <1>4, <1>5, <2>1 DEF Scored
    <2> QED BY <1>3, <2>2
  <1> QED BY <1>3, <1>7, <1>8, VerdictOfOne

----------------------------------------------------------------------------
(* The other steps. *)

\* A command starts with nothing read.
LEMMA StartReading ==
  ASSUME TypeIInv, ReadIInv, Start
  PROVE  ReadIInv'
  <1>1. /\ UNCHANGED <<log, tail, request>> /\ got' = <<>> /\ job.phase \in Ended
    BY DEF Start, inputVars
  <1>2. /\ Len(log) \in Nat /\ Complete \in Nat /\ Complete <= Len(log) /\ Complete' = Complete
    BY <1>1, PlaceTypes DEF Complete
  <1>3. /\ NewJob.pos = 0 /\ NewJob.mid = "none" /\ NewJob.sampled = 0 /\ NewJob.seen = 0
        /\ NewJob.hits = NoHits /\ NewJob \in JobType
    <2>1. NoHits \in [Formats -> 0..Sample]
      BY ExporterAssumption DEF NoHits
    <2>2. /\ NoJob \in JobType /\ NoJob.pos = 0 /\ NoJob.mid = "none" /\ NoJob.sampled = 0
          /\ NoJob.seen = 0 /\ NoJob.hits = NoHits
      BY <2>1, ExporterAssumption DEF NoJob, JobType, Ended, Formats
    <2>3. job.runs + 1 \in 0..MaxRuns /\ job.kills \in 0..MaxRuns
      BY PlaceTypes, ExporterAssumption DEF Start, JobType
    <2> HIDE DEF NoJob
    <2> QED BY <2>2, <2>3 DEF NewJob, JobType
  <1>4. \A f \in Formats : NoHits[f] = 0
    BY DEF NoHits
  <1>5. InOrder(got') /\ DOMAIN got' = {}
    BY <1>1 DEF InOrder
  <1>6. CASE job' = [NewJob EXCEPT !.phase = "gate"] /\ request.command = "install"
    <2>1. job'.phase = "gate" /\ job'.sampled = 0
      BY <1>3, <1>6 DEF JobType
    <2> QED BY <1>1, <1>2, <1>5, <1>6, <2>1
            DEF ReadIInv, PlaceInv, ScoreInv, LinesInv, FormatOfTheLog, EveryRecordRead, Converted
  <1>7. CASE job' = [NewJob EXCEPT !.phase = "detect", !.sampled = Complete]
    <2>1. /\ job'.phase = "detect" /\ job'.sampled = Complete /\ job'.pos = 0
          /\ job'.mid = "none" /\ job'.seen = 0 /\ job'.hits = NoHits
      BY <1>3, <1>7 DEF JobType
    <2>2. PlaceInv'
      BY <1>1, <1>2, <2>1 DEF PlaceInv, Place, Reaches
    <2>3. ScoreInv'
      BY <1>1, <1>2, <1>4, <2>1 DEF ScoreInv, Scored
    <2> QED BY <1>5, <2>1, <2>2, <2>3
            DEF ReadIInv, LinesInv, FormatOfTheLog, EveryRecordRead, Converted
  <1>8. CASE /\ request.format # "auto"
             /\ job' = OpenConversion([NewJob EXCEPT !.format = request.format])
    <2>1. job' = [[[NewJob EXCEPT !.format = request.format] EXCEPT !.pos = 0, !.mid = "none"]
                    EXCEPT !.phase = "convert", !.opened = Complete, !.begun = Len(log)]
      BY <1>8 DEF OpenConversion, OpenLog
    <2>2. /\ job'.phase = "convert" /\ job'.sampled = 0 /\ job'.pos = 0 /\ job'.mid = "none"
          /\ job'.opened = Complete /\ job'.begun = Len(log)
      BY <1>3, <2>1 DEF JobType
    <2>3. PlaceInv'
      BY <1>1, <1>2, <2>2 DEF PlaceInv, Place, Reaches
    <2>4. LinesInv'
      BY <1>2, <1>5, <2>2 DEF LinesInv, LinesUpTo
    <2> QED BY <1>1, <1>5, <1>8, <2>2, <2>3, <2>4
            DEF ReadIInv, ScoreInv, FormatOfTheLog, EveryRecordRead, Converted
  <1> QED BY <1>6, <1>7, <1>8 DEF Start

\* A line read for the sample keeps what is known, and so does the verdict.
LEMMA DetectReading ==
  ASSUME TypeIInv, ReadIInv, DetectLine
  PROVE  ReadIInv'
  <1>1. /\ job.phase = "detect" /\ UNCHANGED <<log, tail, request, got>>
        /\ job'.sampled = job.sampled
        /\ job'.phase \in {"detect", "convert"}
    BY DetectEffect
  <1>2. /\ Place(job.pos, job.mid) /\ Reaches(job.sampled, job.pos, job.mid)
        /\ job.sampled <= Len(log) /\ got = <<>>
    BY <1>1 DEF ReadIInv, PlaceInv, LinesInv
  <1>3. /\ Len(log) \in Nat /\ Complete \in Nat /\ Complete <= Len(log) /\ Complete' = Complete
        /\ job.sampled \in Nat
    BY <1>1, PlaceTypes DEF Complete
  <1>4. InOrder(got') /\ DOMAIN got' = {}
    BY <1>1, <1>2 DEF InOrder
  <1>5. CASE job'.phase = "detect"
    <2>1. job'.pos = NextLine.pos /\ job'.mid = NextLine.mid
      BY <1>5, DetectEffect
    <2>2. Place(NextLine.pos, NextLine.mid) /\ Reaches(job.sampled, NextLine.pos, NextLine.mid)
      BY <1>2, <1>3, PlaceKept
    <2>3. PlaceInv'
      BY <1>1, <1>2, <1>3, <1>5, <2>1, <2>2 DEF PlaceInv, Place, Reaches
    <2>4. ScoreInv'
      BY <1>5, ScoreKept
    <2>5. FormatOfTheLog' /\ EveryRecordRead' /\ LinesInv'
      BY <1>1, <1>2, <1>4, <1>5 DEF FormatOfTheLog, EveryRecordRead, Converted, LinesInv
    <2> QED BY <2>3, <2>4, <2>5 DEF ReadIInv
  <1>6. CASE job'.phase = "convert"
    <2>1. /\ job'.pos = 0 /\ job'.mid = "none" /\ job'.opened = Complete /\ job'.begun = Len(log)
      BY <1>6, DetectEffect
    <2>2. PlaceInv'
      BY <1>1, <1>2, <1>3, <1>6, <2>1 DEF PlaceInv, Place, Reaches
    <2>3. LinesInv'
      BY <1>3, <1>4, <1>6, <2>1 DEF LinesInv, LinesUpTo
    <2>4. FormatOfTheLog'
      BY <1>6, FormatSettled
    <2>5. ScoreInv' /\ EveryRecordRead'
      BY <1>4, <1>6 DEF ScoreInv, EveryRecordRead, Converted
    <2> QED BY <2>2, <2>3, <2>4, <2>5 DEF ReadIInv
  <1> QED BY <1>1, <1>5, <1>6

\* A line converted keeps what is known.
LEMMA ConvertReading ==
  ASSUME TypeIInv, ReadIInv, ConvertLine \/ ConvertBlank
  PROVE  ReadIInv'
  <1>1. /\ job.phase = "convert" /\ UNCHANGED <<log, tail, request>>
        /\ job'.phase = "convert" /\ job'.pos = NextLine.pos /\ job'.mid = NextLine.mid
        /\ job'.sampled = job.sampled /\ job'.opened = job.opened /\ job'.begun = job.begun
        /\ job'.format = job.format
    BY ConvertEffect
  <1>2. /\ Place(job.pos, job.mid) /\ Reaches(job.opened, job.pos, job.mid)
        /\ job.sampled <= Len(log) /\ job.begun <= Len(log) /\ InOrder(got)
        /\ job.opened \in Nat
    BY <1>1, PlaceTypes DEF ReadIInv, PlaceInv, EveryRecordRead, InOrder
  <1>3. Place(NextLine.pos, NextLine.mid) /\ Reaches(job.opened, NextLine.pos, NextLine.mid)
    BY <1>2, PlaceKept
  <1>4. PlaceInv'
    <2>1. Complete' = Complete
      BY <1>1 DEF Complete
    <2> QED BY <1>1, <1>2, <1>3, <2>1 DEF PlaceInv, Place, Reaches
  <1>5. LinesUpTo(got', job.opened, NextLine.pos, NextLine.mid) /\ InOrder(got')
    BY <1>2, LineEffect, BlankEffect
  <1>6. LinesInv'
    BY <1>1, <1>5 DEF LinesInv
  <1>7. FormatOfTheLog'
    <2>1. job.phase \in Running \ {"gate", "detect"}
      BY <1>1 DEF Running
    <2> QED BY <1>1, <2>1 DEF ReadIInv, FormatOfTheLog
  <1>8. EveryRecordRead' /\ ScoreInv'
    BY <1>1, <1>5 DEF EveryRecordRead, InOrder, Converted, ScoreInv
  <1> QED BY <1>4, <1>6, <1>7, <1>8 DEF ReadIInv

\* The end of the conversion: everything that was there has been read.
LEMMA EndReading ==
  ASSUME TypeIInv, ReadIInv, ConvertEnd
  PROVE  ReadIInv'
  <1> DEFINE phase == IF request.stats THEN "done" ELSE "prepare"
  <1>1. /\ job.phase = "convert" /\ UNCHANGED <<log, tail, request, got>>
        /\ job' = [job EXCEPT !.phase = phase]
    BY DEF ConvertEnd, inputVars, convertVars
  <1>2. phase \in {"done", "prepare"}
    OBVIOUS
  <1> HIDE DEF phase
  <1>3. /\ job'.phase \in {"done", "prepare"} /\ job'.sampled = job.sampled
        /\ job'.opened = job.opened /\ job'.begun = job.begun /\ job'.format = job.format
    BY <1>1, <1>2, PlaceTypes DEF JobType
  <1>4. PlaceInv' /\ ScoreInv' /\ LinesInv'
    BY <1>1, <1>3 DEF ReadIInv, PlaceInv, ScoreInv, LinesInv
  <1>5. FormatOfTheLog'
    <2>1. job.phase \in Running \ {"gate", "detect"}
      BY <1>1 DEF Running
    <2> QED BY <1>1, <1>3, <2>1 DEF ReadIInv, FormatOfTheLog
  <1>6. EveryRecordRead'
    BY <1>1, <1>3, EndEffect DEF ReadIInv, EveryRecordRead, Gets, GetsWhole
  <1> QED BY <1>4, <1>5, <1>6 DEF ReadIInv

\* What the agent appends while the log is read is behind every place a pass has come to.
LEMMA GrowReading ==
  ASSUME TypeIInv, ReadIInv, Grow
  PROVE  ReadIInv'
  <1>1. /\ job.phase \in {"idle", "detect", "convert"}
        /\ UNCHANGED <<request, job, got>>
        /\ Len(log') \in Nat /\ Len(log) <= Len(log')
        /\ \A i \in 1..Len(log) : log'[i] = log[i]
        /\ Complete <= Complete'
        /\ Len(log') = Len(log) => tail' # "front"
    BY LogGrows
  <1>2. /\ Len(log) \in Nat /\ Complete \in Nat /\ job.pos \in Nat
        /\ job.sampled \in Nat /\ job.opened \in Nat /\ job.begun \in Nat
        /\ Complete <= Len(log) /\ log \in Seq(Record)
    BY PlaceTypes
  <1>3. Complete' \in Int
    <2>1. tail' \in {"none", "front", "all"} /\ log' \in Seq(Record)
      BY GrowTypes DEF TypeIInv, LogInv
    <2> QED BY <1>1, <2>1 DEF Complete
  <1>4. PlaceInv'
    <2>1. job.sampled <= Len(log') /\ (job.phase = "convert" => job.begun <= Len(log'))
      BY <1>1, <1>2 DEF ReadIInv, PlaceInv
    <2>2. job.phase = "detect" => Place(job.pos, job.mid)' /\ Reaches(job.sampled, job.pos, job.mid)'
      <3> SUFFICES ASSUME job.phase = "detect"
                   PROVE  Place(job.pos, job.mid)' /\ Reaches(job.sampled, job.pos, job.mid)'
        OBVIOUS
      <3>1. Place(job.pos, job.mid) /\ Reaches(job.sampled, job.pos, job.mid)
        BY DEF ReadIInv, PlaceInv
      <3> QED BY <1>1, <1>2, <1>3, <3>1 DEF Place, Reaches
    <2>3. job.phase = "convert" => Place(job.pos, job.mid)' /\ Reaches(job.opened, job.pos, job.mid)'
      <3> SUFFICES ASSUME job.phase = "convert"
                   PROVE  Place(job.pos, job.mid)' /\ Reaches(job.opened, job.pos, job.mid)'
        OBVIOUS
      <3>1. Place(job.pos, job.mid) /\ Reaches(job.opened, job.pos, job.mid)
        BY DEF ReadIInv, PlaceInv
      <3> QED BY <1>1, <1>2, <1>3, <3>1 DEF Place, Reaches
    <2> QED BY <1>1, <2>1, <2>2, <2>3 DEF PlaceInv
  <1>5. ScoreInv'
    <2> SUFFICES ASSUME job.phase = "detect"
                 PROVE  /\ Scored(job.hits, job.pos)'
                        /\ job.pos < job.sampled => job.seen = job.pos
      BY <1>1 DEF ScoreInv
    <2>1. /\ Scored(job.hits, job.pos) /\ (job.pos < job.sampled => job.seen = job.pos)
          /\ job.sampled <= Len(log)
      BY DEF ReadIInv, ScoreInv, PlaceInv
    <2>2. \A i \in 1..Len(log') : i <= job.sampled => i \in 1..Len(log)
      BY <1>1, <1>2, <2>1
    <2>3. \A i \in 1..Len(log) : i \in 1..Len(log')
      BY <1>1, <1>2
    <2>4. ASSUME NEW f \in Formats, job.hits[f] > 0
          PROVE  \E i \in 1..Len(log') : log'[i].agent = f
      BY <1>1, <2>1, <2>3, <2>4 DEF Scored
    <2>5. ASSUME NEW i \in 1..Len(log'), NEW f \in Formats, i <= job.sampled, i <= job.pos,
                 log'[i].form # "bad", log'[i].agent = f
          PROVE  job.hits[f] > 0
      BY <1>1, <2>1, <2>2, <2>5 DEF Scored
    <2> QED BY <1>1, <2>1, <2>4, <2>5 DEF Scored
  <1>6. FormatOfTheLog'
    <2> SUFFICES ASSUME job.phase \in Running \ {"gate", "detect"}, request.command = "export",
                        request.format = "auto", NEW f \in Formats,
                        \A i \in DOMAIN log' : log'[i].agent \in {f, "none"},
                        NEW i \in 1..Sample, i <= job.sampled,
                        log'[i].agent = f, log'[i].form # "bad"
                 PROVE  job.format = f
      BY <1>1 DEF FormatOfTheLog
    <2>1. DOMAIN log = 1..Len(log) /\ DOMAIN log' = 1..Len(log')
      <3>1. log' \in Seq(Record)
        BY GrowTypes DEF TypeIInv, LogInv
      <3> QED BY <1>2, <3>1, LenProperties
    <2>2. i \in 1..Len(log) /\ log[i] = log'[i]
      <3>1. job.sampled <= Len(log)
        BY DEF ReadIInv, PlaceInv
      <3>2. i \in Nat /\ i >= 1
        BY PlaceTypes
      <3> QED BY <1>1, <1>2, <3>1, <3>2
    <2>3. ASSUME NEW k \in DOMAIN log PROVE log[k].agent \in {f, "none"}
      <3>1. k \in 1..Len(log)
        BY <2>1, Zenon
      <3>2. k \in 1..Len(log')
        BY <1>1, <1>2, <3>1
      <3>3. log'[k] = log[k]
        BY <1>1, <3>1, Zenon
      <3>4. k \in DOMAIN log'
        BY <2>1, <3>2, Zenon
      <3>5. log'[k].agent \in {f, "none"}
        BY <3>4
      <3> QED BY <3>3, <3>5
    <2> QED BY <2>2, <2>3 DEF ReadIInv, FormatOfTheLog
  <1>7. LinesInv' /\ EveryRecordRead'
    BY <1>1 DEF ReadIInv, LinesInv, EveryRecordRead, Converted
  <1> QED BY <1>4, <1>5, <1>6, <1>7 DEF ReadIInv

\* The outputs, a failure and a kill leave what was read.
LEMMA WriteReading ==
  ASSUME TypeIInv, ReadIInv, Write \/ Fail \/ Kill
  PROVE  ReadIInv'
  <1> DEFINE Later == {"prepare", "check", "create", "fill", "recheck", "persist", "report"}
  <1>1. /\ UNCHANGED <<log, tail, request, got>>
    BY DEF Write, Fail, Kill, Prepare, CheckDestination, Gate, WriteCreate, WriteFill,
           WriteRecheck, WriteRefused, WritePersist, WritePersistFails, Report, Quiet,
           inputVars, convertVars
  <1>2. job \in JobType
    BY PlaceTypes
  <1>3. /\ job'.sampled = job.sampled /\ job'.opened = job.opened /\ job'.begun = job.begun
        /\ job'.format = job.format
        /\ job'.phase \notin {"detect", "convert"}
        /\ \/ job'.phase \in {"failed", "killed"}
           \/ job.phase \in Later
           \/ job.phase = "gate"
    <2>1. CASE Fail \/ Kill
      BY <1>2, <2>1 DEF Fail, Kill, Goto, JobType
    <2>2. CASE Gate \/ WritePersist
      <3>1. job.phase \in {"gate", "persist"}
        BY <2>2 DEF Gate, WritePersist
      <3>2. job' = NextDestination \/ Goto("refused") \/ Goto("create")
        BY <2>2 DEF Gate, WritePersist
      <3>3. CASE job' = NextDestination
        <4> DEFINE next == IF request.command = "install" THEN "gate" ELSE "create"
                   last == IF request.command = "install" THEN "done" ELSE "report"
        <4>1. \/ job' = [job EXCEPT !.at = job.at + 1, !.phase = next]
              \/ job' = [job EXCEPT !.phase = last]
          BY <1>2, <3>3 DEF NextDestination, JobType
        <4>2. next \in {"gate", "create"} /\ last \in {"done", "report"}
          OBVIOUS
        <4> HIDE DEF next, last
        <4> QED BY <1>2, <3>1, <4>1, <4>2 DEF JobType
      <3>4. CASE Goto("refused") \/ Goto("create")
        BY <1>2, <3>1, <3>4 DEF Goto, JobType
      <3> QED BY <3>2, <3>3, <3>4
    <2>3. CASE CheckDestination
      <3>1. \/ Goto("refused")
            \/ job' = [job EXCEPT !.at = job.at + 1]
            \/ job' = [job EXCEPT !.phase = "create", !.at = 1]
        BY <1>2, <2>3 DEF CheckDestination, JobType
      <3>2. job.phase = "check"
        BY <2>3 DEF CheckDestination
      <3> QED BY <1>2, <3>1, <3>2 DEF Goto, JobType
    <2>4. CASE \/ Prepare \/ WriteCreate \/ WriteFill \/ WriteRecheck \/ WriteRefused
               \/ WritePersistFails \/ Report
      <3>1. /\ job.phase \in Later
            /\ \E phase \in {"check", "fill", "recheck", "persist", "failed", "done"} : Goto(phase)
        BY <2>4 DEF Prepare, WriteCreate, WriteFill, WriteRecheck, WriteRefused,
                    WritePersistFails, Report
      <3> QED BY <1>2, <3>1 DEF Goto, JobType
    <2> QED BY <2>1, <2>2, <2>3, <2>4 DEF Write
  <1>4. job.phase = "gate" => request.command = "install"
    BY DEF TypeIInv, JobInv
  <1>5. job.phase \in Later => job.phase \in Running \ {"gate", "detect"} /\ Converted
    BY DEF Running, Converted
  <1>6. PlaceInv' /\ ScoreInv' /\ LinesInv'
    BY <1>1, <1>3 DEF ReadIInv, PlaceInv, ScoreInv, LinesInv
  <1>7. FormatOfTheLog'
    BY <1>1, <1>3, <1>4, <1>5 DEF ReadIInv, FormatOfTheLog, Running
  <1>8. EveryRecordRead'
    <2>1. \A i, j \in DOMAIN got :
            i < j => \/ got[i].rec < got[j].rec
                     \/ got[i].rec = got[j].rec /\ got[i].what = "front" /\ got[j].what = "rest"
      BY DEF ReadIInv, EveryRecordRead
    <2>2. Converted' /\ request.command = "export" => Converted
      BY <1>3, <1>4, <1>5 DEF Converted
    <2> QED BY <1>1, <1>3, <2>1, <2>2 DEF ReadIInv, EveryRecordRead
  <1> QED BY <1>6, <1>7, <1>8 DEF ReadIInv

\* Every step keeps what is known of what was read.
LEMMA NextReading == TypeIInv /\ ReadIInv /\ [Next]_vars => ReadIInv'
  <1> SUFFICES ASSUME TypeIInv, ReadIInv, [Next]_vars PROVE ReadIInv'
    OBVIOUS
  <1>1. CASE Accept \/ Others \/ UNCHANGED vars
    <2>1. UNCHANGED <<log, tail, request, job, got>>
      BY <1>1 DEF Accept, Others, vars, inputVars, convertVars
    <2> QED BY <2>1 DEF ReadIInv, PlaceInv, Place, Reaches, Complete, ScoreInv, Scored,
                        FormatOfTheLog, LinesInv, EveryRecordRead, Converted
  <1> QED BY <1>1, StartReading, DetectReading, ConvertReading, EndReading, GrowReading,
             WriteReading DEF Next, Step, Convert

\* Before the first command nothing was read.
LEMMA InitReading == Init => ReadIInv
  <1> SUFFICES ASSUME Init PROVE ReadIInv
    OBVIOUS
  <1>1. TypeIInv
    BY InitTypes
  <1>2. PICK s \in Scenes : job = [NoJob EXCEPT !.runs = s.runs]
    BY DEF Init
  <1>3. job.phase = "idle" /\ job.sampled = 0 /\ got = <<>>
    BY <1>2 DEF NoJob, Init
  <1>4. Len(log) \in Nat
    BY <1>1, PlaceTypes
  <1> QED BY <1>3, <1>4 DEF ReadIInv, PlaceInv, ScoreInv, FormatOfTheLog, LinesInv,
                            EveryRecordRead, Converted, Running

\* What is known of what was read holds throughout.
LEMMA ReadingHolds == Spec => []ReadIInv
  <1>1. Spec => [](TypeIInv /\ OutputIInv)
    BY OutputsHold
  <1>2. TypeIInv /\ OutputIInv => TypeIInv
    OBVIOUS
  <1> QED BY <1>1, <1>2, InitReading, NextReading, PTL DEF Spec

\* However the log grows under it, a conversion gets every record that was begun when it opened
\* the log, in file order, whole or in two parts (util.rs:28-45).
THEOREM ExporterEveryRecordRead == Spec => []EveryRecordRead
  <1>1. ReadIInv => EveryRecordRead
    BY DEF ReadIInv
  <1> QED BY <1>1, ReadingHolds, PTL

\* The log of one agent is read under that agent's schema as soon as one of its records was
\* complete within the sample (detect.rs:37-84), for every log, hint and sample.
THEOREM ExporterFormatOfTheLog == Spec => []FormatOfTheLog
  <1>1. ReadIInv => FormatOfTheLog
    BY DEF ReadIInv
  <1> QED BY <1>1, ReadingHolds, PTL
----------------------------------------------------------------------------
(* Cleaning. *)

Text == STRING \cup {"", "cut"}
Body == [head : Text, tail : Text]
Kinds ==
  TerminalKinds \cup ApiKinds \cup ClaudeKinds \cup OpencodeKinds
  \cup {"event_other", "cc_meta", "oc_other", "unknown"}
EventType == [kind : Kinds, body : Body]

\* What the Cleaner remembers of the events it has let into the channel.
Remembers(c, events, dedup) ==
  /\ c.seen_session <=> \E p \in DOMAIN events : events[p].kind = "session"
  /\ c.seen_web_search =
       {events[p].body : p \in {p \in DOMAIN events : dedup /\ events[p].kind = "web_search"}}
  /\ \/ /\ c.last_text_key = <<>>
        /\ \A p \in DOMAIN events : ~(dedup /\ events[p].kind \in DedupTextKinds)
     \/ \E p \in DOMAIN events :
          /\ dedup /\ events[p].kind \in DedupTextKinds
          /\ c.last_text_key = <<events[p].kind, events[p].body>>
          /\ \A m \in DOMAIN events : events[m].kind \in DedupTextKinds => ~Precedes(p, m)

\* Events at places of which there are finitely many.
Placed(events) ==
  /\ DOMAIN events \subseteq Nat \X Nat /\ IsFiniteSet(DOMAIN events)
  /\ \A p \in DOMAIN events : events[p] \in EventType

\* One event more, behind all others.
Grown(events, x, e) == [p \in DOMAIN events \cup {x} |-> IF p = x THEN e ELSE events[p]]

\* Places are totally ordered.
LEMMA PlacesOrdered ==
  ASSUME NEW p \in Nat \X Nat, NEW q \in Nat \X Nat
  PROVE  /\ ~Precedes(p, p)
         /\ Precedes(p, q) => ~Precedes(q, p)
         /\ p # q => Precedes(p, q) \/ Precedes(q, p)
  BY DEF Precedes

\* What a new event's repetition is decided by is what the Cleaner remembers.
LEMMA RepetitionKnown ==
  ASSUME NEW events, Placed(events), NEW x \in Nat \X Nat, NEW e \in EventType, NEW dedup, NEW c,
         \A p \in DOMAIN events : Precedes(p, x), Remembers(c, events, dedup)
  PROVE  /\ Repetition(Grown(events, x, e), x, dedup) <=> Repeated(c, e, dedup)
         /\ \A p \in DOMAIN events :
              Repetition(Grown(events, x, e), p, dedup) <=> Repetition(events, p, dedup)
  <1> DEFINE grown == Grown(events, x, e)
  <1>1. /\ x \notin DOMAIN events /\ DOMAIN grown = DOMAIN events \cup {x} /\ grown[x] = e
        /\ \A p \in DOMAIN events : grown[p] = events[p] /\ p \in Nat \X Nat /\ ~Precedes(x, p)
        /\ ~Precedes(x, x)
    BY PlacesOrdered DEF Grown, Placed
  <1> HIDE DEF grown
  <1>2. \A kinds : Earlier(grown, x, kinds) = {q \in DOMAIN events : events[q].kind \in kinds}
    BY <1>1 DEF Earlier
  <1>3. \A kinds : \A p \in DOMAIN events : Earlier(grown, p, kinds) = Earlier(events, p, kinds)
    BY <1>1 DEF Earlier
  <1>4. \A p \in DOMAIN events : Repetition(grown, p, dedup) <=> Repetition(events, p, dedup)
    <2> TAKE p \in DOMAIN events
    <2>1. \A kinds : \A q \in Earlier(events, p, kinds) : grown[q] = events[q]
      BY <1>1 DEF Earlier
    <2> QED BY <1>1, <1>3, <2>1 DEF Repetition
  <1>5. Repetition(grown, x, dedup) <=> Repeated(c, e, dedup)
    <2>1. Earlier(grown, x, {"session"}) # {} <=> c.seen_session
      <3>1. Earlier(grown, x, {"session"}) = {q \in DOMAIN events : events[q].kind \in {"session"}}
        BY <1>2
      <3>2. c.seen_session <=> \E q \in DOMAIN events : events[q].kind = "session"
        BY DEF Remembers
      <3> QED BY <3>1, <3>2
    <2>2. ASSUME dedup, e.kind = "web_search"
          PROVE  (\E q \in Earlier(grown, x, {"web_search"}) : grown[q] = e)
                   <=> e.body \in c.seen_web_search
      <3>1. \A q \in DOMAIN events : events[q] = e <=> events[q].kind = e.kind /\ events[q].body = e.body
        BY DEF Placed, EventType
      <3> QED BY <1>1, <1>2, <2>2, <3>1 DEF Remembers
    <2>3. ASSUME dedup, e.kind \in DedupTextKinds
          PROVE  (\E q \in Earlier(grown, x, DedupTextKinds) :
                    /\ grown[q] = e
                    /\ \A m \in Earlier(grown, x, DedupTextKinds) : ~Precedes(q, m))
                   <=> c.last_text_key = <<e.kind, e.body>>
      <3> DEFINE texts == {q \in DOMAIN events : events[q].kind \in DedupTextKinds}
      <3>1. Earlier(grown, x, DedupTextKinds) = texts
        BY <1>2
      <3>2. \A q \in texts : events[q] = e <=> events[q].kind = e.kind /\ events[q].body = e.body
        BY DEF Placed, EventType
      <3>3. \A q \in texts : grown[q] = events[q] /\ q \in Nat \X Nat
        BY <1>1
      <3>4. CASE texts = {}
        <4>1. c.last_text_key = <<>>
          BY <3>4 DEF Remembers
        <4> QED BY <3>1, <3>4, <4>1
      <3>5. CASE texts # {}
        <4>1. PICK p \in texts : /\ c.last_text_key = <<events[p].kind, events[p].body>>
                                 /\ \A m \in texts : ~Precedes(p, m)
          BY <2>3, <3>5 DEF Remembers
        <4>2. \A q \in texts : (\A m \in texts : ~Precedes(q, m)) => q = p
          BY <3>3, <4>1, PlacesOrdered
        <4>3. c.last_text_key = <<e.kind, e.body>> <=> events[p] = e
          BY <3>2, <4>1
        <4> HIDE DEF texts
        <4> QED BY <3>1, <3>3, <4>1, <4>2, <4>3
      <3> QED BY <3>4, <3>5
    <2> QED BY <1>1, <2>1, <2>2, <2>3 DEF Repetition, Repeated
  <1> QED BY <1>4, <1>5 DEF grown

\* After the event the Cleaner remembers it too.
LEMMA NotedRemembers ==
  ASSUME NEW events, Placed(events), NEW x \in Nat \X Nat, NEW e \in EventType, NEW dedup, NEW c,
         \A p \in DOMAIN events : Precedes(p, x), Remembers(c, events, dedup)
  PROVE  Remembers(Noted(c, e, dedup), Grown(events, x, e), dedup)
  <1> DEFINE grown == Grown(events, x, e)
             d == Noted(c, e, dedup)
  <1>1. /\ x \notin DOMAIN events /\ DOMAIN grown = DOMAIN events \cup {x} /\ grown[x] = e
        /\ \A p \in DOMAIN events : grown[p] = events[p] /\ ~Precedes(x, p)
        /\ ~Precedes(x, x)
    BY PlacesOrdered DEF Grown, Placed
  <1>2. /\ d.seen_session <=> c.seen_session \/ e.kind = "session"
        /\ d.last_text_key = IF dedup /\ e.kind \in DedupTextKinds THEN <<e.kind, e.body>>
                             ELSE c.last_text_key
        /\ \A b : b \in d.seen_web_search <=>
                   b \in c.seen_web_search \/ (b = e.body /\ dedup /\ e.kind = "web_search")
    BY DEF Noted
  <1> HIDE DEF grown, d
  <1>3. d.seen_session <=> \E p \in DOMAIN grown : grown[p].kind = "session"
    BY <1>1, <1>2 DEF Remembers
  <1>4. \A b : b \in d.seen_web_search <=>
               \E p \in DOMAIN grown : dedup /\ grown[p].kind = "web_search" /\ grown[p].body = b
    BY <1>1, <1>2 DEF Remembers
  <1>5. \/ /\ d.last_text_key = <<>>
           /\ \A p \in DOMAIN grown : ~(dedup /\ grown[p].kind \in DedupTextKinds)
        \/ \E p \in DOMAIN grown :
             /\ dedup /\ grown[p].kind \in DedupTextKinds
             /\ d.last_text_key = <<grown[p].kind, grown[p].body>>
             /\ \A m \in DOMAIN grown : grown[m].kind \in DedupTextKinds => ~Precedes(p, m)
    <2>1. CASE dedup /\ e.kind \in DedupTextKinds
      BY <1>1, <1>2, <2>1
    <2>2. CASE ~(dedup /\ e.kind \in DedupTextKinds)
      <3>1. d.last_text_key = c.last_text_key
        BY <1>2, <2>2
      <3>2. CASE /\ c.last_text_key = <<>>
                 /\ \A p \in DOMAIN events : ~(dedup /\ events[p].kind \in DedupTextKinds)
        BY <1>1, <2>2, <3>1, <3>2
      <3>3. CASE \E p \in DOMAIN events :
                   /\ dedup /\ events[p].kind \in DedupTextKinds
                   /\ c.last_text_key = <<events[p].kind, events[p].body>>
                   /\ \A m \in DOMAIN events : events[m].kind \in DedupTextKinds => ~Precedes(p, m)
        <4>1. PICK p \in DOMAIN events :
                   /\ dedup /\ events[p].kind \in DedupTextKinds
                   /\ c.last_text_key = <<events[p].kind, events[p].body>>
                   /\ \A m \in DOMAIN events : events[m].kind \in DedupTextKinds => ~Precedes(p, m)
          BY <3>3
        <4>2. /\ p \in DOMAIN grown /\ grown[p] = events[p] /\ e.kind \notin DedupTextKinds
              /\ d.last_text_key = <<grown[p].kind, grown[p].body>>
          BY <1>1, <2>2, <3>1, <4>1
        <4>3. \A m \in DOMAIN grown : grown[m].kind \in DedupTextKinds => ~Precedes(p, m)
          BY <1>1, <4>1, <4>2
        <4> QED BY <4>1, <4>2, <4>3
      <3> QED BY <3>2, <3>3 DEF Remembers
    <2> QED BY <2>1, <2>2
  <1> QED BY <1>3, <1>4, <1>5 DEF Remembers, grown, d

\* The output grows by the event unless it is a repetition, and lists what is clean as before.
LEMMA ListGrows ==
  ASSUME NEW events, Placed(events), NEW x \in Nat \X Nat, NEW e \in EventType, NEW dedup, NEW c,
         \A p \in DOMAIN events : Precedes(p, x), Remembers(c, events, dedup),
         NEW out \in Seq(EventType), Lists(out, events, Clean(events, dedup))
  PROVE  LET grown == Grown(events, x, e)
             longer == IF Repeated(c, e, dedup) THEN out ELSE Append(out, e)
         IN /\ Placed(grown) /\ longer \in Seq(EventType)
            /\ Lists(longer, grown, Clean(grown, dedup))
  <1> DEFINE grown == Grown(events, x, e)
             longer == IF Repeated(c, e, dedup) THEN out ELSE Append(out, e)
             old == Clean(events, dedup)
             new == Clean(grown, dedup)
             rank(p, places) == Cardinality({q \in places : Precedes(q, p)}) + 1
  <1>1. /\ x \notin DOMAIN events /\ DOMAIN grown = DOMAIN events \cup {x} /\ grown[x] = e
        /\ \A p \in DOMAIN events : grown[p] = events[p] /\ ~Precedes(x, p)
        /\ ~Precedes(x, x)
    BY PlacesOrdered DEF Grown, Placed
  <1>2. Placed(grown)
    <2>1. IsFiniteSet(DOMAIN events \cup {x})
      BY FS_AddElement DEF Placed
    <2> HIDE DEF grown
    <2> QED BY <1>1, <2>1 DEF Placed
  <1>3. longer \in Seq(EventType)
    BY AppendProperties
  <1>4. /\ Repetition(grown, x, dedup) <=> Repeated(c, e, dedup)
        /\ \A p \in DOMAIN events : Repetition(grown, p, dedup) <=> Repetition(events, p, dedup)
    BY RepetitionKnown
  <1>5. /\ IsFiniteSet(old) /\ Cardinality(old) \in Nat /\ old \subseteq DOMAIN events
        /\ Len(out) = Cardinality(old) /\ \A p \in old : out[rank(p, old)] = events[p]
    <2>1. IsFiniteSet(DOMAIN events) /\ old \in SUBSET DOMAIN events
      BY DEF Placed, Clean
    <2>2. IsFiniteSet(old) /\ Cardinality(old) \in Nat
      BY <2>1, FS_Subset, FS_CardinalityType
    <2> QED BY <2>1, <2>2 DEF Lists
  <1> HIDE DEF grown, old
  <1>6. \A p \in old : rank(p, old) \in 1..Cardinality(old)
    <2> TAKE p \in old
    <2> DEFINE before == {q \in old : Precedes(q, p)}
    <2>1. before \in SUBSET old /\ p \notin before
      BY <1>5, PlacesOrdered DEF Placed
    <2>2. /\ IsFiniteSet(before) /\ Cardinality(before) <= Cardinality(old)
          /\ Cardinality(before) = Cardinality(old) => before = old
      BY <1>5, <2>1, FS_Subset
    <2>3. Cardinality(before) \in Nat
      BY <2>2, FS_CardinalityType
    <2> HIDE DEF before
    <2>4. Cardinality(before) < Cardinality(old)
      BY <1>5, <2>1, <2>2, <2>3
    <2> QED BY <1>5, <2>3, <2>4 DEF before
  <1>7. CASE Repeated(c, e, dedup)
    <2>1. new = old
      BY <1>1, <1>4, <1>7 DEF Clean, old
    <2>2. \A p \in old : grown[p] = events[p]
      BY <1>1, <1>5
    <2> QED BY <1>2, <1>3, <1>5, <1>7, <2>1, <2>2 DEF Lists, grown
  <1>8. CASE ~Repeated(c, e, dedup)
    <2>1. new = old \cup {x} /\ x \notin old
      BY <1>1, <1>4, <1>5, <1>8 DEF Clean, old
    <2>2. Cardinality(new) = Cardinality(old) + 1
      BY <1>5, <2>1, FS_AddElement
    <2>3. /\ longer = Append(out, e) /\ Len(longer) = Len(out) + 1
          /\ \A i \in 1..Len(out) : longer[i] = out[i]
          /\ longer[Len(out) + 1] = e
      BY <1>8, AppendProperties
    <2>4. \A p \in old : {q \in new : Precedes(q, p)} = {q \in old : Precedes(q, p)}
      BY <1>1, <1>5, <2>1
    <2>5. {q \in new : Precedes(q, x)} = old
      BY <1>1, <1>5, <2>1
    <2> HIDE DEF longer, new
    <2>6. \A p \in old : longer[rank(p, new)] = grown[p]
      <3> TAKE p \in old
      <3>1. rank(p, new) = rank(p, old)
        BY <2>4
      <3>2. rank(p, old) \in 1..Len(out) /\ out[rank(p, old)] = events[p]
        BY <1>5, <1>6
      <3> HIDE DEF rank
      <3> QED BY <1>1, <1>5, <2>3, <3>1, <3>2
    <2>7. longer[rank(x, new)] = grown[x]
      BY <1>1, <1>5, <2>3, <2>5
    <2>8. Lists(longer, grown, new)
      BY <1>5, <2>1, <2>2, <2>3, <2>6, <2>7 DEF Lists
    <2> QED BY <1>2, <1>3, <2>8 DEF longer, grown, new
  <1> QED BY <1>7, <1>8

----------------------------------------------------------------------------
\* A record, or what stands for a line that does not parse.
ParsedType == [agent : Formats \cup {"none"}, form : Forms, body : Body]

\* What classify makes of a record are events.
LEMMA ClassifyTyped ==
  ASSUME NEW r \in ParsedType, NEW format \in Formats
  PROVE  Classify(r, format) \in Seq(EventType)
  <1>1. \A kind \in Kinds, b \in Body : <<Event(kind, b)>> \in Seq(EventType)
    BY DEF Event, EventType
  <1>2. \A k1, k2 \in Kinds, b1, b2 \in Body : <<Event(k1, b1), Event(k2, b2)>> \in Seq(EventType)
    BY DEF Event, EventType
  <1>3. r.body \in Body /\ NoBody \in Body
    BY DEF ParsedType, Body, NoBody, Text
  <1>4. /\ {"session", "user", "api_user", "tool_call", "tool_output", "web_search", "assistant"} \subseteq Kinds
        /\ {"injected", "parse_error", "event_other", "cc_meta", "oc_other", "unknown"} \subseteq Kinds
    BY DEF Kinds, TerminalKinds, ApiKinds, ClaudeKinds, OpencodeKinds
  <1>5. ClassifyCodex(r) \in Seq(EventType)
    BY <1>1, <1>3, <1>4 DEF ClassifyCodex
  <1>6. ClassifyClaude(r) \in Seq(EventType)
    BY <1>1, <1>2, <1>3, <1>4 DEF ClassifyClaude
  <1>7. ClassifyOpencode(r) \in Seq(EventType)
    BY <1>1, <1>2, <1>3, <1>4 DEF ClassifyOpencode
  <1>8. CASE r.form = "bad"
    BY <1>1, <1>3, <1>4, <1>8 DEF Classify, ParseError
  <1>9. CASE r.form # "bad" /\ r.agent # format
    BY <1>1, <1>3, <1>4, <1>9 DEF Classify
  <1>10. CASE r.form # "bad" /\ r.agent = format
    BY <1>5, <1>6, <1>7, <1>10 DEF Classify, Formats
  <1> QED BY <1>8, <1>9, <1>10

\* Cutting an event leaves an event.
LEMMA TruncatedTyped ==
  ASSUME NEW e \in EventType, NEW cut
  PROVE  Truncated(e, cut) \in EventType
  BY DEF Truncated, EventType, Body, Text

----------------------------------------------------------------------------
(* The events cleaned so far. *)

\* The events of the last record read that are in the queue are still to come.
Done(p) == p[1] = Len(got) => p[2] <= Len(EventsOf(Len(got))) - Len(queue)
Accepted == [p \in {p \in Shown : Done(p)} |-> Written(p)]

\* The queue is what is left of the last record read.
QueueInv ==
  /\ got = <<>> => queue = <<>>
  /\ got # <<>> =>
       LET last == EventsOf(Len(got)) IN
       /\ queue \in Seq(EventType) /\ Len(queue) <= Len(last)
       /\ \A i \in 1..Len(queue) : queue[i] = last[Len(last) - Len(queue) + i]

\* The lines got are of records that are there, and the session event was synthesized if one of
\* them names a session.
GotThere ==
  /\ \A k \in DOMAIN got : got[k].rec \in 1..Len(log)
  /\ job.synthesized <=> \E k \in DOMAIN got : NamesSession(k)
  /\ job.phase \in {"idle", "detect"} => got = <<>>

CleanIInv ==
  /\ GotThere /\ QueueInv
  /\ kept \in Seq(EventType) /\ Placed(Accepted)
  /\ Lists(kept, Accepted, Clean(Accepted, request.dedup))
  /\ Remembers(cleaner, Accepted, request.dedup)

\* The lines got, as a sequence.
LEMMA GotSeq ==
  ASSUME TypeIInv
  PROVE  /\ Len(got) \in Nat /\ DOMAIN got = 1..Len(got)
         /\ \A k \in DOMAIN got : got[k] \in LineRead
         /\ job.format \in Formats
  <1>1. got \in Seq(LineRead) /\ job \in JobType
    BY DEF TypeIInv, GotInv, LineRead, JobInv
  <1>2. Len(got) \in Nat /\ DOMAIN got = 1..Len(got)
    BY <1>1, LenProperties
  <1>3. \A k \in 1..Len(got) : got[k] \in LineRead
    BY <1>1, ElementOfSeq
  <1> QED BY <1>1, <1>2, <1>3 DEF JobType

\* A line got is a record or, split, one that does not parse, and yields events.
LEMMA EventsTyped ==
  ASSUME TypeIInv, NEW k \in DOMAIN got, got[k].rec \in 1..Len(log)
  PROVE  EventsOf(k) \in Seq(EventType)
  <1>1. RecordRead(k) \in ParsedType
    <2>1. \A i \in 1..Len(log) : log[i] \in ParsedType
      BY PlaceTypes DEF Record, ParsedType, Body, Text
    <2>2. [agent |-> "none", form |-> "bad", body |-> NoBody] \in ParsedType
      BY DEF ParsedType, Forms, NoBody, Body, Text
    <2> QED BY <2>1, <2>2 DEF RecordRead, RecordOf
  <1>2. Classify(RecordRead(k), job.format) \in Seq(EventType)
    BY <1>1, ClassifyTyped, GotSeq
  <1>3. <<Event("session", NoBody)>> \in Seq(EventType) /\ <<>> \in Seq(EventType)
    BY DEF Event, EventType, NoBody, Body, Text, Kinds, TerminalKinds
  <1> QED BY <1>1, <1>2, <1>3, ConcatProperties DEF EventsOf

\* What was read of a log that is only appended to stays what it was.
LEMMA EventsStay ==
  ASSUME TypeIInv, GotThere, job'.format = job.format,
         \A k \in DOMAIN got : got'[k] = got[k],
         \A i \in 1..Len(log) : log'[i] = log[i]
  PROVE  /\ \A k \in DOMAIN got : RecordRead(k)' = RecordRead(k)
         /\ \A k \in DOMAIN got : NamesSession(k)' <=> NamesSession(k)
         /\ \A k \in DOMAIN got : EventsOf(k)' = EventsOf(k)
  <1>1. \A k \in DOMAIN got : RecordRead(k)' = RecordRead(k)
    BY DEF GotThere, RecordRead, RecordOf
  <1>2. \A k \in DOMAIN got : NamesSession(k)' <=> NamesSession(k)
    BY <1>1 DEF NamesSession
  <1>3. \A k \in DOMAIN got : \A j \in 1..(k - 1) : j \in DOMAIN got
    BY GotSeq
  <1>4. \A k \in DOMAIN got : EventsOf(k)' = EventsOf(k)
    BY <1>1, <1>2, <1>3 DEF EventsOf
  <1> QED BY <1>1, <1>2, <1>4

\* Where nothing was read there is nothing cleaned.
LEMMA NothingRead ==
  ASSUME got = <<>>
  PROVE  Accepted = [p \in {} |-> 0]
  <1>1. Places = {}
    BY DEF Places
  <1> QED BY <1>1 DEF Accepted, Shown

\* A step that neither reads nor cleans keeps the invariant.
LEMMA CleanStays ==
  ASSUME TypeIInv, CleanIInv, UNCHANGED <<request, queue, cleaner, kept, got>>,
         job'.format = job.format, job'.synthesized = job.synthesized,
         job'.phase \in {"idle", "detect"} => job.phase \in {"idle", "detect"},
         Len(log) \in Nat, Len(log') \in Nat, Len(log) <= Len(log'),
         \A i \in 1..Len(log) : log'[i] = log[i]
  PROVE  CleanIInv'
  <1>1. /\ \A k \in DOMAIN got : NamesSession(k)' <=> NamesSession(k)
        /\ \A k \in DOMAIN got : EventsOf(k)' = EventsOf(k)
    BY EventsStay DEF CleanIInv
  <1>2. Len(got) \in Nat /\ (got # <<>> => Len(got) \in DOMAIN got)
    BY EmptySeq, GotSeq DEF TypeIInv, GotInv
  <1>3. GotThere'
    BY <1>1 DEF CleanIInv, GotThere
  <1>4. QueueInv'
    BY <1>1, <1>2 DEF CleanIInv, QueueInv
  <1>5. Accepted' = Accepted
    <2>1. Places' = Places /\ \A p \in Places : p[1] \in DOMAIN got
      BY <1>1 DEF Places
    <2>2. \A p \in Places : Written(p)' = Written(p)
      BY <1>1, <2>1 DEF Written
    <2>3. Shown' = Shown /\ Shown \subseteq Places
      BY <2>1, <2>2 DEF Shown
    <2>4. \A p \in Places : Done(p)' <=> Done(p)
      BY <1>1, <2>1 DEF Done
    <2> QED BY <2>2, <2>3, <2>4 DEF Accepted
  <1> QED BY <1>3, <1>4, <1>5 DEF CleanIInv

\* Cleaner::accept of the event at the head of the queue.
LEMMA AcceptClean ==
  ASSUME TypeIInv, CleanIInv, Accept
  PROVE  CleanIInv'
  <1> DEFINE n == Len(got)
             last == EventsOf(n)
             i == Len(last) - Len(queue) + 1
             x == <<n, i>>
             e == Truncated(Head(queue), request.cut)
             keeps == e.kind \in KeepSet(job.format, request.channel)
  <1>1. /\ UNCHANGED <<log, request, job, got>> /\ queue # <<>> /\ queue' = Tail(queue)
        /\ kept' = IF keeps /\ ~Repeated(cleaner, e, request.dedup) THEN Append(kept, e) ELSE kept
        /\ cleaner' = IF keeps THEN Noted(cleaner, e, request.dedup) ELSE cleaner
    BY DEF Accept, inputVars
  <1>2. /\ got # <<>> /\ n \in Nat /\ n \in DOMAIN got /\ DOMAIN got = 1..n
        /\ GotThere /\ \A k \in DOMAIN got : got[k].rec \in 1..Len(log)
    BY <1>1, EmptySeq, GotSeq DEF TypeIInv, GotInv, CleanIInv, QueueInv, GotThere
  <1>3. /\ queue \in Seq(EventType) /\ last \in Seq(EventType)
        /\ Len(queue) \in Nat \ {0} /\ Len(last) \in Nat /\ Len(queue) <= Len(last)
        /\ \A j \in 1..Len(queue) : queue[j] = last[Len(last) - Len(queue) + j]
        /\ DOMAIN last = 1..Len(last)
    <2>1. last \in Seq(EventType)
      BY <1>2, EventsTyped
    <2>2. /\ queue \in Seq(EventType) /\ Len(queue) <= Len(last)
          /\ \A j \in 1..Len(queue) : queue[j] = last[Len(last) - Len(queue) + j]
      BY <1>2 DEF CleanIInv, QueueInv
    <2>3. Len(queue) # 0
      BY <1>1, <2>2, EmptySeq
    <2> HIDE DEF last
    <2> QED BY <2>1, <2>2, <2>3, LenProperties
  <1>4. /\ Head(queue) = last[i] /\ Head(queue) \in EventType
        /\ queue' \in Seq(EventType) /\ Len(queue') = Len(queue) - 1
        /\ \A j \in 1..Len(queue') : queue'[j] = queue[j + 1]
    BY <1>1, <1>3, HeadTailProperties
  <1>5. /\ Places' = Places /\ Shown' = Shown /\ \A p : Written(p)' = Written(p)
        /\ EventsOf(n)' = last /\ GotThere' /\ n' = n
    BY <1>1, <1>2 DEF Places, Shown, Written, EventsOf, NamesSession, RecordRead, RecordOf, GotThere
  <1>6. x \in Places /\ Written(x) = e /\ x \in Nat \X Nat /\ i \in 1..Len(last)
    BY <1>2, <1>3, <1>4 DEF Places, Written
  <1>7. e \in EventType
    BY <1>4, TruncatedTyped
  <1>8. QueueInv'
    BY <1>1, <1>2, <1>3, <1>4, <1>5 DEF QueueInv
  <1>9. \A p \in Places : /\ p = <<p[1], p[2]>> /\ p[1] \in 1..n /\ p[2] \in Nat
                          /\ Done(p) <=> (p[1] = n => p[2] < i)
                          /\ Done(p)' <=> (p[1] = n => p[2] <= i)
    <2> TAKE p \in Places
    <2>1. PICK k \in DOMAIN got : p \in {k} \X DOMAIN EventsOf(k)
      BY DEF Places
    <2>2. EventsOf(k) \in Seq(EventType)
      BY <1>2, EventsTyped
    <2>3. p = <<p[1], p[2]>> /\ p[1] \in 1..n /\ p[2] \in Nat
      BY <1>2, <2>1, <2>2, LenProperties
    <2>4. Done(p) <=> (p[1] = n => p[2] <= Len(last) - Len(queue))
      BY DEF Done
    <2>5. Done(p)' <=> (p[1] = n => p[2] <= Len(last) - (Len(queue) - 1))
      BY <1>4, <1>5 DEF Done
    <2> QED BY <1>3, <2>3, <2>4, <2>5
  <1> HIDE DEF last, i
  <1>10. /\ DOMAIN Accepted = {p \in Shown : Done(p)} /\ x \notin DOMAIN Accepted
         /\ \A p \in DOMAIN Accepted : Precedes(p, x)
    BY <1>2, <1>3, <1>6, <1>9 DEF Accepted, Shown, Precedes
  <1>11. x \in Shown <=> keeps
    BY <1>6 DEF Shown
  <1>12. \A p \in Shown : Done(p)' <=> Done(p) \/ p = x
    <2>1. Shown \subseteq Places
      BY DEF Shown
    <2> QED BY <1>2, <1>6, <1>9, <2>1
  <1>13. CASE keeps
    <2>1. Accepted' = Grown(Accepted, x, e)
      BY <1>5, <1>6, <1>10, <1>11, <1>12, <1>13 DEF Accepted, Grown
    <2>2. /\ Placed(Accepted') /\ kept' \in Seq(EventType)
          /\ Lists(kept', Accepted', Clean(Accepted', request.dedup))
      <3>1. kept' = IF Repeated(cleaner, e, request.dedup) THEN kept ELSE Append(kept, e)
        BY <1>1, <1>13
      <3> HIDE DEF e, x
      <3> QED BY <1>6, <1>7, <1>10, <2>1, <3>1, ListGrows DEF CleanIInv
    <2>3. Remembers(cleaner', Accepted', request.dedup)
      <3>1. cleaner' = Noted(cleaner, e, request.dedup)
        BY <1>1, <1>13
      <3> HIDE DEF e, x
      <3> QED BY <1>6, <1>7, <1>10, <2>1, <3>1, NotedRemembers DEF CleanIInv
    <2> QED BY <1>1, <1>5, <1>8, <2>2, <2>3 DEF CleanIInv
  <1>14. CASE ~keeps
    <2>1. Accepted' = Accepted
      BY <1>5, <1>11, <1>12, <1>14 DEF Accepted
    <2> QED BY <1>1, <1>5, <1>8, <1>14, <2>1 DEF CleanIInv
  <1> QED BY <1>13, <1>14

\* The callback puts the events of the record read into the queue, the synthesized session event
\* before the first record that names the session.
LEMMA ConvertClean ==
  ASSUME TypeIInv, ReadIInv, CleanIInv, ConvertLine
  PROVE  CleanIInv'
  <1>0. PICK n : n = Len(got) + 1
    OBVIOUS
  <1> DEFINE line == [what |-> NextLine.what, rec |-> job.pos + 1]
             r == RecordOf(NextLine.what, job.pos + 1)
             session == ~job.synthesized /\ Synthesizes(r, job.format)
  <1>1. /\ job.phase = "convert" /\ queue = <<>> /\ NextLine.what \notin {"end", "blank"}
        /\ job' = [job EXCEPT !.pos = NextLine.pos, !.mid = NextLine.mid,
                              !.synthesized = job.synthesized \/ session]
        /\ queue' = (IF session THEN <<Event("session", NoBody)>> ELSE <<>>)
                     \o Classify(r, job.format)
        /\ got' = Append(got, line) /\ UNCHANGED <<log, request, cleaner, kept>>
    BY DEF ConvertLine, inputVars, JobType
  <1>2. /\ job'.phase = "convert" /\ job'.format = job.format
        /\ job'.synthesized = (job.synthesized \/ session)
    <2>1. job \in JobType
      BY PlaceTypes
    <2> HIDE DEF session
    <2> QED BY <1>1, <2>1 DEF JobType
  <1>3. job.pos + 1 \in 1..Len(log) /\ NextLine.what \in {"whole", "front", "rest"}
    <2>1. Place(job.pos, job.mid)
      BY <1>1 DEF ReadIInv, PlaceInv
    <2>2. NextLine.what \in {"whole", "rest", "blank", "front", "end"}
      BY NextLineType
    <2> QED BY <1>1, <2>1, <2>2, NextLineCases, PlaceTypes
  <1>4. /\ DOMAIN got' = DOMAIN got \cup {n} /\ n \notin DOMAIN got /\ Len(got') = n /\ n \in Nat
        /\ DOMAIN got = 1..(n - 1)
        /\ \A k \in DOMAIN got : got'[k] = got[k]
        /\ got'[n] = line /\ got' # <<>>
    <2>1. got \in Seq(LineRead) /\ line \in LineRead
      BY <1>3, PlaceTypes DEF TypeIInv, GotInv, LineRead
    <2>2. Len(got) \in Nat /\ DOMAIN got = 1..Len(got)
      BY <2>1, LenProperties
    <2>3. /\ Append(got, line) \in Seq(LineRead) /\ Append(got, line) # <<>>
          /\ Len(Append(got, line)) = Len(got) + 1
          /\ \A k \in 1..Len(got) : Append(got, line)[k] = got[k]
          /\ Append(got, line)[Len(got) + 1] = line
      BY <2>1, AppendProperties
    <2>4. DOMAIN Append(got, line) = 1..(Len(got) + 1)
      BY <2>2, <2>3, LenProperties
    <2> QED BY <1>0, <1>1, <2>2, <2>3, <2>4
  <1>5. /\ \A k \in DOMAIN got : NamesSession(k)' <=> NamesSession(k)
        /\ \A k \in DOMAIN got : EventsOf(k)' = EventsOf(k)
    BY <1>1, <1>2, <1>4, EventsStay DEF CleanIInv
  <1>6. RecordRead(n)' = r /\ (NamesSession(n)' <=> Synthesizes(r, job.format))
    BY <1>1, <1>2, <1>3, <1>4 DEF RecordRead, RecordOf, NamesSession
  <1>7. job.synthesized <=> \E k \in DOMAIN got : NamesSession(k)
    BY DEF CleanIInv, GotThere
  <1>8. GotThere'
    <2>1. \A k \in DOMAIN got' : got'[k].rec \in 1..Len(log')
      BY <1>1, <1>3, <1>4 DEF CleanIInv, GotThere
    <2>2. job'.synthesized <=> \E k \in DOMAIN got' : NamesSession(k)'
      BY <1>2, <1>4, <1>5, <1>6, <1>7
    <2> QED BY <1>2, <2>1, <2>2 DEF GotThere
  <1>9. EventsOf(n)' = queue'
    <2>1. session <=> NamesSession(n)' /\ \A j \in 1..(n - 1) : ~NamesSession(j)'
      BY <1>4, <1>5, <1>6, <1>7
    <2>2. EventsOf(n)' = (IF NamesSession(n)' /\ \A j \in 1..(n - 1) : ~NamesSession(j)'
                          THEN <<Event("session", NoBody)>> ELSE <<>>)
                         \o Classify(RecordRead(n)', job'.format)
      BY <1>4 DEF EventsOf
    <2> HIDE DEF session
    <2> QED BY <1>1, <1>2, <1>6, <2>1, <2>2
  <1>10. queue' \in Seq(EventType) /\ Len(queue') \in Nat
    <2>1. r \in ParsedType
      <3>1. log[job.pos + 1] \in ParsedType
        BY <1>3, PlaceTypes DEF Record, ParsedType, Body, Text
      <3>2. [agent |-> "none", form |-> "bad", body |-> NoBody] \in ParsedType
        BY DEF ParsedType, Forms, NoBody, Body, Text
      <3> QED BY <3>1, <3>2 DEF RecordOf
    <2> HIDE DEF r
    <2>2. Classify(r, job.format) \in Seq(EventType)
      BY <2>1, ClassifyTyped, GotSeq
    <2>3. <<Event("session", NoBody)>> \in Seq(EventType) /\ <<>> \in Seq(EventType)
      BY DEF Event, EventType, NoBody, Body, Text, Kinds, TerminalKinds
    <2> HIDE DEF session
    <2> QED BY <1>1, <2>2, <2>3, ConcatProperties, LenProperties
  <1>11. QueueInv'
    BY <1>4, <1>9, <1>10 DEF QueueInv
  <1>12. Accepted' = Accepted
    <2>1. \A p \in Places : /\ p \in Places' /\ Done(p) /\ Done(p)'
                            /\ Written(p)' = Written(p) /\ (p \in Shown' <=> p \in Shown)
      <3> TAKE p \in Places
      <3>1. PICK k \in DOMAIN got : p \in {k} \X DOMAIN EventsOf(k)
        BY DEF Places
      <3>2. p \in Places'
        BY <1>4, <1>5, <3>1 DEF Places
      <3>3. Written(p)' = Written(p)
        BY <1>1, <1>5, <3>1 DEF Written
      <3>4. Done(p)'
        BY <1>4, <3>1 DEF Done
      <3>5. Done(p)
        <4>1. EventsOf(k) \in Seq(EventType)
          BY EventsTyped DEF CleanIInv, GotThere
        <4>2. p[2] \in 1..Len(EventsOf(k)) /\ p[1] = k /\ Len(EventsOf(k)) \in Nat
          BY <3>1, <4>1, LenProperties
        <4>3. Len(queue) = 0
          BY <1>1
        <4> QED BY <4>2, <4>3 DEF Done
      <3> QED BY <1>1, <1>2, <3>2, <3>3, <3>4, <3>5 DEF Shown
    <2>2. \A p \in Places' : p \notin Places => ~Done(p)'
      <3> TAKE p \in Places'
      <3> HAVE p \notin Places
      <3>1. PICK k \in DOMAIN got' : p \in {k} \X DOMAIN EventsOf(k)'
        BY DEF Places
      <3>2. k = n
        BY <1>4, <1>5, <3>1 DEF Places
      <3>3. p[1] = n /\ p[2] \in 1..Len(queue')
        BY <1>9, <1>10, <3>1, <3>2, LenProperties
      <3>4. ~(p[2] <= Len(queue') - Len(queue'))
        BY <1>10, <3>3
      <3> QED BY <1>4, <1>9, <3>3, <3>4 DEF Done
    <2>3. Shown \subseteq Places /\ Shown' \subseteq Places'
      BY DEF Shown
    <2>4. {p \in Shown : Done(p)}' = {p \in Shown : Done(p)}
      BY <2>1, <2>2, <2>3
    <2> QED BY <2>1, <2>3, <2>4 DEF Accepted
  <1> QED BY <1>1, <1>8, <1>11, <1>12 DEF CleanIInv

\* Nothing read, nothing kept.
LEMMA NothingKept ==
  got = <<>> /\ queue = <<>> /\ kept = <<>> /\ cleaner = NewCleaner /\ job.synthesized = FALSE
    => CleanIInv
  <1> SUFFICES ASSUME got = <<>>, queue = <<>>, kept = <<>>, cleaner = NewCleaner,
                      job.synthesized = FALSE
               PROVE  CleanIInv
    OBVIOUS
  <1>1. Accepted = [p \in {} |-> 0]
    BY NothingRead
  <1>2. Placed(Accepted)
    BY <1>1, FS_EmptySet DEF Placed
  <1>3. Lists(kept, Accepted, Clean(Accepted, request.dedup))
    <2>1. Clean(Accepted, request.dedup) = {}
      BY <1>1 DEF Clean
    <2> QED BY <2>1, FS_EmptySet DEF Lists
  <1>4. Remembers(cleaner, Accepted, request.dedup)
    BY <1>1 DEF Remembers, NewCleaner
  <1>5. GotThere /\ QueueInv /\ kept \in Seq(EventType)
    BY DEF GotThere, QueueInv
  <1> QED BY <1>2, <1>3, <1>4, <1>5 DEF CleanIInv

\* A command starts with nothing kept.
LEMMA StartClean ==
  ASSUME TypeIInv, Start
  PROVE  CleanIInv'
  <1>1. got' = <<>> /\ queue' = <<>> /\ kept' = <<>> /\ cleaner' = NewCleaner
    BY DEF Start
  <1>2. NewJob \in JobType /\ NewJob.synthesized = FALSE
    <2>1. NoHits \in [Formats -> 0..Sample]
      BY ExporterAssumption DEF NoHits
    <2>2. NoJob \in JobType /\ NoJob.synthesized = FALSE
      BY <2>1, ExporterAssumption DEF NoJob, JobType, Ended, Formats
    <2>3. job.runs + 1 \in 0..MaxRuns /\ job.kills \in 0..MaxRuns
      BY PlaceTypes, ExporterAssumption DEF Start, JobType
    <2> HIDE DEF NoJob
    <2> QED BY <2>2, <2>3 DEF NewJob, JobType
  <1> HIDE DEF NewJob
  <1>3. job'.synthesized = FALSE
    BY <1>2 DEF Start, OpenConversion, OpenLog, JobType
  <1>4. (got = <<>> /\ queue = <<>> /\ kept = <<>> /\ cleaner = NewCleaner /\ job.synthesized = FALSE)'
    BY <1>1, <1>3
  <1> QED BY <1>4, NothingKept, PTL

\* What a step leaves of the log and of the conversion, if it does neither read nor clean.
LEMMA OtherSteps ==
  ASSUME TypeIInv, ReadIInv, \/ ConvertBlank \/ ConvertEnd \/ Write \/ Fail \/ Kill \/ Grow
                             \/ Others \/ UNCHANGED vars
  PROVE  /\ UNCHANGED <<request, queue, cleaner, kept, got>>
         /\ job'.format = job.format /\ job'.synthesized = job.synthesized
         /\ job'.phase \in {"idle", "detect"} => job.phase \in {"idle", "detect"}
         /\ Len(log) \in Nat /\ Len(log') \in Nat /\ Len(log) <= Len(log')
         /\ \A i \in 1..Len(log) : log'[i] = log[i]
  <1>1. job \in JobType /\ Len(log) \in Nat
    BY PlaceTypes
  <1>2. CASE Grow
    BY <1>1, <1>2, LogGrows DEF Grow, AppendTo, Continue, convertVars
  <1>3. CASE Others \/ UNCHANGED vars
    BY <1>1, <1>3 DEF Others, vars, inputVars, convertVars
  <1>4. CASE ConvertBlank \/ ConvertEnd
    <2> DEFINE phase == IF request.stats THEN "done" ELSE "prepare"
    <2>1. /\ UNCHANGED <<log, request, queue, cleaner, kept, got>>
          /\ job.phase = "convert"
          /\ \/ job' = [job EXCEPT !.pos = NextLine.pos, !.mid = NextLine.mid]
             \/ job' = [job EXCEPT !.phase = phase]
      BY <1>4 DEF ConvertBlank, ConvertEnd, inputVars, convertVars
    <2>2. phase \notin {"idle", "detect"}
      OBVIOUS
    <2> HIDE DEF phase
    <2>3. /\ job'.format = job.format /\ job'.synthesized = job.synthesized
          /\ job'.phase \in {"idle", "detect"} => job.phase \in {"idle", "detect"}
      BY <1>1, <2>1, <2>2 DEF JobType
    <2> QED BY <1>1, <2>1, <2>3
  <1>5. CASE Write \/ Fail \/ Kill
    <2>1. UNCHANGED <<log, request, queue, cleaner, kept, got>>
      BY <1>5 DEF Write, Fail, Kill, Prepare, CheckDestination, Gate, WriteCreate, WriteFill,
             WriteRecheck, WriteRefused, WritePersist, WritePersistFails, Report, Quiet,
             inputVars, convertVars
    <2>2. \/ \E phase \in (Running \cup Ended) \ {"idle", "detect"} : Goto(phase)
          \/ job' = [job EXCEPT !.phase = "killed", !.kills = job.kills + 1]
          \/ job' = [job EXCEPT !.at = job.at + 1] /\ job.phase = "check"
          \/ job' = [job EXCEPT !.phase = "create", !.at = 1]
          \/ job' = NextDestination
      BY <1>1, <1>5 DEF Write, Fail, Kill, Prepare, CheckDestination, Gate, WriteCreate, WriteFill,
             WriteRecheck, WriteRefused, WritePersist, WritePersistFails, Report, Running, Ended,
             JobType
    <2>3. CASE job' = NextDestination
      <3> DEFINE next == IF request.command = "install" THEN "gate" ELSE "create"
                 last == IF request.command = "install" THEN "done" ELSE "report"
      <3>1. \/ job' = [job EXCEPT !.at = job.at + 1, !.phase = next]
            \/ job' = [job EXCEPT !.phase = last]
        BY <1>1, <2>3 DEF NextDestination, JobType
      <3>2. next \in {"gate", "create"} /\ last \in {"done", "report"}
        OBVIOUS
      <3> HIDE DEF next, last
      <3>3. /\ job'.format = job.format /\ job'.synthesized = job.synthesized
            /\ job'.phase \in {"idle", "detect"} => job.phase \in {"idle", "detect"}
        BY <1>1, <3>1, <3>2 DEF JobType
      <3> QED BY <1>1, <2>1, <3>3
    <2>4. CASE job' # NextDestination
      <3>1. /\ job'.format = job.format /\ job'.synthesized = job.synthesized
            /\ job'.phase \in {"idle", "detect"} => job.phase \in {"idle", "detect"}
        BY <1>1, <2>2, <2>4 DEF Goto, JobType
      <3> QED BY <1>1, <2>1, <3>1
    <2> QED BY <2>3, <2>4
  <1> QED BY <1>2, <1>3, <1>4, <1>5

\* detect_format reads for itself: until the conversion begins nothing is kept.
LEMMA DetectClean ==
  ASSUME TypeIInv, CleanIInv, DetectLine
  PROVE  CleanIInv'
  <1>1. job.phase = "detect" /\ UNCHANGED <<request, queue, cleaner, kept, got>>
    BY DEF DetectLine, convertVars
  <1>2. got = <<>> /\ queue = <<>>
    BY <1>1 DEF CleanIInv, GotThere, QueueInv
  <1>3. job'.synthesized = job.synthesized
    <2>1. job \in JobType
      BY PlaceTypes
    <2> DEFINE format == Verdict(job.hits, request.hint)
               hits == Hit(job.hits, RecordOf(NextLine.what, job.pos + 1))
    <2>2. \/ job' = OpenConversion([job EXCEPT !.format = format])
          \/ job' = [job EXCEPT !.pos = NextLine.pos, !.mid = NextLine.mid]
          \/ job' = [[job EXCEPT !.pos = NextLine.pos, !.mid = NextLine.mid]
                      EXCEPT !.seen = job.seen + 1, !.hits = hits]
      BY <2>1 DEF DetectLine, JobType
    <2> HIDE DEF format, hits
    <2> QED BY <2>1, <2>2 DEF OpenConversion, OpenLog, JobType
  <1>4. Accepted' = Accepted
    <2>1. Accepted = [p \in {} |-> 0]
      BY <1>2, NothingRead
    <2>2. (Accepted = [p \in {} |-> 0])'
      <3>1. Places' = {}
        BY <1>1, <1>2 DEF Places
      <3> QED BY <3>1 DEF Accepted, Shown
    <2> QED BY <2>1, <2>2
  <1>5. GotThere' /\ QueueInv'
    BY <1>1, <1>2, <1>3 DEF CleanIInv, GotThere, QueueInv
  <1> QED BY <1>1, <1>4, <1>5 DEF CleanIInv

\* Every step keeps what is known of what was cleaned.
LEMMA NextClean == TypeIInv /\ ReadIInv /\ CleanIInv /\ [Next]_vars => CleanIInv'
  <1> SUFFICES ASSUME TypeIInv, ReadIInv, CleanIInv, [Next]_vars PROVE CleanIInv'
    OBVIOUS
  <1>1. CASE \/ ConvertBlank \/ ConvertEnd \/ Write \/ Fail \/ Kill \/ Grow \/ Others \/ UNCHANGED vars
    BY <1>1, OtherSteps, CleanStays
  <1> QED BY <1>1, StartClean, DetectClean, ConvertClean, AcceptClean DEF Next, Step, Convert

\* The kept events are those of the records read, in order, less exactly the repetitions
\* (clean.rs:116-172), for every log and growth, every channel, and with or without folding and
\* cutting.
THEOREM ExporterKeptIsClean == Spec => []KeptIsClean
  <1>1. Init => CleanIInv
    BY NothingKept DEF Init, NoJob
  <1>2. TypeIInv /\ CleanIInv => KeptIsClean
    <2> SUFFICES ASSUME TypeIInv, CleanIInv, queue = <<>> PROVE KeptIsClean
      BY DEF KeptIsClean
    <2>1. \A p \in Shown : Done(p)
      <3> TAKE p \in Shown
      <3>1. PICK k \in DOMAIN got : p \in {k} \X DOMAIN EventsOf(k)
        BY DEF Shown, Places
      <3>2. EventsOf(k) \in Seq(EventType)
        BY EventsTyped DEF CleanIInv, GotThere
      <3>3. p[2] \in 1..Len(EventsOf(k)) /\ p[1] = k /\ Len(EventsOf(k)) \in Nat
        BY <3>1, <3>2, LenProperties
      <3> QED BY <3>3 DEF Done
    <2>2. Accepted = Channel
      BY <2>1 DEF Accepted, Channel
    <2> QED BY <2>2 DEF CleanIInv, KeptIsClean
  <1>3. Spec => [](TypeIInv /\ OutputIInv)
    BY OutputsHold
  <1>4. Spec => []ReadIInv
    BY ReadingHolds
  <1> QED BY <1>1, <1>2, <1>3, <1>4, NextClean, PTL DEF Spec
=============================================================================
