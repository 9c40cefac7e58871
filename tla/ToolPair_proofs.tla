--------------------------- MODULE ToolPair_proofs ---------------------------
(***************************************************************************)
(* Proofs about ToolPair, for every log, every appended record, every file *)
(* that may replace the log, every cap and every set of resume offsets.    *)
(*                                                                         *)
(* The invariant says what each pass has made of the snapshot so far, as   *)
(* long as no other file took its place: the events seen are the wanted    *)
(* ones of the records read, under the sessions a reading from the first   *)
(* record gives them; each one whose id was not stored lies at or behind   *)
(* the re-entry point of its key; and the second pass has fetched every    *)
(* target it has read, unless there are more targets than events allowed.  *)
(***************************************************************************)
EXTENDS ToolPair, SequenceTheorems, FiniteSetTheorems, WellFoundedInduction, TLAPS

\* No query resumes in the middle of a log of several sessions.
KeysReadAlike ==
  \/ Starts \subseteq {0}
  \/ \A r1, r2 \in Contents : NamesSession(r1) /\ NamesSession(r2) => r1.name = r2.name

\* What a reading from the first record makes of a tool record.
ReadEvent(log, first, i) ==
  [rec |-> i, what |-> log[i].what, key |-> Key(SessionAt(log, 0, i, first), log[i])]

\* The events of a set of keys among the first n records.
EventsOf(log, first, n, keys) ==
  {ReadEvent(log, first, i) :
     i \in {j \in 1..n : IsTool(log[j]) /\ ReadEvent(log, first, j).key \in keys}}

Collected == pc \in {"render", "rendering", "attach", "recheck", "done"}

BaseInv ==
  /\ TypeOK
  /\ IsFiniteSet(selected) /\ IsFiniteSet(seen)
  /\ query.gen0 = 0
  /\ pc = "query" => gen = 0 /\ file \in Seq(Contents) /\ selected = {}
  /\ pc \in {"query", "collect"} =>
       /\ seen = {} /\ found = {} /\ reentry = [k \in Keys |-> 0] /\ ~gap /\ ~invalid
       /\ targets = {}
  /\ pc \in {"query", "collect", "collecting"} => pairs = <<>> /\ rendered = 0
  /\ Collected => DOMAIN pairs = selected
  /\ pass.pos <= Len(pass.lines)
  /\ pc = "done" => changed = (gen # 0)

\* The snapshot is still at the path, and the selected events are records of it.
SnapInv ==
  gen = 0 /\ pc # "query" =>
    /\ query.snapshot <= Len(file)
    /\ \/ query.session = Discovered(file)
       \/ \A i \in 1..query.snapshot : ~NamesSession(file[i])
    /\ \A e \in selected : /\ e.rec \in 1..query.snapshot /\ IsTool(file[e.rec])
                           /\ e.what = file[e.rec].what
    /\ pc \in {"collecting", "rendering"} =>
         /\ Len(pass.lines) = query.snapshot
         /\ \A i \in 1..query.snapshot : pass.lines[i] = file[i]

\* The selected events have the keys the first pass gives their records.
KeyInv ==
  gen = 0 /\ pc # "query" =>
    \A e \in selected : e.key = ReadEvent(file, query.session, e.rec).key

\* What the first pass knows of the first n records.
ReadTo(n) ==
  /\ seen = EventsOf(file, query.session, n, wanted)
  /\ \A i \in 1..n : (file[i].form = "oversize" => gap) /\ (file[i].form = "malformed" => invalid)
  /\ \A e \in seen \ found : reentry[e.key] # 0 /\ reentry[e.key] <= e.rec
  /\ \A k \in Keys : reentry[k] <= n

ReadInv ==
  gen = 0 =>
    /\ pc = "collecting" =>
         /\ ReadTo(pass.pos)
         /\ pass.session = SessionAt(file, 0, pass.pos, query.session)
    /\ Collected /\ selected # {} => ReadTo(query.snapshot)

\* What is said of a selected event comes from what the first pass has seen.
PairInv ==
  \A e \in DOMAIN pairs :
    /\ pairs[e].ids = {f.rec : f \in Side(found, e.key, Opposite(e.what))}
    /\ pairs[e].total = Cardinality(Side(seen, e.key, Opposite(e.what)))
    /\ pairs[e].reentry = reentry[e.key]
    /\ pairs[e].counterparts \subseteq pairs[e].ids
    /\ pairs[e].state # "unknown_pair" => ~Incomplete
    /\ pairs[e].state \in {"pending_result", "orphan"} => pairs[e].total = 0

\* The records the second pass is to fetch.
Wants == UNION {pairs[e].ids : e \in DOMAIN pairs}

\* Every wanted record but those of `left` has been fetched, or they are too many.
Fetched(left) ==
  \/ Cardinality(Wants) > query.max
  \/ \A e \in DOMAIN pairs : pairs[e].state = "paired" =>
       pairs[e].counterparts = pairs[e].ids \ left

FetchInv ==
  gen = 0 =>
    /\ pc = "render" => targets = Wants
    /\ pc = "rendering" => targets = {t \in Wants : t > pass.pos}
    /\ pc \in {"render", "rendering"} =>
         /\ Cardinality(Wants) > query.max \/ rendered = Cardinality(Wants \ targets)
         /\ Fetched(targets)
    /\ pc = "attach" => Fetched({})
    /\ pc \in {"recheck", "done"} =>
         /\ shown # displayed => Cardinality(shown) <= query.max
         /\ \A e \in DOMAIN pairs : pairs[e].state = "paired" => pairs[e].ids \subseteq shown


----------------------------------------------------------------------------
(* The session a reading gives a record *)

\* A non-empty set of naturals has a least element.
LEMMA LeastElement ==
  ASSUME NEW S \in SUBSET Nat, S # {}
  PROVE  \E m \in S : \A k \in S : m <= k
<1> DEFINE R == OpToRel(<, Nat)
<1>1. IsWellFoundedOn(R, Nat) BY NatLessThanWellFounded
<1>2. \A k, m \in Nat : k < m => <<k, m>> \in R BY DEF OpToRel
<1> HIDE DEF R
<1>3. PICK m \in S : \A k \in S : ~(<<k, m>> \in R) BY <1>1, WFMin
<1>4. \A k \in S : ~(k < m) BY <1>2, <1>3
<1> QED BY <1>4

\* A bounded one has a greatest.
LEMMA GreatestElement ==
  ASSUME NEW n \in Nat, NEW S \in SUBSET (0..n), S # {}
  PROVE  \E m \in S : \A k \in S : k <= m
<1> DEFINE Down == {n - k : k \in S}
<1>1. \A k \in S : n - k \in Nat OBVIOUS
<1>2. Down \in SUBSET Nat /\ Down # {} BY <1>1, Zenon
<1>3. PICK d \in Down : \A e \in Down : d <= e BY <1>2, LeastElement
<1>4. PICK m \in S : d = n - m BY <1>3
<1>5. ASSUME NEW k \in S PROVE k <= m
  <2>1. d <= n - k BY <1>3
  <2> QED BY <1>4, <2>1
<1> QED BY <1>5

\* A record's session is the last one switched to before it, or the first one.
LEMMA SessionFacts ==
  ASSUME NEW log, NEW from \in Nat, NEW i \in Nat, NEW first,
         NEW metas, metas = {j \in (from + 1)..i : SwitchesSession(log[j])}
  PROVE  /\ metas = {} => SessionAt(log, from, i, first) = first
         /\ metas # {} =>
              \E m \in metas : /\ \A k \in metas : k <= m
                               /\ SessionAt(log, from, i, first) = log[m].name
<1>1. metas = {} => SessionAt(log, from, i, first) = first BY DEF SessionAt
<1>2. ASSUME metas # {}
      PROVE  \E m \in metas : /\ \A k \in metas : k <= m
                              /\ SessionAt(log, from, i, first) = log[m].name
  <2>1. metas \in SUBSET (0..i) OBVIOUS
  <2>2. \E m \in metas : \A k \in metas : k <= m BY <1>2, <2>1, GreatestElement
  <2> DEFINE last == CHOOSE m \in metas : \A k \in metas : k <= m
  <2>3. last \in metas /\ \A k \in metas : k <= last BY <2>2
  <2>4. SessionAt(log, from, i, first) = log[last].name BY <1>2 DEF SessionAt
  <2> QED BY <2>3, <2>4
<1> QED BY <1>1, <1>2

\* Records that read alike give the same session.
LEMMA SessionAgree ==
  ASSUME NEW log, NEW more, NEW n \in Nat, \A j \in 1..n : more[j] = log[j],
         NEW i \in 0..n, NEW first
  PROVE  SessionAt(more, 0, i, first) = SessionAt(log, 0, i, first)
<1> DEFINE metas == {j \in 1..i : SwitchesSession(log[j])}
<1>1. i \in Nat /\ 0 + 1 = 1 OBVIOUS
<1>2. metas = {j \in (0 + 1)..i : SwitchesSession(log[j])} BY <1>1
<1>3. metas = {j \in (0 + 1)..i : SwitchesSession(more[j])} BY <1>1
<1>4. metas \subseteq 1..n OBVIOUS
<1> HIDE DEF metas
<1>5. CASE metas = {} BY <1>1, <1>2, <1>3, <1>5, SessionFacts
<1>6. CASE metas # {}
  <2>1. PICK m \in metas : /\ \A k \in metas : k <= m
                           /\ SessionAt(log, 0, i, first) = log[m].name
    BY <1>1, <1>2, <1>6, SessionFacts
  <2>2. PICK l \in metas : /\ \A k \in metas : k <= l
                           /\ SessionAt(more, 0, i, first) = more[l].name
    BY <1>1, <1>3, <1>6, SessionFacts
  <2>3. m = l BY <1>4, <2>1, <2>2
  <2> QED BY <1>4, <2>1, <2>2, <2>3
<1> QED BY <1>5, <1>6

\* One record more.
LEMMA SessionStep ==
  ASSUME NEW log, NEW i \in Nat, NEW first
  PROVE  SessionAt(log, 0, i + 1, first)
           = IF SwitchesSession(log[i + 1]) THEN log[i + 1].name
             ELSE SessionAt(log, 0, i, first)
<1> DEFINE metas == {j \in 1..i : SwitchesSession(log[j])}
           grown == {j \in 1..(i + 1) : SwitchesSession(log[j])}
<1>1. 0 + 1 = 1 /\ i + 1 \in Nat OBVIOUS
<1>2. metas = {j \in (0 + 1)..i : SwitchesSession(log[j])} BY <1>1
<1>3. grown = {j \in (0 + 1)..(i + 1) : SwitchesSession(log[j])} BY <1>1
<1>4. /\ SwitchesSession(log[i + 1]) => i + 1 \in grown
      /\ ~SwitchesSession(log[i + 1]) => grown = metas
      /\ \A k \in grown : k \in Nat /\ k <= i + 1
  OBVIOUS
<1>5. CASE SwitchesSession(log[i + 1])
  <2> HIDE DEF metas, grown
  <2>1. PICK m \in grown : /\ \A k \in grown : k <= m
                           /\ SessionAt(log, 0, i + 1, first) = log[m].name
    BY <1>1, <1>3, <1>4, <1>5, SessionFacts
  <2>2. m = i + 1 BY <1>4, <1>5, <2>1
  <2> QED BY <1>5, <2>1, <2>2
<1>6. CASE ~SwitchesSession(log[i + 1])
  <2>1. {j \in (0 + 1)..(i + 1) : SwitchesSession(log[j])}
          = {j \in (0 + 1)..i : SwitchesSession(log[j])}
    BY <1>2, <1>3, <1>4, <1>6
  <2>2. metas = {j \in (0 + 1)..(i + 1) : SwitchesSession(log[j])} BY <1>2, <2>1
  <2>3. \A k \in metas : k \in Nat BY <1>1
  <2> HIDE DEF metas, grown
  <2>4. CASE metas = {} BY <1>1, <1>2, <1>6, <2>2, <2>4, SessionFacts
  <2>5. CASE metas # {}
    <3>1. PICK m \in metas : /\ \A k \in metas : k <= m
                             /\ SessionAt(log, 0, i, first) = log[m].name
      BY <1>1, <1>2, <2>5, SessionFacts
    <3>2. PICK l \in metas : /\ \A k \in metas : k <= l
                             /\ SessionAt(log, 0, i + 1, first) = log[l].name
      BY <1>1, <2>2, <2>5, SessionFacts
    <3>3. m = l BY <2>3, <3>1, <3>2
    <3> QED BY <1>6, <3>1, <3>2, <3>3
  <2> QED BY <2>4, <2>5
<1> QED BY <1>5, <1>6

\* What the forms of a record say of its name.
LEMMA RecordFacts ==
  ASSUME NEW r \in Record
  PROVE  /\ NamesSession(r) => r.name \in Sessions
         /\ SwitchesSession(r) => NamesSession(r)
         /\ IsTool(r) => r.what \in Sides /\ r.name \in CallIds /\ ~SwitchesSession(r)
BY DEF Record, NamesSession, SwitchesSession, IsTool, Sides, Forms

\* A record's session is a session.
LEMMA SessionType ==
  ASSUME NEW log \in Seq(Record), NEW from \in Nat, NEW i \in 0..Len(log),
         NEW first \in SessionIds
  PROVE  SessionAt(log, from, i, first) \in SessionIds
<1> DEFINE metas == {j \in (from + 1)..i : SwitchesSession(log[j])}
<1>1. i \in Nat /\ Len(log) \in Nat BY LenProperties
<1>2. \A j \in metas : j \in 1..Len(log) BY <1>1
<1>3. \A j \in metas : log[j] \in Record /\ SwitchesSession(log[j]) BY <1>2, ElementOfSeq
<1>4. CASE metas = {} BY <1>4 DEF SessionAt
<1>5. CASE metas # {}
  <2>1. metas \in SUBSET (0..i) OBVIOUS
  <2>2. \E m \in metas : \A k \in metas : k <= m BY <1>1, <1>5, <2>1, GreatestElement
  <2> DEFINE last == CHOOSE m \in metas : \A k \in metas : k <= m
  <2>3. last \in metas BY <2>2
  <2>4. SessionAt(log, from, i, first) = log[last].name BY <1>5 DEF SessionAt
  <2>5. log[last].name \in SessionIds
    <3> HIDE DEF last, metas
    <3> QED BY <1>3, <2>3, RecordFacts DEF SessionIds
  <2> QED BY <2>4, <2>5
<1> QED BY <1>4, <1>5

\* The session discovered is that of the first record that names one.
LEMMA DiscoveredFacts ==
  ASSUME NEW log \in Seq(Record)
  PROVE  /\ (\A i \in DOMAIN log : ~NamesSession(log[i])) => Discovered(log) = "file"
         /\ (\E i \in DOMAIN log : NamesSession(log[i])) =>
              \E m \in DOMAIN log :
                /\ NamesSession(log[m]) /\ Discovered(log) = log[m].name
                /\ \A i \in DOMAIN log : NamesSession(log[i]) => m <= i
         /\ Discovered(log) \in SessionIds
<1> DEFINE metas == {i \in DOMAIN log : NamesSession(log[i])}
<1>1. DOMAIN log = 1..Len(log) /\ Len(log) \in Nat BY LenProperties
<1>2. metas \in SUBSET Nat BY <1>1
<1>3. CASE metas = {} BY <1>3 DEF Discovered, SessionIds
<1>4. CASE metas # {}
  <2> DEFINE m == CHOOSE i \in metas : \A j \in metas : i <= j
  <2>1. \E i \in metas : \A j \in metas : i <= j BY <1>2, <1>4, LeastElement
  <2>2. m \in metas /\ \A j \in metas : m <= j BY <2>1
  <2>3. Discovered(log) = log[m].name BY <1>4 DEF Discovered
  <2> HIDE DEF m
  <2>4. log[m] \in Record BY <1>1, <2>2, ElementOfSeq
  <2>5. Discovered(log) \in SessionIds BY <2>2, <2>3, <2>4, RecordFacts DEF SessionIds
  <2> QED BY <1>4, <2>2, <2>3, <2>5
<1> QED BY <1>3, <1>4

----------------------------------------------------------------------------
(* Types, and what each step does *)

\* A tool record has a key of the log.
LEMMA KeyType ==
  ASSUME NEW session \in SessionIds, NEW line \in Record, IsTool(line)
  PROVE  Key(session, line) \in Keys
BY RecordFacts DEF Key, Keys

\* A line of a pass that is a tool record gives an event.
LEMMA LineType ==
  ASSUME TypeOK, pass.pos <= Len(pass.lines), ~AtEnd
  PROVE  /\ pass.lines \in Seq(Record) /\ pass.pos \in Nat /\ Len(pass.lines) \in Nat
         /\ pass.pos + 1 \in 1..Len(pass.lines)
         /\ Line \in Record
         /\ IsTool(Line) => LineEvent \in Event
<1>1. pass.lines \in Seq(Record) /\ pass.pos \in Nat /\ pass.session \in SessionIds
  BY DEF TypeOK
<1>2. Len(pass.lines) \in Nat BY <1>1, LenProperties
<1>3. pass.pos + 1 \in 1..Len(pass.lines) BY <1>1, <1>2 DEF AtEnd
<1>4. Line \in Record BY <1>1, <1>3, ElementOfSeq DEF Line
<1>5. ASSUME IsTool(Line) PROVE LineEvent \in Event
  <2>1. Line.what \in Sides BY <1>4, <1>5, RecordFacts
  <2>2. Key(pass.session, Line) \in Keys BY <1>1, <1>4, <1>5, KeyType
  <2>3. pass.pos + 1 \in Nat \ {0} BY <1>1
  <2> QED BY <2>1, <2>2, <2>3 DEF LineEvent, Event
<1> QED BY <1>1, <1>2, <1>3, <1>4, <1>5

\* A pass that moves on by a record keeps its type.
LEMMA AdvanceType ==
  ASSUME TypeOK, pass.pos <= Len(pass.lines), ~AtEnd, Advance
  PROVE  /\ pass' \in [lines : Seq(Record), pos : Nat, session : SessionIds]
         /\ pass'.lines = pass.lines /\ pass'.pos = pass.pos + 1
         /\ pass'.session = (IF SwitchesSession(Line) THEN Line.name ELSE pass.session)
         /\ pass'.pos <= Len(pass'.lines)
<1>1. pass \in [lines : Seq(Record), pos : Nat, session : SessionIds] BY DEF TypeOK
<1>2. Line \in Record /\ pass.pos + 1 \in 1..Len(pass.lines) /\ Len(pass.lines) \in Nat
  BY LineType
<1>3. SwitchesSession(Line) => Line.name \in SessionIds BY <1>2, RecordFacts DEF SessionIds
<1> DEFINE session == IF SwitchesSession(Line) THEN Line.name ELSE pass.session
<1>4. session \in SessionIds BY <1>1, <1>3
<1>5. pass' = [lines |-> pass.lines, pos |-> pass.pos + 1, session |-> session]
  BY <1>1 DEF Advance
<1> HIDE DEF session
<1>6. /\ pass' \in [lines : Seq(Record), pos : Nat, session : SessionIds]
      /\ pass'.lines = pass.lines /\ pass'.pos = pass.pos + 1
      /\ pass'.session = session
  BY <1>1, <1>4, <1>5
<1>7. pass'.pos <= Len(pass'.lines) BY <1>1, <1>2, <1>6
<1> QED BY <1>6, <1>7 DEF session

\* A pass reads the beginning of the file, as far as the snapshot reaches.
LEMMA OpenPassType ==
  ASSUME TypeOK, OpenPass
  PROVE  /\ pass' \in [lines : Seq(Record), pos : Nat, session : SessionIds]
         /\ pass'.pos = 0 /\ pass'.session = query.session
         /\ Len(pass'.lines) = Boundary(file)
         /\ \A i \in 1..Boundary(file) : pass'.lines[i] = file[i]
         /\ Boundary(file) \in 0..Len(file) /\ Boundary(file) <= query.snapshot
         /\ query.snapshot <= Len(file) => Boundary(file) = query.snapshot
<1>1. file \in Seq(Record) /\ query.snapshot \in Nat /\ query.session \in SessionIds
  BY DEF TypeOK
<1>2. Len(file) \in Nat BY <1>1, LenProperties
<1>3. /\ Boundary(file) \in 0..Len(file) /\ Boundary(file) <= query.snapshot
      /\ query.snapshot <= Len(file) => Boundary(file) = query.snapshot
  BY <1>1, <1>2 DEF Boundary, Lesser
<1> DEFINE n == Boundary(file)
           lines == SubSeq(file, 1, n)
<1>4. pass' = [lines |-> lines, pos |-> 0, session |-> query.session] BY DEF OpenPass
<1> HIDE DEF n
<1>5. /\ lines \in Seq(Record) /\ Len(lines) = n
      /\ \A i \in 1..n : lines[i] = file[i]
  <2>1. n \in 0..Len(file) BY <1>3 DEF n
  <2>2. \A i \in 1..n : file[i] \in Record BY <1>1, <1>2, <2>1, ElementOfSeq
  <2>3. /\ Len(SubSeq(file, 1, n)) = (IF 1 <= n THEN n - 1 + 1 ELSE 0)
        /\ SubSeq(file, 1, n) \in Seq(Record)
        /\ \A i \in 1..(n - 1 + 1) : SubSeq(file, 1, n)[i] = file[1 + i - 1]
    BY <1>1, <1>2, <2>1, SubSeqProperties
  <2>4. n \in Nat /\ n - 1 + 1 = n BY <1>2, <2>1
  <2>5. Len(lines) = n BY <2>3, <2>4
  <2>6. ASSUME NEW i \in 1..n PROVE lines[i] = file[i]
    <3>1. 1 + i - 1 = i /\ i \in 1..(n - 1 + 1) BY <2>4
    <3> QED BY <2>3, <3>1
  <2> QED BY <2>3, <2>5, <2>6
<1> HIDE DEF lines
<1> QED BY <1>1, <1>3, <1>4, <1>5 DEF n

\* What run_query selects and how the first pass begins.
LEMMA QueryEffect ==
  ASSUME TypeOK, Query
  PROVE  /\ pc = "query" /\ pc' = "collect"
         /\ UNCHANGED <<logVars, pass, foundVars, pairs, targets, rendered, shown, changed>>
         /\ query' \in [start : Nat, snapshot : Nat, session : SessionIds, max : Nat \ {0},
                        gen0 : Nat]
         /\ query'.snapshot = Len(file) /\ query'.session = Discovered(file)
         /\ query'.gen0 = gen
         /\ selected' \in SUBSET Event /\ IsFiniteSet(selected')
         /\ \E start \in Starts : \A e \in selected' :
              /\ e.rec \in 1..Len(file) /\ IsTool(file[e.rec]) /\ e.what = file[e.rec].what
              /\ e.key = Key(SessionAt(file, start, e.rec, Discovered(file)), file[e.rec])
<1>1. /\ file \in Seq(Record) /\ Len(file) \in Nat /\ gen \in Nat
      /\ Discovered(file) \in SessionIds
  BY LenProperties, DiscoveredFacts DEF TypeOK
<1>2. /\ pc = "query" /\ pc' = "collect"
      /\ UNCHANGED <<logVars, pass, foundVars, pairs, targets, rendered, shown, changed>>
  BY DEF Query
<1> DEFINE first == Discovered(file)
           Ev(start, i) == [rec |-> i, what |-> file[i].what,
                            key |-> Key(SessionAt(file, start, i, first), file[i])]
<1>3. PICK start \in Starts, max \in EventCaps :
        /\ query' = [start |-> start, snapshot |-> Len(file), session |-> first,
                     max |-> max, gen0 |-> gen]
        /\ \E chosen \in SUBSET {i \in (start + 1)..Len(file) :
                          /\ IsTool(file[i])
                          /\ \A j \in (start + 1)..i : file[j].form # "oversize"} :
             selected' = {Ev(start, i) : i \in chosen}
  BY DEF Query
<1>4. start \in Nat /\ max \in Nat \ {0} BY ToolPairAssumption
<1>5. PICK chosen \in SUBSET {i \in (start + 1)..Len(file) : IsTool(file[i])} :
        selected' = {Ev(start, i) : i \in chosen}
  BY <1>3
<1>6. \A i \in chosen : i \in 1..Len(file) /\ IsTool(file[i]) BY <1>1, <1>4, <1>5
<1>7. ASSUME NEW i \in chosen PROVE Ev(start, i) \in Event
  <2>1. i \in 1..Len(file) /\ IsTool(file[i]) BY <1>6
  <2>2. file[i] \in Record /\ i \in 0..Len(file) /\ i \in Nat \ {0}
    BY <1>1, <2>1, ElementOfSeq
  <2>3. SessionAt(file, start, i, first) \in SessionIds BY <1>1, <1>4, <2>2, SessionType
  <2>4. Key(SessionAt(file, start, i, first), file[i]) \in Keys BY <2>1, <2>2, <2>3, KeyType
  <2>5. file[i].what \in Sides BY <2>1, <2>2, RecordFacts
  <2> QED BY <2>2, <2>4, <2>5 DEF Event
<1>8. selected' \in SUBSET Event BY <1>5, <1>7
<1>9. IsFiniteSet(selected')
  <2> DEFINE f == [i \in chosen |-> Ev(start, i)]
  <2>1. f \in Surjection(chosen, selected')
    <3>1. f \in [chosen -> selected'] BY <1>5
    <3>2. \A e \in selected' : \E i \in chosen : f[i] = e BY <1>5
    <3> QED BY <3>1, <3>2 DEF Surjection
  <2>2. IsFiniteSet(1..Len(file)) BY <1>1, FS_Interval
  <2>3. IsFiniteSet(chosen) BY <1>6, <2>2, FS_Subset
  <2> HIDE DEF f
  <2> QED BY <2>1, <2>3, FS_Surjection
<1>10. \A e \in selected' :
         /\ e.rec \in 1..Len(file) /\ IsTool(file[e.rec]) /\ e.what = file[e.rec].what
         /\ e.key = Key(SessionAt(file, start, e.rec, first), file[e.rec])
  BY <1>5, <1>6
<1>11. /\ query' \in [start : Nat, snapshot : Nat, session : SessionIds, max : Nat \ {0},
                      gen0 : Nat]
       /\ query'.snapshot = Len(file) /\ query'.session = Discovered(file)
       /\ query'.gen0 = gen
  BY <1>1, <1>3, <1>4
<1> QED BY <1>2, <1>8, <1>9, <1>10, <1>11

\* What the first pass says of an event.
LEMMA PairedFacts ==
  ASSUME BaseInv, NEW e \in selected
  PROVE  /\ Paired(e) \in Info
         /\ Paired(e).ids = {f.rec : f \in Side(found, e.key, Opposite(e.what))}
         /\ Paired(e).total = Cardinality(Side(seen, e.key, Opposite(e.what)))
         /\ Paired(e).reentry = reentry[e.key]
         /\ Paired(e).counterparts = {}
         /\ Paired(e).state # "unknown_pair" => ~Incomplete
         /\ Paired(e).state \in {"pending_result", "orphan"} => Paired(e).total = 0
<1> DEFINE other == Side(seen, e.key, Opposite(e.what))
           same == Side(seen, e.key, e.what)
           stored == {f.rec : f \in Side(found, e.key, Opposite(e.what))}
           total == Cardinality(other)
           state == CASE Incomplete -> "unknown_pair"
                      [] ~Incomplete /\ Cardinality(same) > 1 -> "ambiguous"
                      [] ~Incomplete /\ Cardinality(same) <= 1 /\ total > 0 -> "paired"
                      [] OTHER -> IF e.what = "call" THEN "pending_result" ELSE "orphan"
<1>1. /\ e \in Event /\ seen \in SUBSET Event /\ found \in SUBSET seen
      /\ reentry \in [Keys -> Nat] /\ IsFiniteSet(seen)
  BY DEF BaseInv, TypeOK
<1>2. e.key \in Keys BY <1>1 DEF Event
<1>3. other \in SUBSET seen /\ same \in SUBSET seen BY DEF Side, Of
<1>4. total \in Nat /\ Cardinality(same) \in Nat
  BY <1>1, <1>3, FS_Subset, FS_CardinalityType
<1>5. stored \in SUBSET Nat BY <1>1 DEF Side, Of, Event
<1>6. Paired(e) = [state |-> state, ids |-> stored, total |-> total, counterparts |-> {},
                   reentry |-> reentry[e.key]]
  BY DEF Paired
<1> HIDE DEF total, same, stored
<1>7. /\ state \in States /\ (state # "unknown_pair" => ~Incomplete)
      /\ state \in {"pending_result", "orphan"} => total = 0
  BY <1>4 DEF States
<1> HIDE DEF state
<1>8. reentry[e.key] \in Nat BY <1>1, <1>2
<1>9. Paired(e) \in Info BY <1>4, <1>5, <1>6, <1>7, <1>8 DEF Info
<1> QED BY <1>6, <1>7, <1>9 DEF total, stored

\* There is an answer for each selected event.
LEMMA PairsType ==
  ASSUME BaseInv, Collected
  PROVE  DOMAIN pairs = selected /\ pairs \in [selected -> Info]
<1>1. DOMAIN pairs = selected BY DEF BaseInv
<1>2. CASE pairs = <<>>
  <2>1. selected = {} BY <1>1, <1>2
  <2> QED BY <1>1, <1>2, <2>1
<1> QED BY <1>1, <1>2 DEF BaseInv, TypeOK

\* What a later step leaves as the first pass said it.
SameCounts(old, new) ==
  /\ new \in Info
  /\ new.ids = old.ids /\ new.total = old.total /\ new.reentry = old.reentry
  /\ \/ new.state = old.state
     \/ old.state = "paired" /\ new.state = "not_rendered_budget"

\* What the end of the first pass leaves: an answer for each selected event.
LEMMA CollectEndEffect ==
  ASSUME BaseInv, CollectEnd
  PROVE  /\ pc = "collecting" /\ AtEnd
         /\ pc' = (IF targets' = {} THEN "attach" ELSE "render")
         /\ UNCHANGED <<logVars, jobVars, pass, foundVars, rendered, shown, changed>>
         /\ pairs' = [e \in selected |-> Paired(e)]
         /\ pairs' \in [selected -> Info]
         /\ targets' = UNION {pairs'[e].ids : e \in selected}
         /\ targets' \in SUBSET Nat
<1>1. /\ pairs' = [e \in selected |-> Paired(e)]
      /\ targets' = UNION {Paired(e).ids : e \in selected}
  BY DEF CollectEnd
<1>2. \A e \in selected : Paired(e) \in Info BY PairedFacts
<1>3. pairs' \in [selected -> Info] /\ \A e \in selected : pairs'[e] = Paired(e)
  BY <1>1, <1>2
<1>4. targets' = UNION {pairs'[e].ids : e \in selected} BY <1>1, <1>3
<1>5. targets' \in SUBSET Nat
  <2>1. \A e \in selected : pairs'[e].ids \in SUBSET Nat BY <1>3 DEF Info
  <2> QED BY <1>4, <2>1
<1> QED BY <1>1, <1>3, <1>4, <1>5 DEF CollectEnd

\* A record of the second pass that is a target is fetched, within the cap.
LEMMA RenderTargetEffect ==
  ASSUME BaseInv, RenderTarget
  PROVE  /\ pc = "rendering" /\ ~AtEnd /\ IsTool(Line) /\ pass.pos + 1 \in targets
         /\ Advance /\ targets' = targets \ {pass.pos + 1}
         /\ UNCHANGED <<logVars, pc, jobVars, foundVars, shown, changed>>
         /\ rendered >= query.max => UNCHANGED <<pairs, rendered>>
         /\ rendered < query.max => rendered' = rendered + 1
         /\ rendered' \in Nat
         /\ pairs' \in [selected -> Info]
         /\ \A e \in selected :
              /\ SameCounts(pairs[e], pairs'[e]) /\ pairs'[e].state = pairs[e].state
              /\ rendered < query.max =>
                   pairs'[e].counterparts
                     = IF pairs[e].state = "paired" /\ pass.pos + 1 \in pairs[e].ids
                       THEN pairs[e].counterparts \cup {pass.pos + 1}
                       ELSE pairs[e].counterparts
<1> DEFINE r == pass.pos + 1
           G(e) == IF pairs[e].state = "paired" /\ r \in pairs[e].ids
                     THEN [pairs[e] EXCEPT !.counterparts = @ \cup {r}] ELSE pairs[e]
<1>0. LineEvent.rec = r BY DEF LineEvent
<1>1. /\ pc = "rendering" /\ ~AtEnd /\ IsTool(Line) /\ r \in targets
      /\ Advance /\ targets' = targets \ {r}
      /\ UNCHANGED <<logVars, pc, jobVars, foundVars, shown, changed>>
      /\ rendered >= query.max => UNCHANGED <<pairs, rendered>>
      /\ ~(rendered >= query.max) =>
           rendered' = rendered + 1 /\ pairs' = [e \in DOMAIN pairs |-> G(e)]
  BY <1>0 DEF RenderTarget
<1>2. rendered \in Nat /\ query.max \in Nat /\ pass.pos \in Nat BY DEF BaseInv, TypeOK
<1>3. DOMAIN pairs = selected /\ pairs \in [selected -> Info]
  BY <1>1, PairsType DEF Collected
<1> HIDE DEF r
<1>4. ASSUME NEW e \in selected
      PROVE  /\ G(e) \in Info /\ SameCounts(pairs[e], G(e)) /\ G(e).state = pairs[e].state
             /\ G(e).counterparts = IF pairs[e].state = "paired" /\ r \in pairs[e].ids
                                    THEN pairs[e].counterparts \cup {r}
                                    ELSE pairs[e].counterparts
  <2> DEFINE p == pairs[e]
  <2>1. p \in Info BY <1>3
  <2>2. r \in Nat BY <1>2 DEF r
  <2> HIDE DEF p
  <2> DEFINE q == [p EXCEPT !.counterparts = @ \cup {r}]
  <2>3. /\ q \in Info /\ q.state = p.state /\ q.ids = p.ids /\ q.total = p.total
        /\ q.reentry = p.reentry /\ q.counterparts = p.counterparts \cup {r}
    BY <2>1, <2>2 DEF Info
  <2>4. G(e) = IF p.state = "paired" /\ r \in p.ids THEN q ELSE p BY DEF p
  <2> HIDE DEF q, G
  <2>5. /\ G(e) \in Info /\ SameCounts(p, G(e)) /\ G(e).state = p.state
        /\ G(e).counterparts = IF p.state = "paired" /\ r \in p.ids
                               THEN p.counterparts \cup {r} ELSE p.counterparts
    BY <2>1, <2>3, <2>4 DEF SameCounts
  <2> QED BY <2>5 DEF p
<1> HIDE DEF G
<1>5. CASE rendered >= query.max
  <2>1. pairs' = pairs /\ rendered' = rendered BY <1>1, <1>5
  <2>2. \A e \in selected : pairs[e] \in Info BY <1>3
  <2> QED BY <1>1, <1>2, <1>3, <1>5, <2>1, <2>2 DEF SameCounts, r
<1>6. CASE ~(rendered >= query.max)
  <2>1. pairs' = [e \in selected |-> G(e)] /\ rendered' = rendered + 1 BY <1>1, <1>3, <1>6
  <2>2. \A e \in selected : pairs'[e] = G(e) BY <2>1
  <2>3. pairs' \in [selected -> Info] BY <1>4, <2>1
  <2> QED BY <1>1, <1>2, <1>4, <1>6, <2>1, <2>2, <2>3 DEF r
<1> QED BY <1>5, <1>6

\* The end of the second pass marks the answers the cap left short and changes no count.
LEMMA RenderEndEffect ==
  ASSUME BaseInv, RenderEnd
  PROVE  /\ pc = "rendering" /\ AtEnd /\ pc' = "attach"
         /\ UNCHANGED <<logVars, jobVars, pass, foundVars, targets, rendered, shown, changed>>
         /\ pairs' \in [selected -> Info]
         /\ \A e \in selected : SameCounts(pairs[e], pairs'[e])
                                /\ pairs'[e].counterparts = pairs[e].counterparts
<1> DEFINE Short(e) == /\ pairs[e].state = "paired"
                       /\ Cardinality(pairs[e].counterparts)
                            + Cardinality(pairs[e].ids \cap displayed) < pairs[e].total
           G(e) == IF Short(e) THEN [pairs[e] EXCEPT !.state = "not_rendered_budget"]
                   ELSE pairs[e]
<1>1. /\ pc = "rendering" /\ AtEnd /\ pc' = "attach"
      /\ UNCHANGED <<logVars, jobVars, pass, foundVars, targets, rendered, shown, changed>>
      /\ pairs' = [e \in DOMAIN pairs |-> G(e)]
  BY DEF RenderEnd
<1>2. DOMAIN pairs = selected /\ pairs \in [selected -> Info]
  BY <1>1, PairsType DEF Collected
<1> HIDE DEF Short
<1>3. ASSUME NEW e \in selected
      PROVE  SameCounts(pairs[e], G(e)) /\ G(e).counterparts = pairs[e].counterparts
  <2> DEFINE p == pairs[e]
             q == [p EXCEPT !.state = "not_rendered_budget"]
  <2>1. p \in Info BY <1>2
  <2>2. G(e) = (IF Short(e) THEN q ELSE p) /\ (Short(e) => p.state = "paired") BY DEF Short
  <2> HIDE DEF p, G
  <2>3. /\ q \in Info /\ q.state = "not_rendered_budget" /\ q.ids = p.ids
        /\ q.total = p.total /\ q.reentry = p.reentry /\ q.counterparts = p.counterparts
    BY <2>1 DEF Info, States
  <2> HIDE DEF q
  <2>4. SameCounts(p, G(e)) /\ G(e).counterparts = p.counterparts
    BY <2>1, <2>2, <2>3 DEF SameCounts
  <2> QED BY <2>4 DEF p
<1> HIDE DEF G
<1>4. pairs' = [e \in selected |-> G(e)] BY <1>1, <1>2
<1>5. \A e \in selected : pairs'[e] = G(e) BY <1>4
<1>6. pairs' \in [selected -> Info] BY <1>3, <1>4 DEF SameCounts
<1> QED BY <1>1, <1>3, <1>5, <1>6

\* run_query shows what was fetched, or gives up the answers.
LEMMA AttachEffect ==
  ASSUME BaseInv, Attach
  PROVE  /\ pc = "attach" /\ pc' = "recheck"
         /\ UNCHANGED <<logVars, jobVars, pass, foundVars, targets, rendered, changed>>
         /\ OverBudget => shown' = displayed
         /\ ~OverBudget =>
              /\ pairs' = pairs
              /\ shown' = displayed \cup UNION {pairs[e].counterparts : e \in DOMAIN pairs}
         /\ pairs' \in [selected -> Info]
         /\ \A e \in selected :
              /\ SameCounts(pairs[e], pairs'[e])
              /\ pairs'[e].counterparts \subseteq pairs[e].counterparts
              /\ OverBudget => pairs'[e].state # "paired"
<1> DEFINE G(e) == [pairs[e] EXCEPT
                      !.state = IF @ = "paired" THEN "not_rendered_budget" ELSE @,
                      !.counterparts = {}]
<1>1. /\ pc = "attach" /\ pc' = "recheck"
      /\ UNCHANGED <<logVars, jobVars, pass, foundVars, targets, rendered, changed>>
      /\ OverBudget => shown' = displayed /\ pairs' = [e \in DOMAIN pairs |-> G(e)]
      /\ ~OverBudget =>
           /\ pairs' = pairs
           /\ shown' = displayed \cup UNION {pairs[e].counterparts : e \in DOMAIN pairs}
  BY DEF Attach
<1>2. DOMAIN pairs = selected /\ pairs \in [selected -> Info]
  BY <1>1, PairsType DEF Collected
<1>3. ASSUME NEW e \in selected
      PROVE  /\ SameCounts(pairs[e], G(e)) /\ G(e).counterparts = {}
             /\ G(e).state # "paired"
  <2> DEFINE p == pairs[e]
             state == IF p.state = "paired" THEN "not_rendered_budget" ELSE p.state
  <2>1. p \in Info BY <1>2
  <2>2. G(e) = [p EXCEPT !.state = state, !.counterparts = {}] BY <2>1 DEF Info
  <2> HIDE DEF p, G
  <2>3. /\ state \in States /\ state # "paired"
        /\ state = p.state \/ (p.state = "paired" /\ state = "not_rendered_budget")
    BY <2>1 DEF Info, States
  <2> HIDE DEF state
  <2>4. /\ G(e) \in Info /\ G(e).state = state /\ G(e).ids = p.ids
        /\ G(e).total = p.total /\ G(e).reentry = p.reentry /\ G(e).counterparts = {}
    BY <2>1, <2>2, <2>3 DEF Info
  <2>5. SameCounts(p, G(e)) BY <2>3, <2>4 DEF SameCounts
  <2> QED BY <2>3, <2>4, <2>5 DEF p
<1> HIDE DEF G
<1>4. CASE OverBudget
  <2>1. pairs' = [e \in selected |-> G(e)] BY <1>1, <1>2, <1>4
  <2>2. \A e \in selected : pairs'[e] = G(e) BY <2>1
  <2>3. pairs' \in [selected -> Info] BY <1>3, <2>1 DEF SameCounts
  <2> QED BY <1>1, <1>3, <1>4, <2>2, <2>3
<1>5. CASE ~OverBudget
  <2>1. \A e \in selected : pairs[e] \in Info BY <1>2
  <2> QED BY <1>1, <1>2, <1>5, <2>1 DEF SameCounts
<1> QED BY <1>4, <1>5

\* An event of a wanted key is counted, and stored while there is room.
LEMMA CollectWantedEffect ==
  ASSUME BaseInv, CollectWanted
  PROVE  /\ pc = "collecting" /\ ~AtEnd /\ IsTool(Line) /\ LineEvent.key \in wanted
         /\ Advance /\ LineEvent \in Event /\ LineEvent.rec = pass.pos + 1
         /\ UNCHANGED <<logVars, pc, jobVars, gap, invalid, pairs, targets, rendered, shown,
                        changed>>
         /\ seen' = seen \cup {LineEvent}
         /\ reentry' \in [Keys -> Nat]
         /\ \/ found' = found \cup {LineEvent} /\ reentry' = reentry
            \/ /\ found' = found
               /\ \A k \in Keys : reentry'[k] = IF k = LineEvent.key /\ reentry[k] = 0
                                                THEN LineEvent.rec ELSE reentry[k]
<1>1. /\ TypeOK /\ pass.pos <= Len(pass.lines) /\ reentry \in [Keys -> Nat] BY DEF BaseInv, TypeOK
<1>2. /\ pc = "collecting" /\ ~AtEnd /\ IsTool(Line) /\ LineEvent.key \in wanted
      /\ Advance /\ seen' = seen \cup {LineEvent}
      /\ UNCHANGED <<logVars, pc, jobVars, gap, invalid, pairs, targets, rendered, shown,
                     changed>>
  BY DEF CollectWanted
<1>3. LineEvent \in Event BY <1>1, <1>2, LineType
<1>4. LineEvent.rec = pass.pos + 1 BY DEF LineEvent
<1> DEFINE l == LineEvent
<1>5. \/ found' = found \cup {l} /\ reentry' = reentry
      \/ found' = found /\ reentry' = [reentry EXCEPT ![l.key] = IF @ = 0 THEN l.rec ELSE @]
  BY DEF CollectWanted, Reenter
<1>6. l.key \in Keys /\ l.rec \in Nat BY <1>3 DEF Event
<1>7. l \in Event BY <1>3
<1> HIDE DEF l
<1>8. CASE found' = found \cup {l} /\ reentry' = reentry
  BY <1>1, <1>2, <1>3, <1>4, <1>8 DEF l
<1>9. CASE found' = found /\ reentry' = [reentry EXCEPT ![l.key] = IF @ = 0 THEN l.rec ELSE @]
  <2>1. reentry' \in [Keys -> Nat] BY <1>1, <1>6, <1>9
  <2>2. \A k \in Keys : reentry'[k] = IF k = l.key /\ reentry[k] = 0 THEN l.rec ELSE reentry[k]
    BY <1>1, <1>6, <1>9
  <2> QED BY <1>2, <1>3, <1>4, <1>9, <2>1, <2>2 DEF l
<1> QED BY <1>5, <1>8, <1>9

\* The first query begins with well-typed state.
LEMMA BaseInit == Init => BaseInv
<1> SUFFICES ASSUME Init PROVE BaseInv OBVIOUS
<1>1. PICK n \in 0..MaxRecords : file \in [1..n -> Contents] BY DEF Init
<1>2. n \in Nat BY ToolPairAssumption
<1>3. file \in Seq(Contents) /\ file \in Seq(Record)
  BY <1>1, <1>2, ToolPairAssumption, SeqDef
<1>5. [k \in Keys |-> 0] \in [Keys -> Nat] OBVIOUS
<1>6. <<>> \in Seq(Record) /\ Len(<<>>) = 0 OBVIOUS
<1>4. "file" \in SessionIds BY DEF SessionIds
<1>7. TypeOK
  <2>1. query \in [start : Nat, snapshot : Nat, session : SessionIds, max : Nat \ {0},
                   gen0 : Nat]
    BY <1>4 DEF Init, NoQuery
  <2>2. pass \in [lines : Seq(Record), pos : Nat, session : SessionIds]
    BY <1>4, <1>6 DEF Init, NoPass
  <2>3. reentry \in [Keys -> Nat] BY <1>5 DEF Init
  <2> QED BY <1>3, <2>1, <2>2, <2>3 DEF Init, TypeOK
<1>8. pass.pos <= Len(pass.lines) BY <1>6 DEF Init, NoPass
<1>9. query.gen0 = 0 BY DEF Init, NoQuery
<1> QED BY <1>3, <1>7, <1>8, <1>9, FS_EmptySet DEF Init, BaseInv, Collected

\* Every step keeps the types and what each phase left behind it.
LEMMA BaseNext == BaseInv /\ [Next]_vars => BaseInv'
<1> SUFFICES ASSUME BaseInv, [Next]_vars PROVE BaseInv' OBVIOUS
<1>1. TypeOK /\ pass.pos <= Len(pass.lines) BY DEF BaseInv
<1>2. CASE Query
  <2>1. /\ pc = "query" /\ pc' = "collect"
        /\ UNCHANGED <<logVars, pass, foundVars, pairs, targets, rendered, shown, changed>>
        /\ query' \in [start : Nat, snapshot : Nat, session : SessionIds, max : Nat \ {0},
                       gen0 : Nat]
        /\ query'.gen0 = gen /\ selected' \in SUBSET Event /\ IsFiniteSet(selected')
    BY <1>1, <1>2, QueryEffect
  <2>2. pairs = <<>> /\ gen = 0 BY <2>1 DEF BaseInv
  <2>3. TypeOK' BY <1>1, <2>1, <2>2 DEF TypeOK, logVars, foundVars
  <2> QED BY <2>1, <2>2, <2>3 DEF BaseInv, Collected, logVars, foundVars
<1>3. CASE NothingWanted
  <2>1. /\ pc = "collect" /\ wanted = {} /\ pc' = "attach"
        /\ UNCHANGED <<logVars, jobVars, pass, foundVars, pairs, targets, rendered, shown,
                       changed>>
    BY <1>3 DEF NothingWanted
  <2>2. selected = {} BY <2>1 DEF wanted
  <2>3. pairs = <<>> BY <2>1 DEF BaseInv
  <2>4. DOMAIN pairs = selected BY <2>2, <2>3
  <2>5. TypeOK' BY <1>1, <2>1 DEF TypeOK, logVars, foundVars, jobVars
  <2> QED BY <2>1, <2>4, <2>5 DEF BaseInv, Collected, logVars, foundVars, jobVars
<1>4. CASE OpenCollect \/ OpenRender
  <2>1. /\ OpenPass /\ pc \in {"collect", "render"}
        /\ pc' = IF pc = "collect" THEN "collecting" ELSE "rendering"
        /\ UNCHANGED <<logVars, jobVars, foundVars, pairs, targets, rendered, shown, changed>>
    BY <1>4 DEF OpenCollect, OpenRender
  <2>2. /\ pass' \in [lines : Seq(Record), pos : Nat, session : SessionIds]
        /\ pass'.pos = 0 /\ Len(pass'.lines) \in Nat
    BY <1>1, <2>1, OpenPassType, LenProperties
  <2>3. TypeOK' BY <1>1, <2>1, <2>2 DEF TypeOK, logVars, foundVars, jobVars
  <2> QED BY <2>1, <2>2, <2>3 DEF BaseInv, Collected, logVars, foundVars, jobVars
<1>5. CASE CollectOther \/ RenderOther
  <2>1. /\ ~AtEnd /\ Advance /\ pc \in {"collecting", "rendering"}
        /\ gap' \in BOOLEAN /\ invalid' \in BOOLEAN
        /\ UNCHANGED <<logVars, pc, jobVars, seen, found, reentry, pairs, targets, rendered,
                       shown, changed>>
    BY <1>1, <1>5 DEF CollectOther, RenderOther, TypeOK, foundVars
  <2>2. /\ pass' \in [lines : Seq(Record), pos : Nat, session : SessionIds]
        /\ pass'.pos <= Len(pass'.lines)
    BY <1>1, <2>1, AdvanceType
  <2>3. TypeOK' BY <1>1, <2>1, <2>2 DEF TypeOK, logVars, jobVars
  <2> QED BY <2>1, <2>2, <2>3 DEF BaseInv, Collected, logVars, jobVars
<1>6. CASE CollectWanted
  <2>1. /\ pc = "collecting" /\ ~AtEnd /\ Advance /\ LineEvent \in Event
        /\ UNCHANGED <<logVars, pc, jobVars, gap, invalid, pairs, targets, rendered, shown,
                       changed>>
        /\ seen' = seen \cup {LineEvent} /\ reentry' \in [Keys -> Nat]
        /\ found' = found \cup {LineEvent} \/ found' = found
    BY <1>6, CollectWantedEffect
  <2>2. /\ pass' \in [lines : Seq(Record), pos : Nat, session : SessionIds]
        /\ pass'.pos <= Len(pass'.lines)
    BY <1>1, <2>1, AdvanceType
  <2>3. /\ seen' \in SUBSET Event /\ found' \in SUBSET seen'
    BY <1>1, <2>1 DEF TypeOK
  <2>4. IsFiniteSet(seen') BY <2>1, FS_AddElement DEF BaseInv
  <2>5. TypeOK' BY <1>1, <2>1, <2>2, <2>3 DEF TypeOK, logVars, jobVars
  <2> QED BY <2>1, <2>2, <2>4, <2>5 DEF BaseInv, Collected, logVars, jobVars
<1>7. CASE CollectEnd
  <2>1. /\ pc = "collecting" /\ pc' \in {"attach", "render"}
        /\ UNCHANGED <<logVars, jobVars, pass, foundVars, rendered, shown, changed>>
        /\ pairs' \in [selected -> Info] /\ targets' \in SUBSET Nat
    BY <1>7, CollectEndEffect
  <2>2. DOMAIN pairs' = selected BY <2>1
  <2>3. TypeOK' BY <1>1, <2>1 DEF TypeOK, logVars, jobVars, foundVars
  <2> QED BY <2>1, <2>2, <2>3 DEF BaseInv, Collected, logVars, jobVars, foundVars
<1>8. CASE RenderTarget
  <2>1. /\ pc = "rendering" /\ ~AtEnd /\ Advance /\ targets' = targets \ {pass.pos + 1}
        /\ UNCHANGED <<logVars, pc, jobVars, foundVars, shown, changed>>
        /\ rendered' \in Nat /\ pairs' \in [selected -> Info]
    BY <1>8, RenderTargetEffect
  <2>2. /\ pass' \in [lines : Seq(Record), pos : Nat, session : SessionIds]
        /\ pass'.pos <= Len(pass'.lines)
    BY <1>1, <2>1, AdvanceType
  <2>3. DOMAIN pairs' = selected BY <2>1
  <2>4. targets' \in SUBSET Nat BY <1>1, <2>1 DEF TypeOK
  <2>5. TypeOK' BY <1>1, <2>1, <2>2, <2>4 DEF TypeOK, logVars, jobVars, foundVars
  <2> QED BY <2>1, <2>2, <2>3, <2>5 DEF BaseInv, Collected, logVars, jobVars, foundVars
<1>9. CASE RenderEnd
  <2>1. /\ pc = "rendering" /\ pc' = "attach" /\ pairs' \in [selected -> Info]
        /\ UNCHANGED <<logVars, jobVars, pass, foundVars, targets, rendered, shown, changed>>
    BY <1>9, RenderEndEffect
  <2>2. DOMAIN pairs' = selected BY <2>1
  <2>3. TypeOK' BY <1>1, <2>1 DEF TypeOK, logVars, jobVars, foundVars
  <2> QED BY <2>1, <2>2, <2>3 DEF BaseInv, Collected, logVars, jobVars, foundVars
<1>10. CASE Attach
  <2>1. /\ pc = "attach" /\ pc' = "recheck" /\ pairs' \in [selected -> Info]
        /\ UNCHANGED <<logVars, jobVars, pass, foundVars, targets, rendered, changed>>
        /\ \/ shown' = displayed
           \/ shown' = displayed \cup UNION {pairs[e].counterparts : e \in DOMAIN pairs}
    BY <1>10, AttachEffect
  <2>2. DOMAIN pairs' = selected BY <2>1
  <2>3. shown' \in SUBSET Nat
    <3>1. displayed \in SUBSET Nat BY <1>1 DEF TypeOK, Event, displayed
    <3>2. DOMAIN pairs = selected /\ pairs \in [selected -> Info]
      BY <2>1, PairsType DEF Collected
    <3>3. \A e \in selected : pairs[e].counterparts \in SUBSET Nat BY <3>2 DEF Info
    <3>4. UNION {pairs[e].counterparts : e \in DOMAIN pairs} \in SUBSET Nat
      BY <3>2, <3>3, Zenon
    <3> QED BY <2>1, <3>1, <3>4
  <2>4. TypeOK' BY <1>1, <2>1, <2>3 DEF TypeOK, logVars, jobVars, foundVars
  <2> QED BY <2>1, <2>2, <2>4 DEF BaseInv, Collected, logVars, jobVars, foundVars
<1>11. CASE Recheck
  <2>1. /\ pc = "recheck" /\ pc' = "done" /\ changed' = (gen # query.gen0)
        /\ UNCHANGED <<logVars, jobVars, pass, foundVars, pairs, targets, rendered, shown>>
    BY <1>11 DEF Recheck
  <2>2. changed' = (gen # 0) BY <2>1 DEF BaseInv
  <2>3. TypeOK' BY <1>1, <2>1, <2>2 DEF TypeOK, logVars, jobVars, foundVars
  <2> QED BY <2>1, <2>2, <2>3 DEF BaseInv, Collected, logVars, jobVars, foundVars
<1>12. CASE Disk
  <2>1. /\ UNCHANGED <<pc, jobVars, pass, foundVars, pairs, targets, rendered, shown, changed>>
        /\ pc # "query" /\ pc # "done"
        /\ file' \in Seq(Record) /\ gen' \in Nat
    <3>1. CASE Grow
      <4>1. PICK r \in Appends : file' = Append(file, r) /\ gen' = gen
        BY <3>1 DEF Grow
      <4>2. r \in Record BY ToolPairAssumption
      <4> QED BY <1>1, <1>12, <3>1, <4>1, <4>2, AppendProperties DEF TypeOK, Grow, Disk
    <3>2. CASE Replace
      BY <1>1, <1>12, <3>2, ToolPairAssumption DEF TypeOK, Replace, Disk
    <3> QED BY <1>12, <3>1, <3>2 DEF Disk
  <2>2. TypeOK' BY <1>1, <2>1 DEF TypeOK, jobVars, foundVars
  <2> QED BY <2>1, <2>2 DEF BaseInv, Collected, jobVars, foundVars
<1>13. CASE UNCHANGED vars
  <2>1. TypeOK' BY <1>1, <1>13 DEF TypeOK, vars, logVars, jobVars, foundVars
  <2> QED BY <1>13, <2>1 DEF BaseInv, Collected, vars, logVars, jobVars, foundVars
<1> QED
  BY <1>2, <1>3, <1>4, <1>5, <1>6, <1>7, <1>8, <1>9, <1>10, <1>11, <1>12, <1>13 DEF Next

\* The events, pairs and passes keep their types: every event has a key of the log's
\* sessions and calls, and the answer is about the selected events.
THEOREM ToolPairTypeCorrect == Spec => []TypeOK
<1>1. BaseInv => TypeOK BY DEF BaseInv
<1> QED BY <1>1, BaseInit, BaseNext, PTL DEF Spec

----------------------------------------------------------------------------
(* The snapshot *)

\* A log that begins with another one gives its records the same reading.
LEMMA ReadAgree ==
  ASSUME NEW log, NEW more, NEW n \in Nat, \A j \in 1..n : more[j] = log[j],
         NEW i \in 1..n, NEW first
  PROVE  ReadEvent(more, first, i) = ReadEvent(log, first, i)
<1>1. i \in 0..n /\ more[i] = log[i] OBVIOUS
<1>2. SessionAt(more, 0, i, first) = SessionAt(log, 0, i, first) BY <1>1, SessionAgree
<1> QED BY <1>1, <1>2 DEF ReadEvent, Key

\* Once a record names the session, what follows it does not change it.
LEMMA DiscoveredGrows ==
  ASSUME NEW log \in Seq(Record), NEW r \in Record,
         \E i \in 1..Len(log) : NamesSession(log[i])
  PROVE  Discovered(Append(log, r)) = Discovered(log)
<1> DEFINE more == Append(log, r)
<1>1. /\ more \in Seq(Record) /\ Len(more) = Len(log) + 1 /\ Len(log) \in Nat
      /\ \A i \in 1..Len(log) : more[i] = log[i]
  BY AppendProperties, LenProperties
<1>2. DOMAIN log = 1..Len(log) /\ DOMAIN more = 1..Len(more) BY <1>1, LenProperties
<1> HIDE DEF more
<1>3. PICK m \in DOMAIN log :
        /\ NamesSession(log[m]) /\ Discovered(log) = log[m].name
        /\ \A i \in DOMAIN log : NamesSession(log[i]) => m <= i
  BY <1>2, DiscoveredFacts
<1>4. m \in DOMAIN more /\ NamesSession(more[m]) BY <1>1, <1>2, <1>3
<1>5. PICK l \in DOMAIN more :
        /\ NamesSession(more[l]) /\ Discovered(more) = more[l].name
        /\ \A i \in DOMAIN more : NamesSession(more[i]) => l <= i
  BY <1>1, <1>4, DiscoveredFacts
<1>6. l <= m /\ l \in 1..Len(log) BY <1>1, <1>2, <1>3, <1>4, <1>5
<1>7. m <= l BY <1>1, <1>2, <1>3, <1>5, <1>6
<1>8. l = m BY <1>2, <1>3, <1>6, <1>7
<1> QED BY <1>1, <1>2, <1>3, <1>5, <1>8 DEF more

\* The agent adds a record behind the snapshot, or another file takes the path.
LEMMA DiskEffect ==
  ASSUME TypeOK, Disk
  PROVE  /\ UNCHANGED <<pc, jobVars, pass, foundVars, pairs, targets, rendered, shown, changed>>
         /\ pc # "query" /\ pc # "done"
         /\ \/ gen' # 0
            \/ /\ gen' = gen /\ Len(file') = Len(file) + 1
               /\ \A i \in 1..Len(file) : file'[i] = file[i]
               /\ (\E i \in 1..Len(file) : NamesSession(file[i])) =>
                    Discovered(file') = Discovered(file)
<1>1. file \in Seq(Record) /\ gen \in Nat BY DEF TypeOK
<1>2. UNCHANGED <<pc, jobVars, pass, foundVars, pairs, targets, rendered, shown, changed>>
  BY DEF Disk
<1>3. CASE Grow
  <2>1. PICK r \in Appends : file' = Append(file, r) /\ gen' = gen BY <1>3 DEF Grow
  <2>2. r \in Record BY ToolPairAssumption
  <2>3. pc # "query" /\ pc # "done" BY <1>3 DEF Grow
  <2> QED BY <1>1, <1>2, <2>1, <2>2, <2>3, AppendProperties, DiscoveredGrows
<1>4. CASE Replace BY <1>1, <1>2, <1>4 DEF Replace
<1> QED BY <1>3, <1>4 DEF Disk

\* A file that only grew still begins with the snapshot.
LEMMA SnapNext == BaseInv /\ SnapInv /\ [Next]_vars => SnapInv'
<1> SUFFICES ASSUME BaseInv, SnapInv, [Next]_vars, gen' = 0, pc' # "query"
             PROVE  SnapInv'
  BY DEF SnapInv
<1>1. /\ TypeOK /\ pass.pos <= Len(pass.lines) /\ file \in Seq(Record) /\ Len(file) \in Nat
      /\ query.snapshot \in Nat
  BY LenProperties DEF BaseInv, TypeOK
<1>2. CASE Query
  <2>1. /\ pc' = "collect" /\ file' = file /\ query'.snapshot = Len(file)
        /\ query'.session = Discovered(file)
        /\ \A e \in selected' : /\ e.rec \in 1..Len(file) /\ IsTool(file[e.rec])
                                /\ e.what = file[e.rec].what
    BY <1>1, <1>2, QueryEffect DEF logVars
  <2> QED BY <1>1, <2>1 DEF SnapInv
<1>3. ASSUME UNCHANGED <<logVars, jobVars>>, pc # "query",
             pc' \in {"collecting", "rendering"} => pc' = pc /\ pass'.lines = pass.lines
      PROVE  SnapInv'
  BY <1>3 DEF SnapInv, logVars, jobVars
<1>4. CASE OpenCollect \/ OpenRender
  <2>1. /\ OpenPass /\ pc \in {"collect", "render"} /\ UNCHANGED <<logVars, jobVars>>
    BY <1>4 DEF OpenCollect, OpenRender
  <2>2. /\ gen = 0 /\ pc # "query" BY <2>1 DEF logVars
  <2>3. query.snapshot <= Len(file) BY <2>2 DEF SnapInv
  <2>4. /\ Len(pass'.lines) = query.snapshot
        /\ \A i \in 1..query.snapshot : pass'.lines[i] = file[i]
    BY <1>1, <2>1, <2>3, OpenPassType
  <2> QED BY <2>1, <2>2, <2>4 DEF SnapInv, logVars, jobVars
<1>5. CASE NothingWanted BY <1>3, <1>5 DEF NothingWanted
<1>6. CASE CollectOther \/ RenderOther
  <2>1. /\ ~AtEnd /\ Advance /\ pc' = pc /\ pc \in {"collecting", "rendering"}
        /\ UNCHANGED <<logVars, jobVars>>
    BY <1>6 DEF CollectOther, RenderOther
  <2> QED BY <1>1, <1>3, <2>1, AdvanceType
<1>7. CASE CollectWanted BY <1>1, <1>3, <1>7, CollectWantedEffect, AdvanceType
<1>8. CASE CollectEnd BY <1>3, <1>8, CollectEndEffect
<1>9. CASE RenderTarget BY <1>1, <1>3, <1>9, RenderTargetEffect, AdvanceType
<1>10. CASE RenderEnd BY <1>3, <1>10 DEF RenderEnd
<1>11. CASE Attach BY <1>3, <1>11 DEF Attach
<1>12. CASE Recheck BY <1>3, <1>12 DEF Recheck
<1>13. CASE Disk
  <2>1. /\ UNCHANGED <<pc, jobVars, pass>> /\ pc # "query" /\ gen = 0
        /\ Len(file') = Len(file) + 1
        /\ \A i \in 1..Len(file) : file'[i] = file[i]
        /\ (\E i \in 1..Len(file) : NamesSession(file[i])) =>
             Discovered(file') = Discovered(file)
    BY <1>1, <1>13, DiskEffect
  <2> DEFINE n == query.snapshot
  <2>2. /\ n <= Len(file) /\ n \in Nat
        /\ query.session = Discovered(file) \/ \A i \in 1..n : ~NamesSession(file[i])
        /\ \A e \in selected : /\ e.rec \in 1..n /\ IsTool(file[e.rec])
                               /\ e.what = file[e.rec].what
        /\ pc \in {"collecting", "rendering"} =>
             Len(pass.lines) = n /\ \A i \in 1..n : pass.lines[i] = file[i]
    BY <1>1, <2>1 DEF SnapInv
  <2>3. /\ query' = query /\ selected' = selected /\ n' = n BY <2>1 DEF jobVars
  <2> HIDE DEF n
  <2>4. \A i \in 1..n : i \in 1..Len(file) /\ file'[i] = file[i] BY <1>1, <2>1, <2>2
  <2>5. n <= Len(file') BY <1>1, <2>1, <2>2
  <2>6. query.session = Discovered(file') \/ \A i \in 1..n : ~NamesSession(file'[i])
    <3>1. CASE \A i \in 1..n : ~NamesSession(file[i]) BY <2>4, <3>1
    <3>2. CASE ~\A i \in 1..n : ~NamesSession(file[i]) BY <2>1, <2>2, <2>4, <3>2
    <3> QED BY <3>1, <3>2
  <2>7. \A e \in selected : /\ e.rec \in 1..n /\ IsTool(file'[e.rec])
                            /\ e.what = file'[e.rec].what
    BY <2>2, <2>4
  <2>8. pc \in {"collecting", "rendering"} =>
             Len(pass.lines) = n /\ \A i \in 1..n : pass.lines[i] = file'[i]
    BY <2>2, <2>4
  <2> QED BY <2>1, <2>3, <2>5, <2>6, <2>7, <2>8 DEF SnapInv, n
<1>14. CASE UNCHANGED vars BY <1>14 DEF SnapInv, vars, logVars, jobVars
<1> QED
  BY <1>2, <1>4, <1>5, <1>6, <1>7, <1>8, <1>9, <1>10, <1>11, <1>12, <1>13, <1>14 DEF Next

\* Under the hypothesis a resumed reading gives the records the sessions of a whole one.
LEMMA StartAgrees ==
  ASSUME KeysReadAlike, NEW log \in Seq(Contents), NEW start \in Starts,
         NEW i \in 1..Len(log)
  PROVE  SessionAt(log, start, i, Discovered(log)) = SessionAt(log, 0, i, Discovered(log))
<1> DEFINE d == Discovered(log)
<1>1. CASE Starts \subseteq {0}
  <2>1. start = 0 BY <1>1
  <2> QED BY <2>1
<1>2. CASE \A r1, r2 \in Contents : NamesSession(r1) /\ NamesSession(r2) => r1.name = r2.name
  <2>1. /\ log \in Seq(Record) /\ Len(log) \in Nat /\ DOMAIN log = 1..Len(log)
        /\ \A j \in 1..Len(log) : log[j] \in Contents /\ log[j] \in Record
    <3>1. Len(log) \in Nat /\ DOMAIN log = 1..Len(log) BY LenProperties
    <3>2. \A j \in 1..Len(log) : log[j] \in Contents /\ log[j] \in Record
      BY ElementOfSeq, ToolPairAssumption
    <3>3. log = [j \in 1..Len(log) |-> log[j]] BY LenProperties
    <3>4. log \in [1..Len(log) -> Record] BY <3>1, <3>2, <3>3
    <3> QED BY <3>1, <3>2, <3>4, SeqDef
  <2>2. \A j \in 1..Len(log) : NamesSession(log[j]) => log[j].name = d
    <3> TAKE j \in 1..Len(log)
    <3> HAVE NamesSession(log[j])
    <3>1. PICK m \in DOMAIN log : NamesSession(log[m]) /\ d = log[m].name
      BY <2>1, DiscoveredFacts
    <3> QED BY <1>2, <2>1, <3>1
  <2>3. ASSUME NEW from \in Nat PROVE SessionAt(log, from, i, d) = d
    <3> DEFINE metas == {j \in (from + 1)..i : SwitchesSession(log[j])}
    <3>1. \A j \in metas : j \in 1..Len(log) /\ NamesSession(log[j])
      BY <2>1, RecordFacts DEF SwitchesSession, NamesSession
    <3>2. \A j \in metas : log[j].name = d BY <2>2, <3>1
    <3>3. i \in Nat BY <2>1
    <3>4. CASE metas = {} BY <3>4 DEF SessionAt
    <3>5. CASE metas # {}
      <4>1. metas \in SUBSET (0..i) OBVIOUS
      <4>2. \E m \in metas : \A k \in metas : k <= m BY <3>3, <3>5, <4>1, GreatestElement
      <4> DEFINE last == CHOOSE m \in metas : \A k \in metas : k <= m
      <4>3. last \in metas BY <4>2
      <4>4. SessionAt(log, from, i, d) = log[last].name BY <3>5 DEF SessionAt
      <4> HIDE DEF last, metas
      <4> QED BY <3>2, <4>3, <4>4
    <3> QED BY <3>4, <3>5
  <2> HIDE DEF d
  <2>4. start \in Nat BY ToolPairAssumption
  <2> QED BY <2>3, <2>4 DEF d
<1> QED BY <1>1, <1>2 DEF KeysReadAlike

\* The keys of the selected events stay those a whole reading gives.
LEMMA KeyNext == KeysReadAlike /\ BaseInv /\ SnapInv /\ KeyInv /\ [Next]_vars => KeyInv'
<1> SUFFICES ASSUME KeysReadAlike, BaseInv, SnapInv, KeyInv, [Next]_vars, gen' = 0,
                    pc' # "query"
             PROVE  KeyInv'
  BY DEF KeyInv
<1>1. TypeOK /\ query.snapshot \in Nat /\ Len(file) \in Nat
  BY LenProperties DEF BaseInv, TypeOK
<1>2. CASE Query
  <2>1. pc = "query" /\ file \in Seq(Contents) BY <1>2 DEF Query, BaseInv
  <2>2. /\ file' = file /\ query'.session = Discovered(file)
        /\ \E start \in Starts : \A e \in selected' :
             /\ e.rec \in 1..Len(file)
             /\ e.key = Key(SessionAt(file, start, e.rec, Discovered(file)), file[e.rec])
    BY <1>1, <1>2, QueryEffect DEF logVars
  <2>3. \A e \in selected' :
          e.key = Key(SessionAt(file, 0, e.rec, Discovered(file)), file[e.rec])
    BY <2>1, <2>2, StartAgrees
  <2> QED BY <2>2, <2>3 DEF KeyInv, ReadEvent
<1>3. CASE Disk
  <2>1. /\ UNCHANGED jobVars /\ pc # "query" /\ gen = 0
        /\ \A i \in 1..Len(file) : file'[i] = file[i]
    BY <1>1, <1>3, DiskEffect
  <2>2. /\ query.snapshot <= Len(file) /\ \A e \in selected : e.rec \in 1..query.snapshot
    BY <2>1 DEF SnapInv
  <2>3. \A i \in 1..query.snapshot : file'[i] = file[i] BY <1>1, <2>1, <2>2
  <2>4. \A e \in selected : ReadEvent(file', query.session, e.rec)
                              = ReadEvent(file, query.session, e.rec)
    <3> TAKE e \in selected
    <3> DEFINE n == query.snapshot
               i == e.rec
               more == file'
    <3>1. n \in Nat /\ i \in 1..n /\ \A j \in 1..n : more[j] = file[j]
      BY <1>1, <2>2, <2>3
    <3> HIDE DEF n, i, more
    <3>2. ReadEvent(more, query.session, i) = ReadEvent(file, query.session, i)
      BY <3>1, ReadAgree
    <3> QED BY <3>2 DEF i, more
  <2> QED BY <2>1, <2>4 DEF KeyInv, jobVars
<1>4. ASSUME UNCHANGED <<logVars, jobVars>>, pc # "query" PROVE KeyInv'
  BY <1>4 DEF KeyInv, logVars, jobVars
<1>5. CASE UNCHANGED vars BY <1>4, <1>5 DEF vars
<1>6. CASE Next /\ ~Query /\ ~Disk
  <2>1. UNCHANGED <<logVars, jobVars>> /\ pc # "query"
    BY <1>6 DEF Next, NothingWanted, OpenCollect, CollectOther, CollectWanted, CollectEnd,
                OpenRender, RenderOther, RenderTarget, RenderEnd, Attach, Recheck
  <2> QED BY <1>4, <2>1
<1> QED BY <1>2, <1>3, <1>5, <1>6

----------------------------------------------------------------------------
(* The first pass *)

\* No record has been read of before the first.
LEMMA EventsNone ==
  ASSUME NEW log, NEW first, NEW keys
  PROVE  EventsOf(log, first, 0, keys) = {} /\ SessionAt(log, 0, 0, first) = first
<1>1. {j \in 1..0 : IsTool(log[j]) /\ ReadEvent(log, first, j).key \in keys} = {} OBVIOUS
<1>2. {j \in (0 + 1)..0 : SwitchesSession(log[j])} = {} OBVIOUS
<1> QED BY <1>1, <1>2, Zenon DEF EventsOf, SessionAt

\* One record more adds its event, if it has one of a wanted key.
LEMMA EventsStep ==
  ASSUME NEW log, NEW first, NEW n \in Nat, NEW keys
  PROVE  /\ IsTool(log[n + 1]) /\ ReadEvent(log, first, n + 1).key \in keys =>
              EventsOf(log, first, n + 1, keys)
                = EventsOf(log, first, n, keys) \cup {ReadEvent(log, first, n + 1)}
         /\ ~(IsTool(log[n + 1]) /\ ReadEvent(log, first, n + 1).key \in keys) =>
              EventsOf(log, first, n + 1, keys) = EventsOf(log, first, n, keys)
<1> DEFINE P(j) == IsTool(log[j]) /\ ReadEvent(log, first, j).key \in keys
           Ev(j) == ReadEvent(log, first, j)
<1>1. /\ EventsOf(log, first, n + 1, keys) = {Ev(i) : i \in {j \in 1..(n + 1) : P(j)}}
      /\ EventsOf(log, first, n, keys) = {Ev(i) : i \in {j \in 1..n : P(j)}}
  BY DEF EventsOf
<1> HIDE DEF P, Ev
<1>2. \A i : i \in 1..(n + 1) <=> i \in 1..n \/ i = n + 1 OBVIOUS
<1>3. P(n + 1) => {j \in 1..(n + 1) : P(j)} = {j \in 1..n : P(j)} \cup {n + 1} BY <1>2
<1>4. ~P(n + 1) => {j \in 1..(n + 1) : P(j)} = {j \in 1..n : P(j)} BY <1>2
<1>5. P(n + 1) => EventsOf(log, first, n + 1, keys)
                    = EventsOf(log, first, n, keys) \cup {Ev(n + 1)}
  BY <1>1, <1>3
<1>6. ~P(n + 1) => EventsOf(log, first, n + 1, keys) = EventsOf(log, first, n, keys)
  BY <1>1, <1>4
<1> QED BY <1>5, <1>6 DEF P, Ev

\* The events of the first records depend on these alone.
LEMMA EventsAgree ==
  ASSUME NEW log, NEW more, NEW n \in Nat, \A j \in 1..n : more[j] = log[j],
         NEW first, NEW keys
  PROVE  EventsOf(more, first, n, keys) = EventsOf(log, first, n, keys)
<1>1. \A j \in 1..n : ReadEvent(more, first, j) = ReadEvent(log, first, j) BY ReadAgree
<1> QED BY <1>1 DEF EventsOf

\* While the snapshot is at the path the pass reads its records under their sessions.
LEMMA LineReads ==
  ASSUME BaseInv, SnapInv, ReadInv, gen = 0, pc = "collecting", ~AtEnd
  PROVE  /\ pass.pos \in Nat /\ pass.pos + 1 \in 1..query.snapshot
         /\ Line = file[pass.pos + 1]
         /\ IsTool(Line) => LineEvent = ReadEvent(file, query.session, pass.pos + 1)
         /\ (IF SwitchesSession(Line) THEN Line.name ELSE pass.session)
              = SessionAt(file, 0, pass.pos + 1, query.session)
<1>1. TypeOK /\ pass.pos <= Len(pass.lines) BY DEF BaseInv
<1>2. pass.pos \in Nat /\ pass.pos + 1 \in 1..Len(pass.lines) /\ Line \in Record
  BY <1>1, LineType
<1>3. /\ Len(pass.lines) = query.snapshot
      /\ \A i \in 1..query.snapshot : pass.lines[i] = file[i]
  BY DEF SnapInv
<1>4. Line = file[pass.pos + 1] BY <1>2, <1>3 DEF Line
<1>5. pass.session = SessionAt(file, 0, pass.pos, query.session) BY DEF ReadInv
<1>6. SessionAt(file, 0, pass.pos + 1, query.session)
        = IF SwitchesSession(Line) THEN Line.name ELSE pass.session
  BY <1>2, <1>4, <1>5, SessionStep
<1>7. IsTool(Line) => ~SwitchesSession(Line) BY <1>2, RecordFacts
<1>8. IsTool(Line) => LineEvent = ReadEvent(file, query.session, pass.pos + 1)
  BY <1>4, <1>6, <1>7 DEF LineEvent, ReadEvent
<1> QED BY <1>2, <1>3, <1>4, <1>6, <1>8

\* Each step of the first pass keeps what it has read in agreement with the snapshot.
LEMMA ReadNext == BaseInv /\ SnapInv /\ ReadInv /\ [Next]_vars => ReadInv'
<1> SUFFICES ASSUME BaseInv, SnapInv, ReadInv, [Next]_vars, gen' = 0 PROVE ReadInv'
  BY DEF ReadInv
<1>1. /\ TypeOK /\ pass.pos <= Len(pass.lines) /\ pass.pos \in Nat
      /\ query.snapshot \in Nat /\ Len(file) \in Nat
  BY LenProperties DEF BaseInv, TypeOK
<1>2. CASE Query
  <2>1. pc' = "collect" BY <1>2 DEF Query
  <2> QED BY <2>1 DEF ReadInv, Collected
<1>3. CASE NothingWanted
  <2>1. selected' = {} /\ pc' = "attach" BY <1>3 DEF NothingWanted, wanted, jobVars
  <2> QED BY <2>1 DEF ReadInv
<1>4. CASE OpenCollect
  <2>1. /\ pc = "collect" /\ pc' = "collecting" /\ OpenPass
        /\ UNCHANGED <<logVars, jobVars, foundVars>>
    BY <1>4 DEF OpenCollect
  <2>2. seen = {} /\ \A k \in Keys : reentry[k] <= 0 BY <2>1 DEF BaseInv
  <2>3. pass'.pos = 0 /\ pass'.session = query.session BY <1>1, <2>1, OpenPassType
  <2>4. seen' = EventsOf(file, query.session, 0, wanted)
    BY <2>1, <2>2, EventsNone DEF foundVars
  <2>5. pass'.session = SessionAt(file, 0, 0, query.session) BY <2>3, EventsNone
  <2>6. /\ seen' = {} /\ 1..0 = {} /\ \A k \in Keys : reentry'[k] <= 0
    BY <2>1, <2>2 DEF foundVars
  <2> QED BY <2>1, <2>3, <2>4, <2>5, <2>6
          DEF ReadInv, ReadTo, Collected, wanted, logVars, jobVars, foundVars
<1>5. CASE CollectOther
  <2>1. /\ pc = "collecting" /\ ~AtEnd /\ Advance /\ (IsTool(Line) => LineEvent.key \notin wanted)
        /\ gap' = (gap \/ Line.form = "oversize")
        /\ invalid' = (invalid \/ Line.form = "malformed")
        /\ UNCHANGED <<logVars, pc, jobVars, seen, found, reentry>>
    BY <1>5 DEF CollectOther
  <2>2. gen = 0 BY <2>1 DEF logVars
  <2>3. /\ pass'.pos = pass.pos + 1
        /\ pass'.session = IF SwitchesSession(Line) THEN Line.name ELSE pass.session
    BY <1>1, <2>1, AdvanceType
  <2>4. /\ Line = file[pass.pos + 1]
        /\ IsTool(Line) => LineEvent = ReadEvent(file, query.session, pass.pos + 1)
        /\ pass'.session = SessionAt(file, 0, pass.pos + 1, query.session)
    BY <2>1, <2>2, <2>3, LineReads
  <2>5. ReadTo(pass.pos) BY <2>1, <2>2 DEF ReadInv
  <2>6. seen = EventsOf(file, query.session, pass.pos + 1, wanted)
    <3>1. ~(/\ IsTool(file[pass.pos + 1])
            /\ ReadEvent(file, query.session, pass.pos + 1).key \in wanted)
      BY <2>1, <2>4
    <3>2. seen = EventsOf(file, query.session, pass.pos, wanted) BY <2>5 DEF ReadTo
    <3> QED BY <1>1, <3>1, <3>2, EventsStep
  <2>7. \A i \in 1..(pass.pos + 1) :
          (file[i].form = "oversize" => gap') /\ (file[i].form = "malformed" => invalid')
    <3> TAKE i \in 1..(pass.pos + 1)
    <3>1. CASE i = pass.pos + 1 BY <2>1, <2>4, <3>1
    <3>2. CASE i # pass.pos + 1
      <4>1. i \in 1..pass.pos BY <1>1, <3>2
      <4> QED BY <2>1, <2>5, <4>1 DEF ReadTo
    <3> QED BY <3>1, <3>2
  <2>8. /\ \A e \in seen \ found : reentry[e.key] # 0 /\ reentry[e.key] <= e.rec
        /\ \A k \in Keys : reentry[k] <= pass.pos + 1
    <3>1. \A k \in Keys : reentry[k] <= pass.pos /\ reentry[k] \in Nat
      BY <1>1, <2>5 DEF ReadTo, TypeOK
    <3>2. \A k \in Keys : reentry[k] <= pass.pos + 1 BY <1>1, <3>1
    <3> QED BY <2>5, <3>2 DEF ReadTo
  <2> QED BY <2>1, <2>3, <2>4, <2>6, <2>7, <2>8
          DEF ReadInv, ReadTo, Collected, wanted, logVars, jobVars
<1>6. CASE CollectWanted
  <2>1. /\ pc = "collecting" /\ ~AtEnd /\ Advance /\ IsTool(Line) /\ LineEvent.key \in wanted
        /\ UNCHANGED <<logVars, pc, jobVars, gap, invalid>>
        /\ seen' = seen \cup {LineEvent} /\ LineEvent.rec = pass.pos + 1 /\ LineEvent \in Event
        /\ \/ found' = found \cup {LineEvent} /\ reentry' = reentry
           \/ /\ found' = found
              /\ \A k \in Keys : reentry'[k] = IF k = LineEvent.key /\ reentry[k] = 0
                                               THEN LineEvent.rec ELSE reentry[k]
    BY <1>6, CollectWantedEffect
  <2>2. gen = 0 BY <2>1 DEF logVars
  <2>3. /\ pass'.pos = pass.pos + 1
        /\ pass'.session = IF SwitchesSession(Line) THEN Line.name ELSE pass.session
    BY <1>1, <2>1, AdvanceType
  <2>4. /\ Line = file[pass.pos + 1]
        /\ LineEvent = ReadEvent(file, query.session, pass.pos + 1)
        /\ pass'.session = SessionAt(file, 0, pass.pos + 1, query.session)
    BY <2>1, <2>2, <2>3, LineReads
  <2>5. ReadTo(pass.pos) BY <2>1, <2>2 DEF ReadInv
  <2>6. seen' = EventsOf(file, query.session, pass.pos + 1, wanted)
    BY <1>1, <2>1, <2>4, <2>5, EventsStep DEF ReadTo
  <2>7. \A i \in 1..(pass.pos + 1) :
          (file[i].form = "oversize" => gap) /\ (file[i].form = "malformed" => invalid)
    <3> TAKE i \in 1..(pass.pos + 1)
    <3>1. CASE i = pass.pos + 1 BY <2>1, <2>4, <3>1 DEF IsTool
    <3>2. CASE i # pass.pos + 1
      <4>1. i \in 1..pass.pos BY <1>1, <3>2
      <4> QED BY <2>5, <4>1 DEF ReadTo
    <3> QED BY <3>1, <3>2
  <2>8. ASSUME NEW e \in seen' \ found' PROVE reentry'[e.key] # 0 /\ reentry'[e.key] <= e.rec
    <3> DEFINE l == LineEvent
    <3>1. reentry \in [Keys -> Nat] /\ l.rec \in Nat \ {0} /\ l.key \in Keys
      BY <1>1, <2>1 DEF TypeOK, Event
    <3>2. \A f \in seen \ found : /\ reentry[f.key] # 0 /\ reentry[f.key] <= f.rec
                                  /\ f.rec <= pass.pos /\ f.rec \in Nat /\ f.key \in Keys
      <4> TAKE f \in seen \ found
      <4>1. f \in Event BY <1>1 DEF TypeOK
      <4>2. f \in EventsOf(file, query.session, pass.pos, wanted) BY <2>5 DEF ReadTo
      <4>3. f.rec \in 1..pass.pos BY <4>2 DEF EventsOf, ReadEvent
      <4>4. f.rec <= pass.pos /\ f.rec \in Nat BY <1>1, <4>3
      <4> QED BY <2>5, <4>1, <4>4 DEF ReadTo, Event
    <3>3. /\ l.rec = pass.pos + 1 /\ seen' = seen \cup {l}
          /\ reentry[l.key] <= l.rec
      <4>1. reentry[l.key] <= pass.pos /\ l.rec = pass.pos + 1 BY <2>1, <2>5, <3>1 DEF ReadTo
      <4>2. reentry[l.key] \in Nat BY <3>1
      <4> HIDE DEF l
      <4>3. reentry[l.key] <= l.rec BY <1>1, <4>1, <4>2
      <4> QED BY <2>1, <4>1, <4>3 DEF l
    <3> HIDE DEF l
    <3>4. CASE found' = found \cup {l} /\ reentry' = reentry
      <4>1. e \in seen \ found BY <3>3, <3>4
      <4> QED BY <3>2, <3>4, <4>1
    <3>5. CASE /\ found' = found
               /\ \A k \in Keys : reentry'[k] = IF k = l.key /\ reentry[k] = 0
                                                THEN l.rec ELSE reentry[k]
      <4>1. CASE e \in seen \ found
        <5>1. reentry[e.key] # 0 /\ e.key \in Keys BY <3>2, <4>1
        <5>2. reentry'[e.key] = reentry[e.key] BY <3>5, <5>1
        <5> QED BY <3>2, <4>1, <5>2
      <4>2. CASE e \notin seen \ found
        <5>1. e = l BY <3>3, <3>5, <4>2
        <5>2. CASE reentry[l.key] = 0
          <6>1. reentry'[l.key] = l.rec BY <3>1, <3>5, <5>2
          <6> QED BY <3>1, <5>1, <6>1
        <5>3. CASE reentry[l.key] # 0
          <6>1. reentry'[l.key] = reentry[l.key] BY <3>1, <3>5, <5>3
          <6> QED BY <3>1, <3>3, <5>1, <5>3, <6>1
        <5> QED BY <5>2, <5>3
      <4> QED BY <4>1, <4>2
    <3> QED BY <2>1, <3>4, <3>5 DEF l
  <2>9. \A k \in Keys : reentry'[k] <= pass.pos + 1
    <3> TAKE k \in Keys
    <3>1. reentry[k] <= pass.pos /\ reentry[k] \in Nat BY <1>1, <2>5 DEF ReadTo, TypeOK
    <3>2. reentry'[k] = reentry[k] \/ reentry'[k] = pass.pos + 1 BY <2>1
    <3> QED BY <1>1, <3>1, <3>2
  <2> QED BY <2>1, <2>3, <2>4, <2>6, <2>7, <2>8, <2>9
          DEF ReadInv, ReadTo, Collected, wanted, logVars, jobVars
<1>7. CASE CollectEnd
  <2>1. /\ pc = "collecting" /\ AtEnd /\ pc' \in {"attach", "render"}
        /\ UNCHANGED <<logVars, jobVars, foundVars>>
    BY <1>7, CollectEndEffect
  <2>2. pass.pos = query.snapshot /\ ReadTo(pass.pos)
    BY <2>1 DEF AtEnd, SnapInv, ReadInv, logVars
  <2>3. ReadTo(query.snapshot) BY <2>2
  <2> QED BY <2>1, <2>3 DEF ReadInv, ReadTo, wanted, logVars, jobVars, foundVars
<1>8. ASSUME UNCHANGED <<logVars, jobVars, foundVars>>, Collected, Collected'
      PROVE  ReadInv'
  <2>1. gen = 0 /\ pc' # "collecting" BY <1>8 DEF logVars, Collected
  <2>2. CASE selected = {}
    <3>1. selected' = {} BY <1>8, <2>2 DEF jobVars
    <3> QED BY <2>1, <3>1 DEF ReadInv
  <2>3. CASE selected # {}
    <3>1. ReadTo(query.snapshot) BY <1>8, <2>1, <2>3 DEF ReadInv
    <3> QED BY <1>8, <2>1, <3>1 DEF ReadInv, ReadTo, wanted, logVars, jobVars, foundVars
  <2> QED BY <2>2, <2>3
<1>9. CASE OpenRender BY <1>8, <1>9 DEF OpenRender, Collected
<1>10. CASE RenderOther BY <1>8, <1>10 DEF RenderOther, Collected
<1>11. CASE RenderTarget BY <1>8, <1>11 DEF RenderTarget, Collected
<1>12. CASE RenderEnd BY <1>8, <1>12 DEF RenderEnd, Collected
<1>13. CASE Attach BY <1>8, <1>13 DEF Attach, Collected
<1>14. CASE Recheck BY <1>8, <1>14 DEF Recheck, Collected
<1>15. CASE Disk
  <2>1. /\ UNCHANGED <<pc, jobVars, pass, foundVars>> /\ pc # "query" /\ gen = 0
        /\ \A i \in 1..Len(file) : file'[i] = file[i]
    BY <1>1, <1>15, DiskEffect
  <2>2. query.snapshot <= Len(file) BY <2>1 DEF SnapInv
  <2>3. \A i \in 1..query.snapshot : file'[i] = file[i] BY <1>1, <2>1, <2>2
  <2> DEFINE more == file'
  <2>4. more = file' OBVIOUS
  <2>5. ASSUME NEW n \in Nat, n <= query.snapshot, ReadTo(n)
        PROVE  /\ seen = EventsOf(more, query.session, n, wanted)
               /\ \A i \in 1..n : /\ more[i].form = "oversize" => gap
                                  /\ more[i].form = "malformed" => invalid
               /\ \A e \in seen \ found : reentry[e.key] # 0 /\ reentry[e.key] <= e.rec
               /\ \A k \in Keys : reentry[k] <= n
               /\ SessionAt(more, 0, n, query.session) = SessionAt(file, 0, n, query.session)
    <3> HIDE DEF more
    <3>1. \A j \in 1..n : more[j] = file[j] BY <1>1, <2>3, <2>4, <2>5
    <3>2. EventsOf(more, query.session, n, wanted) = EventsOf(file, query.session, n, wanted)
      BY <2>5, <3>1, EventsAgree
    <3>3. n \in 0..n BY <2>5
    <3>4. SessionAt(more, 0, n, query.session) = SessionAt(file, 0, n, query.session)
      BY <2>5, <3>1, <3>3, SessionAgree
    <3> QED BY <2>5, <3>1, <3>2, <3>4 DEF ReadTo
  <2>6. CASE pc = "collecting"
    <3>1. /\ ReadTo(pass.pos) /\ pass.session = SessionAt(file, 0, pass.pos, query.session)
          /\ pass.pos <= query.snapshot
      BY <1>1, <2>1, <2>6 DEF ReadInv, SnapInv
    <3>2. /\ seen = EventsOf(more, query.session, pass.pos, wanted)
          /\ \A i \in 1..pass.pos : /\ more[i].form = "oversize" => gap
                                    /\ more[i].form = "malformed" => invalid
          /\ \A e \in seen \ found : reentry[e.key] # 0 /\ reentry[e.key] <= e.rec
          /\ \A k \in Keys : reentry[k] <= pass.pos
          /\ pass.session = SessionAt(more, 0, pass.pos, query.session)
      BY <1>1, <2>5, <3>1
    <3> QED BY <2>1, <2>6, <3>2
            DEF ReadInv, ReadTo, Collected, wanted, jobVars, foundVars
  <2>7. CASE Collected /\ selected # {}
    <3>1. ReadTo(query.snapshot) BY <2>1, <2>7 DEF ReadInv
    <3>2. /\ seen = EventsOf(more, query.session, query.snapshot, wanted)
          /\ \A i \in 1..query.snapshot : /\ more[i].form = "oversize" => gap
                                          /\ more[i].form = "malformed" => invalid
          /\ \A e \in seen \ found : reentry[e.key] # 0 /\ reentry[e.key] <= e.rec
          /\ \A k \in Keys : reentry[k] <= query.snapshot
      BY <1>1, <2>5, <3>1
    <3> QED BY <2>1, <2>7, <3>2
            DEF ReadInv, ReadTo, Collected, wanted, jobVars, foundVars
  <2>8. CASE pc # "collecting" /\ ~(Collected /\ selected # {})
    BY <2>1, <2>8 DEF ReadInv, Collected, jobVars
  <2> QED BY <2>6, <2>7, <2>8
<1>16. CASE UNCHANGED vars
  BY <1>16 DEF ReadInv, ReadTo, Collected, wanted, vars, logVars, jobVars, foundVars
<1> QED
  BY <1>2, <1>3, <1>4, <1>5, <1>6, <1>7, <1>9, <1>10, <1>11, <1>12, <1>13, <1>14, <1>15,
     <1>16 DEF Next

----------------------------------------------------------------------------
(* What is said of a selected event *)

\* The answers stay what the first pass found.
LEMMA PairNext == BaseInv /\ PairInv /\ [Next]_vars => PairInv'
<1> SUFFICES ASSUME BaseInv, PairInv, [Next]_vars PROVE PairInv' OBVIOUS
<1>1. ASSUME UNCHANGED <<pairs, foundVars>> PROVE PairInv'
  BY <1>1 DEF PairInv, Side, Of, Incomplete, foundVars
<1>2. ASSUME pairs' = <<>> PROVE PairInv'
  <2>1. DOMAIN pairs' = {} BY <1>2
  <2> QED BY <2>1 DEF PairInv
<1>3. ASSUME UNCHANGED foundVars, Collected, pairs' \in [selected -> Info],
             \A e \in selected : /\ SameCounts(pairs[e], pairs'[e])
                                 /\ pairs'[e].counterparts \subseteq pairs[e].ids
      PROVE  PairInv'
  <2>1. /\ seen' = seen /\ found' = found /\ reentry' = reentry /\ Incomplete' = Incomplete
    BY <1>3 DEF foundVars, Incomplete
  <2>2. DOMAIN pairs = selected /\ DOMAIN pairs' = selected BY <1>3, PairsType
  <2>3. ASSUME NEW e \in selected
        PROVE  /\ pairs'[e].ids = {f.rec : f \in Side(found, e.key, Opposite(e.what))}
               /\ pairs'[e].total = Cardinality(Side(seen, e.key, Opposite(e.what)))
               /\ pairs'[e].reentry = reentry[e.key]
               /\ pairs'[e].counterparts \subseteq pairs'[e].ids
               /\ pairs'[e].state # "unknown_pair" => ~Incomplete
               /\ pairs'[e].state \in {"pending_result", "orphan"} => pairs'[e].total = 0
    <3> DEFINE p == pairs[e]
               q == pairs'[e]
               ids == {f.rec : f \in Side(found, e.key, Opposite(e.what))}
               total == Cardinality(Side(seen, e.key, Opposite(e.what)))
    <3>1. /\ p.ids = ids /\ p.total = total /\ p.reentry = reentry[e.key]
          /\ p.state # "unknown_pair" => ~Incomplete
          /\ p.state \in {"pending_result", "orphan"} => p.total = 0
      BY <2>2 DEF PairInv
    <3>2. SameCounts(p, q) /\ q.counterparts \subseteq p.ids BY <1>3
    <3> HIDE DEF p, q, ids, total
    <3>3. p.state # "unknown_pair" \/ q.state = p.state BY <3>2 DEF SameCounts
    <3>4. q.state # "unknown_pair" => ~Incomplete BY <3>1, <3>3
    <3>5. q.ids = ids /\ q.total = total /\ q.reentry = reentry[e.key]
          /\ q.counterparts \subseteq q.ids
          /\ (q.state \in {"pending_result", "orphan"} => q.total = 0)
      BY <3>1, <3>2 DEF SameCounts
    <3> QED BY <3>4, <3>5 DEF p, q, ids, total
  <2> QED BY <2>1, <2>2, <2>3 DEF PairInv, Side, Of
<1>4. CASE Query \/ NothingWanted
  <2>1. pairs' = pairs /\ pc \in {"query", "collect"} BY <1>4 DEF Query, NothingWanted
  <2> QED BY <1>2, <2>1 DEF BaseInv
<1>5. CASE OpenCollect \/ CollectOther \/ CollectWanted
  <2>1. pairs' = pairs /\ pc \in {"collect", "collecting"}
    BY <1>5 DEF OpenCollect, CollectOther, CollectWanted
  <2> QED BY <1>2, <2>1 DEF BaseInv
<1>6. CASE CollectEnd
  <2>1. UNCHANGED foundVars /\ pairs' = [e \in selected |-> Paired(e)]
    BY <1>6, CollectEndEffect
  <2>2. DOMAIN pairs' = selected /\ \A e \in selected : pairs'[e] = Paired(e) BY <2>1
  <2>3. seen' = seen /\ found' = found /\ reentry' = reentry /\ Incomplete' = Incomplete
    BY <2>1 DEF foundVars, Incomplete
  <2> QED BY <2>2, <2>3, PairedFacts DEF PairInv, Side, Of
<1>7. CASE OpenRender \/ RenderOther \/ Recheck \/ Disk
  BY <1>1, <1>7 DEF OpenRender, RenderOther, Recheck, Disk
<1>8. CASE RenderTarget
  <2>1. /\ UNCHANGED foundVars /\ Collected /\ pairs' \in [selected -> Info]
        /\ \A e \in selected :
              /\ SameCounts(pairs[e], pairs'[e])
              /\ rendered < query.max =>
                   pairs'[e].counterparts
                     = IF pairs[e].state = "paired" /\ pass.pos + 1 \in pairs[e].ids
                       THEN pairs[e].counterparts \cup {pass.pos + 1}
                       ELSE pairs[e].counterparts
        /\ rendered >= query.max => pairs' = pairs
    BY <1>8, RenderTargetEffect DEF Collected
  <2>2. \A e \in selected : pairs[e].counterparts \subseteq pairs[e].ids
    BY <2>1, PairsType DEF PairInv
  <2>3. \A e \in selected : pairs'[e].counterparts \subseteq pairs[e].ids
    <3>1. rendered \in Nat /\ query.max \in Nat BY DEF BaseInv, TypeOK
    <3>2. CASE rendered < query.max BY <2>1, <2>2, <3>2
    <3>3. CASE rendered >= query.max BY <2>1, <2>2, <3>3
    <3> QED BY <3>1, <3>2, <3>3
  <2> QED BY <1>3, <2>1, <2>3
<1>9. CASE RenderEnd
  <2>1. /\ UNCHANGED foundVars /\ Collected /\ pairs' \in [selected -> Info]
        /\ \A e \in selected : SameCounts(pairs[e], pairs'[e])
                                /\ pairs'[e].counterparts = pairs[e].counterparts
    BY <1>9, RenderEndEffect DEF Collected
  <2>2. \A e \in selected : pairs[e].counterparts \subseteq pairs[e].ids
    BY <2>1, PairsType DEF PairInv
  <2> QED BY <1>3, <2>1, <2>2
<1>10. CASE Attach
  <2>1. /\ UNCHANGED foundVars /\ Collected /\ pairs' \in [selected -> Info]
        /\ \A e \in selected : SameCounts(pairs[e], pairs'[e])
                                /\ pairs'[e].counterparts \subseteq pairs[e].counterparts
    BY <1>10, AttachEffect DEF Collected
  <2>2. \A e \in selected : pairs[e].counterparts \subseteq pairs[e].ids
    BY <2>1, PairsType DEF PairInv
  <2>3. \A e \in selected : pairs'[e].counterparts \subseteq pairs[e].ids BY <2>1, <2>2
  <2> QED BY <1>3, <2>1, <2>3
<1>11. CASE UNCHANGED vars BY <1>1, <1>11 DEF vars
<1> QED BY <1>4, <1>5, <1>6, <1>7, <1>8, <1>9, <1>10, <1>11 DEF Next

----------------------------------------------------------------------------
(* What an answer says of the snapshot *)

\* Records of the snapshot belong to the same call under the session ids the query
\* discovered exactly when they do under those of the log as it is now.
LEMMA SameCall ==
  ASSUME BaseInv, SnapInv, gen = 0, pc # "query",
         NEW i \in 1..query.snapshot, NEW j \in 1..query.snapshot
  PROVE  <<SessionAt(file, 0, i, Discovered(file)), file[i].name>>
           = <<SessionAt(file, 0, j, Discovered(file)), file[j].name>>
         <=> ReadEvent(file, query.session, i).key = ReadEvent(file, query.session, j).key
<1> DEFINE s == query.session
           d == Discovered(file)
<1>1. /\ file \in Seq(Record) /\ Len(file) \in Nat /\ query.snapshot \in Nat
      /\ query.snapshot <= Len(file)
  BY LenProperties DEF SnapInv, BaseInv, TypeOK
<1>2. ReadEvent(file, s, i).key = ReadEvent(file, s, j).key
        <=> /\ SessionAt(file, 0, i, s) = SessionAt(file, 0, j, s)
            /\ file[i].name = file[j].name
  BY DEF ReadEvent, Key
<1>3. CASE s = d BY <1>2, <1>3
<1>4. CASE \A k \in 1..query.snapshot : ~NamesSession(file[k])
  <2>1. ASSUME NEW first, NEW k \in 1..query.snapshot
        PROVE  SessionAt(file, 0, k, first) = first
    <3>1. \A l \in (0 + 1)..k : l \in 1..query.snapshot BY <1>1
    <3>2. \A l \in 1..query.snapshot : file[l] \in Record BY <1>1, ElementOfSeq
    <3>3. \A l \in (0 + 1)..k : ~SwitchesSession(file[l])
      BY <1>4, <3>1, <3>2, RecordFacts
    <3>4. {l \in (0 + 1)..k : SwitchesSession(file[l])} = {} BY <3>3
    <3> QED BY <3>4 DEF SessionAt
  <2>2. /\ SessionAt(file, 0, i, s) = s /\ SessionAt(file, 0, j, s) = s
        /\ SessionAt(file, 0, i, d) = d /\ SessionAt(file, 0, j, d) = d
    BY <2>1
  <2> HIDE DEF s, d
  <2> QED BY <1>2, <2>2 DEF s, d
<1> QED BY <1>3, <1>4 DEF SnapInv

\* The events seen on the other side of a selected event are its counterparts.
LEMMA CounterpartsSeen ==
  ASSUME BaseInv, SnapInv, KeyInv, ReadInv, gen = 0, pc = "done", NEW e \in selected
  PROVE  /\ ReadTo(query.snapshot) /\ e.key \in wanted /\ Opposite(e.what) \in Sides
         /\ \A i \in Counterparts(e, {"plain"}) :
              /\ i \in 1..query.snapshot
              /\ ReadEvent(file, query.session, i) \in Side(seen, e.key, Opposite(e.what))
         /\ \A f \in Side(seen, e.key, Opposite(e.what)) :
              /\ f.rec \in Counterparts(e, {"plain"})
              /\ f = ReadEvent(file, query.session, f.rec)
         /\ Cardinality(Counterparts(e, {"plain"}))
              = Cardinality(Side(seen, e.key, Opposite(e.what)))
<1> DEFINE Ev(i) == ReadEvent(file, query.session, i)
           other == Side(seen, e.key, Opposite(e.what))
           parts == Counterparts(e, {"plain"})
<1>1. ReadTo(query.snapshot) BY DEF ReadInv, Collected
<1>2. e.key \in wanted /\ Opposite(e.what) \in Sides BY DEF wanted, Opposite, Sides
<1>3. e.rec \in 1..query.snapshot /\ e.key = Ev(e.rec).key BY DEF SnapInv, KeyInv
<1>4. \A i \in 1..query.snapshot :
        /\ Ev(i).rec = i /\ Ev(i).what = file[i].what
        /\ <<SessionAt(file, 0, i, Discovered(file)), file[i].name>>
             = <<SessionAt(file, 0, e.rec, Discovered(file)), file[e.rec].name>>
           <=> Ev(i).key = e.key
  <2> TAKE i \in 1..query.snapshot
  <2>1. Ev(i).rec = i /\ Ev(i).what = file[i].what BY DEF ReadEvent
  <2> QED BY <1>3, <2>1, SameCall
<1>5. ASSUME NEW i \in parts PROVE i \in 1..query.snapshot /\ Ev(i) \in other
  <2>1. /\ i \in 1..query.snapshot /\ file[i].form = "plain"
        /\ file[i].what = Opposite(e.what)
        /\ <<SessionAt(file, 0, i, Discovered(file)), file[i].name>>
             = <<SessionAt(file, 0, e.rec, Discovered(file)), file[e.rec].name>>
    BY DEF Counterparts
  <2>2. Ev(i).key = e.key /\ IsTool(file[i]) BY <1>2, <1>4, <2>1 DEF IsTool
  <2>3. Ev(i) \in seen BY <1>1, <1>2, <2>1, <2>2 DEF ReadTo, EventsOf
  <2> QED BY <1>4, <2>1, <2>2, <2>3 DEF Side, Of
<1>6. ASSUME NEW f \in other PROVE f.rec \in parts /\ f = Ev(f.rec)
  <2>1. f \in seen /\ f.key = e.key /\ f.what = Opposite(e.what) BY DEF Side, Of
  <2>2. PICK i \in 1..query.snapshot : IsTool(file[i]) /\ f = Ev(i)
    BY <1>1, <2>1 DEF ReadTo, EventsOf
  <2>3. f.rec = i /\ file[i].what = Opposite(e.what) /\ file[i].form = "plain"
    BY <1>4, <2>1, <2>2 DEF IsTool
  <2>4. <<SessionAt(file, 0, i, Discovered(file)), file[i].name>>
          = <<SessionAt(file, 0, e.rec, Discovered(file)), file[e.rec].name>>
    BY <1>4, <2>1, <2>2
  <2>5. i \in parts BY <2>3, <2>4 DEF Counterparts
  <2> QED BY <2>2, <2>3, <2>5
<1>7. Cardinality(parts) = Cardinality(other)
  <2> HIDE DEF Ev, other, parts
  <2> DEFINE g == [f \in other |-> f.rec]
  <2>1. g \in [other -> parts] BY <1>6
  <2>2. \A f1, f2 \in other : g[f1] = g[f2] => f1 = f2
    <3> TAKE f1, f2 \in other
    <3>1. f1 = Ev(f1.rec) /\ f2 = Ev(f2.rec) BY <1>6
    <3>2. g[f1] = f1.rec /\ g[f2] = f2.rec OBVIOUS
    <3> QED BY <3>1, <3>2
  <2>3. \A i \in parts : \E f \in other : g[f] = i
    <3> TAKE i \in parts
    <3>1. Ev(i) \in other /\ Ev(i).rec = i BY <1>4, <1>5
    <3> QED BY <3>1
  <2>4. IsFiniteSet(other)
    <3>1. other \in SUBSET seen BY DEF other, Side, Of
    <3> QED BY <3>1, FS_Subset DEF BaseInv
  <2> HIDE DEF g
  <2>5. g \in Bijection(other, parts)
    BY <2>1, <2>2, <2>3 DEF Bijection, Injection, Surjection, IsInjective
  <2>6. ExistsBijection(other, parts) BY <2>5 DEF ExistsBijection
  <2> QED BY <2>4, <2>6, FS_Bijection
<1> QED BY <1>1, <1>2, <1>5, <1>6, <1>7

ReadingInv == BaseInv /\ SnapInv /\ KeyInv /\ ReadInv /\ PairInv

\* What the first pass read is enough for the answers the properties speak of.
LEMMA ReadingAnswers ==
  ReadingInv => AbsenceProven /\ PairsExact /\ ReentryReaches
<1> SUFFICES ASSUME ReadingInv, Answered, NEW e \in DOMAIN pairs
             PROVE  /\ pairs[e].state \in {"pending_result", "orphan"} =>
                         Counterparts(e, {"plain", "oversize", "malformed"}) = {}
                    /\ pairs[e].state # "unknown_pair" =>
                         /\ pairs[e].total = Cardinality(Counterparts(e, {"plain"}))
                         /\ pairs[e].ids \subseteq Counterparts(e, {"plain"})
                         /\ \A i \in Counterparts(e, {"plain"}) \ pairs[e].ids :
                              pairs[e].reentry # 0 /\ pairs[e].reentry <= i
  BY DEF AbsenceProven, PairsExact, ReentryReaches
<1> DEFINE other == Side(seen, e.key, Opposite(e.what))
<1>1. BaseInv /\ SnapInv /\ KeyInv /\ ReadInv /\ PairInv BY DEF ReadingInv
<1>2. pc = "done" /\ gen = 0 /\ DOMAIN pairs = selected
  BY <1>1 DEF Answered, BaseInv, Collected
<1>3. e \in selected BY <1>2
<1>4. /\ ReadTo(query.snapshot) /\ e.key \in wanted
      /\ \A i \in Counterparts(e, {"plain"}) :
           /\ i \in 1..query.snapshot /\ ReadEvent(file, query.session, i) \in other
      /\ \A f \in other : /\ f.rec \in Counterparts(e, {"plain"})
                          /\ f = ReadEvent(file, query.session, f.rec)
      /\ Cardinality(Counterparts(e, {"plain"})) = Cardinality(other)
  BY <1>1, <1>2, <1>3, CounterpartsSeen
<1>5. /\ pairs[e].ids = {f.rec : f \in Side(found, e.key, Opposite(e.what))}
      /\ pairs[e].total = Cardinality(other)
      /\ pairs[e].reentry = reentry[e.key]
      /\ pairs[e].state # "unknown_pair" => ~Incomplete
      /\ pairs[e].state \in {"pending_result", "orphan"} => pairs[e].total = 0
  BY <1>1 DEF PairInv
<1>6. Side(found, e.key, Opposite(e.what)) \subseteq other
  BY <1>1 DEF Side, Of, BaseInv, TypeOK
<1>7. ASSUME pairs[e].state \in {"pending_result", "orphan"}
      PROVE  Counterparts(e, {"plain", "oversize", "malformed"}) = {}
  <2>1. IsFiniteSet(other)
    <3>1. other \in SUBSET seen BY DEF Side, Of
    <3> QED BY <1>1, <3>1, FS_Subset DEF BaseInv
  <2>2. other = {} BY <1>5, <1>7, <2>1, FS_EmptySet
  <2>3. Counterparts(e, {"plain"}) = {} BY <1>4, <2>2
  <2>4. ~gap /\ ~invalid BY <1>5, <1>7 DEF Incomplete
  <2>5. \A i \in 1..query.snapshot : file[i].form \notin {"oversize", "malformed"}
    BY <1>4, <2>4 DEF ReadTo
  <2>6. Counterparts(e, {"plain", "oversize", "malformed"}) = Counterparts(e, {"plain"})
    BY <2>5 DEF Counterparts
  <2> QED BY <2>3, <2>6
<1>8. pairs[e].ids \subseteq Counterparts(e, {"plain"}) BY <1>4, <1>5, <1>6
<1>9. ASSUME NEW i \in Counterparts(e, {"plain"}) \ pairs[e].ids
      PROVE  pairs[e].reentry # 0 /\ pairs[e].reentry <= i
  <2> DEFINE f == ReadEvent(file, query.session, i)
  <2>1. f \in other /\ f.rec = i BY <1>4 DEF ReadEvent
  <2>2. f \in seen /\ f.key = e.key /\ f.what = Opposite(e.what) BY <2>1 DEF Side, Of
  <2> HIDE DEF f
  <2>3. f \notin found
    <3> SUFFICES ASSUME f \in found PROVE FALSE OBVIOUS
    <3>1. f \in Side(found, e.key, Opposite(e.what)) BY <2>2 DEF Side, Of
    <3> QED BY <1>5, <2>1, <3>1
  <2>4. reentry[f.key] # 0 /\ reentry[f.key] <= f.rec BY <1>4, <2>2, <2>3 DEF ReadTo
  <2> QED BY <1>5, <2>1, <2>2, <2>4
<1> QED BY <1>4, <1>5, <1>7, <1>8, <1>9

\* Before the first pass nothing is claimed of the answers.
LEMMA ReadingInit == Init => ReadingInv
<1>1. Init => BaseInv BY BaseInit
<1>2. Init => DOMAIN pairs = {} BY DEF Init
<1> QED BY <1>1, <1>2 DEF Init, ReadingInv, SnapInv, KeyInv, ReadInv, PairInv, Collected

\* Every step keeps what the answers rest on.
LEMMA ReadingNext == KeysReadAlike /\ ReadingInv /\ [Next]_vars => ReadingInv'
BY BaseNext, SnapNext, KeyNext, ReadNext, PairNext DEF ReadingInv

\* An absent counterpart is only reported when the snapshot holds none, unreadable
\* records included (toolpair.rs 168-190, 262-272).
THEOREM AbsenceIsProven == KeysReadAlike => (Spec => []AbsenceProven)
<1> SUFFICES ASSUME KeysReadAlike PROVE Spec => []AbsenceProven OBVIOUS
<1>1. ReadingInv /\ [Next]_vars => ReadingInv' BY ReadingNext
<1>2. ReadingInv => AbsenceProven BY ReadingAnswers
<1> QED BY <1>1, <1>2, ReadingInit, PTL DEF Spec

\* The total of a pair counts exactly the counterparts in the snapshot, and the stored
\* ids are among them, however the log grew between the passes (toolpair.rs 201-217).
THEOREM PairsAreExact == KeysReadAlike => (Spec => []PairsExact)
<1> SUFFICES ASSUME KeysReadAlike PROVE Spec => []PairsExact OBVIOUS
<1>1. ReadingInv /\ [Next]_vars => ReadingInv' BY ReadingNext
<1>2. ReadingInv => PairsExact BY ReadingAnswers
<1> QED BY <1>1, <1>2, ReadingInit, PTL DEF Spec

\* No counterpart whose id was left out lies before the re-entry point of its pair
\* (toolpair.rs 207-217, 289-290).
THEOREM ReentryReachesAll == KeysReadAlike => (Spec => []ReentryReaches)
<1> SUFFICES ASSUME KeysReadAlike PROVE Spec => []ReentryReaches OBVIOUS
<1>1. ReadingInv /\ [Next]_vars => ReadingInv' BY ReadingNext
<1>2. ReadingInv => ReentryReaches BY ReadingAnswers
<1> QED BY <1>1, <1>2, ReadingInit, PTL DEF Spec

----------------------------------------------------------------------------
(* The second pass *)

\* The targets are finitely many tool records, every listed id among them.
LEMMA WantsFacts ==
  ASSUME BaseInv, PairInv, Collected
  PROVE  /\ IsFiniteSet(Wants) /\ Wants \in SUBSET (Nat \ {0})
         /\ \A e \in selected : pairs[e].ids \subseteq Wants
         /\ SnapInv /\ ReadInv /\ gen = 0 =>
              \A t \in Wants : t \in 1..query.snapshot /\ IsTool(file[t])
<1>1. DOMAIN pairs = selected /\ pairs \in [selected -> Info] BY PairsType
<1>2. /\ found \in SUBSET seen /\ seen \in SUBSET Event /\ IsFiniteSet(seen)
  BY DEF BaseInv, TypeOK
<1> DEFINE recsOf == {f.rec : f \in found}
<1>3. Wants \subseteq recsOf
  <2> SUFFICES ASSUME NEW e \in DOMAIN pairs, NEW t \in pairs[e].ids PROVE t \in recsOf
    BY DEF Wants
  <2>1. t \in {f.rec : f \in Side(found, e.key, Opposite(e.what))} BY DEF PairInv
  <2> QED BY <2>1 DEF Side, Of
<1>4. recsOf \in SUBSET (Nat \ {0}) BY <1>2 DEF Event
<1>5. IsFiniteSet(recsOf)
  <2> DEFINE g == [f \in found |-> f.rec]
  <2>1. g \in Surjection(found, recsOf) BY DEF Surjection
  <2>2. IsFiniteSet(found) BY <1>2, FS_Subset
  <2> HIDE DEF g, recsOf
  <2> QED BY <2>1, <2>2, FS_Surjection
<1>6. ASSUME SnapInv, ReadInv, gen = 0, NEW t \in Wants
      PROVE  t \in 1..query.snapshot /\ IsTool(file[t])
  <2>1. PICK f \in found : t = f.rec BY <1>3
  <2>2. selected # {} BY <1>1 DEF Wants
  <2>3. ReadTo(query.snapshot) BY <1>6, <2>2 DEF ReadInv
  <2>4. f \in EventsOf(file, query.session, query.snapshot, wanted)
    BY <1>2, <2>1, <2>3 DEF ReadTo
  <2>5. PICK i \in 1..query.snapshot : IsTool(file[i]) /\ f = ReadEvent(file, query.session, i)
    BY <2>4 DEF EventsOf
  <2>6. f.rec = i BY <2>5 DEF ReadEvent
  <2> QED BY <2>1, <2>5, <2>6
<1>7. \A e \in selected : pairs[e].ids \subseteq Wants BY <1>1 DEF Wants
<1>8. IsFiniteSet(Wants) BY <1>3, <1>5, FS_Subset
<1> QED BY <1>3, <1>4, <1>6, <1>7, <1>8

\* The counterparts to fetch are as many as the pairs list, whatever they list twice.
LEMMA BudgetFacts ==
  ASSUME BaseInv, PairInv, Collected, ~OverBudget
  PROVE  /\ Cardinality(Wants) <= query.max
         /\ IsFiniteSet(displayed \cup Wants)
         /\ Cardinality(displayed \cup Wants) <= query.max
<1>1. DOMAIN pairs = selected /\ pairs \in [selected -> Info] BY PairsType
<1>2. IsFiniteSet(selected) /\ query.max \in Nat BY DEF BaseInv, TypeOK
<1>3. IsFiniteSet(Wants) BY WantsFacts
<1> DEFINE X == {x \in (DOMAIN pairs) \X Wants : x[2] \in pairs[x[1]].ids \ displayed}
           more == Wants \ displayed
<1>4. ~(Cardinality(selected) + Cardinality(X) > query.max) BY DEF OverBudget, Wants
<1>5. IsFiniteSet(X)
  <2>1. IsFiniteSet(selected \X Wants) BY <1>2, <1>3, FS_Product
  <2>2. X \in SUBSET (selected \X Wants) BY <1>1
  <2> HIDE DEF X
  <2> QED BY <2>1, <2>2, FS_Subset
<1>6. IsFiniteSet(displayed) /\ Cardinality(displayed) <= Cardinality(selected)
  <2> DEFINE g == [e \in selected |-> e.rec]
  <2>1. g \in Surjection(selected, displayed) BY DEF Surjection, displayed
  <2> HIDE DEF g
  <2> QED BY <1>2, <2>1, FS_Surjection
<1>7. IsFiniteSet(more) /\ Cardinality(more) <= Cardinality(X)
  <2> DEFINE g == [x \in X |-> x[2]]
  <2>1. g \in [X -> more] OBVIOUS
  <2>2. ASSUME NEW t \in more PROVE \E x \in X : g[x] = t
    <3>1. PICK e \in DOMAIN pairs : t \in pairs[e].ids BY DEF Wants
    <3>2. <<e, t>> \in X BY <3>1
    <3> QED BY <3>2
  <2>3. g \in Surjection(X, more) BY <2>1, <2>2 DEF Surjection
  <2> HIDE DEF g, X, more
  <2> QED BY <1>5, <2>3, FS_Surjection
<1>8. displayed \cup Wants = displayed \cup more OBVIOUS
<1> HIDE DEF X, more
<1>9. /\ IsFiniteSet(displayed \cup more)
      /\ Cardinality(displayed \cup more)
           = Cardinality(displayed) + Cardinality(more) - Cardinality(displayed \cap more)
  BY <1>6, <1>7, FS_Union
<1>10. /\ Cardinality(displayed) \in Nat /\ Cardinality(more) \in Nat
       /\ Cardinality(displayed \cap more) \in Nat /\ Cardinality(X) \in Nat
       /\ Cardinality(selected) \in Nat /\ Cardinality(displayed \cup more) \in Nat
  BY <1>2, <1>5, <1>6, <1>7, <1>9, FS_CardinalityType, FS_Intersection
<1>11. Cardinality(displayed \cup more) <= query.max
  BY <1>2, <1>4, <1>6, <1>7, <1>9, <1>10
<1>12. Cardinality(Wants) <= Cardinality(displayed \cup more) /\ Cardinality(Wants) \in Nat
  BY <1>3, <1>8, <1>9, FS_Subset, FS_CardinalityType
<1>13. Cardinality(Wants) <= query.max BY <1>2, <1>10, <1>11, <1>12
<1> QED BY <1>8, <1>9, <1>11, <1>13

\* Every step keeps what the second pass has fetched in agreement with its targets.
LEMMA FetchNext ==
  BaseInv /\ SnapInv /\ ReadInv /\ PairInv /\ FetchInv /\ [Next]_vars => FetchInv'
<1> SUFFICES ASSUME BaseInv, SnapInv, ReadInv, PairInv, FetchInv, [Next]_vars, gen' = 0
             PROVE  FetchInv'
  BY DEF FetchInv
<1>1. /\ TypeOK /\ pass.pos <= Len(pass.lines) /\ pass.pos \in Nat
      /\ query.max \in Nat \ {0} /\ targets \in SUBSET Nat /\ rendered \in Nat
  BY DEF BaseInv, TypeOK
<1>2. CASE Query \/ OpenCollect \/ CollectOther \/ CollectWanted
  <2>1. pc' \in {"collect", "collecting"}
    BY <1>2 DEF Query, OpenCollect, CollectOther, CollectWanted
  <2> QED BY <2>1 DEF FetchInv
<1>3. CASE NothingWanted
  <2>1. pc = "collect" /\ pc' = "attach" /\ pairs' = pairs BY <1>3 DEF NothingWanted
  <2>2. DOMAIN pairs' = {} BY <2>1 DEF BaseInv
  <2> QED BY <2>1, <2>2 DEF FetchInv, Fetched
<1>4. CASE CollectEnd
  <2>1. /\ pc = "collecting"
        /\ pc' = (IF targets' = {} THEN "attach" ELSE "render")
        /\ UNCHANGED <<jobVars, rendered>>
        /\ pairs' = [e \in selected |-> Paired(e)]
        /\ targets' = UNION {pairs'[e].ids : e \in selected}
    BY <1>4, CollectEndEffect
  <2>2. DOMAIN pairs' = selected /\ \A e \in selected : pairs'[e] = Paired(e) BY <2>1
  <2>3. targets' = Wants' BY <2>1, <2>2 DEF Wants
  <2>4. \A e \in selected : pairs'[e].counterparts = {} /\ pairs'[e].ids \subseteq targets'
    BY <2>1, <2>2, PairedFacts
  <2>5. \A e \in DOMAIN pairs' : pairs'[e].counterparts = pairs'[e].ids \ targets'
    BY <2>2, <2>4
  <2>6. Fetched(targets)' BY <2>5 DEF Fetched
  <2>7. rendered' = 0 /\ Cardinality(Wants' \ targets') = 0
    <3>1. Wants' \ targets' = {} BY <2>3
    <3> QED BY <2>1, <3>1, FS_EmptySet DEF BaseInv
  <2>8. targets' = {} => Fetched({})' BY <2>5 DEF Fetched
  <2> QED BY <2>1, <2>3, <2>6, <2>7, <2>8 DEF FetchInv
<1>5. CASE OpenRender
  <2>1. /\ pc = "render" /\ pc' = "rendering" /\ OpenPass
        /\ UNCHANGED <<logVars, jobVars, pairs, targets, rendered>>
    BY <1>5 DEF OpenRender
  <2>2. gen = 0 /\ pass'.pos = 0 BY <1>1, <2>1, OpenPassType DEF logVars
  <2>3. /\ targets = Wants /\ Fetched(targets)
        /\ Cardinality(Wants) > query.max \/ rendered = Cardinality(Wants \ targets)
    BY <2>1, <2>2 DEF FetchInv
  <2>4. Wants \in SUBSET (Nat \ {0}) BY <2>1, WantsFacts DEF Collected
  <2>5. targets = {t \in Wants : t > 0}
    <3>1. \A t \in Wants : t > 0 BY <2>4
    <3> QED BY <2>3, <3>1
  <2>6. Wants' = Wants /\ query' = query BY <2>1 DEF Wants, jobVars
  <2> QED BY <2>1, <2>2, <2>3, <2>5, <2>6 DEF FetchInv, Fetched
<1>6. CASE RenderOther
  <2>1. /\ pc = "rendering" /\ pc' = "rendering" /\ ~AtEnd /\ Advance
        /\ ~IsTool(Line) \/ pass.pos + 1 \notin targets
        /\ UNCHANGED <<logVars, jobVars, pairs, targets, rendered>>
    BY <1>6 DEF RenderOther, LineEvent
  <2>2. gen = 0 /\ pass'.pos = pass.pos + 1 BY <1>1, <2>1, AdvanceType DEF logVars
  <2>3. /\ targets = {t \in Wants : t > pass.pos} /\ Fetched(targets)
        /\ Cardinality(Wants) > query.max \/ rendered = Cardinality(Wants \ targets)
    BY <2>1, <2>2 DEF FetchInv
  <2>4. /\ Wants \in SUBSET (Nat \ {0})
        /\ \A t \in Wants : t \in 1..query.snapshot /\ IsTool(file[t])
    BY <2>1, <2>2, WantsFacts DEF Collected
  <2>5. pass.pos + 1 \notin targets
    <3> SUFFICES ASSUME pass.pos + 1 \in targets PROVE FALSE OBVIOUS
    <3>1. IsTool(file[pass.pos + 1]) /\ pass.pos + 1 \in 1..query.snapshot BY <2>3, <2>4
    <3>2. Line = file[pass.pos + 1] BY <2>1, <2>2, <3>1 DEF Line, SnapInv
    <3> QED BY <2>1, <3>1, <3>2
  <2>6. targets = {t \in Wants : t > pass.pos + 1}
    <3>1. \A t \in Wants : t > pass.pos <=> t > pass.pos + 1 \/ t = pass.pos + 1
      BY <1>1, <2>4
    <3> QED BY <2>3, <2>5, <3>1
  <2>7. Wants' = Wants /\ query' = query BY <2>1 DEF Wants, jobVars
  <2> QED BY <2>1, <2>2, <2>3, <2>6, <2>7 DEF FetchInv, Fetched
<1>7. CASE RenderTarget
  <2> DEFINE r == pass.pos + 1
  <2>1. /\ pc = "rendering" /\ pc' = "rendering" /\ ~AtEnd /\ r \in targets /\ Advance
        /\ targets' = targets \ {r}
        /\ UNCHANGED <<logVars, jobVars>>
        /\ rendered < query.max => rendered' = rendered + 1
        /\ pairs' \in [selected -> Info]
        /\ \A e \in selected :
              /\ SameCounts(pairs[e], pairs'[e]) /\ pairs'[e].state = pairs[e].state
              /\ rendered < query.max =>
                   pairs'[e].counterparts
                     = IF pairs[e].state = "paired" /\ r \in pairs[e].ids
                       THEN pairs[e].counterparts \cup {r} ELSE pairs[e].counterparts
    BY <1>7, RenderTargetEffect
  <2>2. gen = 0 /\ pass'.pos = r BY <1>1, <2>1, AdvanceType DEF logVars
  <2>3. /\ targets = {t \in Wants : t > pass.pos}
        /\ Fetched(targets)
        /\ Cardinality(Wants) > query.max \/ rendered = Cardinality(Wants \ targets)
    BY <2>1, <2>2 DEF FetchInv
  <2>4. /\ Wants \in SUBSET (Nat \ {0}) /\ IsFiniteSet(Wants)
        /\ \A e \in selected : pairs[e].ids \subseteq Wants
    BY <2>1, WantsFacts DEF Collected
  <2>5. DOMAIN pairs = selected /\ DOMAIN pairs' = selected
    BY <2>1, PairsType DEF Collected
  <2>6. Wants' = Wants /\ query' = query
    <3>1. \A e \in selected : pairs'[e].ids = pairs[e].ids BY <2>1 DEF SameCounts
    <3>2. Wants' = UNION {pairs'[e].ids : e \in selected} BY <2>5 DEF Wants
    <3>3. Wants = UNION {pairs[e].ids : e \in selected} BY <2>5 DEF Wants
    <3> QED BY <2>1, <3>1, <3>2, <3>3 DEF jobVars
  <2>7. targets' = {t \in Wants : t > r}
    <3>1. \A t \in Wants : t > r <=> t > pass.pos /\ t # r BY <1>1, <2>4
    <3> QED BY <2>1, <2>3, <3>1
  <2> HIDE DEF r
  <2>8. CASE Cardinality(Wants) > query.max
    BY <2>1, <2>2, <2>6, <2>7, <2>8 DEF FetchInv, Fetched
  <2>9. CASE ~(Cardinality(Wants) > query.max)
    <3> DEFINE read == Wants \ targets
    <3>1. r \in Wants /\ r \notin read /\ Wants \ targets' = read \cup {r}
      BY <2>1, <2>3
    <3>2. IsFiniteSet(read) /\ Cardinality(read \cup {r}) = Cardinality(read) + 1
      <4>1. IsFiniteSet(read) BY <2>4, FS_Subset
      <4> HIDE DEF read
      <4> QED BY <3>1, <4>1, FS_AddElement
    <3>3. Cardinality(read \cup {r}) <= Cardinality(Wants)
      <4>1. read \cup {r} \in SUBSET Wants BY <3>1
      <4> HIDE DEF read
      <4> QED BY <2>4, <4>1, FS_Subset
    <3>4. rendered = Cardinality(read) BY <2>3, <2>9
    <3> HIDE DEF read
    <3>5. Cardinality(Wants) \in Nat /\ Cardinality(read) \in Nat
      BY <2>4, <3>2, FS_CardinalityType
    <3>6. rendered < query.max BY <1>1, <2>9, <3>2, <3>3, <3>4, <3>5
    <3>7. rendered' = Cardinality(read \cup {r}) BY <2>1, <3>2, <3>4, <3>6
    <3>8. ASSUME NEW e \in selected, pairs'[e].state = "paired"
          PROVE  pairs'[e].counterparts = pairs'[e].ids \ targets'
      <4>1. pairs[e].state = "paired" /\ pairs'[e].ids = pairs[e].ids
        BY <2>1, <3>8 DEF SameCounts
      <4>2. pairs[e].counterparts = pairs[e].ids \ targets
        BY <2>3, <2>5, <2>9, <4>1 DEF Fetched
      <4>3. pairs'[e].counterparts = IF r \in pairs[e].ids
                                     THEN pairs[e].counterparts \cup {r}
                                     ELSE pairs[e].counterparts
        BY <2>1, <3>6, <4>1
      <4> QED BY <2>1, <4>1, <4>2, <4>3
    <3>9. Fetched(targets)' BY <2>5, <3>8 DEF Fetched
    <3> QED BY <2>1, <2>2, <2>6, <2>7, <3>1, <3>7, <3>9 DEF FetchInv
  <2> QED BY <2>8, <2>9
<1>8. CASE RenderEnd
  <2>1. /\ pc = "rendering" /\ AtEnd /\ pc' = "attach"
        /\ UNCHANGED <<logVars, jobVars>>
        /\ pairs' \in [selected -> Info]
        /\ \A e \in selected : SameCounts(pairs[e], pairs'[e])
                               /\ pairs'[e].counterparts = pairs[e].counterparts
    BY <1>8, RenderEndEffect
  <2>2. gen = 0 BY <2>1 DEF logVars
  <2>3. targets = {t \in Wants : t > pass.pos} /\ Fetched(targets)
    BY <2>1, <2>2 DEF FetchInv
  <2>4. /\ \A t \in Wants : t \in 1..query.snapshot
        /\ pass.pos = query.snapshot
    BY <2>1, <2>2, WantsFacts DEF Collected, AtEnd, SnapInv
  <2>5. targets = {}
    <3>1. \A t \in Wants : ~(t > pass.pos) BY <1>1, <2>4
    <3> QED BY <2>3, <3>1
  <2>6. DOMAIN pairs = selected /\ DOMAIN pairs' = selected
    BY <2>1, PairsType DEF Collected
  <2>7. Wants' = Wants /\ query' = query BY <2>1, <2>6 DEF Wants, jobVars, SameCounts
  <2>8. Fetched({}) BY <2>3, <2>5
  <2>9. Fetched({})'
    <3>1. CASE Cardinality(Wants) > query.max BY <2>7, <3>1 DEF Fetched
    <3>2. CASE ~(Cardinality(Wants) > query.max)
      <4>1. ASSUME NEW e \in selected, pairs'[e].state = "paired"
            PROVE  pairs'[e].counterparts = pairs'[e].ids \ {}
        <5>1. pairs[e].state = "paired" /\ pairs'[e].ids = pairs[e].ids
          BY <2>1, <4>1 DEF SameCounts
        <5> QED BY <2>1, <2>6, <2>8, <3>2, <5>1 DEF Fetched
      <4> QED BY <2>6, <4>1 DEF Fetched
    <3> QED BY <3>1, <3>2
  <2> QED BY <2>1, <2>9 DEF FetchInv
<1>9. CASE Attach
  <2>1. /\ pc = "attach" /\ pc' = "recheck"
        /\ UNCHANGED <<logVars, jobVars>>
        /\ OverBudget => shown' = displayed
        /\ ~OverBudget =>
             /\ pairs' = pairs
             /\ shown' = displayed \cup UNION {pairs[e].counterparts : e \in DOMAIN pairs}
        /\ pairs' \in [selected -> Info]
        /\ \A e \in selected : OverBudget => pairs'[e].state # "paired"
    BY <1>9, AttachEffect
  <2>2. gen = 0 /\ Fetched({}) BY <2>1 DEF logVars, FetchInv
  <2>3. displayed' = displayed /\ query' = query BY <2>1 DEF displayed, jobVars
  <2>4. CASE OverBudget
    <3>1. DOMAIN pairs' = selected BY <2>1
    <3> QED BY <2>1, <2>3, <2>4, <3>1 DEF FetchInv
  <2>5. CASE ~OverBudget
    <3> DEFINE fetched == UNION {pairs[e].counterparts : e \in DOMAIN pairs}
    <3>1. /\ Cardinality(Wants) <= query.max
          /\ IsFiniteSet(displayed \cup Wants)
          /\ Cardinality(displayed \cup Wants) <= query.max
      BY <2>1, <2>5, BudgetFacts DEF Collected
    <3>2. fetched \subseteq Wants BY DEF Wants, PairInv
    <3>3. shown' = displayed \cup fetched BY <2>1, <2>5
    <3>4. Cardinality(shown') <= query.max
      <4>1. displayed \cup fetched \in SUBSET (displayed \cup Wants) BY <3>2
      <4> HIDE DEF fetched
      <4>2. /\ Cardinality(displayed \cup fetched) <= Cardinality(displayed \cup Wants)
            /\ Cardinality(displayed \cup fetched) \in Nat
            /\ Cardinality(displayed \cup Wants) \in Nat
        BY <3>1, <4>1, FS_Subset, FS_CardinalityType
      <4> QED BY <1>1, <3>1, <3>3, <4>2
    <3>5. Cardinality(Wants) \in Nat
      BY <2>1, WantsFacts, FS_CardinalityType DEF Collected
    <3>6. \A e \in DOMAIN pairs : pairs[e].state = "paired" => pairs[e].ids \subseteq fetched
      BY <1>1, <2>2, <3>1, <3>5 DEF Fetched
    <3> HIDE DEF fetched
    <3> QED BY <2>1, <2>3, <2>5, <3>3, <3>4, <3>6 DEF FetchInv
  <2> QED BY <2>4, <2>5
<1>10. CASE Recheck
  <2>1. /\ pc = "recheck" /\ pc' = "done" /\ UNCHANGED <<logVars, jobVars, pairs, shown>>
    BY <1>10 DEF Recheck
  <2> QED BY <2>1 DEF FetchInv, displayed, logVars, jobVars
<1>11. CASE Disk
  <2>1. /\ UNCHANGED <<pc, jobVars, pass, pairs, targets, rendered, shown>> /\ gen = 0
    BY <1>1, <1>11, DiskEffect
  <2> QED BY <2>1 DEF FetchInv, Fetched, Wants, displayed, jobVars
<1>12. CASE UNCHANGED vars
  BY <1>12 DEF FetchInv, Fetched, Wants, displayed, vars, logVars, jobVars
<1> QED
  BY <1>2, <1>3, <1>4, <1>5, <1>6, <1>7, <1>8, <1>9, <1>10, <1>11, <1>12 DEF Next

\* What was fetched in the end is what the answers list.
LEMMA FetchAnswers == BaseInv /\ FetchInv => PairsFitAndShow
<1> SUFFICES ASSUME BaseInv, FetchInv, Answered PROVE PairsFitAndShow
  BY DEF PairsFitAndShow
<1>1. pc = "done" /\ gen = 0 BY DEF Answered, BaseInv
<1> QED BY <1>1 DEF FetchInv, PairsFitAndShow

\* Counterparts never push the events beyond the display cap, and an event said to be
\* paired is shown with every counterpart whose id it lists: the budget run_query checks
\* bounds the targets too, so the second pass stops short of none (runner.rs 1143-1173,
\* toolpair.rs 310-365).  Here a query may resume from anywhere.
THEOREM PairsAreShown == Spec => []PairsFitAndShow
<1> DEFINE Inv == BaseInv /\ SnapInv /\ ReadInv /\ PairInv /\ FetchInv
<1>1. Init => Inv
  <2>1. Init => pc = "query" BY DEF Init
  <2> QED BY <2>1, ReadingInit DEF ReadingInv, FetchInv
<1>2. Inv /\ [Next]_vars => Inv' BY BaseNext, SnapNext, ReadNext, PairNext, FetchNext
<1>3. Inv => PairsFitAndShow BY FetchAnswers
<1> QED BY <1>1, <1>2, <1>3, PTL DEF Spec
=============================================================================
