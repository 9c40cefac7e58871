------------------------------- MODULE Catalog -------------------------------
(***************************************************************************)
(* The session catalog (src/query/sessions.rs) and its two users in        *)
(* src/query/runner.rs: `sessions` lists the sessions found under the      *)
(* roots, `--session` resolves one id to its file.  scan walks each root   *)
(* with a stack of directories, then reads every session file it found;    *)
(* it stops at several bounds, and the tree changes under it.              *)
(*                                                                         *)
(* A path is a sequence of names, and at it is a node: "none", a "dir", a  *)
(* directory that cannot be read ("locked"), a "link" (to nothing that     *)
(* could be read), or a "file" with what discover_meta finds in it.  A     *)
(* file is stat'ed and read in one step.                                   *)
(***************************************************************************)
EXTENDS Integers, Sequences, FiniteSets, SequencesExt

CONSTANTS Order,          \* every path there can be, in the order the code sorts them
          Trees,          \* the trees a behaviour may start from
          Requests,       \* the commands
          Arrivals,       \* the nodes other processes may put at a path
          NoFile,         \* what is read at a path that is no file
          MaxChanges,     \* bound on the changes of other processes
          MaxDepth, MaxEntries, MaxBytes, MaxFileBytes  \* the bounds of the same names

ASSUME BoundAssumption ==
  /\ MaxChanges \in Nat /\ MaxDepth \in Nat /\ MaxEntries \in Nat
  /\ MaxBytes \in Nat /\ MaxFileBytes \in Nat

Paths == Range(Order)
Sorted(p, q) == \E i, j \in DOMAIN Order : i <= j /\ Order[i] = p /\ Order[j] = q
Below(p) == {q \in Paths : IsStrictPrefix(p, q)}
Apart(p, q) == ~IsPrefix(p, q) /\ ~IsPrefix(q, p)
Inside(p) == {q \in Below(p) : Len(q) = Len(p) + 1}

Directories == {"dir", "locked"}
FileType == [agent : STRING, id : STRING, cwd : STRING, epoch : Int, size : Nat, flawed : BOOLEAN]
NodeType == [kind : Directories \cup {"none", "link", "file"}, file : FileType]
Absent == [kind |-> "none", file |-> NoFile]

\* A file system: what exists is in a directory.
IsTree(t) ==
  /\ t \in [Paths -> NodeType]
  /\ \A p \in Paths : t[p].kind # "none" => \A q \in Paths : p \in Below(q) => t[q].kind \in Directories

ASSUME TreeAssumption ==
  /\ Order \in Seq(Seq(STRING) \ {<<>>})
  /\ \A p \in Paths : \A n \in 1..Len(p) : SubSeq(p, 1, n) \in Paths
  /\ NoFile \in FileType /\ Arrivals \subseteq NodeType
  /\ \A t \in Trees : IsTree(t)

\* A command scans for one provider or one after the other for two, a resolution for one and in
\* every working directory.  No root lies inside another: the files below would be read twice.
ASSUME RequestAssumption ==
  \A r \in Requests :
    /\ r.command \in {"list", "resolve"}
    /\ r.providers \in Seq(STRING \ {"none"}) /\ Len(r.providers) \in 1..2
    /\ r.command = "resolve" => Len(r.providers) = 1 /\ r.cwd = "any"
    /\ r.roots \in Seq(Paths)
    /\ \A i, j \in DOMAIN r.roots : i # j => Apart(r.roots[i], r.roots[j])
    /\ r.scan_limit \in Nat /\ r.limit \in Nat

VARIABLES tree,           \* the node at each path
          changes,        \* changes made so far
          untouched,      \* history: paths unchanged since the command started
          request,        \* the command
          scan,           \* the state of the scan of one provider
          found,          \* candidates of the providers scanned before
          partial,        \* some report so far is partial
          answer          \* what the command printed

worldVars == <<tree, changes, untouched>>
vars == <<worldVars, request, scan, found, partial, answer>>

Exists(p) == tree[p].kind # "none"

NoAnswer == [kind |-> "none", shown |-> <<>>, candidates |-> {}, path |-> <<>>]

\* ScanReport and the locals of scan and walk; `at` is the root the scan has come to.
NewScan(provider, declared) ==
  [phase |-> "root", provider |-> provider, declared |-> declared, at |-> 0, stack |-> <<>>, depth |-> 0,
   entries |-> {}, files |-> <<>>, visited |-> 0, bytes |-> 0, late |-> FALSE,
   partial |-> FALSE, limited |-> FALSE, seen |-> {}, ambiguous |-> {}, candidates |-> {}]

Phases == {"idle", "root", "walk", "files", "end"}

Init ==
  /\ tree \in Trees
  /\ changes = 0
  /\ untouched = Paths
  /\ request \in Requests
  /\ scan = [NewScan("none", {}) EXCEPT !.phase = "idle"]
  /\ found = {}
  /\ partial = FALSE
  /\ answer = NoAnswer

----------------------------------------------------------------------------
(* Other processes create, replace, move away and remove files and         *)
(* directories.  They put no link where a directory is or a root may be.   *)

Change ==
  /\ changes < MaxChanges
  /\ changes' = changes + 1
  /\ \E p \in Paths, n \in Arrivals :
       /\ n # tree[p]
       /\ Len(p) > 1 => tree[Front(p)].kind \in Directories
       /\ n.kind = "link" => Len(p) > 1 /\ tree[p].kind \notin Directories
       /\ LET gone == IF n.kind \in Directories THEN {} ELSE Below(p)
          IN /\ tree' = [q \in Paths |-> IF q = p THEN n ELSE IF q \in gone THEN Absent ELSE tree[q]]
             /\ untouched' = IF scan.provider # "none" THEN untouched \ ({p} \cup Below(p)) ELSE untouched
  /\ UNCHANGED <<request, scan, found, partial, answer>>

----------------------------------------------------------------------------
(* scan *)

Keep == UNCHANGED <<worldVars, request, found, partial, answer>>

\* available_default_roots: an absent default root is left out, a declared one is not.
RootsOf == {i \in DOMAIN request.roots : request.defaults => Exists(request.roots[i])}

Start ==
  /\ scan.phase = "idle" /\ answer = NoAnswer
  /\ scan' = NewScan(Head(request.providers), RootsOf)
  /\ UNCHANGED <<worldVars, request, found, partial, answer>>

\* The clock: once the budget is exhausted it stays so for this scan.
TimePasses ==
  /\ scan.phase \in {"root", "walk", "files"} /\ ~scan.late
  /\ scan' = [scan EXCEPT !.late = TRUE]
  /\ Keep

Incomplete(s) == [s EXCEPT !.partial = TRUE]

\* The next root, or the end; a root that is no directory cannot be scanned.
RootsLeft == {i \in scan.declared : i > scan.at}

EnterRoot ==
  /\ scan.phase = "root"
  /\ \E i \in RootsLeft :
       /\ \A j \in RootsLeft : i <= j
       /\ LET s == [scan EXCEPT !.at = i] IN
          scan' = IF tree[request.roots[i]].kind \in Directories
                  THEN [s EXCEPT !.phase = "walk", !.stack = <<[dir |-> request.roots[i], depth |-> 0]>>]
                  ELSE Incomplete(s)
  /\ Keep

RootsDone ==
  /\ scan.phase = "root" /\ RootsLeft = {}
  /\ scan' = [scan EXCEPT !.phase = "end"]
  /\ Keep

ToFiles(s) == [s EXCEPT !.phase = "files", !.stack = <<>>, !.entries = {}]

Remaining == IF scan.visited >= MaxEntries THEN 0 ELSE MaxEntries - scan.visited

\* Mutant of TooDeep: one level too many.
TooDeepByOne(depth) == depth > MaxDepth + 1

TooDeep(depth) == depth > MaxDepth

\* Entering the directory on top of the stack: its names are listed once, in no order, and only
\* one more than may still be visited.
OpenDirectory ==
  /\ scan.phase = "walk" /\ scan.entries = {}
  /\ IF scan.stack = <<>> THEN scan' = ToFiles(scan)
     ELSE LET top == Last(scan.stack)
              s == [scan EXCEPT !.stack = Front(@)]
              listing == {p \in Inside(top.dir) : Exists(p)}
          IN CASE scan.late -> scan' = ToFiles(Incomplete(scan))
               [] ~scan.late /\ (TooDeep(top.depth) \/ tree[top.dir].kind # "dir") ->
                    scan' = Incomplete(s)
               [] ~scan.late /\ ~TooDeep(top.depth) /\ tree[top.dir].kind = "dir" ->
                    \E taken \in SUBSET listing :
                      /\ taken = listing \/ Cardinality(taken) = Remaining + 1
                      /\ Cardinality(taken) <= Remaining + 1
                      /\ scan' = [s EXCEPT !.depth = top.depth, !.entries = taken,
                                           !.partial = @ \/ Cardinality(taken) > Remaining]
  /\ Keep

\* Mutant of Stopped: the limit is counted but the scan still claims to be complete.
StoppedQuietly(s) == [ToFiles(s) EXCEPT !.limited = TRUE]

\* WalkOutcome::Limit.
Stopped(s) == [ToFiles(Incomplete(s)) EXCEPT !.limited = TRUE]

\* One entry, looked at again by its path: it may have gone or become another thing.
VisitEntry ==
  /\ scan.phase = "walk"
  /\ \E p \in scan.entries :
       /\ \A q \in scan.entries : Sorted(p, q)
       /\ LET s == [scan EXCEPT !.entries = @ \ {p}, !.visited = @ + 1] IN
          scan' =
            CASE scan.late -> ToFiles(Incomplete(scan))
              [] ~scan.late /\ s.visited > MaxEntries -> Stopped(s)
              [] ~scan.late /\ s.visited <= MaxEntries ->
                   CASE tree[p].kind \in {"none", "link"} -> Incomplete(s)
                     [] tree[p].kind \in Directories ->
                          [s EXCEPT !.stack = Append(@, [dir |-> p, depth |-> scan.depth + 1])]
                     [] tree[p].kind = "file" ->
                          IF Len(scan.files) >= request.scan_limit THEN Stopped(s)
                          ELSE [s EXCEPT !.files = Append(@, p)]
  /\ Keep

\* discover_meta: the id is there for the provider whose records carry it.
SessionId(file, provider) == IF file.agent = provider THEN file.id ELSE "none"

InDirectory(file) ==
  \/ request.cwd = "any"
  \/ file.cwd = request.cwd
  \/ request.children /\ file.cwd \in request.below

\* A file that was read: its flaws, its id, the duplicates, the filter.
Examined(s, p) ==
  LET file == tree[p].file
      id == SessionId(file, s.provider)
      t == [s EXCEPT !.bytes = @ + file.size, !.partial = @ \/ file.flawed]
  IN IF id = "none" THEN t
     ELSE [t EXCEPT !.seen = @ \cup {id},
                    !.ambiguous = IF id \in s.seen THEN {id} ELSE @,
                    !.candidates = IF InDirectory(file)
                                   THEN @ \cup {[path |-> p, id |-> id, epoch |-> file.epoch]}
                                   ELSE @]

\* Mutant of OverBytes: the file to be read is not counted.
OverBytesBefore(file) == scan.bytes > MaxBytes

OverBytes(file) == scan.bytes + file.size > MaxBytes

ReadFile ==
  /\ scan.phase = "files" /\ scan.files # <<>>
  /\ LET p == Head(scan.files)
         s == [scan EXCEPT !.files = Tail(@)]
         leave == [Incomplete(s) EXCEPT !.files = <<>>]
     IN scan' =
          CASE scan.late -> leave
            [] ~scan.late /\ tree[p].kind # "file" -> Incomplete(s)
            [] ~scan.late /\ tree[p].kind = "file" ->
                 IF tree[p].file.size > MaxFileBytes THEN Incomplete(s)
                 ELSE IF OverBytes(tree[p].file) THEN leave
                 ELSE Examined(s, p)
  /\ Keep

FilesDone ==
  /\ scan.phase = "files" /\ scan.files = <<>>
  /\ scan' = [scan EXCEPT !.phase = "root"]
  /\ Keep

----------------------------------------------------------------------------
(* prepare_sessions *)

\* The orders of the candidates that put the newest first (the code breaks ties by id).
NewestFirst(candidates) ==
  {s \in SetToSeqs(candidates) : \A i, j \in DOMAIN s : i < j => s[i].epoch >= s[j].epoch}

Answer(kind, shown, candidates, path) ==
  /\ answer' = [kind |-> kind, shown |-> shown, candidates |-> candidates, path |-> path]
  /\ scan' = [scan EXCEPT !.phase = "idle"]
  /\ UNCHANGED <<worldVars, request>>

\* A duplicate id in a complete scan fails the listing.
ListAmbiguous ==
  /\ scan.phase = "end" /\ request.command = "list"
  /\ scan.ambiguous # {} /\ ~scan.partial
  /\ Answer("ambiguous", <<>>, {}, <<>>)
  /\ UNCHANGED <<found, partial>>

NextProvider ==
  /\ scan.phase = "end" /\ request.command = "list"
  /\ scan.ambiguous = {} \/ scan.partial
  /\ scan.provider # Last(request.providers)
  /\ found' = found \cup scan.candidates
  /\ partial' = (partial \/ scan.partial)
  /\ scan' = NewScan(Last(request.providers), scan.declared)
  /\ UNCHANGED <<worldVars, request, answer>>

\* The first `limit` in order, as many as the byte budget holds.
Listing ==
  /\ scan.phase = "end" /\ request.command = "list"
  /\ scan.ambiguous = {} \/ scan.partial
  /\ scan.provider = Last(request.providers)
  /\ LET all == found \cup scan.candidates IN
       \E s \in NewestFirst(all) :
         \E n \in 0..(IF request.limit < Len(s) THEN request.limit ELSE Len(s)) :
           Answer(IF partial \/ scan.partial THEN "partial" ELSE "ok", SubSeq(s, 1, n), all, <<>>)
  /\ UNCHANGED <<found, partial>>

----------------------------------------------------------------------------
(* resolve_input *)

\* Mutant of Inconclusive: only the limits count, not what could not be read.
InconclusiveAtLimits == scan.limited

Inconclusive == scan.partial \/ scan.limited

Matches == {c \in scan.candidates : c.id = request.id}

Resolve ==
  /\ scan.phase = "end" /\ request.command = "resolve"
  /\ CASE Inconclusive -> Answer("incomplete", <<>>, {}, <<>>)
       [] ~Inconclusive /\ Matches = {} -> Answer("not_found", <<>>, {}, <<>>)
       [] ~Inconclusive /\ Cardinality(Matches) = 1 ->
            Answer("found", <<>>, {}, (CHOOSE c \in Matches : TRUE).path)
       [] ~Inconclusive /\ Cardinality(Matches) > 1 -> Answer("ambiguous", <<>>, {}, <<>>)
  /\ UNCHANGED <<found, partial>>

Scan == Start \/ EnterRoot \/ RootsDone \/ OpenDirectory \/ VisitEntry \/ ReadFile \/ FilesDone
        \/ ListAmbiguous \/ NextProvider \/ Listing \/ Resolve
Next == Scan \/ TimePasses \/ Change

Spec == Init /\ [][Next]_vars

----------------------------------------------------------------------------
(* Properties *)

\* Types of the catalog's state.
TypeOK ==
  /\ IsTree(tree)
  /\ changes \in 0..MaxChanges
  /\ untouched \subseteq Paths
  /\ scan.phase \in Phases
  /\ scan.declared \subseteq DOMAIN request.roots /\ scan.at \in 0..Len(request.roots)
  /\ scan.visited \in Nat /\ scan.bytes \in Nat /\ scan.depth \in 0..MaxDepth
  /\ scan.entries \subseteq Paths /\ scan.files \in Seq(Paths)
  /\ partial \in BOOLEAN
  /\ answer.kind \in {"none", "ok", "partial", "ambiguous", "incomplete", "not_found", "found"}

\* The session files that were in place, with the directories that lead to them, from the start
\* of the command, and whose id could be read.
InPlace(provider) ==
  {p \in untouched : /\ tree[p].kind = "file"
                     /\ SessionId(tree[p].file, provider) # "none"
                     /\ \E i \in DOMAIN request.roots : IsPrefix(request.roots[i], p)}

\* A listing that says ok has every session that was in place and passes the filter among its
\* candidates, whatever bound, unreadable directory, link or change of the tree it met
\* (sessions.rs:90-300, runner.rs:2273), and shows the newest of its candidates.
ListingComplete ==
  answer.kind \in {"ok", "partial"} =>
    /\ answer.kind = "ok" =>
         \A i \in DOMAIN request.providers :
           \A p \in InPlace(request.providers[i]) :
             InDirectory(tree[p].file) => \E c \in answer.candidates : c.path = p
    /\ \A c \in answer.candidates :
         c \in Range(answer.shown)
         \/ \A i \in DOMAIN answer.shown : answer.shown[i].epoch >= c.epoch

\* The files in place that claim the id.
Claims == {p \in InPlace(request.providers[1]) : tree[p].file.id = request.id}

\* The file an id is resolved to carries the id and is the only one in place that does, and
\* `session_not_found` means that none does (runner.rs:2072-2105).
FoundExact ==
  /\ answer.kind = "found" => Claims \subseteq {answer.path}
  /\ answer.kind = "found" /\ answer.path \in untouched => answer.path \in Claims
  /\ answer.kind = "not_found" => Claims = {}

\* `session_ambiguous` is only said when two files claim one id, the one that was asked for
\* (runner.rs:2094-2103, 2220-2230), in a tree that nobody changes: otherwise a file that moved
\* may have been read at both places.
AmbiguityExact ==
  answer.kind = "ambiguous" /\ changes = 0 =>
    \E i \in DOMAIN request.providers : \E p, q \in InPlace(request.providers[i]) :
      p # q /\ tree[p].file.id = tree[q].file.id
      /\ (request.command = "resolve" => tree[p].file.id = request.id)

\* An answer about one id, and one that refuses for a duplicate, is right about the tree.
ResolutionExact == FoundExact /\ AmbiguityExact

\* The scan keeps to its bounds (sessions.rs:14-18, 128-131, 161-165, 225-232): a root it enters
\* after the bound on entries costs one entry more, and the files of each root are bounded apart.
BoundsHeld ==
  /\ scan.visited <= MaxEntries + Len(request.roots)
  /\ Len(scan.files) <= request.scan_limit
  /\ scan.bytes <= MaxBytes
=============================================================================
