---------------------------- MODULE Catalog_proofs ----------------------------
(***************************************************************************)
(* Proofs about Catalog, for every tree and the ways it changes, every     *)
(* command and every value of the bounds.                                  *)
(*                                                                         *)
(* The listing is complete because of where the scan may still find a      *)
(* session: behind a root it has not come to, below a directory on its     *)
(* stack, at or below an entry it has still to look at, or among the files *)
(* it has still to read.  CoverInv says that a file in place that is in    *)
(* none of these, and was not read, has made the scan partial.  A step     *)
(* either keeps each file in one of the places (the lemmas on Cover) or    *)
(* sets `partial`, which no step clears before the answer.                 *)
(*                                                                         *)
(* That two files are really two rests on the converse: the places where   *)
(* the scan has still to look lie apart (ApartInv), so that no file is     *)
(* read twice, and an id seen twice was seen in two files (SeenInv).       *)
(***************************************************************************)
EXTENDS Catalog, SequenceTheorems, FiniteSetTheorems, TLAPS

----------------------------------------------------------------------------
(* Paths *)

\* A path is a sequence of at least one name.
LEMMA PathIsName == \A p \in Paths : p \in Seq(STRING) /\ Len(p) \in Nat \ {0}
<1>1. \A i \in DOMAIN Order : Order[i] \in Seq(STRING) \ {<<>>}
  BY TreeAssumption
<1> QED BY <1>1 DEF Paths, Range

\* IsPrefix, name by name.
LEMMA PrefixByName ==
  ASSUME NEW p \in Seq(STRING), NEW q \in Seq(STRING)
  PROVE  IsPrefix(q, p) <=> Len(q) <= Len(p) /\ \A i \in 1..Len(q) : q[i] = p[i]
<1>1. CASE Len(q) <= Len(p)
  <2>1. /\ SubSeq(q, 1, Len(q)) = [i \in 1..Len(q) |-> q[i]]
        /\ SubSeq(p, 1, Len(q)) = [i \in 1..Len(q) |-> p[i]]
    BY <1>1
  <2>2. \A i \in 1..Len(q) : /\ SubSeq(q, 1, Len(q))[i] = q[i]
                             /\ SubSeq(p, 1, Len(q))[i] = p[i]
    BY <2>1
  <2>3. SubSeq(q, 1, Len(q)) = SubSeq(p, 1, Len(q)) <=> \A i \in 1..Len(q) : q[i] = p[i]
    BY <2>1, <2>2
  <2> QED BY <1>1, <2>3 DEF IsPrefix
<1>2. CASE ~(Len(q) <= Len(p)) BY <1>2 DEF IsPrefix
<1> QED BY <1>1, <1>2

\* Being above is reflexive and transitive, and decided by the lengths among equals.
LEMMA PrefixIsOrder ==
  ASSUME NEW a \in Seq(STRING), NEW b \in Seq(STRING), NEW c \in Seq(STRING)
  PROVE  /\ IsPrefix(a, a)
         /\ IsPrefix(a, b) /\ IsPrefix(b, c) => IsPrefix(a, c)
         /\ IsPrefix(a, b) /\ Len(a) = Len(b) => a = b
<1>1. IsPrefix(a, a) BY PrefixByName
<1>2. IsPrefix(a, b) /\ IsPrefix(b, c) => IsPrefix(a, c) BY PrefixByName
<1>3. IsPrefix(a, b) /\ Len(a) = Len(b) => a = b
  BY PrefixByName, SeqEqual
<1> QED BY <1>1, <1>2, <1>3

\* The beginnings of a path are paths above it.
LEMMA Beginning ==
  ASSUME NEW p \in Paths, NEW n \in 1..Len(p)
  PROVE  /\ SubSeq(p, 1, n) \in Paths
         /\ Len(SubSeq(p, 1, n)) = n
         /\ IsPrefix(SubSeq(p, 1, n), p)
         /\ \A q \in Paths : IsPrefix(q, p) /\ Len(q) <= n => IsPrefix(q, SubSeq(p, 1, n))
<1>1. p \in Seq(STRING) /\ Len(p) \in Nat BY PathIsName
<1>2. SubSeq(p, 1, n) \in Paths BY TreeAssumption
<1>3. /\ Len(SubSeq(p, 1, n)) = n
      /\ \A i \in 1..n : SubSeq(p, 1, n)[i] = p[i]
  BY <1>1, SubSeqProperties
<1>4. SubSeq(p, 1, n) \in Seq(STRING) BY <1>2, PathIsName
<1>5. IsPrefix(SubSeq(p, 1, n), p)
  <2> DEFINE s == SubSeq(p, 1, n)
  <2>1. s \in Seq(STRING) /\ Len(s) = n /\ \A i \in 1..n : s[i] = p[i] BY <1>3, <1>4
  <2> HIDE DEF s
  <2>2. IsPrefix(s, p) BY <1>1, <2>1, PrefixByName
  <2> QED BY <2>2 DEF s
<1>6. ASSUME NEW q \in Paths, IsPrefix(q, p), Len(q) <= n
      PROVE  IsPrefix(q, SubSeq(p, 1, n))
  <2>1. q \in Seq(STRING) /\ Len(q) \in Nat BY PathIsName
  <2>2. \A i \in 1..Len(q) : q[i] = p[i] BY <1>1, <1>6, <2>1, PrefixByName
  <2>3. \A i \in 1..Len(q) : q[i] = SubSeq(p, 1, n)[i] BY <1>3, <1>6, <2>1, <2>2
  <2> QED BY <1>3, <1>4, <1>6, <2>1, <2>3, PrefixByName
<1> QED BY <1>2, <1>3, <1>5, <1>6

\* From a directory to a path below it leads one of its entries.
LEMMA EntryTowards ==
  ASSUME NEW q \in Paths, NEW p \in Below(q)
  PROVE  \E r \in Inside(q) : IsPrefix(r, p)
<1>1. p \in Paths /\ IsPrefix(q, p) /\ q # p BY DEF Below, IsStrictPrefix
<1>2. /\ p \in Seq(STRING) /\ q \in Seq(STRING) /\ Len(p) \in Nat /\ Len(q) \in Nat \ {0}
  BY <1>1, PathIsName
<1>3. Len(q) < Len(p) BY <1>1, <1>2, PrefixIsOrder, PrefixByName
<1> DEFINE r == SubSeq(p, 1, Len(q) + 1)
<1>4. Len(q) + 1 \in 1..Len(p) BY <1>2, <1>3
<1>5. r \in Paths /\ Len(r) = Len(q) + 1 /\ IsPrefix(r, p) /\ IsPrefix(q, r)
  BY <1>1, <1>2, <1>4, Beginning
<1>6. q # r BY <1>2, <1>5
<1>7. r \in Inside(q) BY <1>5, <1>6 DEF Inside, Below, IsStrictPrefix
<1> QED BY <1>5, <1>7

\* What lies above a path is its parent or above that.
LEMMA AboveParent ==
  ASSUME NEW p \in Paths, NEW q \in Paths, p \in Below(q)
  PROVE  /\ Len(p) > 1 /\ Front(p) \in Paths
         /\ q = Front(p) \/ Front(p) \in Below(q)
<1>1. IsPrefix(q, p) /\ q # p BY DEF Below, IsStrictPrefix
<1>2. /\ p \in Seq(STRING) /\ q \in Seq(STRING) /\ Len(p) \in Nat /\ Len(q) \in Nat \ {0}
  BY PathIsName
<1>3. Len(q) < Len(p) BY <1>1, <1>2, PrefixIsOrder, PrefixByName
<1>4. Len(p) - 1 \in 1..Len(p) /\ Len(q) <= Len(p) - 1 BY <1>2, <1>3
<1>5. Front(p) \in Paths /\ IsPrefix(q, Front(p)) BY <1>1, <1>4, Beginning DEF Front
<1> QED BY <1>2, <1>3, <1>5 DEF Below, IsStrictPrefix

----------------------------------------------------------------------------
(* Types *)

CandidateType == [path : Paths, id : STRING, epoch : Int]
PendingType == [dir : Paths, depth : Nat]
ProviderType == STRING \cup {"none"}
ScanType ==
  [phase : Phases, provider : ProviderType, declared : SUBSET Nat, at : Nat, stack : Seq(PendingType),
   depth : Nat, entries : SUBSET Paths, files : Seq(Paths), visited : Nat, bytes : Nat,
   late : BOOLEAN, partial : BOOLEAN, limited : BOOLEAN, seen : SUBSET STRING,
   ambiguous : SUBSET STRING, candidates : SUBSET CandidateType]

\* Where the command stands: what each phase of the scan has left behind it.
PlaceInv ==
  /\ scan.phase = "idle" /\ answer = NoAnswer => scan.provider = "none"
  /\ scan.phase # "idle" =>
       /\ \E i \in DOMAIN request.providers : scan.provider = request.providers[i]
       /\ answer = NoAnswer
  /\ scan.phase \in {"root", "end"} => scan.stack = <<>> /\ scan.entries = {} /\ scan.files = <<>>
  /\ scan.phase = "files" => scan.stack = <<>> /\ scan.entries = {}
  /\ scan.phase = "walk" => scan.at > 0
  /\ scan.phase = "end" => RootsLeft = {}
  /\ answer # NoAnswer => scan.phase = "idle" /\ scan.provider # "none"
  /\ answer.kind = "none" => answer = NoAnswer

TypeIInv ==
  /\ TypeOK
  /\ request \in Requests
  /\ scan \in ScanType
  /\ IsFiniteSet(scan.candidates)
  /\ found \subseteq CandidateType /\ IsFiniteSet(found)
  /\ answer.kind # "none" => answer.candidates \subseteq CandidateType
  /\ PlaceInv

\* A path is above what is below it.
LEMMA BelowIsTransitive ==
  ASSUME NEW q \in Paths, NEW p \in Below(q), NEW r \in Below(p)
  PROVE  r \in Below(q)
<1>1. p \in Paths /\ r \in Paths /\ IsPrefix(q, p) /\ IsPrefix(p, r) /\ q # p /\ p # r
  BY DEF Below, IsStrictPrefix
<1>2. p \in Seq(STRING) /\ q \in Seq(STRING) /\ r \in Seq(STRING) BY <1>1, PathIsName
<1>3. IsPrefix(q, r) BY <1>1, <1>2, PrefixIsOrder
<1>4. q # r
  <2>1. CASE q = r
    <3>1. Len(p) \in Nat /\ Len(q) \in Nat BY <1>2
    <3>2. Len(q) = Len(p) BY <1>1, <1>2, <2>1, <3>1, PrefixByName
    <3> QED BY <1>1, <1>2, <3>2, PrefixIsOrder
  <2> QED BY <2>1
<1> QED BY <1>1, <1>3, <1>4 DEF Below, IsStrictPrefix

\* Another process leaves a file system behind, and what it did not touch as it was.
LEMMA ChangeTree ==
  ASSUME TypeIInv, Change
  PROVE  /\ IsTree(tree')
         /\ scan.provider # "none" =>
              untouched' \subseteq untouched /\ \A r \in untouched' : tree'[r] = tree[r]
         /\ untouched' \subseteq untouched
<1>1. IsTree(tree) /\ untouched \subseteq Paths BY DEF TypeIInv, TypeOK
<1>2. PICK p \in Paths, n \in Arrivals :
        /\ Len(p) > 1 => tree[Front(p)].kind \in Directories
        /\ LET gone == IF n.kind \in Directories THEN {} ELSE Below(p)
           IN tree' = [q \in Paths |-> IF q = p THEN n ELSE IF q \in gone THEN Absent ELSE tree[q]]
        /\ untouched' = IF scan.provider # "none" THEN untouched \ ({p} \cup Below(p)) ELSE untouched
  BY DEF Change
<1> DEFINE gone == IF n.kind \in Directories THEN {} ELSE Below(p)
<1>3. tree' = [q \in Paths |-> IF q = p THEN n ELSE IF q \in gone THEN Absent ELSE tree[q]]
  BY <1>2
<1>4. n \in NodeType /\ Absent \in NodeType BY TreeAssumption DEF NodeType, Absent
<1>5. tree' \in [Paths -> NodeType] BY <1>1, <1>3, <1>4 DEF IsTree
<1>6. ASSUME NEW r \in Paths, tree'[r].kind # "none", NEW q \in Paths, r \in Below(q)
      PROVE  tree'[q].kind \in Directories
  <2>1. Absent.kind = "none" BY DEF Absent
  <2>2. CASE r = p
    <3>1. q # p /\ p \notin Below(p) BY <2>2, <1>6 DEF Below, IsStrictPrefix
    <3>2. tree[Front(p)].kind \in Directories /\ Front(p) \in Paths
      BY <1>2, <1>6, <2>2, AboveParent
    <3>3. tree[q].kind \in Directories
      BY <1>1, <1>6, <2>2, <3>2, AboveParent DEF IsTree, Directories
    <3>4. q \notin Below(p) BY <1>6, <2>2, <3>1, BelowIsTransitive
    <3> QED BY <1>3, <3>1, <3>3, <3>4
  <2>3. CASE r # p
    <3>1. r \notin gone /\ tree'[r] = tree[r] BY <1>3, <1>6, <2>1, <2>3
    <3>2. tree[q].kind \in Directories BY <1>1, <1>6, <3>1 DEF IsTree
    <3>3. q = p => n.kind \in Directories BY <1>6, <3>1
    <3>4. q \notin gone BY <1>6, <3>1, BelowIsTransitive
    <3> QED BY <1>3, <3>2, <3>3, <3>4
  <2> QED BY <2>2, <2>3
<1>7. IsTree(tree') BY <1>5, <1>6 DEF IsTree
<1>8. ASSUME NEW r \in untouched', scan.provider # "none" PROVE tree'[r] = tree[r]
  <2>1. r \in Paths /\ r # p /\ r \notin gone BY <1>1, <1>2, <1>8
  <2> QED BY <1>3, <2>1
<1> QED BY <1>2, <1>7, <1>8

\* The state of a scan that begins.
LEMMA NewScanType ==
  ASSUME NEW provider \in ProviderType, NEW declared \in SUBSET Nat
  PROVE  NewScan(provider, declared) \in ScanType
<1>1. <<>> \in Seq(PendingType) /\ <<>> \in Seq(Paths) /\ "root" \in Phases BY DEF Phases
<1>2. {} \in SUBSET Paths /\ {} \in SUBSET STRING /\ {} \in SUBSET CandidateType OBVIOUS
<1>3. 0 \in Nat /\ FALSE \in BOOLEAN OBVIOUS
<1> QED BY <1>1, <1>2, <1>3, Zenon DEF NewScan, ScanType

\* A behaviour starts from well-typed state.
LEMMA InitTypes == Init => TypeIInv
<1> SUFFICES ASSUME Init PROVE TypeIInv OBVIOUS
<1>1. IsTree(tree) /\ request \in Requests BY TreeAssumption DEF Init
<1>2. scan \in ScanType /\ scan.candidates = {} /\ scan.phase = "idle" /\ scan.provider = "none"
  <2>2. scan = [NewScan("none", {}) EXCEPT !.phase = "idle"] BY DEF Init
  <2>1. "none" \in ProviderType BY DEF ProviderType
  <2>5. {} \in SUBSET Nat OBVIOUS
  <2>3. NewScan("none", {}) \in ScanType BY <2>1, <2>5, NewScanType
  <2>4. scan \in ScanType BY <2>2, <2>3 DEF ScanType, Phases
  <2> QED BY <2>2, <2>4 DEF NewScan
<1>3. TypeOK
  <2>1. request.roots \in Seq(Paths) BY <1>1, RequestAssumption
  <2>2. scan.declared = {} /\ scan.at = 0 /\ scan.depth = 0 /\ scan.entries = {} /\ scan.files = <<>>
        /\ scan.visited = 0 /\ scan.bytes = 0
    BY DEF Init, NewScan
  <2>3. changes = 0 /\ untouched = Paths /\ partial = FALSE /\ answer = NoAnswer BY DEF Init
  <2>4. 0 \in 0..MaxChanges /\ 0 \in 0..MaxDepth BY BoundAssumption
  <2>5. 0 \in 0..Len(request.roots) BY <2>1
  <2>6. answer.kind = "none" BY <2>3 DEF NoAnswer
  <2>7. <<>> \in Seq(Paths) OBVIOUS
  <2>8. partial \in BOOLEAN BY <2>3
  <2>9. /\ scan.phase \in Phases /\ scan.visited \in Nat /\ scan.bytes \in Nat
        /\ scan.declared \subseteq DOMAIN request.roots /\ scan.entries \subseteq Paths
    BY <1>2, <2>2 DEF Phases
  <2> QED BY <1>1, <2>2, <2>3, <2>4, <2>5, <2>6, <2>7, <2>8, <2>9 DEF TypeOK
<1>4. IsFiniteSet({}) BY FS_EmptySet
<1>5. PlaceInv BY <1>2 DEF Init, PlaceInv, NoAnswer
<1>6. answer.kind = "none" /\ found = {} BY DEF Init, NoAnswer
<1> QED BY <1>1, <1>2, <1>3, <1>4, <1>5, <1>6 DEF TypeIInv

----------------------------------------------------------------------------
(* Effects: what each step does to the fields of the scan *)

\* The fields a step leaves alone.
Same(fields) == \A f \in fields : scan'[f] = scan[f]

\* A step of the scan: it stays with its provider, and once it is partial it stays so.
Scanning ==
  /\ Keep /\ scan' \in ScanType
  /\ Same({"provider", "declared"})
  /\ scan.partial => scan'.partial

\* The helpers of the walk, field by field.
LEMMA HelperEffects ==
  ASSUME NEW s \in ScanType
  PROVE  /\ Incomplete(s) \in ScanType /\ Incomplete(s).partial = TRUE
         /\ \A f \in DOMAIN s \ {"partial"} : Incomplete(s)[f] = s[f]
         /\ ToFiles(s) \in ScanType /\ ToFiles(s).phase = "files"
         /\ ToFiles(s).stack = <<>> /\ ToFiles(s).entries = {}
         /\ \A f \in DOMAIN s \ {"phase", "stack", "entries"} : ToFiles(s)[f] = s[f]
<1>1. Incomplete(s) \in ScanType /\ Incomplete(s).partial = TRUE BY DEF Incomplete, ScanType
<1>2. \A f \in DOMAIN s \ {"partial"} : Incomplete(s)[f] = s[f] BY DEF Incomplete, ScanType
<1>3. <<>> \in Seq(PendingType) /\ "files" \in Phases /\ {} \in SUBSET Paths BY DEF Phases
<1>4. ToFiles(s) \in ScanType BY <1>3 DEF ToFiles, ScanType
<1>5. ToFiles(s).phase = "files" /\ ToFiles(s).stack = <<>> /\ ToFiles(s).entries = {}
  BY DEF ToFiles, ScanType
<1>6. \A f \in DOMAIN s \ {"phase", "stack", "entries"} : ToFiles(s)[f] = s[f]
  BY DEF ToFiles, ScanType
<1> QED BY <1>1, <1>2, <1>4, <1>5, <1>6

\* The fields of a scan.
ScanFields ==
  {"phase", "provider", "declared", "at", "stack", "depth", "entries", "files", "visited", "bytes",
   "late", "partial", "limited", "seen", "ambiguous", "candidates"}

\* The next root comes on the stack, or the scan is partial.
LEMMA EnterRootEffect ==
  ASSUME TypeIInv, EnterRoot
  PROVE  /\ Scanning /\ scan.phase = "root"
         /\ Same({"depth", "entries", "files", "visited", "bytes", "candidates", "seen", "ambiguous"})
         /\ \E i \in RootsLeft :
              /\ scan'.at = i /\ \A j \in RootsLeft : i <= j
              /\ \/ /\ scan'.phase = "walk"
                    /\ scan'.stack = <<[dir |-> request.roots[i], depth |-> 0]>>
                 \/ (scan'.phase = "root" /\ Same({"stack"}) /\ scan'.partial)
<1>1. PICK i \in RootsLeft :
        /\ \A j \in RootsLeft : i <= j
        /\ scan' = IF tree[request.roots[i]].kind \in Directories
                   THEN [scan EXCEPT !.at = i, !.phase = "walk",
                                     !.stack = <<[dir |-> request.roots[i], depth |-> 0]>>]
                   ELSE [scan EXCEPT !.at = i, !.partial = TRUE]
  BY DEF EnterRoot, Incomplete
<1>2. scan \in ScanType /\ scan.phase = "root" /\ Keep BY DEF EnterRoot, TypeIInv
<1>3. request.roots \in Seq(Paths) BY RequestAssumption DEF TypeIInv
<1>4. i \in 1..Len(request.roots) BY <1>3 DEF RootsLeft, TypeIInv, TypeOK
<1>5. request.roots[i] \in Paths BY <1>3, <1>4
<1> DEFINE stack == <<[dir |-> request.roots[i], depth |-> 0]>>
<1>6. stack \in Seq(PendingType) BY <1>5 DEF PendingType
<1>7. i \in Nat /\ "walk" \in Phases BY <1>4 DEF Phases
<1>8. \/ scan' = [scan EXCEPT !.at = i, !.phase = "walk", !.stack = stack]
      \/ scan' = [scan EXCEPT !.at = i, !.partial = TRUE]
  BY <1>1
<1> HIDE DEF stack
<1>9. CASE scan' = [scan EXCEPT !.at = i, !.phase = "walk", !.stack = stack]
  <2>1. scan' \in ScanType BY <1>2, <1>6, <1>7, <1>9 DEF ScanType
  <2>2. /\ Same({"provider", "declared"}) /\ scan'.partial = scan.partial
        /\ Same({"depth", "entries", "files", "visited", "bytes", "candidates", "seen", "ambiguous"})
    BY <1>2, <1>9 DEF ScanType, Same
  <2>3. scan'.at = i /\ scan'.phase = "walk" /\ scan'.stack = stack BY <1>2, <1>9 DEF ScanType
  <2> QED BY <1>1, <1>2, <2>1, <2>2, <2>3 DEF stack, Scanning
<1>10. CASE scan' = [scan EXCEPT !.at = i, !.partial = TRUE]
  <2>1. scan' \in ScanType BY <1>2, <1>7, <1>10 DEF ScanType
  <2>2. /\ Same({"provider", "declared"}) /\ scan'.partial = TRUE
        /\ Same({"depth", "entries", "files", "visited", "bytes", "candidates", "seen", "ambiguous"})
    BY <1>2, <1>10 DEF ScanType, Same
  <2>3. scan'.at = i /\ scan'.phase = "root" /\ Same({"stack"})
    BY <1>2, <1>10 DEF ScanType, Same
  <2> QED BY <1>1, <1>2, <2>1, <2>2, <2>3 DEF Scanning
<1> QED BY <1>8, <1>9, <1>10

\* The top of a stack and what is under it.
LEMMA StackEnds ==
  ASSUME NEW S, NEW stack \in Seq(S), stack # <<>>
  PROVE  /\ Last(stack) \in S /\ Front(stack) \in Seq(S)
         /\ \A d \in Range(stack) : d = Last(stack) \/ d \in Range(Front(stack))
         /\ Last(stack) \in Range(stack) /\ Range(Front(stack)) \subseteq Range(stack)
         /\ Len(Front(stack)) = Len(stack) - 1
         /\ \A i \in 1..Len(stack) - 1 : Front(stack)[i] = stack[i]
<1>1. Len(stack) \in Nat \ {0} BY EmptySeq
<1>2. \A i \in 1..Len(stack) - 1 : stack[i] \in S BY <1>1
<1>3. /\ Front(stack) \in Seq(S) /\ Len(Front(stack)) = Len(stack) - 1
      /\ \A i \in 1..Len(stack) - 1 : Front(stack)[i] = stack[i]
  <2> DEFINE n == Len(stack) - 1
  <2>1. n \in Int /\ 1 \in Int /\ \A i \in 1..n : stack[i] \in S BY <1>1, <1>2
  <2> HIDE DEF n
  <2>2. /\ SubSeq(stack, 1, n) \in Seq(S) /\ Len(SubSeq(stack, 1, n)) = IF 1 <= n THEN n - 1 + 1 ELSE 0
        /\ \A i \in 1..n - 1 + 1 : SubSeq(stack, 1, n)[i] = stack[1 + i - 1]
    BY ONLY <2>1, SubSeqProperties
  <2>3. n \in Nat BY <1>1 DEF n
  <2>4. \A i \in 1..n : SubSeq(stack, 1, n)[i] = stack[i] BY <2>2, <2>3
  <2>5. Len(SubSeq(stack, 1, n)) = n BY <2>2, <2>3
  <2> QED BY <2>2, <2>4, <2>5 DEF Front, n
<1>4. \A i \in 1..Len(stack) : i = Len(stack) \/ i \in 1..Len(stack) - 1 BY <1>1
<1>5. Last(stack) \in S /\ \A d \in Range(stack) : d = Last(stack) \/ d \in Range(Front(stack))
  BY <1>1, <1>3, <1>4 DEF Last, Range
<1>6. Last(stack) \in Range(stack) /\ Range(Front(stack)) \subseteq Range(stack)
  BY <1>1, <1>3 DEF Last, Range
<1> QED BY <1>3, <1>5, <1>6

\* A directory leaves the stack and its names become the entries, unless the scan is partial.
LEMMA OpenDirectoryEffect ==
  ASSUME TypeIInv, OpenDirectory
  PROVE  /\ Scanning /\ scan.phase = "walk" /\ scan.entries = {}
         /\ Same({"at", "files", "visited", "bytes", "candidates", "seen", "ambiguous"})
         /\ \/ /\ scan'.phase = "files" /\ scan'.stack = <<>> /\ scan'.entries = {}
               /\ Same({"depth"}) /\ (scan.stack = <<>> \/ scan'.partial)
            \/ /\ scan'.phase = "walk" /\ scan.stack # <<>> /\ scan'.stack = Front(scan.stack)
               /\ scan'.entries = {} /\ Same({"depth"}) /\ scan'.partial
            \/ /\ scan'.phase = "walk" /\ scan.stack # <<>> /\ scan'.stack = Front(scan.stack)
               /\ tree[Last(scan.stack).dir].kind = "dir"
               /\ scan'.depth = Last(scan.stack).depth /\ scan'.depth <= MaxDepth
               /\ scan'.entries \subseteq Inside(Last(scan.stack).dir)
               /\ \/ scan'.partial
                  \/ \A p \in Inside(Last(scan.stack).dir) : Exists(p) => p \in scan'.entries
<1>1. scan \in ScanType /\ scan.phase = "walk" /\ scan.entries = {} /\ Keep
  BY DEF OpenDirectory, TypeIInv
<1>2. DOMAIN scan = {"phase", "provider", "declared", "at", "stack", "depth", "entries", "files",
                     "visited", "bytes", "late", "partial", "limited", "seen", "ambiguous", "candidates"}
  BY <1>1 DEF ScanType
<1>3. CASE scan' = ToFiles(scan) /\ scan.stack = <<>>
  <2>1. /\ scan' \in ScanType
        /\ scan'.phase = "files" /\ scan'.stack = <<>> /\ scan'.entries = {}
        /\ \A f \in DOMAIN scan \ {"phase", "stack", "entries"} : scan'[f] = scan[f]
    BY <1>1, <1>3, HelperEffects
  <2>2. /\ Same({"provider", "declared"}) /\ Same({"depth"}) /\ scan'.partial = scan.partial
        /\ Same({"at", "files", "visited", "bytes", "candidates", "seen", "ambiguous"})
    BY <1>2, <2>1 DEF Same
  <2> QED BY <1>1, <1>3, <2>1, <2>2 DEF Scanning
<1>4. CASE scan' = ToFiles(Incomplete(scan))
  <2>1. /\ Incomplete(scan) \in ScanType /\ Incomplete(scan).partial
        /\ \A f \in DOMAIN scan \ {"partial"} : Incomplete(scan)[f] = scan[f]
    BY <1>1, HelperEffects
  <2>2. /\ scan' \in ScanType
        /\ scan'.phase = "files" /\ scan'.stack = <<>> /\ scan'.entries = {}
        /\ \A f \in DOMAIN Incomplete(scan) \ {"phase", "stack", "entries"} : scan'[f] = Incomplete(scan)[f]
    BY <1>4, <2>1, HelperEffects
  <2>3. DOMAIN Incomplete(scan) = DOMAIN scan BY <1>1, <2>1 DEF ScanType
  <2>4. /\ Same({"provider", "declared"}) /\ Same({"depth"}) /\ scan'.partial
        /\ Same({"at", "files", "visited", "bytes", "candidates", "seen", "ambiguous"})
    BY <1>2, <2>1, <2>2, <2>3 DEF Same
  <2> QED BY <1>1, <2>2, <2>4 DEF Scanning
<1>5. CASE scan.stack # <<>>
  <2> DEFINE top == Last(scan.stack)
             s == [scan EXCEPT !.stack = Front(@)]
  <2>1. top \in PendingType /\ Front(scan.stack) \in Seq(PendingType)
    BY <1>1, <1>5, StackEnds DEF ScanType
  <2>2. /\ s \in ScanType /\ s.stack = Front(scan.stack)
        /\ \A f \in DOMAIN scan \ {"stack"} : s[f] = scan[f]
    BY <1>1, <2>1 DEF ScanType
  <2>3. CASE scan' = Incomplete(s)
    <3>1. /\ scan' \in ScanType /\ scan'.partial /\ scan'.stack = Front(scan.stack)
          /\ \A f \in DOMAIN scan \ {"stack", "partial"} : scan'[f] = scan[f]
      BY <1>1, <2>2, <2>3, HelperEffects DEF ScanType
    <3>2. /\ Same({"provider", "declared"}) /\ Same({"depth"}) /\ scan'.phase = "walk"
          /\ Same({"at", "files", "visited", "bytes", "candidates", "seen", "ambiguous"}) /\ scan'.entries = {}
      BY <1>1, <1>2, <3>1 DEF Same
    <3> QED BY <1>1, <1>5, <3>1, <3>2 DEF Scanning
  <2>4. ASSUME ~TooDeep(top.depth), tree[top.dir].kind = "dir",
               NEW taken \in SUBSET {p \in Inside(top.dir) : Exists(p)},
               taken = {p \in Inside(top.dir) : Exists(p)} \/ Cardinality(taken) = Remaining + 1,
               scan' = [s EXCEPT !.depth = top.depth, !.entries = taken,
                                 !.partial = @ \/ Cardinality(taken) > Remaining]
        PROVE  /\ Scanning /\ scan'.phase = "walk" /\ scan'.stack = Front(scan.stack)
               /\ Same({"at", "files", "visited", "bytes", "candidates", "seen", "ambiguous"})
               /\ scan'.depth = top.depth /\ scan'.depth <= MaxDepth
               /\ scan'.entries \subseteq Inside(top.dir)
               /\ \/ scan'.partial
                  \/ \A p \in Inside(top.dir) : Exists(p) => p \in scan'.entries
    <3>1. taken \in SUBSET Paths /\ top.depth \in Nat BY <2>1 DEF PendingType, Inside, Below
    <3> DEFINE short == s.partial \/ Cardinality(taken) > Remaining
    <3>2. short \in BOOLEAN BY <2>2 DEF ScanType
    <3>3. scan' = [s EXCEPT !.depth = top.depth, !.entries = taken, !.partial = short] BY <2>4
    <3>4. Cardinality(taken) = Remaining + 1 => short
      <4>1. Remaining \in Nat BY <1>1, BoundAssumption DEF Remaining, ScanType
      <4> QED BY <4>1
    <3>5. s.partial => short OBVIOUS
    <3> HIDE DEF short, s, top
    <3>6. /\ scan' \in ScanType /\ scan'.depth = top.depth /\ scan'.entries = taken
          /\ scan'.partial = short
          /\ \A f \in DOMAIN s \ {"depth", "entries", "partial"} : scan'[f] = s[f]
      BY <2>2, <3>1, <3>2, <3>3 DEF ScanType
    <3>7. DOMAIN s = DOMAIN scan BY <1>1, <2>2 DEF ScanType
    <3>8. /\ Same({"provider", "declared"}) /\ scan'.phase = "walk" /\ scan'.stack = Front(scan.stack)
          /\ Same({"at", "files", "visited", "bytes", "candidates", "seen", "ambiguous"})
          /\ s.partial = scan.partial
      BY <1>1, <1>2, <2>2, <3>6, <3>7 DEF Same
    <3>9. top.depth <= MaxDepth BY <2>4, <3>1, BoundAssumption DEF TooDeep
    <3> QED BY <1>1, <2>4, <3>4, <3>5, <3>6, <3>8, <3>9 DEF Scanning
  <2>5. \/ scan' = ToFiles(Incomplete(scan)) \/ scan' = Incomplete(s)
        \/ /\ ~TooDeep(top.depth) /\ tree[top.dir].kind = "dir"
           /\ \E taken \in SUBSET {p \in Inside(top.dir) : Exists(p)} :
                /\ taken = {p \in Inside(top.dir) : Exists(p)} \/ Cardinality(taken) = Remaining + 1
                /\ scan' = [s EXCEPT !.depth = top.depth, !.entries = taken,
                                     !.partial = @ \/ Cardinality(taken) > Remaining]
    BY <1>5 DEF OpenDirectory
  <2> HIDE DEF s
  <2> QED BY <1>1, <1>4, <1>5, <2>3, <2>4, <2>5
<1>6. scan.stack = <<>> => scan' = ToFiles(scan) BY DEF OpenDirectory
<1> QED BY <1>3, <1>5, <1>6

\* An entry goes to the stack or the files, unless the scan is partial.
LEMMA VisitEntryEffect ==
  ASSUME TypeIInv, VisitEntry
  PROVE  /\ Scanning /\ scan.phase = "walk"
         /\ Same({"at", "depth", "bytes", "candidates", "seen", "ambiguous"})
         /\ \/ /\ scan'.phase = "files" /\ scan'.stack = <<>> /\ scan'.entries = {} /\ Same({"files"})
               /\ scan'.partial /\ scan'.visited \in {scan.visited, scan.visited + 1}
            \/ \E e \in scan.entries :
                 /\ scan'.phase = "walk" /\ scan'.entries = scan.entries \ {e}
                 /\ scan'.visited = scan.visited + 1 /\ scan'.visited <= MaxEntries
                 /\ \/ Same({"stack", "files"}) /\ scan'.partial
                    \/ /\ tree[e].kind \in Directories /\ Same({"files"})
                       /\ scan'.stack = Append(scan.stack, [dir |-> e, depth |-> scan.depth + 1])
                    \/ /\ tree[e].kind = "file" /\ Same({"stack"})
                       /\ scan'.files = Append(scan.files, e) /\ Len(scan.files) < request.scan_limit
<1>1. scan \in ScanType /\ scan.phase = "walk" /\ Keep BY DEF VisitEntry, TypeIInv
<1>2. DOMAIN scan = ScanFields BY <1>1 DEF ScanType, ScanFields
<1>3. PICK e \in scan.entries :
        LET s == [scan EXCEPT !.entries = @ \ {e}, !.visited = @ + 1] IN
        scan' = CASE scan.late -> ToFiles(Incomplete(scan))
                  [] ~scan.late /\ s.visited > MaxEntries -> Stopped(s)
                  [] ~scan.late /\ s.visited <= MaxEntries ->
                       CASE tree[e].kind \in {"none", "link"} -> Incomplete(s)
                         [] tree[e].kind \in Directories ->
                              [s EXCEPT !.stack = Append(@, [dir |-> e, depth |-> scan.depth + 1])]
                         [] tree[e].kind = "file" ->
                              IF Len(scan.files) >= request.scan_limit THEN Stopped(s)
                              ELSE [s EXCEPT !.files = Append(@, e)]
  BY DEF VisitEntry
<1> DEFINE s == [scan EXCEPT !.entries = @ \ {e}, !.visited = @ + 1]
<1>4. /\ e \in Paths /\ scan.visited \in Nat /\ scan.depth \in Nat /\ request.scan_limit \in Nat
      /\ Len(scan.files) \in Nat /\ scan.late \in BOOLEAN
  BY <1>1, RequestAssumption DEF ScanType, TypeIInv
<1>5. /\ s \in ScanType /\ s.entries = scan.entries \ {e} /\ s.visited = scan.visited + 1
      /\ \A f \in ScanFields \ {"entries", "visited"} : s[f] = scan[f]
      /\ DOMAIN s = ScanFields
  <2> DEFINE entries == scan.entries \ {e}
             visited == scan.visited + 1
  <2>1. entries \in SUBSET Paths /\ visited \in Nat BY <1>1, <1>4 DEF ScanType
  <2>2. s = [scan EXCEPT !.entries = entries, !.visited = visited] OBVIOUS
  <2> HIDE DEF s, entries, visited
  <2>3. s \in ScanType BY <1>1, <2>1, <2>2 DEF ScanType
  <2>4. s.entries = entries /\ s.visited = visited BY <1>1, <2>2 DEF ScanType
  <2>5. /\ \A f \in ScanFields \ {"entries", "visited"} : s[f] = scan[f]
        /\ DOMAIN s = ScanFields
    BY <1>1, <2>2 DEF ScanType, ScanFields
  <2> QED BY <2>3, <2>4, <2>5 DEF entries, visited
<1>6. tree[e].kind \in Directories \cup {"none", "link", "file"}
  BY <1>4 DEF TypeIInv, TypeOK, IsTree, NodeType
<1>7. \/ scan' = ToFiles(Incomplete(scan))
      \/ scan' = Stopped(s)
      \/ s.visited <= MaxEntries /\ scan' = Incomplete(s)
      \/ /\ s.visited <= MaxEntries /\ tree[e].kind \in Directories
         /\ scan' = [s EXCEPT !.stack = Append(@, [dir |-> e, depth |-> scan.depth + 1])]
      \/ /\ s.visited <= MaxEntries /\ tree[e].kind = "file" /\ Len(scan.files) < request.scan_limit
         /\ scan' = [s EXCEPT !.files = Append(@, e)]
  <2> DEFINE v == s.visited
  <2>1. v \in Nat BY <1>4, <1>5
  <2>2. v > MaxEntries \/ v <= MaxEntries BY <2>1, BoundAssumption
  <2> DEFINE short == Len(scan.files) >= request.scan_limit
  <2>3. short \/ Len(scan.files) < request.scan_limit BY <1>4
  <2> DEFINE a == ToFiles(Incomplete(scan))
             b == Stopped(s)
             c == Incomplete(s)
             d == [s EXCEPT !.stack = Append(@, [dir |-> e, depth |-> scan.depth + 1])]
             g == [s EXCEPT !.files = Append(@, e)]
             large == v > MaxEntries
             small == v <= MaxEntries
  <2>4. scan' = CASE scan.late -> a
                  [] ~scan.late /\ large -> b
                  [] ~scan.late /\ small ->
                       CASE tree[e].kind \in {"none", "link"} -> c
                         [] tree[e].kind \in Directories -> d
                         [] tree[e].kind = "file" -> IF short THEN b ELSE g
    BY <1>3
  <2>5. large \/ small BY <2>2
  <2>6. Directories \cap {"none", "link", "file"} = {} BY DEF Directories
  <2> HIDE DEF a, b, c, d, g, large, small, short
  <2>7. CASE scan.late
    <3>1. scan' = a BY <1>4, <2>4, <2>7
    <3> QED BY <3>1 DEF a
  <2>8. CASE ~scan.late /\ v > MaxEntries
    <3>1. scan' = b BY <2>4, <2>8, BoundAssumption, <2>1 DEF large, small
    <3> QED BY <3>1 DEF b
  <2>9. CASE ~scan.late /\ v <= MaxEntries
    <3>1. ~large /\ small BY <2>1, <2>9, BoundAssumption DEF large, small
    <3>2. scan' = CASE tree[e].kind \in {"none", "link"} -> c
                    [] tree[e].kind \in Directories -> d
                    [] tree[e].kind = "file" -> IF short THEN b ELSE g
      BY <2>4, <2>9, <3>1
    <3>3. CASE tree[e].kind \in {"none", "link"}
      <4>1. scan' = c BY <2>6, <3>2, <3>3
      <4> QED BY <2>9, <4>1 DEF c
    <3>4. CASE tree[e].kind \in Directories
      <4>1. scan' = d BY <2>6, <3>2, <3>4
      <4> QED BY <2>9, <3>4, <4>1 DEF d
    <3>5. CASE tree[e].kind = "file"
      <4>1. scan' = IF short THEN b ELSE g BY <2>6, <3>2, <3>5
      <4> QED BY <2>3, <2>9, <3>5, <4>1 DEF b, g, short
    <3> QED BY <1>6, <3>3, <3>4, <3>5
  <2> QED BY <1>4, <2>2, <2>7, <2>8, <2>9
<1> HIDE DEF s
<1>8. CASE scan' = ToFiles(Incomplete(scan))
  <2>1. /\ Incomplete(scan) \in ScanType /\ Incomplete(scan).partial
        /\ \A f \in ScanFields \ {"partial"} : Incomplete(scan)[f] = scan[f]
        /\ DOMAIN Incomplete(scan) = ScanFields
    BY <1>1, <1>2, HelperEffects DEF ScanType, ScanFields
  <2>2. /\ scan' \in ScanType
        /\ scan'.phase = "files" /\ scan'.stack = <<>> /\ scan'.entries = {}
        /\ \A f \in ScanFields \ {"phase", "stack", "entries"} : scan'[f] = Incomplete(scan)[f]
    BY <1>8, <2>1, HelperEffects
  <2>3. /\ Same({"provider", "declared"}) /\ Same({"at", "depth", "bytes", "candidates", "seen", "ambiguous"})
        /\ Same({"files"}) /\ scan'.partial /\ scan'.visited = scan.visited
    BY <2>1, <2>2 DEF Same, ScanFields
  <2> QED BY <1>1, <2>2, <2>3 DEF Scanning
<1>9. CASE scan' = Stopped(s)
  <2>1. /\ Incomplete(s) \in ScanType /\ Incomplete(s).partial
        /\ \A f \in ScanFields \ {"partial"} : Incomplete(s)[f] = s[f]
        /\ DOMAIN Incomplete(s) = ScanFields
    BY <1>5, HelperEffects DEF ScanType, ScanFields
  <2> DEFINE t == ToFiles(Incomplete(s))
  <2>2. /\ t \in ScanType
        /\ t.phase = "files" /\ t.stack = <<>> /\ t.entries = {}
        /\ \A f \in ScanFields \ {"phase", "stack", "entries"} : t[f] = Incomplete(s)[f]
        /\ DOMAIN t = ScanFields
    BY <2>1, HelperEffects DEF ScanType, ScanFields
  <2>3. scan' = [t EXCEPT !.limited = TRUE] BY <1>9 DEF Stopped
  <2> HIDE DEF t
  <2>4. /\ scan' \in ScanType
        /\ \A f \in ScanFields \ {"limited"} : scan'[f] = t[f]
    BY <2>2, <2>3 DEF ScanType, ScanFields
  <2>5. /\ Same({"provider", "declared"}) /\ Same({"at", "depth", "bytes", "candidates", "seen", "ambiguous"})
        /\ Same({"files"}) /\ scan'.partial /\ scan'.visited = scan.visited + 1
        /\ scan'.phase = "files" /\ scan'.stack = <<>> /\ scan'.entries = {}
    BY <1>5, <2>1, <2>2, <2>4 DEF Same, ScanFields
  <2> QED BY <1>1, <2>4, <2>5 DEF Scanning
<1>10. CASE s.visited <= MaxEntries /\ scan' = Incomplete(s)
  <2>1. /\ scan' \in ScanType /\ scan'.partial
        /\ \A f \in ScanFields \ {"partial"} : scan'[f] = s[f]
    BY <1>5, <1>10, HelperEffects
  <2>2. /\ Same({"provider", "declared"}) /\ Same({"at", "depth", "bytes", "candidates", "seen", "ambiguous"})
        /\ Same({"stack", "files"}) /\ scan'.phase = "walk" /\ scan'.entries = scan.entries \ {e}
        /\ scan'.visited = scan.visited + 1
    BY <1>1, <1>5, <2>1 DEF Same, ScanFields
  <2> QED BY <1>1, <1>5, <1>10, <2>1, <2>2 DEF Scanning
<1>11. CASE /\ s.visited <= MaxEntries /\ tree[e].kind \in Directories
            /\ scan' = [s EXCEPT !.stack = Append(@, [dir |-> e, depth |-> scan.depth + 1])]
  <2> DEFINE stack == Append(scan.stack, [dir |-> e, depth |-> scan.depth + 1])
  <2>1. stack \in Seq(PendingType)
    <3>1. [dir |-> e, depth |-> scan.depth + 1] \in PendingType BY <1>4 DEF PendingType
    <3>2. scan.stack \in Seq(PendingType) BY <1>1 DEF ScanType
    <3> QED BY <3>1, <3>2, AppendProperties
  <2>2. s.stack = scan.stack BY <1>5 DEF ScanFields
  <2>3. scan' = [s EXCEPT !.stack = stack] BY <1>11, <2>2
  <2> HIDE DEF stack
  <2>4. /\ scan' \in ScanType /\ scan'.stack = stack
        /\ \A f \in ScanFields \ {"stack"} : scan'[f] = s[f]
    BY <1>5, <2>1, <2>3 DEF ScanType, ScanFields
  <2>5. /\ Same({"provider", "declared"}) /\ Same({"at", "depth", "bytes", "candidates", "seen", "ambiguous"})
        /\ Same({"files"}) /\ scan'.phase = "walk" /\ scan'.entries = scan.entries \ {e}
        /\ scan'.visited = scan.visited + 1 /\ scan'.partial = scan.partial
    BY <1>1, <1>5, <2>4 DEF Same, ScanFields
  <2> QED BY <1>1, <1>5, <1>11, <2>4, <2>5 DEF Scanning, stack
<1>12. CASE /\ s.visited <= MaxEntries /\ tree[e].kind = "file" /\ Len(scan.files) < request.scan_limit
            /\ scan' = [s EXCEPT !.files = Append(@, e)]
  <2> DEFINE files == Append(scan.files, e)
  <2>1. files \in Seq(Paths)
    <3>1. scan.files \in Seq(Paths) BY <1>1 DEF ScanType
    <3> QED BY <1>4, <3>1, AppendProperties
  <2>2. s.files = scan.files BY <1>5 DEF ScanFields
  <2>3. scan' = [s EXCEPT !.files = files] BY <1>12, <2>2
  <2> HIDE DEF files
  <2>4. /\ scan' \in ScanType /\ scan'.files = files
        /\ \A f \in ScanFields \ {"files"} : scan'[f] = s[f]
    BY <1>5, <2>1, <2>3 DEF ScanType, ScanFields
  <2>5. /\ Same({"provider", "declared"}) /\ Same({"at", "depth", "bytes", "candidates", "seen", "ambiguous"})
        /\ Same({"stack"}) /\ scan'.phase = "walk" /\ scan'.entries = scan.entries \ {e}
        /\ scan'.visited = scan.visited + 1 /\ scan'.partial = scan.partial
    BY <1>1, <1>5, <2>4 DEF Same, ScanFields
  <2> QED BY <1>1, <1>5, <1>12, <2>4, <2>5 DEF Scanning, files
<1> QED BY <1>7, <1>8, <1>9, <1>10, <1>11, <1>12

\* The head of a queue and what is behind it.
LEMMA QueueEnds ==
  ASSUME NEW S, NEW queue \in Seq(S), queue # <<>>
  PROVE  /\ Head(queue) \in S /\ Tail(queue) \in Seq(S)
         /\ Len(Tail(queue)) <= Len(queue)
         /\ \A e \in Range(queue) : e = Head(queue) \/ e \in Range(Tail(queue))
         /\ Range(Tail(queue)) \subseteq Range(queue)
<1>1. /\ Head(queue) \in S /\ Tail(queue) \in Seq(S) /\ Len(Tail(queue)) = Len(queue) - 1
      /\ \A i \in 1..Len(Tail(queue)) : Tail(queue)[i] = queue[i + 1]
  BY HeadTailProperties
<1>2. Head(queue) = queue[1] /\ Len(queue) \in Nat \ {0} BY EmptySeq
<1>3. ASSUME NEW i \in 1..Len(queue) PROVE queue[i] = Head(queue) \/ queue[i] \in Range(Tail(queue))
  <2>1. CASE i = 1 BY <1>2, <2>1
  <2>2. CASE i # 1
    <3>1. i - 1 \in 1..Len(Tail(queue)) /\ Tail(queue)[i - 1] = queue[i] BY <1>1, <1>2, <2>2
    <3>2. DOMAIN Tail(queue) = 1..Len(Tail(queue)) BY <1>1
    <3> QED BY <3>1, <3>2 DEF Range
  <2> QED BY <2>1, <2>2
<1>4. Range(Tail(queue)) \subseteq Range(queue) BY <1>1, <1>2 DEF Range
<1> QED BY <1>1, <1>2, <1>3, <1>4 DEF Range

\* A file leaves the queue and becomes a candidate, unless it has no id or the scan is partial.
LEMMA ReadFileEffect ==
  ASSUME TypeIInv, ReadFile
  PROVE  /\ Scanning /\ scan.phase = "files" /\ scan.files # <<>>
         /\ Same({"phase", "at", "stack", "depth", "entries", "visited"})
         /\ \/ scan'.partial /\ scan'.files \in {<<>>, Tail(scan.files)} /\ Same({"bytes", "candidates", "seen", "ambiguous"})
            \/ LET p == Head(scan.files)
                   id == SessionId(tree[p].file, scan.provider)
               IN /\ scan'.files = Tail(scan.files) /\ tree[p].kind = "file"
                  /\ scan'.bytes = scan.bytes + tree[p].file.size /\ scan'.bytes <= MaxBytes
                  /\ IF id # "none" /\ InDirectory(tree[p].file)
                     THEN scan'.candidates = scan.candidates
                            \cup {[path |-> p, id |-> id, epoch |-> tree[p].file.epoch]}
                     ELSE Same({"candidates"})
                  /\ IF id # "none"
                     THEN /\ scan'.seen = scan.seen \cup {id}
                          /\ scan'.ambiguous = IF id \in scan.seen THEN {id} ELSE scan.ambiguous
                     ELSE Same({"seen", "ambiguous"})
<1>1. scan \in ScanType /\ scan.phase = "files" /\ scan.files # <<>> /\ Keep BY DEF ReadFile, TypeIInv
<1>2. scan.files \in Seq(Paths) BY <1>1 DEF ScanType
<1> DEFINE p == Head(scan.files)
           file == tree[p].file
           id == SessionId(file, scan.provider)
           s == [scan EXCEPT !.files = Tail(@)]
           leave == [Incomplete(s) EXCEPT !.files = <<>>]
<1>3. p \in Paths /\ Tail(scan.files) \in Seq(Paths) BY <1>1, <1>2, QueueEnds
<1>4. file \in FileType BY <1>3 DEF TypeIInv, TypeOK, IsTree, NodeType
<1>5. /\ s \in ScanType /\ s.files = Tail(scan.files) /\ DOMAIN s = ScanFields
      /\ \A f \in ScanFields \ {"files"} : s[f] = scan[f]
  BY <1>1, <1>3 DEF ScanType, ScanFields
<1>6. scan.bytes \in Nat /\ file.size \in Nat /\ file.epoch \in Int /\ file.flawed \in BOOLEAN
  BY <1>1, <1>4 DEF ScanType, FileType
<1>7. \/ scan' = leave \/ scan' = Incomplete(s)
      \/ tree[p].kind = "file" /\ ~OverBytes(file) /\ scan' = Examined(s, p)
  <2> DEFINE a == leave
             b == Incomplete(s)
             c == Examined(s, p)
             huge == file.size > MaxFileBytes
  <2>1. scan' = CASE scan.late -> a
                  [] ~scan.late /\ tree[p].kind # "file" -> b
                  [] ~scan.late /\ tree[p].kind = "file" -> IF huge THEN b ELSE IF OverBytes(file) THEN a ELSE c
    BY DEF ReadFile
  <2> HIDE DEF a, b, c, huge, file, p
  <2>2. CASE scan.late
    <3>1. scan' = a BY <1>1, <2>1, <2>2 DEF ScanType
    <3> QED BY <3>1 DEF a
  <2>3. CASE ~scan.late /\ tree[p].kind # "file"
    <3>1. scan' = b BY <2>1, <2>3
    <3> QED BY <3>1 DEF b
  <2>4. CASE ~scan.late /\ tree[p].kind = "file"
    <3>1. scan' = IF huge THEN b ELSE IF OverBytes(file) THEN a ELSE c BY <2>1, <2>4
    <3> QED BY <2>4, <3>1 DEF a, b, c
  <2> QED BY <2>2, <2>3, <2>4
<1> HIDE DEF s
<1>8. /\ Incomplete(s) \in ScanType /\ Incomplete(s).partial /\ DOMAIN Incomplete(s) = ScanFields
      /\ \A f \in ScanFields \ {"partial"} : Incomplete(s)[f] = s[f]
  BY <1>5, HelperEffects DEF ScanType, ScanFields
<1>9. CASE scan' = leave
  <2>1. <<>> \in Seq(Paths) OBVIOUS
  <2>2. /\ scan' \in ScanType /\ scan'.files = <<>>
        /\ \A f \in ScanFields \ {"files"} : scan'[f] = Incomplete(s)[f]
    BY <1>8, <1>9, <2>1 DEF ScanType, ScanFields
  <2>3. /\ Same({"provider", "declared"}) /\ Same({"bytes", "candidates", "seen", "ambiguous"}) /\ scan'.partial
        /\ Same({"phase", "at", "stack", "depth", "entries", "visited"})
    BY <1>5, <1>8, <2>2 DEF Same, ScanFields
  <2> QED BY <1>1, <2>2, <2>3 DEF Scanning
<1>10. CASE scan' = Incomplete(s)
  <2>1. /\ Same({"provider", "declared"}) /\ Same({"bytes", "candidates", "seen", "ambiguous"}) /\ scan'.partial
        /\ Same({"phase", "at", "stack", "depth", "entries", "visited"})
        /\ scan'.files = Tail(scan.files)
    BY <1>5, <1>8, <1>10 DEF Same, ScanFields
  <2> QED BY <1>1, <1>8, <1>10, <2>1 DEF Scanning
<1>11. CASE tree[p].kind = "file" /\ ~OverBytes(file) /\ scan' = Examined(s, p)
  <2> DEFINE bytes == s.bytes + file.size
             flawed == s.partial \/ file.flawed
             t == [s EXCEPT !.bytes = bytes, !.partial = flawed]
  <2>1. s.bytes = scan.bytes /\ s.partial = scan.partial /\ s.provider = scan.provider
        /\ s.candidates = scan.candidates /\ s.seen \subseteq STRING
    BY <1>5 DEF ScanFields, ScanType
  <2>2. bytes \in Nat /\ bytes = scan.bytes + file.size /\ bytes <= MaxBytes
    BY <1>6, <1>11, <2>1, BoundAssumption DEF OverBytes
  <2>3. flawed \in BOOLEAN /\ (scan.partial => flawed) BY <1>5, <2>1 DEF ScanType
  <2>4. scan' = IF id = "none" THEN t
                ELSE [t EXCEPT !.seen = @ \cup {id},
                               !.ambiguous = IF id \in s.seen THEN {id} ELSE @,
                               !.candidates = IF InDirectory(file)
                                              THEN @ \cup {[path |-> p, id |-> id, epoch |-> file.epoch]}
                                              ELSE @]
    BY <1>11, <2>1 DEF Examined
  <2> HIDE DEF bytes, flawed
  <2>5. /\ t \in ScanType /\ t.bytes = bytes /\ t.partial = flawed
        /\ \A f \in ScanFields \ {"bytes", "partial"} : t[f] = s[f]
        /\ DOMAIN t = ScanFields
    BY <1>5, <2>2, <2>3 DEF ScanType, ScanFields
  <2> HIDE DEF t
  <2>6. /\ t.seen = s.seen /\ t.candidates = scan.candidates
        /\ s.seen = scan.seen /\ t.ambiguous = scan.ambiguous
    BY <1>5, <2>1, <2>5 DEF ScanFields
  <2>7. CASE id = "none"
    <3>1. scan' = t BY <2>4, <2>7
    <3>2. /\ Same({"provider", "declared"}) /\ Same({"candidates"}) /\ Same({"seen", "ambiguous"})
          /\ Same({"phase", "at", "stack", "depth", "entries", "visited"})
          /\ scan'.files = Tail(scan.files)
      BY <1>5, <2>5, <3>1 DEF Same, ScanFields
    <3> QED BY <1>1, <1>11, <2>2, <2>3, <2>5, <2>7, <3>1, <3>2 DEF Scanning
  <2>8. CASE id # "none"
    <3> DEFINE seen == s.seen \cup {id}
               ambiguous == IF id \in s.seen THEN {id} ELSE t.ambiguous
               candidates == IF InDirectory(file)
                             THEN scan.candidates \cup {[path |-> p, id |-> id, epoch |-> file.epoch]}
                             ELSE scan.candidates
    <3>1. id \in STRING BY <1>4, <2>8 DEF SessionId, FileType
    <3>2. seen \in SUBSET STRING /\ ambiguous \in SUBSET STRING BY <2>1, <2>5, <3>1 DEF ScanType
    <3>3. [path |-> p, id |-> id, epoch |-> file.epoch] \in CandidateType
      BY <1>3, <1>6, <3>1 DEF CandidateType
    <3>4. candidates \in SUBSET CandidateType BY <1>1, <3>3 DEF ScanType
    <3>5. scan' = [t EXCEPT !.seen = seen, !.ambiguous = ambiguous, !.candidates = candidates]
      BY <2>4, <2>6, <2>8
    <3> HIDE DEF seen, ambiguous, candidates
    <3>6. /\ scan' \in ScanType /\ scan'.candidates = candidates
          /\ scan'.seen = seen /\ scan'.ambiguous = ambiguous
          /\ \A f \in ScanFields \ {"seen", "ambiguous", "candidates"} : scan'[f] = t[f]
      BY <2>5, <3>2, <3>4, <3>5 DEF ScanType, ScanFields
    <3>7. /\ Same({"provider", "declared"})
          /\ Same({"phase", "at", "stack", "depth", "entries", "visited"})
          /\ scan'.files = Tail(scan.files) /\ scan'.bytes = bytes /\ scan'.partial = flawed
      BY <1>5, <2>5, <3>6 DEF Same, ScanFields
    <3>10. /\ scan'.seen = scan.seen \cup {id}
           /\ scan'.ambiguous = IF id \in scan.seen THEN {id} ELSE scan.ambiguous
      BY <2>6, <3>6 DEF seen, ambiguous
    <3>8. CASE InDirectory(file)
      BY <1>1, <1>11, <2>2, <2>3, <2>8, <3>6, <3>7, <3>8, <3>10 DEF Scanning, candidates
    <3>9. CASE ~InDirectory(file)
      <4>1. Same({"candidates"}) BY <3>6, <3>9 DEF Same, candidates
      <4> QED BY <1>1, <1>11, <2>2, <2>3, <2>8, <3>6, <3>7, <3>9, <3>10, <4>1 DEF Scanning
    <3> QED BY <3>8, <3>9
  <2> QED BY <2>7, <2>8
<1> QED BY <1>7, <1>9, <1>10, <1>11

\* The steps of the scan that set one field.
LEMMA SmallEffects ==
  ASSUME TypeIInv
  PROVE  /\ TimePasses => Scanning /\ Same(ScanFields \ {"late"})
         /\ RootsDone => /\ Scanning /\ Same(ScanFields \ {"phase"})
                         /\ scan.phase = "root" /\ scan'.phase = "end" /\ RootsLeft = {}
         /\ FilesDone => /\ Scanning /\ Same(ScanFields \ {"phase"})
                         /\ scan.phase = "files" /\ scan'.phase = "root" /\ scan.files = <<>>
<1>1. scan \in ScanType BY DEF TypeIInv
<1>2. ASSUME TimePasses PROVE Scanning /\ Same(ScanFields \ {"late"})
  <2>1. scan' = [scan EXCEPT !.late = TRUE] /\ Keep BY <1>2 DEF TimePasses
  <2>2. Same(ScanFields \ {"late"}) BY <1>1, <2>1 DEF Same, ScanType, ScanFields
  <2>3. scan' \in ScanType BY <1>1, <2>1 DEF ScanType
  <2> QED BY <2>1, <2>2, <2>3 DEF Scanning, Same, ScanFields
<1>3. ASSUME NEW phase \in Phases, scan' = [scan EXCEPT !.phase = phase], Keep
      PROVE  Scanning /\ Same(ScanFields \ {"phase"}) /\ scan'.phase = phase
  <2>1. Same(ScanFields \ {"phase"}) /\ scan'.phase = phase BY <1>1, <1>3 DEF Same, ScanType, ScanFields
  <2>2. scan' \in ScanType BY <1>1, <1>3 DEF ScanType
  <2> QED BY <1>3, <2>1, <2>2 DEF Scanning, Same, ScanFields
<1>4. "end" \in Phases /\ "root" \in Phases BY DEF Phases
<1>5. RootsDone => /\ Scanning /\ Same(ScanFields \ {"phase"})
                   /\ scan.phase = "root" /\ scan'.phase = "end" /\ RootsLeft = {}
  BY <1>3, <1>4 DEF RootsDone
<1>6. FilesDone => /\ Scanning /\ Same(ScanFields \ {"phase"})
                   /\ scan.phase = "files" /\ scan'.phase = "root" /\ scan.files = <<>>
  BY <1>3, <1>4 DEF FilesDone
<1> QED BY <1>2, <1>5, <1>6

----------------------------------------------------------------------------
(* Type correctness *)

\* What the command says of itself.
LEMMA RequestType ==
  ASSUME TypeIInv
  PROVE  /\ request.roots \in Seq(Paths) /\ DOMAIN request.roots = 1..Len(request.roots)
         /\ Len(request.roots) \in Nat
         /\ request.providers \in Seq(STRING \ {"none"}) /\ Len(request.providers) \in 1..2
         /\ DOMAIN request.providers = 1..Len(request.providers)
         /\ Head(request.providers) = request.providers[1]
         /\ Last(request.providers) = request.providers[Len(request.providers)]
         /\ request.command = "resolve" => Len(request.providers) = 1 /\ request.cwd = "any"
         /\ request.scan_limit \in Nat /\ request.limit \in Nat
BY RequestAssumption DEF TypeIInv, Last

\* A step of the scan is well-typed if what it sets is in place.
LEMMA ScanningTypes ==
  ASSUME TypeIInv, Scanning, IsFiniteSet(scan'.candidates), scan.phase # "idle",
         scan'.at \in 0..Len(request.roots), scan'.depth \in 0..MaxDepth,
         scan'.phase \in {"root", "walk", "files", "end"},
         scan'.phase \in {"root", "end"} => scan'.stack = <<>> /\ scan'.entries = {} /\ scan'.files = <<>>,
         scan'.phase = "files" => scan'.stack = <<>> /\ scan'.entries = {},
         scan'.phase = "walk" => scan'.at > 0,
         scan'.phase = "end" => RootsLeft'= {}
  PROVE  TypeIInv'
<1>1. /\ scan' \in ScanType /\ scan'.provider = scan.provider /\ scan'.declared = scan.declared
      /\ UNCHANGED <<tree, changes, untouched, request, found, partial, answer>>
  BY DEF Scanning, Same, Keep, worldVars
<1>2. scan'.phase \in Phases /\ scan'.visited \in Nat /\ scan'.bytes \in Nat
      /\ scan'.entries \subseteq Paths /\ scan'.files \in Seq(Paths)
  BY <1>1 DEF ScanType
<1>3. TypeOK'
  <2>1. IsTree(tree)' BY <1>1 DEF TypeIInv, TypeOK, IsTree
  <2> QED BY <1>1, <1>2, <2>1 DEF TypeIInv, TypeOK
<1>4. PlaceInv'
  <2>1. answer = NoAnswer /\ \E i \in DOMAIN request.providers : scan.provider = request.providers[i]
    BY DEF TypeIInv, PlaceInv
  <2>2. answer.kind = "none" BY <2>1 DEF NoAnswer
  <2> QED BY <1>1, <2>1, <2>2 DEF PlaceInv, NoAnswer
<1> QED BY <1>1, <1>3, <1>4 DEF TypeIInv

\* The steps of the scan keep the types.
LEMMA ScanTypes ==
  ASSUME TypeIInv,
         EnterRoot \/ RootsDone \/ OpenDirectory \/ VisitEntry \/ ReadFile \/ FilesDone \/ TimePasses
  PROVE  TypeIInv'
<1>1. /\ scan \in ScanType /\ IsFiniteSet(scan.candidates) /\ scan.at \in 0..Len(request.roots)
      /\ scan.depth \in 0..MaxDepth /\ PlaceInv
      /\ request.roots \in Seq(Paths) /\ DOMAIN request.roots = 1..Len(request.roots)
      /\ Len(request.roots) \in Nat /\ MaxDepth \in Nat /\ scan.declared \subseteq DOMAIN request.roots
  BY RequestType, BoundAssumption DEF TypeIInv, TypeOK
<1>2. CASE EnterRoot
  <2>1. PICK i \in RootsLeft :
          /\ scan'.at = i
          /\ scan'.phase = "walk" \/ (scan'.phase = "root" /\ Same({"stack"}))
    BY <1>2, EnterRootEffect
  <2>2. /\ Scanning /\ scan.phase = "root" /\ scan'.depth = scan.depth /\ scan'.candidates = scan.candidates
        /\ scan'.entries = scan.entries /\ scan'.files = scan.files
    BY <1>2, EnterRootEffect DEF Same
  <2>3. scan'.at \in 0..Len(request.roots) /\ scan'.at > 0 BY <1>1, <2>1 DEF RootsLeft
  <2>4. scan'.phase = "root" => scan'.stack = scan.stack BY <2>1 DEF Same
  <2> QED BY <1>1, <2>1, <2>2, <2>3, <2>4, ScanningTypes DEF PlaceInv
<1>3. CASE RootsDone
  <2>1. Scanning /\ scan.phase = "root" /\ scan'.phase = "end" /\ RootsLeft = {}
    BY <1>3, SmallEffects
  <2>2. /\ scan'.at = scan.at /\ scan'.depth = scan.depth /\ scan'.candidates = scan.candidates
        /\ scan'.stack = scan.stack /\ scan'.entries = scan.entries /\ scan'.files = scan.files
        /\ scan'.declared = scan.declared
    BY <1>3, SmallEffects DEF Same, ScanFields
  <2>3. RootsLeft' = {} BY <2>1, <2>2 DEF RootsLeft
  <2> QED BY <1>1, <2>1, <2>2, <2>3, ScanningTypes DEF PlaceInv
<1>4. CASE OpenDirectory
  <2>1. /\ Scanning /\ scan.phase = "walk" /\ scan'.at = scan.at /\ scan'.candidates = scan.candidates
    BY <1>4, OpenDirectoryEffect DEF Same
  <2>2. \/ scan'.phase = "files" /\ scan'.stack = <<>> /\ scan'.entries = {} /\ scan'.depth = scan.depth
        \/ scan'.phase = "walk" /\ (scan'.depth = scan.depth \/ scan'.depth <= MaxDepth)
    BY <1>4, OpenDirectoryEffect DEF Same
  <2>3. scan'.depth \in Nat BY <2>1 DEF Scanning, ScanType
  <2> QED BY <1>1, <2>1, <2>2, <2>3, ScanningTypes DEF PlaceInv
<1>5. CASE VisitEntry
  <2>1. /\ Scanning /\ scan.phase = "walk" /\ scan'.at = scan.at /\ scan'.candidates = scan.candidates
        /\ scan'.depth = scan.depth
    BY <1>5, VisitEntryEffect DEF Same
  <2>2. \/ scan'.phase = "files" /\ scan'.stack = <<>> /\ scan'.entries = {}
        \/ scan'.phase = "walk"
    BY <1>5, VisitEntryEffect
  <2> QED BY <1>1, <2>1, <2>2, ScanningTypes DEF PlaceInv
<1>6. CASE ReadFile
  <2>1. /\ Scanning /\ scan.phase = "files" /\ scan'.phase = "files" /\ scan'.at = scan.at
        /\ scan'.depth = scan.depth /\ scan'.stack = scan.stack /\ scan'.entries = scan.entries
    BY <1>6, ReadFileEffect DEF Same
  <2>2. scan'.candidates = scan.candidates \/ \E c : scan'.candidates = scan.candidates \cup {c}
    BY <1>6, ReadFileEffect DEF Same
  <2>3. IsFiniteSet(scan'.candidates) BY <1>1, <2>2, FS_AddElement
  <2> QED BY <1>1, <2>1, <2>3, ScanningTypes DEF PlaceInv
<1>7. CASE FilesDone
  <2>1. Scanning /\ scan.phase = "files" /\ scan'.phase = "root" /\ scan.files = <<>>
    BY <1>7, SmallEffects
  <2>2. /\ scan'.at = scan.at /\ scan'.depth = scan.depth /\ scan'.candidates = scan.candidates
        /\ scan'.stack = scan.stack /\ scan'.entries = scan.entries /\ scan'.files = scan.files
    BY <1>7, SmallEffects DEF Same, ScanFields
  <2> QED BY <1>1, <2>1, <2>2, ScanningTypes DEF PlaceInv
<1>8. CASE TimePasses
  <2>1. Scanning /\ scan.phase \in {"root", "walk", "files"} BY <1>8, SmallEffects DEF TimePasses
  <2>2. /\ scan'.at = scan.at /\ scan'.depth = scan.depth /\ scan'.candidates = scan.candidates
        /\ scan'.stack = scan.stack /\ scan'.entries = scan.entries /\ scan'.files = scan.files
        /\ scan'.phase = scan.phase
    BY <1>8, SmallEffects DEF Same, ScanFields
  <2> QED BY <1>1, <2>1, <2>2, ScanningTypes DEF PlaceInv
<1> QED BY <1>2, <1>3, <1>4, <1>5, <1>6, <1>7, <1>8

\* A scan that begins: for the command, or for its second provider.
LEMMA BeginEffect ==
  ASSUME TypeIInv, NEW provider \in STRING \ {"none"}, NEW declared \in SUBSET (DOMAIN request.roots),
         scan' = NewScan(provider, declared)
  PROVE  /\ scan' \in ScanType /\ scan'.phase = "root" /\ scan'.provider = provider
         /\ scan'.declared = declared /\ scan'.at = 0 /\ scan'.depth = 0
         /\ scan'.stack = <<>> /\ scan'.entries = {} /\ scan'.files = <<>>
         /\ scan'.visited = 0 /\ scan'.bytes = 0 /\ scan'.partial = FALSE /\ scan'.candidates = {}
         /\ scan'.seen = {} /\ scan'.ambiguous = {}
<1>1. provider \in ProviderType /\ declared \in SUBSET Nat BY RequestType DEF ProviderType
<1>2. scan' \in ScanType BY <1>1, NewScanType
<1> QED BY <1>2 DEF NewScan

\* A scan begins well-typed.
LEMMA BeginTypes ==
  ASSUME TypeIInv, NEW provider \in STRING \ {"none"}, NEW declared \in SUBSET (DOMAIN request.roots),
         scan' = NewScan(provider, declared), answer = NoAnswer,
         \E i \in DOMAIN request.providers : provider = request.providers[i],
         UNCHANGED <<tree, changes, untouched, request, answer>>,
         found' \subseteq CandidateType, IsFiniteSet(found'), partial' \in BOOLEAN
  PROVE  TypeIInv'
<1>1. /\ scan' \in ScanType /\ scan'.phase = "root" /\ scan'.provider = provider
      /\ scan'.declared = declared /\ scan'.at = 0 /\ scan'.depth = 0
      /\ scan'.stack = <<>> /\ scan'.entries = {} /\ scan'.files = <<>>
      /\ scan'.visited = 0 /\ scan'.bytes = 0 /\ scan'.partial = FALSE /\ scan'.candidates = {}
  BY BeginEffect
<1>2. 0 \in 0..MaxDepth /\ 0 \in 0..Len(request.roots) /\ "root" \in Phases /\ <<>> \in Seq(Paths)
  BY RequestType, BoundAssumption DEF Phases
<1>3. TypeOK'
  <2>1. IsTree(tree)' BY DEF TypeIInv, TypeOK, IsTree
  <2>2. /\ scan'.at \in 0..Len(request'.roots) /\ scan'.declared \subseteq DOMAIN request'.roots
        /\ scan'.phase \in Phases /\ scan'.visited \in Nat /\ scan'.bytes \in Nat
        /\ scan'.depth \in 0..MaxDepth /\ scan'.entries \subseteq Paths /\ scan'.files \in Seq(Paths)
    <3>1. request' = request OBVIOUS
    <3>2. scan'.at \in 0..Len(request'.roots) /\ scan'.declared \subseteq DOMAIN request'.roots
      BY <1>1, <1>2, <3>1
    <3> QED BY <1>1, <1>2, <3>2 DEF ScanType
  <2> QED BY <2>1, <2>2 DEF TypeIInv, TypeOK
<1>4. PlaceInv' BY <1>1 DEF PlaceInv, NoAnswer
<1>5. IsFiniteSet({}) BY FS_EmptySet
<1>6. answer'.kind = "none" BY DEF NoAnswer
<1> QED BY <1>1, <1>3, <1>4, <1>5, <1>6 DEF TypeIInv

\* The command has answered.
LEMMA AnswerTypes ==
  ASSUME TypeIInv, scan.phase # "idle",
         NEW kind \in {"ok", "partial", "ambiguous", "incomplete", "not_found", "found"},
         NEW shown, NEW candidates \in SUBSET CandidateType, NEW path,
         Answer(kind, shown, candidates, path), UNCHANGED <<found, partial>>
  PROVE  TypeIInv'
<1>1. /\ answer' = [kind |-> kind, shown |-> shown, candidates |-> candidates, path |-> path]
      /\ scan' = [scan EXCEPT !.phase = "idle"]
      /\ UNCHANGED <<tree, changes, untouched, request, found, partial>>
  BY DEF Answer, worldVars
<1>2. scan \in ScanType BY DEF TypeIInv
<1>3. /\ scan' \in ScanType /\ scan'.phase = "idle"
      /\ \A f \in ScanFields \ {"phase"} : scan'[f] = scan[f]
  BY <1>1, <1>2 DEF ScanType, Phases, ScanFields
<1>4. /\ scan'.declared = scan.declared /\ scan'.at = scan.at /\ scan'.visited = scan.visited
      /\ scan'.bytes = scan.bytes /\ scan'.depth = scan.depth /\ scan'.entries = scan.entries
      /\ scan'.files = scan.files /\ scan'.candidates = scan.candidates /\ scan'.provider = scan.provider
  BY <1>3 DEF ScanFields
<1>5. answer'.kind = kind /\ answer'.candidates = candidates /\ kind # "none" BY <1>1
<1>6. TypeOK'
  <2>1. IsTree(tree)' BY <1>1 DEF TypeIInv, TypeOK, IsTree
  <2> QED BY <1>1, <1>3, <1>4, <1>5, <2>1 DEF TypeIInv, TypeOK, Phases
<1>7. scan'.provider # "none"
  <2>1. \E i \in DOMAIN request.providers : scan.provider = request.providers[i] BY DEF TypeIInv, PlaceInv
  <2> QED BY <1>4, <2>1, RequestType
<1>8. answer' # NoAnswer BY <1>5 DEF NoAnswer
<1>9. PlaceInv' BY <1>3, <1>5, <1>7, <1>8 DEF PlaceInv, NoAnswer
<1> QED BY <1>1, <1>3, <1>4, <1>5, <1>6, <1>9 DEF TypeIInv

\* The command begins well-typed.
LEMMA StartTypes == TypeIInv /\ Start => TypeIInv'
<1> SUFFICES ASSUME TypeIInv, Start PROVE TypeIInv' OBVIOUS
<1>1. /\ answer = NoAnswer /\ scan' = NewScan(Head(request.providers), RootsOf)
      /\ UNCHANGED <<tree, changes, untouched, request, found, partial, answer>>
  BY DEF Start, worldVars
<1>2. /\ Head(request.providers) \in STRING \ {"none"}
      /\ \E i \in DOMAIN request.providers : Head(request.providers) = request.providers[i]
  BY RequestType
<1>3. RootsOf \in SUBSET (DOMAIN request.roots) BY DEF RootsOf
<1>4. found' \subseteq CandidateType /\ IsFiniteSet(found') /\ partial' \in BOOLEAN
  BY <1>1 DEF TypeIInv, TypeOK
<1> QED BY <1>1, <1>2, <1>3, <1>4, BeginTypes

\* The second provider begins well-typed.
LEMMA NextProviderTypes == TypeIInv /\ NextProvider => TypeIInv'
<1> SUFFICES ASSUME TypeIInv, NextProvider PROVE TypeIInv' OBVIOUS
<1>1. /\ scan' = NewScan(Last(request.providers), scan.declared) /\ scan.phase = "end"
      /\ UNCHANGED <<tree, changes, untouched, request, answer>>
      /\ found' = found \cup scan.candidates /\ partial' = (partial \/ scan.partial)
  BY DEF NextProvider, worldVars
<1>2. /\ Last(request.providers) \in STRING \ {"none"}
      /\ \E i \in DOMAIN request.providers : Last(request.providers) = request.providers[i]
  <2>2. DOMAIN request.providers = 1..Len(request.providers) /\ Len(request.providers) \in 1..2
    BY RequestType
  <2>1. Len(request.providers) \in DOMAIN request.providers BY <2>2
  <2> QED BY <2>1, RequestType
<1>3. scan.declared \in SUBSET (DOMAIN request.roots) /\ answer = NoAnswer
  BY <1>1 DEF TypeIInv, TypeOK, PlaceInv
<1>4. found \subseteq CandidateType /\ scan.candidates \subseteq CandidateType BY DEF TypeIInv, ScanType
<1>5. IsFiniteSet(found') BY <1>1, FS_Union DEF TypeIInv
<1>6. partial' \in BOOLEAN BY <1>1 DEF TypeIInv, TypeOK, ScanType
<1> QED BY <1>1, <1>2, <1>3, <1>4, <1>5, <1>6, BeginTypes

\* The four verdicts on an id.
LEMMA ResolveEffect ==
  ASSUME TypeIInv, Resolve
  PROVE  /\ scan.phase = "end" /\ request.command = "resolve" /\ UNCHANGED <<found, partial>>
         /\ \/ Answer("incomplete", <<>>, {}, <<>>)
            \/ ~Inconclusive /\ Matches = {} /\ Answer("not_found", <<>>, {}, <<>>)
            \/ /\ ~Inconclusive /\ Cardinality(Matches) = 1
               /\ Answer("found", <<>>, {}, (CHOOSE c \in Matches : TRUE).path)
            \/ Cardinality(Matches) > 1 /\ Answer("ambiguous", <<>>, {}, <<>>)
<1> DEFINE empty == Matches = {}
           one == Cardinality(Matches) = 1
           several == Cardinality(Matches) > 1
           picked == (CHOOSE c \in Matches : TRUE).path
<1>1. (CASE Inconclusive -> Answer("incomplete", <<>>, {}, <<>>)
         [] ~Inconclusive /\ empty -> Answer("not_found", <<>>, {}, <<>>)
         [] ~Inconclusive /\ one -> Answer("found", <<>>, {}, picked)
         [] ~Inconclusive /\ several -> Answer("ambiguous", <<>>, {}, <<>>))
  BY DEF Resolve
<1>2. empty => ~one /\ ~several BY FS_EmptySet
<1>3. one => ~several OBVIOUS
<1>4. empty \/ one \/ several
  <2>1. IsFiniteSet(Matches)
    <3>1. Matches \subseteq scan.candidates BY DEF Matches
    <3> QED BY <3>1, FS_Subset DEF TypeIInv
  <2>2. Cardinality(Matches) \in Nat /\ (Cardinality(Matches) = 0 <=> Matches = {})
    BY <2>1, FS_EmptySet, FS_CardinalityType
  <2> QED BY <2>2
<1>5. scan.phase = "end" /\ request.command = "resolve" /\ UNCHANGED <<found, partial>> BY DEF Resolve
<1> HIDE DEF empty, one, several, picked
<1>6. CASE Inconclusive BY <1>1, <1>5, <1>6
<1>7. CASE ~Inconclusive /\ empty
  <2>1. Answer("not_found", <<>>, {}, <<>>) BY <1>1, <1>2, <1>7
  <2> QED BY <1>5, <1>7, <2>1 DEF empty
<1>8. CASE ~Inconclusive /\ one
  <2>1. Answer("found", <<>>, {}, picked) BY <1>1, <1>2, <1>3, <1>8
  <2> QED BY <1>5, <1>8, <2>1 DEF one, picked
<1>9. CASE ~Inconclusive /\ several
  <2>1. Answer("ambiguous", <<>>, {}, <<>>) BY <1>1, <1>2, <1>3, <1>9
  <2> QED BY <1>5, <1>9, <2>1 DEF several
<1> QED BY <1>4, <1>6, <1>7, <1>8, <1>9

\* An answer ends the scan and leaves the rest alone.
LEMMA AnsweringEffect ==
  ASSUME TypeIInv, ListAmbiguous \/ Listing \/ Resolve
  PROVE  /\ scan.phase = "end" /\ scan' = [scan EXCEPT !.phase = "idle"]
         /\ scan'.phase = "idle" /\ scan'.provider = scan.provider
         /\ UNCHANGED <<tree, changes, untouched, request, found, partial>>
<1>1. scan.phase = "end" BY DEF ListAmbiguous, Listing, Resolve
<1>2. \E kind, shown, candidates, path : Answer(kind, shown, candidates, path)
  <2>1. CASE ListAmbiguous BY <2>1 DEF ListAmbiguous
  <2>2. CASE Listing BY <2>2 DEF Listing
  <2>3. CASE Resolve BY <2>3, ResolveEffect
  <2> QED BY <2>1, <2>2, <2>3
<1>3. scan' = [scan EXCEPT !.phase = "idle"] /\ UNCHANGED <<tree, changes, untouched, request>>
  BY <1>2 DEF Answer, worldVars
<1>4. UNCHANGED <<found, partial>> BY DEF ListAmbiguous, Listing, Resolve
<1>5. scan'.phase = "idle" /\ scan'.provider = scan.provider BY <1>3 DEF TypeIInv, ScanType
<1> QED BY <1>1, <1>3, <1>4, <1>5

\* The answers are well-typed.
LEMMA AnsweringTypes == TypeIInv /\ (ListAmbiguous \/ Listing \/ Resolve) => TypeIInv'
<1>1. ASSUME TypeIInv, ListAmbiguous PROVE TypeIInv'
  <2>1. /\ Answer("ambiguous", <<>>, {}, <<>>) /\ UNCHANGED <<found, partial>> /\ scan.phase # "idle"
    BY <1>1 DEF ListAmbiguous
  <2> QED BY <1>1, <2>1, AnswerTypes
<1>2. ASSUME TypeIInv, Listing PROVE TypeIInv'
  <2> DEFINE kind == IF partial \/ scan.partial THEN "partial" ELSE "ok"
  <2>1. PICK shown : Answer(kind, shown, found \cup scan.candidates, <<>>) BY <1>2 DEF Listing
  <2>2. scan.phase # "idle" /\ UNCHANGED <<found, partial>> BY <1>2 DEF Listing
  <2>3. found \cup scan.candidates \in SUBSET CandidateType BY <1>2 DEF TypeIInv, ScanType
  <2> QED BY <1>2, <2>1, <2>2, <2>3, AnswerTypes
<1>3. ASSUME TypeIInv, Resolve PROVE TypeIInv'
  <2>1. PICK kind \in {"incomplete", "not_found", "found", "ambiguous"} :
          \E path : Answer(kind, <<>>, {}, path)
    BY <1>3, ResolveEffect
  <2>4. PICK path : Answer(kind, <<>>, {}, path) BY <2>1
  <2>2. UNCHANGED <<found, partial>> /\ scan.phase # "idle" BY <1>3 DEF Resolve
  <2> QED BY <1>3, <2>2, <2>4, AnswerTypes
<1> QED BY <1>1, <1>2, <1>3

\* What other processes do keeps the types.
LEMMA ChangeTypes == TypeIInv /\ Change => TypeIInv'
<1> SUFFICES ASSUME TypeIInv, Change PROVE TypeIInv' OBVIOUS
<1>1. IsTree(tree') /\ untouched' \subseteq untouched BY ChangeTree
<1>2. /\ changes' = changes + 1 /\ changes < MaxChanges
      /\ UNCHANGED <<request, scan, found, partial, answer>>
  BY DEF Change
<1>3. changes' \in 0..MaxChanges BY <1>2, BoundAssumption DEF TypeIInv, TypeOK
<1>4. TypeOK'
  <2>1. IsTree(tree)' BY <1>1 DEF IsTree
  <2> QED BY <1>1, <1>2, <1>3, <2>1 DEF TypeIInv, TypeOK
<1>5. PlaceInv' BY <1>2 DEF TypeIInv, PlaceInv, RootsLeft, NoAnswer
<1> QED BY <1>2, <1>4, <1>5 DEF TypeIInv

\* TypeIInv is inductive.
LEMMA TypesKept == TypeIInv /\ [Next]_vars => TypeIInv'
<1>1. TypeIInv /\ UNCHANGED vars => TypeIInv'
  BY DEF vars, worldVars, TypeIInv, TypeOK, IsTree, PlaceInv, RootsLeft, NoAnswer
<1>2. TypeIInv /\ Next => TypeIInv'
  BY ScanTypes, StartTypes, NextProviderTypes, AnsweringTypes, ChangeTypes DEF Next, Scan
<1> QED BY <1>1, <1>2

\* The types of the catalog's state.
THEOREM CatalogTypes == Spec => []TypeOK
<1>1. TypeIInv => TypeOK BY DEF TypeIInv
<1> QED BY InitTypes, TypesKept, <1>1, PTL DEF Spec

----------------------------------------------------------------------------
(* The bounds: each root may cost one entry beyond MaxEntries *)

\* The roots entered so far account for what is beyond MaxEntries.
WithinBounds ==
  /\ scan.visited <= MaxEntries + scan.at
  /\ scan.phase = "walk" => scan.visited < MaxEntries + scan.at
  /\ Len(scan.files) <= request.scan_limit
  /\ scan.bytes <= MaxBytes

\* The numbers the bounds are about.
LEMMA BoundTypes ==
  ASSUME TypeIInv
  PROVE  /\ scan.visited \in Nat /\ scan.at \in Nat /\ scan.bytes \in Nat /\ scan.files \in Seq(Paths)
         /\ Len(scan.files) \in Nat /\ request.scan_limit \in Nat /\ MaxEntries \in Nat /\ MaxBytes \in Nat
         /\ scan.phase = "walk" => scan.at > 0
<1>1. scan.files \in Seq(Paths) BY DEF TypeIInv, ScanType
<1>2. request.scan_limit \in Nat BY RequestType
<1> QED BY <1>1, <1>2, BoundAssumption DEF TypeIInv, ScanType, PlaceInv

\* At the start nothing has been visited or read.
LEMMA InitBounds == Init => WithinBounds
<1> SUFFICES ASSUME Init PROVE WithinBounds OBVIOUS
<1>1. scan.visited = 0 /\ scan.at = 0 /\ scan.files = <<>> /\ scan.bytes = 0 /\ scan.phase = "idle"
  BY DEF Init, NewScan
<1>2. TypeIInv BY InitTypes
<1>3. Len(<<>>) = 0 OBVIOUS
<1> QED BY <1>1, <1>2, <1>3, BoundTypes DEF WithinBounds

\* The bounds are inductive: only the first entry beyond MaxEntries is counted, and it ends the walk of its root.
LEMMA BoundsKept == TypeIInv /\ WithinBounds /\ [Next]_vars => WithinBounds'
<1> SUFFICES ASSUME TypeIInv, WithinBounds, [Next]_vars PROVE WithinBounds' OBVIOUS
<1>1. /\ scan.visited \in Nat /\ scan.at \in Nat /\ scan.bytes \in Nat /\ scan.files \in Seq(Paths)
      /\ Len(scan.files) \in Nat /\ request.scan_limit \in Nat /\ MaxEntries \in Nat /\ MaxBytes \in Nat
      /\ scan.phase = "walk" => scan.at > 0
  BY BoundTypes
<1>2. CASE UNCHANGED <<scan, request>> BY <1>2 DEF WithinBounds
<1>3. CASE EnterRoot
  <2>1. PICK i \in RootsLeft : scan'.at = i BY <1>3, EnterRootEffect
  <2>2. /\ scan'.visited = scan.visited /\ scan'.files = scan.files /\ scan'.bytes = scan.bytes
        /\ request' = request
    BY <1>3, EnterRootEffect DEF Same, Scanning, Keep
  <2>3. scan'.at \in Nat /\ scan'.at > scan.at
    <3>1. scan.declared \subseteq Nat BY DEF TypeIInv, ScanType
    <3> QED BY <1>1, <2>1, <3>1 DEF RootsLeft
  <2> QED BY <1>1, <2>2, <2>3 DEF WithinBounds
<1>4. CASE RootsDone \/ FilesDone \/ TimePasses
  <2>1. /\ scan'.visited = scan.visited /\ scan'.files = scan.files /\ scan'.bytes = scan.bytes
        /\ scan'.at = scan.at /\ request' = request
        /\ scan'.phase = "walk" => scan.phase = "walk"
    BY <1>4, SmallEffects DEF Same, ScanFields, Scanning, Keep
  <2> QED BY <2>1 DEF WithinBounds
<1>5. CASE OpenDirectory
  <2>1. /\ scan'.visited = scan.visited /\ scan'.files = scan.files /\ scan'.bytes = scan.bytes
        /\ scan'.at = scan.at /\ request' = request /\ scan.phase = "walk"
    BY <1>5, OpenDirectoryEffect DEF Same, Scanning, Keep
  <2> QED BY <2>1 DEF WithinBounds
<1>6. CASE VisitEntry
  <2>1. scan'.bytes = scan.bytes /\ scan'.at = scan.at /\ request' = request /\ scan.phase = "walk"
    BY <1>6, VisitEntryEffect DEF Same, Scanning, Keep
  <2>2. \/ /\ scan'.phase = "files" /\ scan'.files = scan.files
           /\ scan'.visited \in {scan.visited, scan.visited + 1}
        \/ /\ scan'.phase = "walk" /\ scan'.visited <= MaxEntries /\ scan'.visited = scan.visited + 1
           /\ scan'.files = scan.files
              \/ \E e : scan'.files = Append(scan.files, e) /\ Len(scan.files) < request.scan_limit
    BY <1>6, VisitEntryEffect DEF Same
  <2>3. ASSUME NEW e, scan'.files = Append(scan.files, e), Len(scan.files) < request.scan_limit
        PROVE  Len(scan'.files) <= request.scan_limit
    BY <1>1, <2>3
  <2>4. Len(scan'.files) <= request.scan_limit BY <2>2, <2>3 DEF WithinBounds
  <2>5. scan.visited < MaxEntries + scan.at BY <2>1 DEF WithinBounds
  <2> QED BY <1>1, <2>1, <2>2, <2>4, <2>5 DEF WithinBounds
<1>7. CASE ReadFile
  <2>1. /\ scan'.visited = scan.visited /\ scan'.at = scan.at /\ request' = request
        /\ scan.phase = "files" /\ scan'.phase = "files" /\ scan.files # <<>>
        /\ scan'.files \in {<<>>, Tail(scan.files)}
        /\ scan'.bytes = scan.bytes \/ scan'.bytes <= MaxBytes
    BY <1>7, ReadFileEffect DEF Same, Scanning, Keep
  <2>2. Len(scan'.files) <= Len(scan.files)
    <3>1. Len(Tail(scan.files)) <= Len(scan.files) BY <1>1, <2>1, QueueEnds
    <3>2. Len(<<>>) = 0 OBVIOUS
    <3> QED BY <1>1, <2>1, <3>1, <3>2
  <2>3. scan' \in ScanType BY <1>7, ReadFileEffect DEF Scanning
  <2>4. Len(scan'.files) \in Nat
    <3>1. scan'.files \in Seq(Paths) BY <2>3 DEF ScanType
    <3> QED BY <3>1
  <2> QED BY <1>1, <2>1, <2>2, <2>4 DEF WithinBounds
<1>8. CASE Start \/ NextProvider
  <2>1. /\ Head(request.providers) \in STRING \ {"none"} /\ Last(request.providers) \in STRING \ {"none"}
    <3>1. DOMAIN request.providers = 1..Len(request.providers) /\ Len(request.providers) \in 1..2
      BY RequestType
    <3>2. 1 \in DOMAIN request.providers /\ Len(request.providers) \in DOMAIN request.providers BY <3>1
    <3> QED BY <3>2, RequestType
  <2>2. RootsOf \in SUBSET (DOMAIN request.roots) /\ scan.declared \in SUBSET (DOMAIN request.roots)
    BY DEF RootsOf, TypeIInv, TypeOK
  <2>3. /\ scan'.visited = 0 /\ scan'.at = 0 /\ scan'.files = <<>> /\ scan'.bytes = 0
        /\ scan'.phase = "root"
    BY <1>8, <2>1, <2>2, BeginEffect DEF Start, NextProvider
  <2>4. request' = request BY <1>8 DEF Start, NextProvider
  <2>5. Len(<<>>) = 0 OBVIOUS
  <2> QED BY <1>1, <2>3, <2>4, <2>5 DEF WithinBounds
<1>9. CASE ListAmbiguous \/ Listing \/ Resolve
  <2>1. scan' = [scan EXCEPT !.phase = "idle"] /\ request' = request
    BY <1>9, AnsweringEffect
  <2>2. /\ scan'.visited = scan.visited /\ scan'.files = scan.files /\ scan'.bytes = scan.bytes
        /\ scan'.at = scan.at /\ scan'.phase = "idle"
    BY <2>1 DEF TypeIInv, ScanType
  <2> QED BY <2>1, <2>2 DEF WithinBounds
<1>10. CASE Change BY <1>2, <1>10 DEF Change
<1>11. CASE UNCHANGED vars BY <1>2, <1>11 DEF vars
<1> QED BY <1>3, <1>4, <1>5, <1>6, <1>7, <1>8, <1>9, <1>10, <1>11 DEF Next, Scan

\* The scan keeps to its bounds, whatever the tree holds and whatever is done to it.
THEOREM CatalogBounds == Spec => []BoundsHeld
<1>1. TypeIInv /\ WithinBounds => BoundsHeld
  <2> SUFFICES ASSUME TypeIInv, WithinBounds PROVE BoundsHeld OBVIOUS
  <2>1. scan.at \in 0..Len(request.roots) /\ Len(request.roots) \in Nat BY RequestType DEF TypeIInv, TypeOK
  <2> QED BY <2>1, BoundTypes DEF WithinBounds, BoundsHeld
<1> QED BY InitTypes, InitBounds, TypesKept, BoundsKept, <1>1, PTL DEF Spec

----------------------------------------------------------------------------
(* Completeness: where a session in place may still be found *)

\* A scan has still to come to the path.
Waiting(p) ==
  \/ \E i \in RootsLeft : IsPrefix(request.roots[i], p)
  \/ \E d \in Range(scan.stack) : IsPrefix(d.dir, p)
  \/ \E e \in scan.entries : IsPrefix(e, p)
  \/ p \in Range(scan.files)

\* The file is among the candidates, unless the filter leaves it out.
Counted(candidates, p) == InDirectory(tree[p].file) => \E c \in candidates : c.path = p

\* While a scan runs, a session in place is still to come, or a candidate, or the scan is partial.
CoverInv ==
  scan.phase # "idle" =>
    scan.partial \/ \A p \in InPlace(scan.provider) : Waiting(p) \/ Counted(scan.candidates, p)

\* A file in place is below no root that was left out as absent.
DeclaredInv ==
  scan.provider # "none" =>
    \A p \in untouched : tree[p].kind = "file" =>
      \A i \in DOMAIN request.roots : IsPrefix(request.roots[i], p) => i \in scan.declared

\* The scan of the second provider finds what the first one left.
FirstInv ==
  scan.phase # "idle" /\ scan.provider = Last(request.providers) =>
    partial \/ \A i \in DOMAIN request.providers :
                 \/ request.providers[i] = Last(request.providers)
                 \/ \A p \in InPlace(request.providers[i]) : Counted(found, p)

ListingIInv == TypeIInv /\ CoverInv /\ DeclaredInv /\ FirstInv /\ ListingComplete

\* A file in place, and what leads to it.
LEMMA InPlaceFile ==
  ASSUME TypeIInv, NEW provider, NEW p \in InPlace(provider)
  PROVE  /\ p \in Paths /\ p \in untouched /\ tree[p].kind = "file" /\ Exists(p)
         /\ SessionId(tree[p].file, provider) # "none"
         /\ \E i \in DOMAIN request.roots : IsPrefix(request.roots[i], p)
         /\ \A q \in Paths : IsPrefix(q, p) => q = p \/ (p \in Below(q) /\ tree[q].kind \in Directories)
<1>1. /\ p \in Paths /\ p \in untouched /\ tree[p].kind = "file" /\ IsTree(tree)
      /\ SessionId(tree[p].file, provider) # "none"
      /\ \E i \in DOMAIN request.roots : IsPrefix(request.roots[i], p)
  BY DEF InPlace, TypeIInv, TypeOK
<1>2. \A q \in Paths : IsPrefix(q, p) => q = p \/ (p \in Below(q) /\ tree[q].kind \in Directories)
  BY <1>1 DEF Below, IsStrictPrefix, IsTree
<1> QED BY <1>1, <1>2 DEF Exists

\* What a queue holds after an element was added.
LEMMA RangeOfAppend ==
  ASSUME NEW S, NEW queue \in Seq(S), NEW e \in S
  PROVE  Range(Append(queue, e)) = Range(queue) \cup {e}
<1>1. /\ Len(queue) \in Nat /\ DOMAIN queue = 1..Len(queue)
      /\ DOMAIN Append(queue, e) = 1..Len(queue) + 1
      /\ \A i \in 1..Len(queue) : Append(queue, e)[i] = queue[i]
      /\ Append(queue, e)[Len(queue) + 1] = e
  OBVIOUS
<1>2. \A i \in 1..Len(queue) + 1 : i \in 1..Len(queue) \/ i = Len(queue) + 1 BY <1>1
<1>3. /\ 1..Len(queue) \subseteq 1..Len(queue) + 1 /\ Len(queue) + 1 \in 1..Len(queue) + 1 BY <1>1
<1> QED BY <1>1, <1>2, <1>3 DEF Range

\* A step of the scan keeps CoverInv if no path in place falls out of it.
LEMMA CoverByStep ==
  ASSUME TypeIInv, CoverInv, Scanning, scan.phase # "idle",
         ASSUME NEW p \in InPlace(scan.provider), ~scan'.partial, Waiting(p)
         PROVE  Waiting(p)' \/ Counted(scan'.candidates, p),
         scan.candidates \subseteq scan'.candidates
  PROVE  CoverInv'
<1>1. /\ UNCHANGED <<tree, untouched, request>> /\ scan'.provider = scan.provider
      /\ scan.partial => scan'.partial
  BY DEF Scanning, Keep, worldVars, Same
<1>2. InPlace(scan.provider)' = InPlace(scan.provider) BY <1>1 DEF InPlace
<1>3. \A p : Counted(scan.candidates, p)' <=> Counted(scan'.candidates, p)
  BY <1>1 DEF Counted, InDirectory
<1>4. ASSUME NEW p \in InPlace(scan.provider), ~scan'.partial
      PROVE  Waiting(p)' \/ Counted(scan'.candidates, p)
  <2>1. Waiting(p) \/ Counted(scan.candidates, p) BY <1>1, <1>4 DEF CoverInv
  <2>2. Counted(scan.candidates, p) => Counted(scan'.candidates, p) BY DEF Counted
  <2> QED BY <1>4, <2>1, <2>2
<1> QED BY <1>1, <1>2, <1>3, <1>4 DEF CoverInv

\* A file below the root that is entered is below the directory on the stack.
LEMMA EnterRootCover == TypeIInv /\ CoverInv /\ EnterRoot => CoverInv'
<1> SUFFICES ASSUME TypeIInv, CoverInv, EnterRoot PROVE CoverInv' OBVIOUS
<1>1. /\ Scanning /\ scan.phase = "root" /\ scan'.declared = scan.declared /\ request' = request
      /\ scan'.candidates = scan.candidates
  BY EnterRootEffect DEF Scanning, Same, Keep
<1>2. scan.stack = <<>> /\ scan.entries = {} /\ scan.files = <<>> BY <1>1 DEF TypeIInv, PlaceInv
<1>3. PICK i \in RootsLeft :
        /\ scan'.at = i /\ \A j \in RootsLeft : i <= j
        /\ scan'.stack = <<[dir |-> request.roots[i], depth |-> 0]>> \/ scan'.partial
  BY EnterRootEffect
<1>4. scan.declared \subseteq Nat /\ scan.at \in Nat BY DEF TypeIInv, ScanType
<1>5. ASSUME NEW p \in InPlace(scan.provider), ~scan'.partial, Waiting(p) PROVE Waiting(p)'
  <2>1. PICK j \in RootsLeft : IsPrefix(request.roots[j], p) BY <1>2, <1>5 DEF Waiting, Range
  <2>2. CASE j # i
    <3>1. j > i BY <1>3, <1>4, <2>1, <2>2 DEF RootsLeft
    <3>2. j \in RootsLeft' BY <1>1, <1>3, <3>1 DEF RootsLeft
    <3> QED BY <1>1, <2>1, <3>2 DEF Waiting
  <2>3. CASE j = i
    <3> DEFINE d == [dir |-> request.roots[i], depth |-> 0]
    <3>1. scan'.stack = <<d>> BY <1>3, <1>5
    <3>2. d \in Range(scan'.stack) /\ d.dir = request.roots[i] BY <3>1 DEF Range
    <3> QED BY <2>1, <2>3, <3>2 DEF Waiting
  <2> QED BY <2>2, <2>3
<1> QED BY <1>1, <1>5, CoverByStep

\* A file below the directory that is opened is at or below one of its entries.
LEMMA OpenDirectoryCover == TypeIInv /\ CoverInv /\ OpenDirectory => CoverInv'
<1> SUFFICES ASSUME TypeIInv, CoverInv, OpenDirectory PROVE CoverInv' OBVIOUS
<1>1. /\ Scanning /\ scan.phase = "walk" /\ scan.entries = {} /\ request' = request
      /\ scan'.declared = scan.declared /\ scan'.at = scan.at
      /\ scan'.files = scan.files /\ scan'.candidates = scan.candidates
  BY OpenDirectoryEffect DEF Scanning, Same, Keep
<1>2. RootsLeft' = RootsLeft BY <1>1 DEF RootsLeft
<1>3. ASSUME NEW p \in InPlace(scan.provider), ~scan'.partial, Waiting(p) PROVE Waiting(p)'
  <2>1. CASE \E i \in RootsLeft : IsPrefix(request.roots[i], p) BY <1>1, <1>2, <2>1 DEF Waiting
  <2>2. CASE p \in Range(scan.files) BY <1>1, <2>2 DEF Waiting
  <2>3. CASE \E d \in Range(scan.stack) : IsPrefix(d.dir, p)
    <3>1. PICK d \in Range(scan.stack) : IsPrefix(d.dir, p) BY <2>3
    <3>2. scan.stack # <<>> BY <3>1 DEF Range
    <3> DEFINE top == Last(scan.stack)
    <3>3. /\ scan'.stack = Front(scan.stack) /\ tree[top.dir].kind = "dir"
          /\ \A q \in Inside(top.dir) : Exists(q) => q \in scan'.entries
      BY <1>3, <3>2, OpenDirectoryEffect
    <3>4. scan.stack \in Seq(PendingType) BY DEF TypeIInv, ScanType
    <3>5. (d = top \/ d \in Range(scan'.stack)) /\ top \in PendingType BY <3>1, <3>2, <3>3, <3>4, StackEnds
    <3>6. CASE d \in Range(scan'.stack) BY <3>1, <3>6 DEF Waiting
    <3>7. CASE d = top
      <4>1. top.dir \in Paths BY <3>5 DEF PendingType
      <4>2. p \in Below(top.dir) BY <1>3, <3>1, <3>3, <3>7, <4>1, InPlaceFile
      <4>3. PICK r \in Inside(top.dir) : IsPrefix(r, p) BY <4>1, <4>2, EntryTowards
      <4>4. r \in Paths BY <4>3 DEF Inside, Below
      <4>5. Exists(r) BY <1>3, <4>3, <4>4, InPlaceFile DEF Exists, Directories
      <4>6. r \in scan'.entries BY <3>3, <4>3, <4>5
      <4> QED BY <4>3, <4>6 DEF Waiting
    <3> QED BY <3>5, <3>6, <3>7
  <2> QED BY <1>1, <1>3, <2>1, <2>2, <2>3 DEF Waiting
<1> QED BY <1>1, <1>3, CoverByStep

\* A file at or below the entry that is visited is among the files or below the stack.
LEMMA VisitEntryCover == TypeIInv /\ CoverInv /\ VisitEntry => CoverInv'
<1> SUFFICES ASSUME TypeIInv, CoverInv, VisitEntry PROVE CoverInv' OBVIOUS
<1>1. /\ Scanning /\ scan.phase = "walk" /\ request' = request
      /\ scan'.declared = scan.declared /\ scan'.at = scan.at /\ scan'.candidates = scan.candidates
  BY VisitEntryEffect DEF Scanning, Same, Keep
<1>2. RootsLeft' = RootsLeft BY <1>1 DEF RootsLeft
<1>3. ASSUME NEW p \in InPlace(scan.provider), ~scan'.partial, Waiting(p) PROVE Waiting(p)'
  <2>1. PICK e \in scan.entries :
          /\ scan'.entries = scan.entries \ {e}
          /\ \/ /\ tree[e].kind \in Directories /\ scan'.files = scan.files
                /\ scan'.stack = Append(scan.stack, [dir |-> e, depth |-> scan.depth + 1])
             \/ /\ tree[e].kind = "file" /\ scan'.stack = scan.stack
                /\ scan'.files = Append(scan.files, e)
    BY <1>3, VisitEntryEffect DEF Same
  <2>2. e \in Paths /\ scan.stack \in Seq(PendingType) /\ scan.files \in Seq(Paths) /\ scan.depth \in Nat
    BY DEF TypeIInv, ScanType
  <2> DEFINE d == [dir |-> e, depth |-> scan.depth + 1]
  <2>3. d \in PendingType /\ d.dir = e BY <2>2 DEF PendingType
  <2>4. /\ Range(Append(scan.stack, d)) = Range(scan.stack) \cup {d}
        /\ Range(Append(scan.files, e)) = Range(scan.files) \cup {e}
    BY <2>2, <2>3, RangeOfAppend
  <2>5. Range(scan.stack) \subseteq Range(scan'.stack) /\ Range(scan.files) \subseteq Range(scan'.files)
    BY <2>1, <2>4
  <2>6. CASE IsPrefix(e, p)
    <3>1. CASE tree[e].kind \in Directories
      <4>1. scan'.stack = Append(scan.stack, d) BY <2>1, <3>1 DEF Directories
      <4>2. d \in Range(scan'.stack) BY <2>4, <4>1
      <4> QED BY <2>3, <2>6, <4>2 DEF Waiting
    <3>2. CASE tree[e].kind = "file"
      <4>1. scan'.files = Append(scan.files, e) BY <2>1, <3>2 DEF Directories
      <4>2. e = p BY <1>3, <2>2, <2>6, <3>2, InPlaceFile DEF Directories
      <4> QED BY <2>4, <4>1, <4>2 DEF Waiting
    <3> QED BY <2>1, <3>1, <3>2
  <2>7. CASE ~IsPrefix(e, p)
    <3>1. CASE \E i \in RootsLeft : IsPrefix(request.roots[i], p) BY <1>1, <1>2, <3>1 DEF Waiting
    <3>2. CASE \E x \in Range(scan.stack) : IsPrefix(x.dir, p) BY <2>5, <3>2 DEF Waiting
    <3>3. CASE \E x \in scan.entries : IsPrefix(x, p) BY <2>1, <2>7, <3>3 DEF Waiting
    <3>4. CASE p \in Range(scan.files) BY <2>5, <3>4 DEF Waiting
    <3> QED BY <1>3, <3>1, <3>2, <3>3, <3>4 DEF Waiting
  <2> QED BY <2>6, <2>7
<1> QED BY <1>1, <1>3, CoverByStep

\* The file that is read is a candidate.
LEMMA ReadFileCover == TypeIInv /\ CoverInv /\ ReadFile => CoverInv'
<1> SUFFICES ASSUME TypeIInv, CoverInv, ReadFile PROVE CoverInv' OBVIOUS
<1>1. /\ Scanning /\ scan.phase = "files" /\ scan.files # <<>> /\ request' = request
      /\ scan'.declared = scan.declared /\ scan'.at = scan.at /\ scan'.stack = scan.stack
      /\ scan'.entries = scan.entries
  BY ReadFileEffect DEF Scanning, Same, Keep
<1>2. RootsLeft' = RootsLeft BY <1>1 DEF RootsLeft
<1> DEFINE head == Head(scan.files)
           id == SessionId(tree[head].file, scan.provider)
<1>3. scan.candidates \subseteq scan'.candidates BY ReadFileEffect DEF Same
<1>4. ASSUME NEW p \in InPlace(scan.provider), ~scan'.partial, Waiting(p)
      PROVE  Waiting(p)' \/ Counted(scan'.candidates, p)
  <2>1. /\ scan'.files = Tail(scan.files)
        /\ id # "none" /\ InDirectory(tree[head].file) =>
             [path |-> head, id |-> id, epoch |-> tree[head].file.epoch] \in scan'.candidates
    BY <1>4, ReadFileEffect
  <2>2. scan.files \in Seq(Paths) BY DEF TypeIInv, ScanType
  <2>3. CASE p = head
    <3>1. id # "none" BY <1>4, <2>3, InPlaceFile
    <3>2. InDirectory(tree[p].file) => \E c \in scan'.candidates : c.path = p BY <2>1, <2>3, <3>1
    <3> QED BY <3>2 DEF Counted
  <2>4. CASE p # head
    <3>1. p \in Range(scan.files) => p \in Range(scan'.files) BY <1>1, <2>1, <2>2, <2>4, QueueEnds
    <3> QED BY <1>1, <1>2, <1>4, <3>1 DEF Waiting
  <2> QED BY <2>3, <2>4
<1> QED BY <1>1, <1>3, <1>4, CoverByStep

\* The other steps of a scan leave where files wait alone.
LEMMA SmallCover == TypeIInv /\ CoverInv /\ (RootsDone \/ FilesDone \/ TimePasses) => CoverInv'
<1> SUFFICES ASSUME TypeIInv, CoverInv, RootsDone \/ FilesDone \/ TimePasses PROVE CoverInv' OBVIOUS
<1>1. Scanning /\ scan.phase # "idle" BY SmallEffects DEF TimePasses
<1>2. /\ scan'.declared = scan.declared /\ scan'.at = scan.at /\ scan'.stack = scan.stack
      /\ scan'.entries = scan.entries /\ scan'.files = scan.files
      /\ scan'.candidates = scan.candidates /\ request' = request
  BY SmallEffects DEF Same, ScanFields, Scanning, Keep
<1>3. \A p : Waiting(p)' <=> Waiting(p) BY <1>2 DEF Waiting, RootsLeft
<1> QED BY <1>1, <1>2, <1>3, CoverByStep

\* When a scan begins, each file in place is behind a root it will come to.
LEMMA BeginCover ==
  ASSUME TypeIInv, NEW provider \in STRING \ {"none"}, NEW declared \in SUBSET (DOMAIN request.roots),
         scan' = NewScan(provider, declared), UNCHANGED <<tree, untouched, request>>,
         \A p \in untouched : tree[p].kind = "file" =>
           \A i \in DOMAIN request.roots : IsPrefix(request.roots[i], p) => i \in declared
  PROVE  CoverInv'
<1>1. scan'.declared = declared /\ scan'.at = 0 /\ scan'.provider = provider BY BeginEffect
<1>2. InPlace(provider)' = InPlace(provider) BY DEF InPlace
<1>3. ASSUME NEW p \in InPlace(provider) PROVE Waiting(p)'
  <2>1. PICK i \in DOMAIN request.roots : IsPrefix(request.roots[i], p) BY InPlaceFile
  <2>2. i \in declared BY <2>1, InPlaceFile
  <2>3. i \in Nat /\ i > 0 BY RequestType
  <2>4. i \in RootsLeft' BY <1>1, <2>2, <2>3 DEF RootsLeft
  <2> QED BY <2>1, <2>4 DEF Waiting
<1> QED BY <1>1, <1>2, <1>3 DEF CoverInv

\* When the command begins, the roots that exist are declared.
LEMMA StartListing == ListingIInv /\ Start => CoverInv' /\ DeclaredInv' /\ FirstInv' /\ ListingComplete'
<1> SUFFICES ASSUME ListingIInv, Start
             PROVE  CoverInv' /\ DeclaredInv' /\ FirstInv' /\ ListingComplete'
  OBVIOUS
<1> DEFINE provider == Head(request.providers)
<1>1. /\ TypeIInv /\ answer' = NoAnswer /\ scan' = NewScan(provider, RootsOf)
      /\ UNCHANGED <<tree, untouched, request, found, partial>>
  BY DEF ListingIInv, Start, worldVars
<1>2. provider \in STRING \ {"none"} /\ provider = request.providers[1]
  <2>1. 1 \in DOMAIN request.providers
    <3>1. DOMAIN request.providers = 1..Len(request.providers) /\ Len(request.providers) \in 1..2
      BY <1>1, RequestType
    <3> QED BY <3>1
  <2> QED BY <1>1, <2>1, RequestType
<1>3. RootsOf \in SUBSET (DOMAIN request.roots) BY DEF RootsOf
<1>4. ASSUME NEW p \in untouched, tree[p].kind = "file",
             NEW i \in DOMAIN request.roots, IsPrefix(request.roots[i], p)
      PROVE  i \in RootsOf
  <2>1. p \in Paths /\ IsTree(tree) BY <1>1 DEF TypeIInv, TypeOK
  <2>2. request.roots[i] \in Paths BY <1>1, RequestType
  <2>3. tree[request.roots[i]].kind # "none"
    <3>1. CASE request.roots[i] = p BY <1>4, <3>1
    <3>2. CASE request.roots[i] # p
      <4>1. p \in Below(request.roots[i]) BY <1>4, <2>1, <3>2 DEF Below, IsStrictPrefix
      <4> QED BY <1>4, <2>1, <2>2, <4>1 DEF IsTree, Directories
    <3> QED BY <3>1, <3>2
  <2> QED BY <2>3 DEF RootsOf, Exists
<1>5. CoverInv' BY <1>1, <1>2, <1>3, <1>4, BeginCover
<1>6. scan'.declared = RootsOf /\ scan'.provider = provider BY <1>1, <1>2, <1>3, BeginEffect
<1>7. DeclaredInv' BY <1>1, <1>4, <1>6 DEF DeclaredInv
<1>8. FirstInv'
  <2> SUFFICES ASSUME provider = Last(request.providers)
               PROVE  \A i \in DOMAIN request.providers : request.providers[i] = Last(request.providers)
    BY <1>1, <1>6 DEF FirstInv
  <2>1. /\ DOMAIN request.providers = 1..Len(request.providers) /\ Len(request.providers) \in 1..2
        /\ Last(request.providers) = request.providers[Len(request.providers)]
    BY <1>1, RequestType
  <2>2. \A i \in DOMAIN request.providers : i = 1 \/ i = Len(request.providers) BY <2>1
  <2> QED BY <1>2, <2>1, <2>2
<1>9. ListingComplete' BY <1>1 DEF ListingComplete, NoAnswer
<1> QED BY <1>5, <1>7, <1>8, <1>9

\* What a finished scan has found.
LEMMA ScanFinds ==
  ASSUME TypeIInv, CoverInv, scan.phase = "end", ~scan.partial
  PROVE  \A p \in InPlace(scan.provider) : Counted(scan.candidates, p)
<1>1. scan.stack = <<>> /\ scan.entries = {} /\ scan.files = <<>> /\ RootsLeft = {}
  BY DEF TypeIInv, PlaceInv
<1>2. \A p : ~Waiting(p) BY <1>1 DEF Waiting, Range
<1> QED BY <1>2 DEF CoverInv

\* What the first provider left is in `found`.
LEMMA NextProviderListing ==
  ListingIInv /\ NextProvider => CoverInv' /\ DeclaredInv' /\ FirstInv' /\ ListingComplete'
<1> SUFFICES ASSUME ListingIInv, NextProvider
             PROVE  CoverInv' /\ DeclaredInv' /\ FirstInv' /\ ListingComplete'
  OBVIOUS
<1> DEFINE provider == Last(request.providers)
<1>1. /\ TypeIInv /\ scan.phase = "end" /\ scan' = NewScan(provider, scan.declared)
      /\ UNCHANGED <<tree, untouched, request, answer>> /\ scan.provider # provider
      /\ found' = found \cup scan.candidates /\ partial' = (partial \/ scan.partial)
  BY DEF ListingIInv, NextProvider, worldVars
<1>2. /\ DOMAIN request.providers = 1..Len(request.providers) /\ Len(request.providers) \in 1..2
      /\ provider = request.providers[Len(request.providers)]
      /\ request.providers \in Seq(STRING \ {"none"})
  BY <1>1, RequestType
<1>3. provider \in STRING \ {"none"}
  <2>1. Len(request.providers) \in DOMAIN request.providers BY <1>2
  <2>2. \A i \in DOMAIN request.providers : request.providers[i] \in STRING \ {"none"} BY <1>2
  <2> QED BY <1>2, <2>1, <2>2
<1>4. /\ scan.declared \in SUBSET (DOMAIN request.roots) /\ answer = NoAnswer
      /\ \E i \in DOMAIN request.providers : scan.provider = request.providers[i]
  BY <1>1 DEF TypeIInv, TypeOK, PlaceInv
<1>5. scan.provider # "none" BY <1>2, <1>4
<1>6. \A p \in untouched : tree[p].kind = "file" =>
        \A i \in DOMAIN request.roots : IsPrefix(request.roots[i], p) => i \in scan.declared
  BY <1>5 DEF ListingIInv, DeclaredInv
<1>7. CoverInv' BY <1>1, <1>3, <1>4, <1>6, BeginCover
<1>8. scan'.declared = scan.declared /\ scan'.provider = provider BY <1>1, <1>3, <1>4, BeginEffect
<1>9. DeclaredInv' BY <1>1, <1>6, <1>8 DEF DeclaredInv
<1>10. FirstInv'
  <2>1. ASSUME ~partial', NEW i \in DOMAIN request.providers, request.providers[i] # provider,
               NEW p \in InPlace(request.providers[i])
        PROVE  Counted(found, p)'
    <3>1. request.providers[i] = scan.provider
      <4>1. PICK j \in DOMAIN request.providers : scan.provider = request.providers[j] BY <1>4
      <4>2. i # Len(request.providers) /\ j # Len(request.providers) BY <1>1, <1>2, <2>1, <4>1
      <4>3. i = 1 /\ j = 1 BY <1>2, <4>2
      <4> QED BY <4>1, <4>3
    <3>2. ~scan.partial BY <1>1, <2>1
    <3>3. Counted(scan.candidates, p) BY <1>1, <2>1, <3>1, <3>2, ScanFinds DEF ListingIInv
    <3> QED BY <1>1, <3>3 DEF Counted, InDirectory
  <2>2. \A i : InPlace(request.providers[i])' = InPlace(request.providers[i]) BY <1>1 DEF InPlace
  <2> QED BY <1>1, <2>1, <2>2 DEF FirstInv
<1>11. ListingComplete' BY <1>1, <1>4 DEF ListingComplete, NoAnswer
<1> QED BY <1>7, <1>9, <1>10, <1>11

\* A sequence that holds as many different elements of a set as there are holds them all.
LEMMA SequenceOfAll ==
  ASSUME NEW S, IsFiniteSet(S), NEW s \in SetToSeqs(S)
  PROVE  /\ s \in Seq(S) /\ DOMAIN s = 1..Len(s) /\ Len(s) \in Nat
         /\ \A c \in S : \E k \in 1..Len(s) : s[k] = c
<1> DEFINE n == Cardinality(S)
<1>1. n \in Nat BY FS_CardinalityType
<1>2. s \in [1..n -> S] /\ \A i, j \in 1..n : i # j => s[i] # s[j] BY DEF SetToSeqs
<1>3. IsFiniteSet(1..n) /\ Cardinality(1..n) = n
  <2>1. 1 \in Int /\ n \in Int BY <1>1
  <2>2. IsFiniteSet(1..n) /\ Cardinality(1..n) = IF 1 > n THEN 0 ELSE n - 1 + 1
    BY ONLY <2>1, FS_Interval
  <2> QED BY <1>1, <2>2
<1>4. ASSUME NEW c \in S, \A k \in 1..n : s[k] # c PROVE FALSE
  <2>1. IsFiniteSet(S \ {c}) /\ Cardinality(S \ {c}) = n - 1 BY <1>4, FS_RemoveElement
  <2>2. s \in [1..n -> S \ {c}] BY <1>2, <1>4
  <2>3. Cardinality(S \ {c}) < Cardinality(1..n) BY <1>1, <1>3, <2>1
  <2>4. \E i, j \in 1..n : i # j /\ s[i] = s[j]
    <3> HIDE DEF n
    <3> QED BY <1>3, <2>1, <2>2, <2>3, FS_PigeonHole
  <2> QED BY <1>2, <2>4
<1> HIDE DEF n
<1>5. s \in Seq(S) /\ Len(s) = n /\ DOMAIN s = 1..n BY <1>1, <1>2
<1> QED BY <1>1, <1>4, <1>5

\* The newest first, and of those the first n.
LEMMA ShownNewest ==
  ASSUME NEW all \in SUBSET CandidateType, IsFiniteSet(all), NEW s \in NewestFirst(all),
         NEW n \in 0..Len(s), NEW c \in all
  PROVE  LET shown == SubSeq(s, 1, n) IN
         c \in Range(shown) \/ \A i \in DOMAIN shown : shown[i].epoch >= c.epoch
<1> DEFINE shown == SubSeq(s, 1, n)
<1>1. s \in SetToSeqs(all) /\ \A i, j \in DOMAIN s : i < j => s[i].epoch >= s[j].epoch BY DEF NewestFirst
<1>2. /\ s \in Seq(all) /\ DOMAIN s = 1..Len(s) /\ Len(s) \in Nat
      /\ \E k \in 1..Len(s) : s[k] = c
  BY <1>1, SequenceOfAll
<1>3. PICK k \in 1..Len(s) : s[k] = c BY <1>2
<1>4. n \in Nat /\ n <= Len(s) /\ 1..n \subseteq DOMAIN s BY <1>2
<1>5. DOMAIN shown = 1..n /\ \A i \in 1..n : shown[i] = s[i] BY <1>2, <1>4
<1>6. CASE k <= n
  <2>1. k \in 1..n BY <1>2, <1>4, <1>6
  <2> QED BY <1>3, <1>5, <2>1 DEF Range
<1>7. CASE k > n
  <2>1. \A i \in 1..n : i < k BY <1>4, <1>7
  <2>2. \A i \in 1..n : s[i].epoch >= c.epoch BY <1>1, <1>2, <1>3, <1>4, <2>1
  <2> QED BY <1>5, <2>2
<1> QED BY <1>4, <1>6, <1>7

\* A listing that says ok is the union of two scans that were not partial.
LEMMA AnsweringListing ==
  ListingIInv /\ (ListAmbiguous \/ Listing \/ Resolve)
    => CoverInv' /\ DeclaredInv' /\ FirstInv' /\ ListingComplete'
<1> SUFFICES ASSUME ListingIInv, ListAmbiguous \/ Listing \/ Resolve
             PROVE  CoverInv' /\ DeclaredInv' /\ FirstInv' /\ ListingComplete'
  OBVIOUS
<1>1. TypeIInv BY DEF ListingIInv
<1>2. /\ scan.phase = "end" /\ scan' = [scan EXCEPT !.phase = "idle"]
      /\ UNCHANGED <<tree, untouched, request, found, partial>>
  BY <1>1, AnsweringEffect
<1>3. scan'.phase = "idle" /\ scan'.provider = scan.provider /\ scan'.declared = scan.declared
  BY <1>1, <1>2 DEF TypeIInv, ScanType
<1>4. CoverInv' /\ FirstInv' BY <1>3 DEF CoverInv, FirstInv
<1>5. DeclaredInv' BY <1>2, <1>3 DEF ListingIInv, DeclaredInv
<1>6. CASE ListAmbiguous
  <2>1. answer'.kind = "ambiguous" BY <1>6 DEF ListAmbiguous, Answer
  <2> QED BY <1>4, <1>5, <2>1 DEF ListingComplete
<1>7. CASE Resolve
  <2>1. answer'.kind \in {"incomplete", "not_found", "found", "ambiguous"}
    BY <1>1, <1>7, ResolveEffect DEF Answer
  <2> QED BY <1>4, <1>5, <2>1 DEF ListingComplete
<1>8. CASE Listing
  <2> DEFINE all == found \cup scan.candidates
             kind == IF partial \/ scan.partial THEN "partial" ELSE "ok"
  <2>1. PICK s \in NewestFirst(all) :
          \E n \in 0..(IF request.limit < Len(s) THEN request.limit ELSE Len(s)) :
            Answer(kind, SubSeq(s, 1, n), all, <<>>)
    BY <1>8 DEF Listing
  <2>2. PICK n \in 0..(IF request.limit < Len(s) THEN request.limit ELSE Len(s)) :
          Answer(kind, SubSeq(s, 1, n), all, <<>>)
    BY <2>1
  <2>3. all \in SUBSET CandidateType /\ IsFiniteSet(all)
    BY <1>1, FS_Union DEF TypeIInv, ScanType
  <2>4. /\ answer'.kind = kind /\ answer'.shown = SubSeq(s, 1, n) /\ answer'.candidates = all
    BY <2>2 DEF Answer
  <2>5. n \in 0..Len(s)
    <3>1. s \in SetToSeqs(all) BY DEF NewestFirst
    <3>2. Len(s) \in Nat /\ request.limit \in Nat BY <1>1, <2>3, <3>1, SequenceOfAll, RequestType
    <3> QED BY <3>2
  <2>6. scan.provider = Last(request.providers) BY <1>8 DEF Listing
  <2>7. ASSUME answer'.kind = "ok", NEW i \in DOMAIN request.providers,
               NEW p \in InPlace(request.providers[i])
        PROVE  Counted(all, p)
    <3>1. ~partial /\ ~scan.partial BY <2>4, <2>7
    <3>2. CASE request.providers[i] = Last(request.providers)
      <4>1. Counted(scan.candidates, p)
        BY <1>1, <1>2, <2>6, <2>7, <3>1, <3>2, ScanFinds DEF ListingIInv
      <4> QED BY <4>1 DEF Counted
    <3>3. CASE request.providers[i] # Last(request.providers)
      <4>1. Counted(found, p) BY <1>2, <2>6, <2>7, <3>1, <3>3 DEF ListingIInv, FirstInv
      <4> QED BY <4>1 DEF Counted
    <3> QED BY <3>2, <3>3
  <2>8. \A i : InPlace(request.providers[i])' = InPlace(request.providers[i]) BY <1>2 DEF InPlace
  <2>9. \A c \in all : \/ c \in Range(answer'.shown)
                       \/ \A i \in DOMAIN answer'.shown : answer'.shown[i].epoch >= c.epoch
    BY <2>3, <2>4, <2>5, ShownNewest
  <2>10. \A p : InDirectory(tree[p].file)' <=> InDirectory(tree[p].file) BY <1>2 DEF InDirectory
  <2>11. answer'.kind = "ok" =>
           \A i \in DOMAIN request.providers : \A p \in InPlace(request.providers[i])' :
             InDirectory(tree[p].file)' => \E c \in answer'.candidates : c.path = p
    BY <2>4, <2>7, <2>8, <2>10 DEF Counted
  <2>12. ListingComplete' BY <1>2, <2>4, <2>9, <2>11 DEF ListingComplete
  <2> QED BY <1>4, <1>5, <2>12
<1> QED BY <1>6, <1>7, <1>8

\* What another process does takes files out of place and leaves the others as they were.
LEMMA ChangeInPlace ==
  ASSUME TypeIInv, Change, scan.provider # "none"
  PROVE  /\ UNCHANGED <<request, scan, found, partial, answer>>
         /\ \A provider : InPlace(provider)' \subseteq InPlace(provider)
         /\ \A p \in untouched' : p \in untouched /\ tree'[p] = tree[p]
<1>1. UNCHANGED <<request, scan, found, partial, answer>> BY DEF Change
<1>2. \A p \in untouched' : p \in untouched /\ tree'[p] = tree[p] BY ChangeTree
<1>3. \A provider : InPlace(provider)' \subseteq InPlace(provider) BY <1>1, <1>2 DEF InPlace
<1> QED BY <1>1, <1>2, <1>3

\* A file that was touched is no longer in place, so nothing is owed about it.
LEMMA ChangeListing ==
  ListingIInv /\ Change => CoverInv' /\ DeclaredInv' /\ FirstInv' /\ ListingComplete'
<1> SUFFICES ASSUME ListingIInv, Change
             PROVE  CoverInv' /\ DeclaredInv' /\ FirstInv' /\ ListingComplete'
  OBVIOUS
<1>1. TypeIInv BY DEF ListingIInv
<1>2. UNCHANGED <<request, scan, found, partial, answer>> BY DEF Change
<1>3. CASE scan.provider = "none"
  <2>1. scan.phase = "idle" /\ answer = NoAnswer
    <3>1. scan.phase = "idle" BY <1>1, <1>3, RequestType DEF TypeIInv, PlaceInv
    <3> QED BY <1>1, <1>3, <3>1 DEF TypeIInv, PlaceInv
  <2> QED BY <1>2, <1>3, <2>1 DEF CoverInv, DeclaredInv, FirstInv, ListingComplete, NoAnswer
<1>4. CASE scan.provider # "none"
  <2>1. \A provider : InPlace(provider)' \subseteq InPlace(provider) BY <1>1, <1>4, ChangeInPlace
  <2>2. \A p \in untouched' : p \in untouched /\ tree'[p] = tree[p] BY <1>1, <1>4, ChangeInPlace
  <2>3. \A provider : \A p \in InPlace(provider)' : tree'[p] = tree[p] BY <2>2 DEF InPlace
  <2>4. \A p : Waiting(p)' <=> Waiting(p) BY <1>2 DEF Waiting, RootsLeft
  <2>5. \A provider : \A p \in InPlace(provider)' :
          /\ InDirectory(tree[p].file)' <=> InDirectory(tree[p].file)
          /\ Counted(scan.candidates, p)' <=> Counted(scan.candidates, p)
          /\ Counted(found, p)' <=> Counted(found, p)
    BY <1>2, <2>3 DEF Counted, InDirectory
  <2>6. CoverInv' BY <1>2, <2>1, <2>4, <2>5 DEF ListingIInv, CoverInv
  <2>7. DeclaredInv' BY <1>2, <2>2 DEF ListingIInv, DeclaredInv
  <2>8. FirstInv' BY <1>2, <2>1, <2>5 DEF ListingIInv, FirstInv
  <2>9. ListingComplete' BY <1>2, <2>1, <2>5 DEF ListingIInv, ListingComplete
  <2> QED BY <2>6, <2>7, <2>8, <2>9
<1> QED BY <1>3, <1>4

\* The steps of a scan touch neither the answer nor what is in place.
LEMMA ScanListing ==
  ListingIInv /\ (EnterRoot \/ RootsDone \/ OpenDirectory \/ VisitEntry \/ ReadFile \/ FilesDone \/ TimePasses)
    => CoverInv' /\ DeclaredInv' /\ FirstInv' /\ ListingComplete'
<1> SUFFICES ASSUME ListingIInv,
                    EnterRoot \/ RootsDone \/ OpenDirectory \/ VisitEntry \/ ReadFile \/ FilesDone \/ TimePasses
             PROVE  CoverInv' /\ DeclaredInv' /\ FirstInv' /\ ListingComplete'
  OBVIOUS
<1>1. TypeIInv /\ CoverInv BY DEF ListingIInv
<1>2. CoverInv'
  BY <1>1, EnterRootCover, OpenDirectoryCover, VisitEntryCover, ReadFileCover, SmallCover
<1>3. Scanning /\ scan.phase # "idle"
  BY <1>1, EnterRootEffect, OpenDirectoryEffect, VisitEntryEffect, ReadFileEffect, SmallEffects DEF TimePasses
<1>4. /\ UNCHANGED <<tree, untouched, request, found, partial, answer>>
      /\ scan'.provider = scan.provider /\ scan'.declared = scan.declared
  BY <1>3 DEF Scanning, Same, Keep, worldVars
<1>5. \A provider : InPlace(provider)' = InPlace(provider) BY <1>4 DEF InPlace
<1>6. \A p : InDirectory(tree[p].file)' <=> InDirectory(tree[p].file) BY <1>4 DEF InDirectory
<1>7. \A p : Counted(found, p)' <=> Counted(found, p) BY <1>4, <1>6 DEF Counted
<1>8. DeclaredInv' BY <1>4 DEF ListingIInv, DeclaredInv
<1>9. FirstInv' BY <1>3, <1>4, <1>5, <1>7 DEF ListingIInv, FirstInv
<1>10. ListingComplete' BY <1>4, <1>5, <1>6 DEF ListingIInv, ListingComplete
<1> QED BY <1>2, <1>8, <1>9, <1>10

\* Nothing changes when nothing happens.
LEMMA StutterListing ==
  ListingIInv /\ UNCHANGED vars => CoverInv' /\ DeclaredInv' /\ FirstInv' /\ ListingComplete'
<1> SUFFICES ASSUME ListingIInv, UNCHANGED vars
             PROVE  CoverInv' /\ DeclaredInv' /\ FirstInv' /\ ListingComplete'
  OBVIOUS
<1>1. UNCHANGED <<tree, untouched, request, scan, found, partial, answer>> BY DEF vars, worldVars
<1>2. \A provider : InPlace(provider)' = InPlace(provider) BY <1>1 DEF InPlace
<1>3. \A p : /\ InDirectory(tree[p].file)' <=> InDirectory(tree[p].file)
             /\ Waiting(p)' <=> Waiting(p)
  BY <1>1 DEF InDirectory, Waiting, RootsLeft
<1>4. \A p : /\ Counted(found, p)' <=> Counted(found, p)
             /\ Counted(scan.candidates, p)' <=> Counted(scan.candidates, p)
  BY <1>1, <1>3 DEF Counted
<1>5. CoverInv' BY <1>1, <1>2, <1>3, <1>4 DEF ListingIInv, CoverInv
<1>6. DeclaredInv' BY <1>1 DEF ListingIInv, DeclaredInv
<1>7. FirstInv' BY <1>1, <1>2, <1>4 DEF ListingIInv, FirstInv
<1>8. ListingComplete' BY <1>1, <1>2, <1>3 DEF ListingIInv, ListingComplete
<1> QED BY <1>5, <1>6, <1>7, <1>8

\* Before the command begins there is nothing to cover.
LEMMA InitListing == Init => ListingIInv
<1> SUFFICES ASSUME Init PROVE ListingIInv OBVIOUS
<1>1. scan.phase = "idle" /\ scan.provider = "none" /\ answer.kind = "none"
  BY DEF Init, NewScan, NoAnswer
<1> QED BY <1>1, InitTypes DEF ListingIInv, CoverInv, DeclaredInv, FirstInv, ListingComplete

\* ListingIInv is inductive.
LEMMA ListingKept == ListingIInv /\ [Next]_vars => ListingIInv'
BY TypesKept, ScanListing, StartListing, NextProviderListing, AnsweringListing, ChangeListing,
   StutterListing
   DEF ListingIInv, Next, Scan

\* A listing that says it is complete is: for every tree, whatever is done to it while it is
\* scanned, and whichever of the bounds the scan meets.
THEOREM CatalogListingComplete == Spec => []ListingComplete
<1>1. ListingIInv => ListingComplete BY DEF ListingIInv
<1> QED BY InitListing, ListingKept, <1>1, PTL DEF Spec

----------------------------------------------------------------------------
(* Resolution: a candidate is a session file below a root *)

Rooted(p) == \E i \in DOMAIN request.roots : IsPrefix(request.roots[i], p)

\* All that a scan has still to look at lies below the roots.
RootedInv ==
  /\ \A d \in Range(scan.stack) : Rooted(d.dir)
  /\ \A e \in scan.entries : Rooted(e)
  /\ \A p \in Range(scan.files) : Rooted(p)

\* A candidate carries the id its file has, as long as nobody moved it.
CandidateInv ==
  /\ scan.provider = "none" => scan.candidates = {}
  /\ \A c \in scan.candidates :
       /\ c.id # "none" /\ Rooted(c.path)
       /\ c.path \in untouched => /\ tree[c.path].kind = "file"
                                 /\ SessionId(tree[c.path].file, scan.provider) = c.id

FoundIInv == ListingIInv /\ RootedInv /\ CandidateInv /\ FoundExact

\* What is in a directory below a root is below that root.
LEMMA RootedBelow ==
  ASSUME TypeIInv, NEW q \in Paths, Rooted(q), NEW p \in Inside(q)
  PROVE  Rooted(p)
<1>1. PICK i \in DOMAIN request.roots : IsPrefix(request.roots[i], q) BY DEF Rooted
<1>2. request.roots[i] \in Paths BY RequestType
<1>3. p \in Paths /\ IsPrefix(q, p) BY DEF Inside, Below, IsStrictPrefix
<1>4. request.roots[i] \in Seq(STRING) /\ q \in Seq(STRING) /\ p \in Seq(STRING) BY <1>2, <1>3, PathIsName
<1>5. IsPrefix(request.roots[i], p) BY <1>1, <1>3, <1>4, PrefixIsOrder
<1> QED BY <1>5 DEF Rooted

\* The walk stays below the roots.
LEMMA ScanRooted ==
  TypeIInv /\ RootedInv
  /\ (EnterRoot \/ RootsDone \/ OpenDirectory \/ VisitEntry \/ ReadFile \/ FilesDone \/ TimePasses)
    => RootedInv'
<1> SUFFICES ASSUME TypeIInv, RootedInv,
                    EnterRoot \/ RootsDone \/ OpenDirectory \/ VisitEntry \/ ReadFile \/ FilesDone \/ TimePasses
             PROVE  RootedInv'
  OBVIOUS
<1>1. Scanning
  BY EnterRootEffect, OpenDirectoryEffect, VisitEntryEffect, ReadFileEffect, SmallEffects
<1>2. \A p : Rooted(p)' <=> Rooted(p) BY <1>1 DEF Scanning, Keep, Rooted
<1>3. /\ scan.stack \in Seq(PendingType) /\ scan.files \in Seq(Paths) /\ scan.entries \subseteq Paths
      /\ scan.depth \in Nat
  BY DEF TypeIInv, ScanType
<1>4. Range(<<>>) = {} BY DEF Range
<1>5. CASE EnterRoot
  <2>1. PICK i \in RootsLeft :
          scan'.stack = <<[dir |-> request.roots[i], depth |-> 0]>> \/ scan'.stack = scan.stack
    BY <1>5, EnterRootEffect DEF Same
  <2>2. scan'.entries = scan.entries /\ scan'.files = scan.files BY <1>5, EnterRootEffect DEF Same
  <2>3. i \in DOMAIN request.roots /\ request.roots[i] \in Paths
    BY RequestType DEF TypeIInv, TypeOK, RootsLeft
  <2>4. Rooted(request.roots[i]) BY <2>3, PathIsName, PrefixIsOrder DEF Rooted
  <2>5. ASSUME scan'.stack = <<[dir |-> request.roots[i], depth |-> 0]>>
        PROVE  \A d \in Range(scan'.stack) : Rooted(d.dir)
    <3> DEFINE d == [dir |-> request.roots[i], depth |-> 0]
    <3>1. Range(<<d>>) = {d}
      <4> HIDE DEF d
      <4> QED BY DEF Range
    <3> QED BY <2>4, <2>5, <3>1
  <2> QED BY <1>2, <2>1, <2>2, <2>5 DEF RootedInv
<1>6. CASE OpenDirectory
  <2>1. \/ scan'.stack = <<>> /\ scan'.entries = {}
        \/ /\ scan.stack # <<>> /\ scan'.stack = Front(scan.stack)
           /\ scan'.entries \subseteq Inside(Last(scan.stack).dir)
    BY <1>6, OpenDirectoryEffect
  <2>2. scan'.files = scan.files BY <1>6, OpenDirectoryEffect DEF Same
  <2>3. CASE scan'.stack = <<>> /\ scan'.entries = {} BY <1>2, <1>4, <2>2, <2>3 DEF RootedInv
  <2>4. CASE /\ scan.stack # <<>> /\ scan'.stack = Front(scan.stack)
             /\ scan'.entries \subseteq Inside(Last(scan.stack).dir)
    <3>1. Last(scan.stack) \in Range(scan.stack) /\ Range(scan'.stack) \subseteq Range(scan.stack)
      BY <1>3, <2>4, StackEnds
    <3>2. Last(scan.stack).dir \in Paths
      <4>1. Last(scan.stack) \in PendingType BY <1>3, <2>4, StackEnds
      <4> QED BY <4>1 DEF PendingType
    <3>3. Rooted(Last(scan.stack).dir) BY <3>1 DEF RootedInv
    <3>4. \A e \in scan'.entries : Rooted(e) BY <2>4, <3>2, <3>3, RootedBelow
    <3> QED BY <1>2, <2>2, <3>1, <3>4 DEF RootedInv
  <2> QED BY <2>1, <2>3, <2>4
<1>7. CASE VisitEntry
  <2>1. \/ scan'.stack = <<>> /\ scan'.entries = {} /\ scan'.files = scan.files
        \/ \E e \in scan.entries :
             /\ scan'.entries = scan.entries \ {e}
             /\ \/ scan'.stack = scan.stack /\ scan'.files = scan.files
                \/ /\ scan'.stack = Append(scan.stack, [dir |-> e, depth |-> scan.depth + 1])
                   /\ scan'.files = scan.files
                \/ scan'.stack = scan.stack /\ scan'.files = Append(scan.files, e)
    BY <1>7, VisitEntryEffect DEF Same
  <2>2. CASE scan'.stack = <<>> /\ scan'.entries = {} /\ scan'.files = scan.files
    BY <1>2, <1>4, <2>2 DEF RootedInv
  <2>3. ASSUME NEW e \in scan.entries, scan'.entries = scan.entries \ {e},
               \/ scan'.stack = scan.stack /\ scan'.files = scan.files
               \/ /\ scan'.stack = Append(scan.stack, [dir |-> e, depth |-> scan.depth + 1])
                  /\ scan'.files = scan.files
               \/ scan'.stack = scan.stack /\ scan'.files = Append(scan.files, e)
        PROVE  RootedInv'
    <3> DEFINE d == [dir |-> e, depth |-> scan.depth + 1]
    <3>1. d \in PendingType /\ d.dir = e /\ e \in Paths BY <1>3 DEF PendingType
    <3>2. /\ Range(Append(scan.stack, d)) = Range(scan.stack) \cup {d}
          /\ Range(Append(scan.files, e)) = Range(scan.files) \cup {e}
      BY <1>3, <3>1, RangeOfAppend
    <3>3. /\ Range(scan'.stack) \subseteq Range(scan.stack) \cup {d}
          /\ Range(scan'.files) \subseteq Range(scan.files) \cup {e}
      BY <2>3, <3>2
    <3>4. Rooted(e) BY DEF RootedInv
    <3> HIDE DEF d
    <3> QED BY <1>2, <2>3, <3>1, <3>3, <3>4 DEF RootedInv
  <2> QED BY <2>1, <2>2, <2>3
<1>8. CASE ReadFile
  <2>1. /\ scan.files # <<>> /\ scan'.files \in {<<>>, Tail(scan.files)}
        /\ scan'.stack = scan.stack /\ scan'.entries = scan.entries
    BY <1>8, ReadFileEffect DEF Same
  <2>2. Range(scan'.files) \subseteq Range(scan.files) BY <1>3, <1>4, <2>1, QueueEnds
  <2> QED BY <1>2, <2>1, <2>2 DEF RootedInv
<1>9. CASE RootsDone \/ FilesDone \/ TimePasses
  <2>1. scan'.stack = scan.stack /\ scan'.entries = scan.entries /\ scan'.files = scan.files
    BY <1>9, SmallEffects DEF Same, ScanFields
  <2> QED BY <1>2, <2>1 DEF RootedInv
<1> QED BY <1>5, <1>6, <1>7, <1>8, <1>9

\* A candidate is a file that was read with the id it carries.
LEMMA ScanCandidates ==
  TypeIInv /\ RootedInv /\ CandidateInv
  /\ (EnterRoot \/ RootsDone \/ OpenDirectory \/ VisitEntry \/ ReadFile \/ FilesDone \/ TimePasses)
    => CandidateInv'
<1> SUFFICES ASSUME TypeIInv, RootedInv, CandidateInv,
                    EnterRoot \/ RootsDone \/ OpenDirectory \/ VisitEntry \/ ReadFile \/ FilesDone \/ TimePasses
             PROVE  CandidateInv'
  OBVIOUS
<1>1. Scanning /\ scan.phase # "idle"
  BY EnterRootEffect, OpenDirectoryEffect, VisitEntryEffect, ReadFileEffect, SmallEffects DEF TimePasses
<1>2. \A p : Rooted(p)' <=> Rooted(p) BY <1>1 DEF Scanning, Keep, Rooted
<1>3. /\ UNCHANGED <<tree, untouched>> /\ scan'.provider = scan.provider
      /\ \E i \in DOMAIN request.providers : scan.provider = request.providers[i]
  BY <1>1 DEF Scanning, Keep, worldVars, Same, TypeIInv, PlaceInv
<1>4. scan.provider # "none" BY <1>3, RequestType
<1>5. CASE scan'.candidates = scan.candidates BY <1>2, <1>3, <1>5 DEF CandidateInv
<1>6. CASE ReadFile
  <2> DEFINE p == Head(scan.files)
             id == SessionId(tree[p].file, scan.provider)
             c == [path |-> p, id |-> id, epoch |-> tree[p].file.epoch]
  <2>1. SUFFICES ASSUME scan'.candidates # scan.candidates PROVE CandidateInv' BY <1>5
  <2>2. /\ scan.files # <<>> /\ tree[p].kind = "file" /\ id # "none"
        /\ scan'.candidates = scan.candidates \cup {c}
    BY <1>6, <2>1, ReadFileEffect DEF Same
  <2>3. p \in Range(scan.files)
    <3>1. scan.files \in Seq(Paths) BY DEF TypeIInv, ScanType
    <3>2. Len(scan.files) \in Nat \ {0} /\ p = scan.files[1] BY <2>2, <3>1, EmptySeq
    <3> QED BY <3>1, <3>2 DEF Range
  <2>4. Rooted(p) BY <2>3 DEF RootedInv
  <2>5. c.path = p /\ c.id = id OBVIOUS
  <2> HIDE DEF p, id, c
  <2>6. id = SessionId(tree[p].file, scan.provider) BY DEF id
  <2> QED BY <1>2, <1>3, <1>4, <2>2, <2>4, <2>5, <2>6 DEF CandidateInv
<1>7. CASE EnterRoot \/ OpenDirectory \/ VisitEntry
  BY <1>5, <1>7, EnterRootEffect, OpenDirectoryEffect, VisitEntryEffect DEF Same
<1>8. CASE RootsDone \/ FilesDone \/ TimePasses
  BY <1>5, <1>8, SmallEffects DEF Same, ScanFields
<1> QED BY <1>6, <1>7, <1>8

\* A scan that begins has no candidates.
LEMMA BeginFound ==
  ASSUME TypeIInv, NEW provider \in STRING \ {"none"}, NEW declared \in SUBSET (DOMAIN request.roots),
         scan' = NewScan(provider, declared)
  PROVE  RootedInv' /\ CandidateInv'
<1>1. scan'.stack = <<>> /\ scan'.entries = {} /\ scan'.files = <<>> /\ scan'.candidates = {}
  BY BeginEffect
<1>2. Range(<<>>) = {} BY DEF Range
<1> QED BY <1>1, <1>2 DEF RootedInv, CandidateInv

\* What `found` and `not_found` say of a scan that was not partial.
LEMMA ResolveFound == ListingIInv /\ RootedInv /\ CandidateInv /\ Resolve => FoundExact'
<1> SUFFICES ASSUME ListingIInv, RootedInv, CandidateInv, Resolve PROVE FoundExact' OBVIOUS
<1>1. TypeIInv /\ CoverInv /\ scan.phase = "end" /\ request.command = "resolve"
      /\ UNCHANGED <<tree, untouched, request>>
  BY ResolveEffect, AnsweringEffect DEF ListingIInv
<1> DEFINE provider == request.providers[1]
<1>2. scan.provider = provider /\ request.cwd = "any"
  <2>1. /\ DOMAIN request.providers = 1..Len(request.providers) /\ Len(request.providers) = 1
        /\ request.cwd = "any"
    BY <1>1, RequestType
  <2>2. PICK i \in DOMAIN request.providers : scan.provider = request.providers[i]
    BY <1>1 DEF TypeIInv, PlaceInv
  <2>3. i = 1 BY <2>1, <2>2
  <2> QED BY <2>1, <2>2, <2>3
<1>3. Claims' = Claims BY <1>1 DEF Claims, InPlace
<1>4. ASSUME ~Inconclusive, NEW p \in Claims PROVE \E c \in Matches : c.path = p
  <2>1. p \in InPlace(provider) /\ tree[p].file.id = request.id BY DEF Claims
  <2>2. Counted(scan.candidates, p) BY <1>1, <1>2, <1>4, <2>1, ScanFinds DEF Inconclusive
  <2>3. PICK c \in scan.candidates : c.path = p BY <1>2, <2>2 DEF Counted, InDirectory
  <2>4. p \in untouched /\ SessionId(tree[p].file, provider) # "none" BY <1>1, <2>1, InPlaceFile
  <2>5. SessionId(tree[p].file, provider) = c.id BY <1>2, <2>3, <2>4 DEF CandidateInv
  <2>6. c.id = request.id BY <2>1, <2>4, <2>5 DEF SessionId
  <2> QED BY <2>3, <2>6 DEF Matches
<1>5. CASE Answer("incomplete", <<>>, {}, <<>>) \/ Answer("ambiguous", <<>>, {}, <<>>)
  <2>1. answer'.kind \in {"incomplete", "ambiguous"} BY <1>5 DEF Answer
  <2> QED BY <2>1 DEF FoundExact
<1>6. CASE ~Inconclusive /\ Matches = {} /\ Answer("not_found", <<>>, {}, <<>>)
  <2>1. answer'.kind = "not_found" BY <1>6 DEF Answer
  <2>2. Claims = {} BY <1>4, <1>6
  <2> QED BY <1>3, <2>1, <2>2 DEF FoundExact
<1>7. CASE /\ ~Inconclusive /\ Cardinality(Matches) = 1
           /\ Answer("found", <<>>, {}, (CHOOSE c \in Matches : TRUE).path)
  <2> DEFINE c == CHOOSE c \in Matches : TRUE
  <2>1. answer'.kind = "found" /\ answer'.path = c.path BY <1>7 DEF Answer
  <2>2. IsFiniteSet(Matches)
    <3>1. Matches \subseteq scan.candidates BY DEF Matches
    <3> QED BY <1>1, <3>1, FS_Subset DEF TypeIInv
  <2>3. PICK x : Matches = {x} BY <1>7, <2>2, FS_Singleton
  <2>4. c = x BY <2>3
  <2> HIDE DEF c
  <2>5. c \in Matches /\ \A d \in Matches : d = c BY <2>3, <2>4
  <2>6. Claims \subseteq {c.path} BY <1>4, <1>7, <2>5
  <2>7. ASSUME c.path \in untouched PROVE c.path \in Claims
    <3>1. c \in scan.candidates /\ c.id = request.id BY <2>5 DEF Matches
    <3>2. /\ c.id # "none" /\ Rooted(c.path) /\ tree[c.path].kind = "file"
          /\ SessionId(tree[c.path].file, provider) = c.id
      BY <1>2, <2>7, <3>1 DEF CandidateInv
    <3>3. c.path \in InPlace(provider) BY <2>7, <3>2 DEF InPlace, Rooted
    <3>4. tree[c.path].file.id = request.id BY <3>1, <3>2 DEF SessionId
    <3> QED BY <3>3, <3>4 DEF Claims
  <2> QED BY <1>1, <1>3, <2>1, <2>6, <2>7 DEF FoundExact
<1> QED BY <1>1, <1>5, <1>6, <1>7, ResolveEffect

\* What other processes do takes claims away and adds none.
LEMMA ChangeFound == FoundIInv /\ Change => RootedInv' /\ CandidateInv' /\ FoundExact'
<1> SUFFICES ASSUME FoundIInv, Change PROVE RootedInv' /\ CandidateInv' /\ FoundExact' OBVIOUS
<1>1. TypeIInv /\ RootedInv /\ CandidateInv /\ FoundExact BY DEF FoundIInv, ListingIInv
<1>2. UNCHANGED <<request, scan, found, partial, answer>> BY DEF Change
<1>3. \A p : Rooted(p)' <=> Rooted(p) BY <1>2 DEF Rooted
<1>4. RootedInv' BY <1>1, <1>2, <1>3 DEF RootedInv
<1>5. CASE scan.provider = "none"
  <2>1. answer = NoAnswer
    <3>1. scan.phase = "idle" BY <1>1, <1>5, RequestType DEF TypeIInv, PlaceInv
    <3> QED BY <1>1, <1>5, <3>1 DEF TypeIInv, PlaceInv
  <2>2. FoundExact' BY <1>2, <2>1 DEF FoundExact, NoAnswer
  <2>3. CandidateInv' BY <1>1, <1>2, <1>5 DEF CandidateInv
  <2> QED BY <1>4, <2>2, <2>3
<1>6. CASE scan.provider # "none"
  <2>1. \A p \in untouched' : p \in untouched /\ tree'[p] = tree[p] BY <1>1, <1>6, ChangeInPlace
  <2>2. CandidateInv' BY <1>1, <1>2, <1>3, <1>6, <2>1 DEF CandidateInv
  <2>3. Claims' \subseteq Claims BY <1>2, <2>1 DEF Claims, InPlace
  <2>4. \A p \in untouched' : p \in Claims => p \in Claims' BY <1>2, <2>1 DEF Claims, InPlace
  <2>5. FoundExact' BY <1>1, <1>2, <2>1, <2>3, <2>4 DEF FoundExact
  <2> QED BY <1>4, <2>2, <2>5
<1> QED BY <1>5, <1>6

\* FoundIInv is inductive.
LEMMA FoundKept == FoundIInv /\ [Next]_vars => FoundIInv'
<1> SUFFICES ASSUME FoundIInv, [Next]_vars PROVE RootedInv' /\ CandidateInv' /\ FoundExact'
  BY ListingKept DEF FoundIInv
<1>1. ListingIInv /\ TypeIInv /\ RootedInv /\ CandidateInv /\ FoundExact BY DEF FoundIInv, ListingIInv
<1>2. CASE EnterRoot \/ RootsDone \/ OpenDirectory \/ VisitEntry \/ ReadFile \/ FilesDone \/ TimePasses
  <2>1. Scanning
    BY <1>1, <1>2, EnterRootEffect, OpenDirectoryEffect, VisitEntryEffect, ReadFileEffect, SmallEffects
  <2>2. UNCHANGED <<tree, untouched, request, answer>> BY <2>1 DEF Scanning, Keep, worldVars
  <2>3. FoundExact' BY <1>1, <2>2 DEF FoundExact, Claims, InPlace
  <2> QED BY <1>1, <1>2, <2>3, ScanRooted, ScanCandidates
<1>3. CASE Start \/ NextProvider
  <2>1. /\ Head(request.providers) \in STRING \ {"none"} /\ Last(request.providers) \in STRING \ {"none"}
    <3>1. DOMAIN request.providers = 1..Len(request.providers) /\ Len(request.providers) \in 1..2
      BY <1>1, RequestType
    <3>2. 1 \in DOMAIN request.providers /\ Len(request.providers) \in DOMAIN request.providers BY <3>1
    <3> QED BY <1>1, <3>2, RequestType
  <2>2. RootsOf \in SUBSET (DOMAIN request.roots) /\ scan.declared \in SUBSET (DOMAIN request.roots)
    BY <1>1 DEF RootsOf, TypeIInv, TypeOK
  <2>3. RootedInv' /\ CandidateInv' BY <1>1, <1>3, <2>1, <2>2, BeginFound DEF Start, NextProvider
  <2>4. answer' = NoAnswer
    <3>1. CASE Start BY <3>1 DEF Start
    <3>2. CASE NextProvider
      <4>1. scan.phase = "end" /\ answer' = answer BY <3>2 DEF NextProvider
      <4> QED BY <1>1, <4>1 DEF TypeIInv, PlaceInv
    <3> QED BY <1>3, <3>1, <3>2
  <2> QED BY <2>3, <2>4 DEF FoundExact, NoAnswer
<1>4. CASE ListAmbiguous \/ Listing \/ Resolve
  <2>1. /\ scan' = [scan EXCEPT !.phase = "idle"] /\ UNCHANGED <<tree, untouched, request>>
    BY <1>1, <1>4, AnsweringEffect
  <2>2. /\ scan'.stack = scan.stack /\ scan'.entries = scan.entries /\ scan'.files = scan.files
        /\ scan'.candidates = scan.candidates /\ scan'.provider = scan.provider
    BY <1>1, <2>1 DEF TypeIInv, ScanType
  <2>3. \A p : Rooted(p)' <=> Rooted(p) BY <2>1 DEF Rooted
  <2>4. RootedInv' /\ CandidateInv' BY <1>1, <2>1, <2>2, <2>3 DEF RootedInv, CandidateInv
  <2>5. CASE ListAmbiguous \/ Listing
    <3>1. answer'.kind \in {"ambiguous", "partial", "ok"}
      <4>1. CASE ListAmbiguous BY <4>1 DEF ListAmbiguous, Answer
      <4>2. CASE Listing BY <4>2 DEF Listing, Answer
      <4> QED BY <2>5, <4>1, <4>2
    <3> QED BY <2>4, <3>1 DEF FoundExact
  <2>6. CASE Resolve BY <1>1, <2>4, <2>6, ResolveFound
  <2> QED BY <1>4, <2>5, <2>6
<1>5. CASE Change BY <1>5, ChangeFound
<1>6. CASE UNCHANGED vars
  <2>1. UNCHANGED <<tree, untouched, request, scan, answer>> BY <1>6 DEF vars, worldVars
  <2> QED BY <1>1, <2>1 DEF RootedInv, CandidateInv, Rooted, FoundExact, Claims, InPlace
<1> QED BY <1>2, <1>3, <1>4, <1>5, <1>6 DEF Next, Scan

\* A behaviour starts with nothing found.
LEMMA InitFound == Init => FoundIInv
<1> SUFFICES ASSUME Init PROVE FoundIInv OBVIOUS
<1>1. /\ scan.stack = <<>> /\ scan.entries = {} /\ scan.files = <<>> /\ scan.candidates = {}
      /\ answer.kind = "none"
  BY DEF Init, NewScan, NoAnswer
<1>2. Range(<<>>) = {} BY DEF Range
<1> QED BY <1>1, <1>2, InitListing DEF FoundIInv, RootedInv, CandidateInv, FoundExact

----------------------------------------------------------------------------
(* Ambiguity: no file is read twice, so an id seen twice is in two files *)

Dirs == {scan.stack[i].dir : i \in DOMAIN scan.stack}
Queued == Range(scan.files)

\* What the scan has still to look at lies apart: no place leads to a file another one leads to.
ApartInv ==
  /\ \A i, j \in DOMAIN scan.stack : i # j => Apart(scan.stack[i].dir, scan.stack[j].dir)
  /\ \A i, j \in DOMAIN scan.files : i # j => Apart(scan.files[i], scan.files[j])
  /\ \A e, f \in scan.entries : e # f => Apart(e, f)
  /\ \A e \in scan.entries : \A p \in Dirs \cup Queued : Apart(e, p)
  /\ \A d \in Dirs, p \in Queued : Apart(d, p)

\* It lies below the root the scan has come to.
AtRootInv ==
  \A p \in Dirs \cup scan.entries \cup Queued :
    scan.at \in DOMAIN request.roots /\ IsPrefix(request.roots[scan.at], p)

\* A session file of this scan with the id.
Carries(p, id) ==
  /\ p \in Paths /\ tree[p].kind = "file" /\ Rooted(p)
  /\ id # "none" /\ SessionId(tree[p].file, scan.provider) = id

\* In an unchanged tree, an id was seen in a file that is not read again, a duplicate in two
\* files, and a candidate is what its file says.
SeenInv ==
  changes = 0 =>
    /\ untouched = Paths
    /\ \A id \in scan.seen : \E p \in Paths : Carries(p, id) /\ ~Waiting(p)
    /\ \A id \in scan.ambiguous : \E p, q \in Paths : p # q /\ Carries(p, id) /\ Carries(q, id)
    /\ \A c \in scan.candidates : c.epoch = tree[c.path].file.epoch

ResolutionIInv == FoundIInv /\ ApartInv /\ AtRootInv /\ SeenInv /\ AmbiguityExact

\* What lies below one of two paths apart lies apart from the other, and nothing lies below both.
LEMMA ApartBelow ==
  ASSUME NEW p \in Paths, NEW q \in Paths, Apart(p, q), NEW r \in Paths, IsPrefix(p, r)
  PROVE  Apart(r, q) /\ Apart(q, r) /\ r # q
<1>1. /\ p \in Seq(STRING) /\ q \in Seq(STRING) /\ r \in Seq(STRING)
      /\ Len(p) \in Nat /\ Len(q) \in Nat /\ Len(r) \in Nat
  BY PathIsName
<1>2. ~IsPrefix(r, q) BY <1>1, PrefixIsOrder DEF Apart
<1>3. ~IsPrefix(q, r)
  <2>1. SUFFICES ASSUME IsPrefix(q, r) PROVE FALSE OBVIOUS
  <2>2. /\ Len(p) <= Len(r) /\ \A i \in 1..Len(p) : p[i] = r[i]
        /\ Len(q) <= Len(r) /\ \A i \in 1..Len(q) : q[i] = r[i]
    BY <1>1, <2>1, PrefixByName
  <2>3. CASE Len(p) <= Len(q)
    <3>1. \A i \in 1..Len(p) : p[i] = q[i] BY <1>1, <2>2, <2>3
    <3>2. IsPrefix(p, q) BY <1>1, <2>3, <3>1, PrefixByName
    <3> QED BY <3>2 DEF Apart
  <2>4. CASE Len(q) <= Len(p)
    <3>1. \A i \in 1..Len(q) : q[i] = p[i] BY <1>1, <2>2, <2>4
    <3>2. IsPrefix(q, p) BY <1>1, <2>4, <3>1, PrefixByName
    <3> QED BY <3>2 DEF Apart
  <2> QED BY <1>1, <2>3, <2>4
<1>4. r # q BY <1>1, <1>3, PrefixIsOrder
<1> QED BY <1>2, <1>3, <1>4 DEF Apart

\* The entries of a directory lie apart.
LEMMA SiblingsApart ==
  ASSUME NEW d \in Paths, NEW p \in Inside(d), NEW q \in Inside(d), p # q
  PROVE  Apart(p, q)
<1>1. p \in Paths /\ q \in Paths /\ Len(p) = Len(q) BY DEF Inside, Below
<1>2. p \in Seq(STRING) /\ q \in Seq(STRING) BY <1>1, PathIsName
<1> QED BY <1>1, <1>2, PrefixIsOrder DEF Apart

\* The places of a sequence that lost its last or its first element, or got one more.
LEMMA Indices ==
  ASSUME NEW S, NEW s \in Seq(S)
  PROVE  /\ s # <<>> =>
              /\ Len(s) \in DOMAIN s /\ Last(s) = s[Len(s)]
              /\ \A i \in DOMAIN Front(s) : i \in DOMAIN s /\ i # Len(s) /\ Front(s)[i] = s[i]
         /\ s # <<>> =>
              /\ 1 \in DOMAIN s /\ Head(s) = s[1]
              /\ \A i \in DOMAIN Tail(s) : i \in Nat /\ i + 1 \in DOMAIN s /\ i + 1 # 1 /\ Tail(s)[i] = s[i + 1]
         /\ \A e \in S : \A i \in DOMAIN Append(s, e) :
              \/ i \in DOMAIN s /\ Append(s, e)[i] = s[i]
              \/ i = Len(s) + 1 /\ Append(s, e)[i] = e
         /\ DOMAIN s \subseteq Nat /\ DOMAIN s = 1..Len(s) /\ Len(s) \in Nat
<1>1. DOMAIN s = 1..Len(s) /\ Len(s) \in Nat BY LenProperties
<1>2. ASSUME s # <<>>
      PROVE  /\ Len(s) \in DOMAIN s /\ Last(s) = s[Len(s)]
             /\ \A i \in DOMAIN Front(s) : i \in DOMAIN s /\ i # Len(s) /\ Front(s)[i] = s[i]
  <2>1. Len(s) \in Nat \ {0} BY <1>2, EmptySeq
  <2>2. /\ Front(s) \in Seq(S) /\ Len(Front(s)) = Len(s) - 1
        /\ \A i \in 1..Len(s) - 1 : Front(s)[i] = s[i]
    BY <1>2, StackEnds
  <2>3. DOMAIN Front(s) = 1..Len(s) - 1 BY <2>1, <2>2
  <2> QED BY <1>1, <2>1, <2>2, <2>3 DEF Last
<1>3. ASSUME s # <<>>
      PROVE  /\ 1 \in DOMAIN s /\ Head(s) = s[1]
             /\ \A i \in DOMAIN Tail(s) : i \in Nat /\ i + 1 \in DOMAIN s /\ i + 1 # 1 /\ Tail(s)[i] = s[i + 1]
  <2>1. Len(s) \in Nat \ {0} BY <1>3, EmptySeq
  <2>2. /\ Tail(s) \in Seq(S) /\ Len(Tail(s)) = Len(s) - 1
        /\ \A i \in 1..Len(Tail(s)) : Tail(s)[i] = s[i + 1]
    BY <1>3, HeadTailProperties
  <2>3. DOMAIN Tail(s) = 1..Len(s) - 1 BY <2>1, <2>2
  <2> QED BY <1>1, <2>1, <2>2, <2>3
<1>4. ASSUME NEW e \in S, NEW i \in DOMAIN Append(s, e)
      PROVE  \/ i \in DOMAIN s /\ Append(s, e)[i] = s[i]
             \/ i = Len(s) + 1 /\ Append(s, e)[i] = e
  <2>1. /\ DOMAIN Append(s, e) = 1..Len(s) + 1 /\ Append(s, e)[Len(s) + 1] = e
        /\ \A j \in 1..Len(s) : Append(s, e)[j] = s[j]
    OBVIOUS
  <2>2. i \in 1..Len(s) \/ i = Len(s) + 1 BY <1>1, <1>4, <2>1
  <2> QED BY <1>1, <2>1, <2>2
<1> QED BY <1>1, <1>2, <1>3, <1>4

\* The walk keeps its places apart and below its root.
LEMMA EnterRootApart == TypeIInv /\ EnterRoot => ApartInv' /\ AtRootInv'
<1> SUFFICES ASSUME TypeIInv, EnterRoot PROVE ApartInv' /\ AtRootInv' OBVIOUS
<1>1. PICK i \in RootsLeft :
        /\ scan'.at = i
        /\ \/ scan'.stack = <<[dir |-> request.roots[i], depth |-> 0]>>
           \/ scan'.stack = scan.stack
  BY EnterRootEffect DEF Same
<1>2. /\ scan.phase = "root" /\ scan'.entries = scan.entries /\ scan'.files = scan.files
      /\ request' = request
  BY EnterRootEffect DEF Same, Scanning, Keep
<1>3. scan.stack = <<>> /\ scan'.entries = {} /\ scan'.files = <<>> BY <1>2 DEF TypeIInv, PlaceInv
<1>4. DOMAIN <<>> = {} /\ Range(<<>>) = {} BY DEF Range
<1>5. CASE scan'.stack = <<>> BY <1>3, <1>4, <1>5 DEF ApartInv, AtRootInv, Dirs, Queued
<1>6. CASE scan'.stack = <<[dir |-> request.roots[i], depth |-> 0]>>
  <2> DEFINE d == [dir |-> request.roots[i], depth |-> 0]
  <2>1. DOMAIN <<d>> = {1} /\ <<d>>[1] = d /\ d.dir = request.roots[i] OBVIOUS
  <2> HIDE DEF d
  <2>2. Dirs' = {request.roots[i]} BY <1>6, <2>1 DEF Dirs, d
  <2>3. \A j, k \in DOMAIN scan'.stack : j = k BY <1>6, <2>1 DEF d
  <2>4. i \in DOMAIN request.roots /\ request.roots[i] \in Paths
    BY RequestType DEF TypeIInv, TypeOK, RootsLeft
  <2>5. IsPrefix(request.roots[i], request.roots[i]) BY <2>4, PathIsName, PrefixIsOrder
  <2> QED BY <1>1, <1>2, <1>3, <1>4, <2>2, <2>3, <2>4, <2>5 DEF ApartInv, AtRootInv, Queued
<1> QED BY <1>1, <1>3, <1>5, <1>6

\* The directory that is opened lies apart from all other places, so its entries do.
LEMMA OpenDirectoryApart == TypeIInv /\ ApartInv /\ AtRootInv /\ OpenDirectory => ApartInv' /\ AtRootInv'
<1> SUFFICES ASSUME TypeIInv, ApartInv, AtRootInv, OpenDirectory PROVE ApartInv' /\ AtRootInv' OBVIOUS
<1>1. /\ scan.entries = {} /\ scan'.files = scan.files /\ scan'.at = scan.at /\ request' = request
  BY OpenDirectoryEffect DEF Same, Scanning, Keep
<1>2. \/ scan'.stack = <<>> /\ scan'.entries = {}
      \/ /\ scan.stack # <<>> /\ scan'.stack = Front(scan.stack)
         /\ scan'.entries \subseteq Inside(Last(scan.stack).dir)
  BY OpenDirectoryEffect
<1>3. scan.stack \in Seq(PendingType) /\ scan.files \in Seq(Paths) BY DEF TypeIInv, ScanType
<1>4. Queued' = Queued BY <1>1 DEF Queued
<1>5. CASE scan'.stack = <<>> /\ scan'.entries = {}
  <2>1. DOMAIN scan'.stack = {} BY <1>5
  <2>2. Dirs' = {} BY <2>1 DEF Dirs
  <2> QED BY <1>1, <1>4, <1>5, <2>1, <2>2 DEF ApartInv, AtRootInv
<1>6. CASE /\ scan.stack # <<>> /\ scan'.stack = Front(scan.stack)
           /\ scan'.entries \subseteq Inside(Last(scan.stack).dir)
  <2> DEFINE top == Last(scan.stack).dir
             n == Len(scan.stack)
  <2>1. n \in DOMAIN scan.stack /\ top = scan.stack[n].dir BY <1>3, <1>6, Indices
  <2>2. \A i \in DOMAIN scan'.stack :
          i \in DOMAIN scan.stack /\ i # n /\ scan'.stack[i] = scan.stack[i]
    BY <1>3, <1>6, Indices
  <2>3. \A i \in DOMAIN scan.stack : scan.stack[i].dir \in Paths
    <3>1. \A i \in DOMAIN scan.stack : scan.stack[i] \in PendingType BY <1>3
    <3> QED BY <3>1 DEF PendingType
  <2>4. top \in Paths /\ top \in Dirs BY <2>1, <2>3 DEF Dirs
  <2> HIDE DEF top, n
  <2>5. Dirs' \subseteq Dirs /\ \A d \in Dirs' : Apart(top, d) /\ d \in Paths
    BY <2>1, <2>2, <2>3 DEF Dirs, ApartInv
  <2>6. \A p \in Queued : Apart(top, p) /\ p \in Paths BY <1>3, <2>4 DEF ApartInv, Queued, Range
  <2>7. \A e \in scan'.entries : e \in Inside(top) /\ e \in Paths /\ IsPrefix(top, e)
    BY <1>6 DEF Inside, Below, IsStrictPrefix, top
  <2>8. \A e \in scan'.entries : \A p \in Dirs' \cup Queued' : Apart(e, p)
    BY <1>4, <2>4, <2>5, <2>6, <2>7, ApartBelow
  <2>9. \A e, f \in scan'.entries : e # f => Apart(e, f) BY <2>4, <2>7, SiblingsApart
  <2>10. \A i, j \in DOMAIN scan'.stack : i # j => Apart(scan'.stack[i].dir, scan'.stack[j].dir)
    BY <2>2 DEF ApartInv
  <2>11. ApartInv' BY <1>1, <1>4, <2>5, <2>8, <2>9, <2>10 DEF ApartInv
  <2>12. scan.at \in DOMAIN request.roots /\ IsPrefix(request.roots[scan.at], top)
    BY <2>4 DEF AtRootInv
  <2>13. request.roots[scan.at] \in Paths BY <2>12, RequestType
  <2>14. \A e \in scan'.entries : IsPrefix(request.roots[scan.at], e)
    BY <2>4, <2>7, <2>12, <2>13, PathIsName, PrefixIsOrder
  <2> QED BY <1>1, <1>4, <2>5, <2>11, <2>12, <2>14 DEF AtRootInv
<1> QED BY <1>2, <1>5, <1>6

\* An entry takes its place on the stack or among the files.
LEMMA VisitEntryApart == TypeIInv /\ ApartInv /\ AtRootInv /\ VisitEntry => ApartInv' /\ AtRootInv'
<1> SUFFICES ASSUME TypeIInv, ApartInv, AtRootInv, VisitEntry PROVE ApartInv' /\ AtRootInv' OBVIOUS
<1>1. scan'.at = scan.at /\ request' = request BY VisitEntryEffect DEF Same, Scanning, Keep
<1>2. /\ scan.stack \in Seq(PendingType) /\ scan.files \in Seq(Paths) /\ scan.entries \subseteq Paths
      /\ scan.depth \in Nat
  BY DEF TypeIInv, ScanType
<1>3. CASE scan'.stack = <<>> /\ scan'.entries = {} /\ scan'.files = scan.files
  <2>1. DOMAIN scan'.stack = {} BY <1>3
  <2>2. Dirs' = {} /\ Queued' = Queued BY <1>3, <2>1 DEF Dirs, Queued
  <2> QED BY <1>1, <1>3, <2>1, <2>2 DEF ApartInv, AtRootInv
<1>4. ASSUME NEW e \in scan.entries, scan'.entries = scan.entries \ {e},
             scan'.stack = scan.stack, scan'.files = scan.files
      PROVE  ApartInv' /\ AtRootInv'
  <2>1. Dirs' = Dirs /\ Queued' = Queued BY <1>4 DEF Dirs, Queued
  <2> QED BY <1>1, <1>4, <2>1 DEF ApartInv, AtRootInv
<1>5. ASSUME NEW e \in scan.entries, scan'.entries = scan.entries \ {e}, scan'.files = scan.files,
             scan'.stack = Append(scan.stack, [dir |-> e, depth |-> scan.depth + 1])
      PROVE  ApartInv' /\ AtRootInv'
  <2> DEFINE d == [dir |-> e, depth |-> scan.depth + 1]
  <2>1. d \in PendingType /\ d.dir = e BY <1>2 DEF PendingType
  <2> HIDE DEF d
  <2>2. \A i \in DOMAIN scan'.stack :
          \/ i \in DOMAIN scan.stack /\ scan'.stack[i] = scan.stack[i]
          \/ i = Len(scan.stack) + 1 /\ scan'.stack[i].dir = e
    BY <1>2, <1>5, <2>1, Indices DEF d
  <2>3. Dirs' \subseteq Dirs \cup {e} /\ Queued' = Queued BY <1>5, <2>2 DEF Dirs, Queued
  <2>4. \A p \in Dirs \cup Queued : Apart(e, p) /\ Apart(p, e) BY DEF ApartInv, Apart
  <2>5. \A f \in scan'.entries : f \in scan.entries /\ Apart(f, e) BY <1>5 DEF ApartInv
  <2>6. \A i \in DOMAIN scan.stack : scan.stack[i].dir \in Dirs BY DEF Dirs
  <2>7. \A i, j \in DOMAIN scan'.stack : i # j => Apart(scan'.stack[i].dir, scan'.stack[j].dir)
    BY <2>2, <2>4, <2>6 DEF ApartInv
  <2>8. ApartInv' BY <1>5, <2>3, <2>4, <2>5, <2>7 DEF ApartInv
  <2> QED BY <1>1, <1>5, <2>3, <2>8 DEF AtRootInv
<1>6. ASSUME NEW e \in scan.entries, scan'.entries = scan.entries \ {e}, scan'.stack = scan.stack,
             scan'.files = Append(scan.files, e)
      PROVE  ApartInv' /\ AtRootInv'
  <2>1. \A i \in DOMAIN scan'.files :
          \/ i \in DOMAIN scan.files /\ scan'.files[i] = scan.files[i]
          \/ i = Len(scan.files) + 1 /\ scan'.files[i] = e
    BY <1>2, <1>6, Indices
  <2>2. Dirs' = Dirs /\ Queued' = Queued \cup {e}
    <3>1. Range(Append(scan.files, e)) = Range(scan.files) \cup {e} BY <1>2, RangeOfAppend
    <3> QED BY <1>6, <3>1 DEF Dirs, Queued
  <2>3. \A p \in Dirs \cup Queued : Apart(e, p) /\ Apart(p, e) BY DEF ApartInv, Apart
  <2>4. \A f \in scan'.entries : f \in scan.entries /\ Apart(f, e) BY <1>6 DEF ApartInv
  <2>5. \A i \in DOMAIN scan.files : scan.files[i] \in Queued BY DEF Queued, Range
  <2>6. \A i, j \in DOMAIN scan'.files : i # j => Apart(scan'.files[i], scan'.files[j])
    BY <2>1, <2>3, <2>5 DEF ApartInv
  <2>7. ApartInv' BY <1>6, <2>2, <2>3, <2>4, <2>6 DEF ApartInv
  <2> QED BY <1>1, <1>6, <2>2, <2>7 DEF AtRootInv
<1>7. \/ scan'.stack = <<>> /\ scan'.entries = {} /\ scan'.files = scan.files
      \/ \E e \in scan.entries :
           /\ scan'.entries = scan.entries \ {e}
           /\ \/ scan'.stack = scan.stack /\ scan'.files = scan.files
              \/ /\ scan'.stack = Append(scan.stack, [dir |-> e, depth |-> scan.depth + 1])
                 /\ scan'.files = scan.files
              \/ scan'.stack = scan.stack /\ scan'.files = Append(scan.files, e)
  BY VisitEntryEffect DEF Same
<1> QED BY <1>3, <1>4, <1>5, <1>6, <1>7

\* No step of the scan brings two places together.
LEMMA ScanApart ==
  TypeIInv /\ ApartInv /\ AtRootInv
  /\ (EnterRoot \/ RootsDone \/ OpenDirectory \/ VisitEntry \/ ReadFile \/ FilesDone \/ TimePasses)
    => ApartInv' /\ AtRootInv'
<1> SUFFICES ASSUME TypeIInv, ApartInv, AtRootInv,
                    ReadFile \/ RootsDone \/ FilesDone \/ TimePasses
             PROVE  ApartInv' /\ AtRootInv'
  BY EnterRootApart, OpenDirectoryApart, VisitEntryApart
<1>1. CASE ReadFile
  <2>1. /\ scan.files # <<>> /\ scan'.files \in {<<>>, Tail(scan.files)} /\ scan'.at = scan.at
        /\ scan'.stack = scan.stack /\ scan'.entries = scan.entries /\ request' = request
    BY <1>1, ReadFileEffect DEF Same, Scanning, Keep
  <2>2. scan.files \in Seq(Paths) BY DEF TypeIInv, ScanType
  <2>3. \A i, j \in DOMAIN scan'.files : i # j => Apart(scan'.files[i], scan'.files[j])
    <3>1. CASE scan'.files = <<>> BY <3>1
    <3>2. CASE scan'.files = Tail(scan.files)
      <4>1. \A i \in DOMAIN scan'.files :
              i \in Nat /\ i + 1 \in DOMAIN scan.files /\ scan'.files[i] = scan.files[i + 1]
        BY <2>1, <2>2, <3>2, Indices
      <4>2. \A i, j \in DOMAIN scan'.files : i # j => i + 1 # j + 1 BY <4>1
      <4> QED BY <4>1, <4>2 DEF ApartInv
    <3> QED BY <2>1, <3>1, <3>2
  <2>4. Dirs' = Dirs /\ Queued' \subseteq Queued
    <3>1. Range(<<>>) = {} BY DEF Range
    <3>2. Range(Tail(scan.files)) \subseteq Range(scan.files) BY <2>1, <2>2, QueueEnds
    <3> QED BY <2>1, <3>1, <3>2 DEF Dirs, Queued
  <2> QED BY <2>1, <2>3, <2>4 DEF ApartInv, AtRootInv
<1>2. CASE RootsDone \/ FilesDone \/ TimePasses
  <2>1. /\ scan'.stack = scan.stack /\ scan'.entries = scan.entries /\ scan'.files = scan.files
        /\ scan'.at = scan.at /\ request' = request
    BY <1>2, SmallEffects DEF Same, ScanFields, Scanning, Keep
  <2>2. Dirs' = Dirs /\ Queued' = Queued BY <2>1 DEF Dirs, Queued
  <2> QED BY <2>1, <2>2 DEF ApartInv, AtRootInv
<1> QED BY <1>1, <1>2

\* What the scan has passed by it does not come back to.
LEMMA ScanPasses ==
  ASSUME TypeIInv,
         EnterRoot \/ RootsDone \/ OpenDirectory \/ VisitEntry \/ ReadFile \/ FilesDone \/ TimePasses,
         NEW p \in Paths, Waiting(p)'
  PROVE  Waiting(p)
<1>1. Scanning
  BY EnterRootEffect, OpenDirectoryEffect, VisitEntryEffect, ReadFileEffect, SmallEffects
<1>2. /\ request' = request /\ scan'.declared = scan.declared
      /\ scan.stack \in Seq(PendingType) /\ scan.files \in Seq(Paths) /\ scan.entries \subseteq Paths
      /\ scan.depth \in Nat
  BY <1>1 DEF Scanning, Keep, Same, TypeIInv, ScanType
<1>3. Range(<<>>) = {} BY DEF Range
<1>4. CASE EnterRoot
  <2>1. PICK i \in RootsLeft :
          /\ scan'.at = i
          /\ scan'.stack = <<[dir |-> request.roots[i], depth |-> 0]>> \/ scan'.stack = scan.stack
    BY <1>4, EnterRootEffect DEF Same
  <2>2. scan'.entries = scan.entries /\ scan'.files = scan.files BY <1>4, EnterRootEffect DEF Same
  <2>3. RootsLeft' \subseteq RootsLeft
    <3>1. scan.declared \subseteq Nat /\ scan.at \in Nat /\ i \in Nat /\ i > scan.at
      BY RequestType DEF TypeIInv, ScanType, RootsLeft
    <3> QED BY <1>2, <2>1, <3>1 DEF RootsLeft
  <2>4. \A d \in Range(scan'.stack) : d \in Range(scan.stack) \/ d.dir = request.roots[i]
    <3> DEFINE d == [dir |-> request.roots[i], depth |-> 0]
    <3>1. Range(<<d>>) = {d}
      <4> HIDE DEF d
      <4> QED BY DEF Range
    <3> QED BY <2>1, <3>1
  <2> QED BY <1>2, <2>1, <2>2, <2>3, <2>4 DEF Waiting
<1>5. CASE OpenDirectory
  <2>1. \/ scan'.stack = <<>> /\ scan'.entries = {}
        \/ /\ scan.stack # <<>> /\ scan'.stack = Front(scan.stack)
           /\ scan'.entries \subseteq Inside(Last(scan.stack).dir)
    BY <1>5, OpenDirectoryEffect
  <2>2. scan'.files = scan.files /\ scan'.at = scan.at BY <1>5, OpenDirectoryEffect DEF Same
  <2>3. RootsLeft' = RootsLeft BY <1>2, <2>2 DEF RootsLeft
  <2>4. CASE scan'.stack = <<>> /\ scan'.entries = {} BY <1>2, <1>3, <2>2, <2>3, <2>4 DEF Waiting
  <2>5. CASE /\ scan.stack # <<>> /\ scan'.stack = Front(scan.stack)
             /\ scan'.entries \subseteq Inside(Last(scan.stack).dir)
    <3> DEFINE top == Last(scan.stack)
    <3>1. top \in PendingType /\ top \in Range(scan.stack) /\ Range(scan'.stack) \subseteq Range(scan.stack)
      BY <1>2, <2>5, StackEnds
    <3>2. top.dir \in Paths BY <3>1 DEF PendingType
    <3> HIDE DEF top
    <3>3. ASSUME NEW e \in scan'.entries, IsPrefix(e, p) PROVE IsPrefix(top.dir, p)
      <4>1. e \in Paths /\ IsPrefix(top.dir, e) BY <2>5 DEF Inside, Below, IsStrictPrefix, top
      <4> QED BY <3>2, <3>3, <4>1, PathIsName, PrefixIsOrder
    <3> QED BY <1>2, <2>2, <2>3, <3>1, <3>3 DEF Waiting
  <2> QED BY <2>1, <2>4, <2>5
<1>6. CASE VisitEntry
  <2>1. scan'.at = scan.at BY <1>6, VisitEntryEffect DEF Same
  <2>2. RootsLeft' = RootsLeft BY <1>2, <2>1 DEF RootsLeft
  <2>3. \/ scan'.stack = <<>> /\ scan'.entries = {} /\ scan'.files = scan.files
        \/ \E e \in scan.entries :
             /\ scan'.entries = scan.entries \ {e}
             /\ \/ scan'.stack = scan.stack /\ scan'.files = scan.files
                \/ /\ scan'.stack = Append(scan.stack, [dir |-> e, depth |-> scan.depth + 1])
                   /\ scan'.files = scan.files
                \/ scan'.stack = scan.stack /\ scan'.files = Append(scan.files, e)
    BY <1>6, VisitEntryEffect DEF Same
  <2>4. CASE scan'.stack = <<>> /\ scan'.entries = {} /\ scan'.files = scan.files
    BY <1>2, <1>3, <2>2, <2>4 DEF Waiting
  <2>5. ASSUME NEW e \in scan.entries, scan'.entries = scan.entries \ {e},
               \/ scan'.stack = scan.stack /\ scan'.files = scan.files
               \/ /\ scan'.stack = Append(scan.stack, [dir |-> e, depth |-> scan.depth + 1])
                  /\ scan'.files = scan.files
               \/ scan'.stack = scan.stack /\ scan'.files = Append(scan.files, e)
        PROVE  Waiting(p)
    <3> DEFINE d == [dir |-> e, depth |-> scan.depth + 1]
    <3>1. d \in PendingType /\ d.dir = e /\ e \in Paths BY <1>2 DEF PendingType
    <3>2. /\ Range(Append(scan.stack, d)) = Range(scan.stack) \cup {d}
          /\ Range(Append(scan.files, e)) = Range(scan.files) \cup {e}
      BY <1>2, <3>1, RangeOfAppend
    <3>3. /\ Range(scan'.stack) \subseteq Range(scan.stack) \cup {d}
          /\ Range(scan'.files) \subseteq Range(scan.files) \cup {e}
      BY <2>5, <3>2
    <3>4. IsPrefix(e, e) BY <3>1, PathIsName, PrefixIsOrder
    <3> HIDE DEF d
    <3> QED BY <1>2, <2>2, <2>5, <3>1, <3>3, <3>4 DEF Waiting
  <2> QED BY <2>3, <2>4, <2>5
<1>7. CASE ReadFile
  <2>1. /\ scan.files # <<>> /\ scan'.files \in {<<>>, Tail(scan.files)} /\ scan'.at = scan.at
        /\ scan'.stack = scan.stack /\ scan'.entries = scan.entries
    BY <1>7, ReadFileEffect DEF Same
  <2>2. Range(scan'.files) \subseteq Range(scan.files) BY <1>2, <1>3, <2>1, QueueEnds
  <2>3. RootsLeft' = RootsLeft BY <1>2, <2>1 DEF RootsLeft
  <2> QED BY <1>2, <2>1, <2>2, <2>3 DEF Waiting
<1>8. CASE RootsDone \/ FilesDone \/ TimePasses
  <2>1. scan'.stack = scan.stack /\ scan'.entries = scan.entries /\ scan'.files = scan.files
        /\ scan'.at = scan.at
    BY <1>8, SmallEffects DEF Same, ScanFields
  <2>2. RootsLeft' = RootsLeft BY <1>2, <2>1 DEF RootsLeft
  <2> QED BY <1>2, <2>1, <2>2 DEF Waiting
<1> QED BY <1>4, <1>5, <1>6, <1>7, <1>8

\* A file that is read is not waited for any more.
LEMMA ReadIsPassed ==
  ASSUME TypeIInv, ApartInv, AtRootInv, ReadFile, scan'.files = Tail(scan.files),
         NEW p, p = Head(scan.files)
  PROVE  p \in Paths /\ Waiting(p) /\ ~Waiting(p)'
<1>1. /\ scan.phase = "files" /\ scan.files # <<>> /\ scan'.at = scan.at
      /\ scan'.stack = scan.stack /\ scan'.entries = scan.entries
      /\ request' = request /\ scan'.declared = scan.declared
  BY ReadFileEffect DEF Same, Scanning, Keep
<1>2. scan.stack = <<>> /\ scan.entries = {} BY <1>1 DEF TypeIInv, PlaceInv
<1>3. scan.files \in Seq(Paths) BY DEF TypeIInv, ScanType
<1>4. /\ 1 \in DOMAIN scan.files /\ p = scan.files[1]
      /\ \A i \in DOMAIN scan'.files :
           i + 1 \in DOMAIN scan.files /\ i + 1 # 1 /\ scan'.files[i] = scan.files[i + 1]
  BY <1>1, <1>3, Indices
<1>5. p \in Paths BY <1>1, <1>3, QueueEnds
<1>6. p \in Queued BY <1>4 DEF Queued, Range
<1>7. IsPrefix(p, p) BY <1>5, PathIsName, PrefixIsOrder
<1>8. p \notin Range(scan'.files)
  <2>1. \A i \in DOMAIN scan'.files : Apart(p, scan'.files[i]) BY <1>4 DEF ApartInv
  <2> QED BY <1>7, <2>1 DEF Range, Apart
<1>9. ASSUME NEW j \in RootsLeft, IsPrefix(request.roots[j], p) PROVE FALSE
  <2>1. scan.at \in DOMAIN request.roots /\ IsPrefix(request.roots[scan.at], p) BY <1>6 DEF AtRootInv
  <2>2. j \in DOMAIN request.roots /\ j # scan.at
    BY <2>1, RequestType DEF RootsLeft, TypeIInv, TypeOK
  <2>3. Apart(request.roots[scan.at], request.roots[j])
    BY <2>1, <2>2, RequestAssumption DEF TypeIInv
  <2>4. request.roots[scan.at] \in Paths /\ request.roots[j] \in Paths BY <2>1, <2>2, RequestType
  <2>5. Apart(p, request.roots[j]) /\ Apart(request.roots[j], p)
    BY <1>5, <2>1, <2>3, <2>4, ApartBelow
  <2> QED BY <1>9, <2>5 DEF Apart
<1>10. RootsLeft' = RootsLeft BY <1>1 DEF RootsLeft
<1>11. Range(<<>>) = {} BY DEF Range
<1>12. ~Waiting(p)' BY <1>1, <1>2, <1>8, <1>9, <1>10, <1>11 DEF Waiting
<1>13. Waiting(p) BY <1>6 DEF Waiting, Queued
<1> QED BY <1>5, <1>12, <1>13

\* What a step of the scan adds to the ids seen, the duplicates and the candidates.
LEMMA ScanSeen ==
  TypeIInv /\ RootedInv /\ ApartInv /\ AtRootInv /\ SeenInv
  /\ (EnterRoot \/ RootsDone \/ OpenDirectory \/ VisitEntry \/ ReadFile \/ FilesDone \/ TimePasses)
    => SeenInv'
<1> SUFFICES ASSUME TypeIInv, RootedInv, ApartInv, AtRootInv, SeenInv, changes' = 0,
                    EnterRoot \/ RootsDone \/ OpenDirectory \/ VisitEntry \/ ReadFile \/ FilesDone \/ TimePasses
             PROVE  SeenInv'
  BY DEF SeenInv
<1>1. Scanning
  BY EnterRootEffect, OpenDirectoryEffect, VisitEntryEffect, ReadFileEffect, SmallEffects
<1>2. /\ UNCHANGED <<tree, changes, untouched, request>> /\ scan'.provider = scan.provider
  BY <1>1 DEF Scanning, Keep, worldVars, Same
<1>3. \A p, id : Carries(p, id)' <=> Carries(p, id) BY <1>2 DEF Carries, Rooted
<1>4. \A p \in Paths : Waiting(p)' => Waiting(p) BY ScanPasses
<1>5. /\ untouched = Paths
      /\ \A id \in scan.seen : \E p \in Paths : Carries(p, id) /\ ~Waiting(p)
      /\ \A id \in scan.ambiguous : \E p, q \in Paths : p # q /\ Carries(p, id) /\ Carries(q, id)
      /\ \A c \in scan.candidates : c.epoch = tree[c.path].file.epoch
  BY <1>2 DEF SeenInv
<1>6. CASE scan'.seen = scan.seen /\ scan'.ambiguous = scan.ambiguous /\ scan'.candidates = scan.candidates
  BY <1>2, <1>3, <1>4, <1>5, <1>6 DEF SeenInv
<1>7. CASE ReadFile
  <2>0. PICK p, id : p = Head(scan.files) /\ id = SessionId(tree[p].file, scan.provider) OBVIOUS
  <2> DEFINE c == [path |-> p, id |-> id, epoch |-> tree[p].file.epoch]
  <2>1. \/ Same({"candidates", "seen", "ambiguous"})
        \/ /\ scan.files # <<>> /\ scan'.files = Tail(scan.files) /\ tree[p].kind = "file"
           /\ scan'.candidates \in {scan.candidates, scan.candidates \cup {c}}
           /\ id # "none" => /\ scan'.seen = scan.seen \cup {id}
                             /\ scan'.ambiguous = IF id \in scan.seen THEN {id} ELSE scan.ambiguous
           /\ id = "none" => scan'.seen = scan.seen /\ scan'.ambiguous = scan.ambiguous
    BY <1>7, <2>0, ReadFileEffect DEF Same
  <2>2. c.path = p /\ c.epoch = tree[p].file.epoch OBVIOUS
  <2>3. id = SessionId(tree[p].file, scan.provider) BY <2>0
  <2>4. SUFFICES ASSUME scan'.files = Tail(scan.files), tree[p].kind = "file", scan.files # <<>>,
                        scan'.candidates \in {scan.candidates, scan.candidates \cup {c}},
                        id # "none" => /\ scan'.seen = scan.seen \cup {id}
                                       /\ scan'.ambiguous = IF id \in scan.seen THEN {id} ELSE scan.ambiguous,
                        id = "none" => scan'.seen = scan.seen /\ scan'.ambiguous = scan.ambiguous
                 PROVE  SeenInv'
    BY <1>6, <2>1 DEF Same
  <2>5. p \in Paths /\ Waiting(p) /\ ~Waiting(p)'
    BY <1>7, <2>0, <2>4, ReadIsPassed
  <2>6. Rooted(p)
    <3>1. scan.files \in Seq(Paths) BY DEF TypeIInv, ScanType
    <3>2. 1 \in DOMAIN scan.files /\ p = scan.files[1] BY <2>0, <2>4, <3>1, Indices
    <3>3. p \in Range(scan.files) BY <3>2 DEF Range
    <3> QED BY <3>3 DEF RootedInv
  <2>7. \A d \in scan'.candidates : d.epoch = tree'[d.path].file.epoch BY <1>2, <1>5, <2>2, <2>4
  <2> HIDE DEF c
  <2>8. CASE id = "none" BY <1>2, <1>3, <1>4, <1>5, <2>4, <2>7, <2>8 DEF SeenInv
  <2>9. CASE id # "none"
    <3>1. Carries(p, id) BY <2>3, <2>4, <2>5, <2>6, <2>9 DEF Carries
    <3>2. \A x \in scan'.seen : \E q \in Paths : Carries(q, x)' /\ ~Waiting(q)'
      <4>1. TAKE x \in scan'.seen
      <4>2. CASE x \in scan.seen BY <1>3, <1>4, <1>5, <4>2
      <4>3. CASE x = id BY <1>3, <2>5, <3>1, <4>3
      <4> QED BY <2>4, <2>9, <4>2, <4>3
    <3>3. \A x \in scan'.ambiguous : \E q, r \in Paths : q # r /\ Carries(q, x)' /\ Carries(r, x)'
      <4>1. TAKE x \in scan'.ambiguous
      <4>2. CASE x \in scan.ambiguous BY <1>3, <1>5, <4>2
      <4>3. CASE x = id /\ id \in scan.seen
        <5>1. PICK q \in Paths : Carries(q, id) /\ ~Waiting(q) BY <1>5, <4>3
        <5>2. q # p BY <2>5, <5>1
        <5> QED BY <1>3, <2>5, <3>1, <4>3, <5>1, <5>2
      <4>4. x \in scan.ambiguous \/ (x = id /\ id \in scan.seen)
        BY <2>4, <2>9
      <4> QED BY <4>2, <4>3, <4>4
    <3> QED BY <1>2, <1>5, <2>7, <3>2, <3>3 DEF SeenInv
  <2> QED BY <2>8, <2>9
<1>8. CASE EnterRoot \/ OpenDirectory \/ VisitEntry
  BY <1>6, <1>8, EnterRootEffect, OpenDirectoryEffect, VisitEntryEffect DEF Same
<1>9. CASE RootsDone \/ FilesDone \/ TimePasses
  BY <1>6, <1>9, SmallEffects DEF Same, ScanFields
<1> QED BY <1>7, <1>8, <1>9

\* A file that carries an id in an unchanged tree is in place and claims it.
LEMMA CarriesInPlace ==
  ASSUME SeenInv, changes = 0, NEW p, NEW id, Carries(p, id)
  PROVE  p \in InPlace(scan.provider) /\ tree[p].file.id = id
<1>1. /\ p \in untouched /\ tree[p].kind = "file" /\ id # "none"
      /\ SessionId(tree[p].file, scan.provider) = id
      /\ \E i \in DOMAIN request.roots : IsPrefix(request.roots[i], p)
  BY DEF SeenInv, Carries, Rooted
<1> QED BY <1>1 DEF InPlace, SessionId

\* `session_ambiguous` names an id that two files claim.
LEMMA AnswersAmbiguity ==
  TypeIInv /\ CandidateInv /\ SeenInv /\ (ListAmbiguous \/ Listing \/ Resolve) => AmbiguityExact'
<1> SUFFICES ASSUME TypeIInv, CandidateInv, SeenInv, ListAmbiguous \/ Listing \/ Resolve,
                    answer'.kind = "ambiguous", changes' = 0
             PROVE  \E i \in DOMAIN request.providers : \E p, q \in InPlace(request.providers[i]) :
                      p # q /\ tree[p].file.id = tree[q].file.id
                      /\ (request.command = "resolve" => tree[p].file.id = request.id)
  <2>1. UNCHANGED <<tree, untouched, request>> \/ ~(ListAmbiguous \/ Listing \/ Resolve) \/ ~TypeIInv
    BY AnsweringEffect
  <2>2. UNCHANGED <<tree, untouched, request>> =>
          \A provider : InPlace(provider)' = InPlace(provider)
    BY DEF InPlace
  <2> QED BY <2>1, <2>2 DEF AmbiguityExact, InPlace
<1>1. scan.phase = "end" /\ changes = 0 BY AnsweringEffect
<1>2. PICK i \in DOMAIN request.providers : scan.provider = request.providers[i]
  BY <1>1 DEF TypeIInv, PlaceInv
<1>3. CASE ListAmbiguous
  <2>1. request.command = "list" /\ scan.ambiguous # {} BY <1>3 DEF ListAmbiguous
  <2>2. PICK id \in scan.ambiguous, p \in Paths, q \in Paths :
          p # q /\ Carries(p, id) /\ Carries(q, id)
    BY <1>1, <2>1 DEF SeenInv
  <2>3. /\ p \in InPlace(scan.provider) /\ q \in InPlace(scan.provider)
        /\ tree[p].file.id = id /\ tree[q].file.id = id
    BY <1>1, <2>2, CarriesInPlace
  <2> QED BY <1>2, <2>1, <2>2, <2>3
<1>4. CASE Listing
  <2>1. answer'.kind \in {"partial", "ok"} BY <1>4 DEF Listing, Answer
  <2> QED BY <2>1
<1>5. CASE Resolve
  <2>1. Cardinality(Matches) > 1
    <3>1. \/ Answer("incomplete", <<>>, {}, <<>>) \/ Answer("not_found", <<>>, {}, <<>>)
          \/ Answer("found", <<>>, {}, (CHOOSE c \in Matches : TRUE).path)
          \/ Cardinality(Matches) > 1
      BY <1>5, ResolveEffect
    <3> QED BY <3>1 DEF Answer
  <2>2. PICK c \in Matches, d \in Matches : c # d
    <3>1. Matches # {} BY <2>1, FS_EmptySet
    <3>2. PICK c \in Matches : TRUE BY <3>1
    <3>3. CASE \A d \in Matches : d = c
      <4>1. Matches = {c} BY <3>2, <3>3
      <4>2. Cardinality({c}) = 1 BY FS_Singleton
      <4> QED BY <2>1, <4>1, <4>2
    <3> QED BY <3>2, <3>3
  <2>3. /\ c \in scan.candidates /\ d \in scan.candidates /\ c.id = request.id /\ d.id = request.id
        /\ c \in CandidateType /\ d \in CandidateType
    BY <2>2 DEF Matches, TypeIInv, ScanType
  <2>4. /\ c.path \in Paths /\ d.path \in Paths
        /\ c = [path |-> c.path, id |-> c.id, epoch |-> c.epoch]
        /\ d = [path |-> d.path, id |-> d.id, epoch |-> d.epoch]
    BY <2>3 DEF CandidateType
  <2>5. ASSUME NEW x \in scan.candidates, x.path \in Paths PROVE Carries(x.path, x.id)
    <3>1. x.path \in untouched BY <1>1, <2>5 DEF SeenInv
    <3> QED BY <2>5, <3>1 DEF CandidateInv, Carries
  <2>6. Carries(c.path, request.id) /\ Carries(d.path, request.id) BY <2>3, <2>4, <2>5
  <2>7. c.path # d.path
    <3>1. c.path = d.path => c.epoch = d.epoch BY <1>1, <2>3 DEF SeenInv
    <3> QED BY <2>2, <2>3, <2>4, <3>1
  <2>8. /\ c.path \in InPlace(scan.provider) /\ d.path \in InPlace(scan.provider)
        /\ tree[c.path].file.id = request.id /\ tree[d.path].file.id = request.id
    BY <1>1, <2>6, CarriesInPlace
  <2> QED BY <1>2, <2>7, <2>8
<1> QED BY <1>3, <1>4, <1>5

\* ResolutionIInv is inductive.
LEMMA ResolutionKept == ResolutionIInv /\ [Next]_vars => ResolutionIInv'
<1> SUFFICES ASSUME ResolutionIInv, [Next]_vars
             PROVE  ApartInv' /\ AtRootInv' /\ SeenInv' /\ AmbiguityExact'
  BY FoundKept DEF ResolutionIInv
<1>1. /\ TypeIInv /\ RootedInv /\ CandidateInv
      /\ ApartInv /\ AtRootInv /\ SeenInv /\ AmbiguityExact
  BY DEF ResolutionIInv, FoundIInv, ListingIInv
<1>2. DOMAIN <<>> = {} /\ Range(<<>>) = {} BY DEF Range
<1>3. CASE EnterRoot \/ RootsDone \/ OpenDirectory \/ VisitEntry \/ ReadFile \/ FilesDone \/ TimePasses
  <2>1. Scanning
    BY <1>1, <1>3, EnterRootEffect, OpenDirectoryEffect, VisitEntryEffect, ReadFileEffect, SmallEffects
  <2>2. UNCHANGED <<tree, changes, untouched, request, answer>> BY <2>1 DEF Scanning, Keep, worldVars
  <2>3. AmbiguityExact' BY <1>1, <2>2 DEF AmbiguityExact, InPlace
  <2> QED BY <1>1, <1>3, <2>3, ScanApart, ScanSeen
<1>4. CASE Start \/ NextProvider
  <2>1. /\ Head(request.providers) \in STRING \ {"none"} /\ Last(request.providers) \in STRING \ {"none"}
    <3>1. DOMAIN request.providers = 1..Len(request.providers) /\ Len(request.providers) \in 1..2
      BY <1>1, RequestType
    <3>2. 1 \in DOMAIN request.providers /\ Len(request.providers) \in DOMAIN request.providers BY <3>1
    <3> QED BY <1>1, <3>2, RequestType
  <2>2. RootsOf \in SUBSET (DOMAIN request.roots) /\ scan.declared \in SUBSET (DOMAIN request.roots)
    BY <1>1 DEF RootsOf, TypeIInv, TypeOK
  <2>3. /\ scan'.stack = <<>> /\ scan'.entries = {} /\ scan'.files = <<>> /\ scan'.candidates = {}
        /\ scan'.seen = {} /\ scan'.ambiguous = {}
    BY <1>1, <1>4, <2>1, <2>2, BeginEffect DEF Start, NextProvider
  <2>4. Dirs' = {} /\ Queued' = {} BY <1>2, <2>3 DEF Dirs, Queued
  <2>5. ApartInv' /\ AtRootInv' BY <1>2, <2>3, <2>4 DEF ApartInv, AtRootInv
  <2>6. UNCHANGED <<changes, untouched>> BY <1>4 DEF Start, NextProvider, worldVars
  <2>7. SeenInv' BY <1>1, <2>3, <2>6 DEF SeenInv
  <2>8. answer' = NoAnswer
    <3>1. CASE Start BY <3>1 DEF Start
    <3>2. CASE NextProvider
      <4>1. scan.phase = "end" /\ answer' = answer BY <3>2 DEF NextProvider
      <4> QED BY <1>1, <4>1 DEF TypeIInv, PlaceInv
    <3> QED BY <1>4, <3>1, <3>2
  <2> QED BY <2>5, <2>7, <2>8 DEF AmbiguityExact, NoAnswer
<1>5. CASE ListAmbiguous \/ Listing \/ Resolve
  <2>1. /\ scan' = [scan EXCEPT !.phase = "idle"] /\ UNCHANGED <<tree, changes, untouched, request>>
    BY <1>1, <1>5, AnsweringEffect
  <2>2. /\ scan'.stack = scan.stack /\ scan'.entries = scan.entries /\ scan'.files = scan.files
        /\ scan'.candidates = scan.candidates /\ scan'.provider = scan.provider /\ scan'.at = scan.at
        /\ scan'.seen = scan.seen /\ scan'.ambiguous = scan.ambiguous /\ scan'.declared = scan.declared
    BY <1>1, <2>1 DEF TypeIInv, ScanType
  <2>3. Dirs' = Dirs /\ Queued' = Queued /\ RootsLeft' = RootsLeft BY <2>2 DEF Dirs, Queued, RootsLeft
  <2>4. /\ \A p : Waiting(p)' <=> Waiting(p)
        /\ \A p, id : Carries(p, id)' <=> Carries(p, id)
    BY <2>1, <2>2, <2>3 DEF Waiting, Carries, Rooted
  <2>5. ApartInv' /\ AtRootInv' BY <1>1, <2>1, <2>2, <2>3 DEF ApartInv, AtRootInv
  <2>6. SeenInv' BY <1>1, <2>1, <2>2, <2>4 DEF SeenInv
  <2> QED BY <1>1, <1>5, <2>5, <2>6, AnswersAmbiguity
<1>6. CASE Change
  <2>1. UNCHANGED <<request, scan, answer>> /\ changes' = changes + 1 BY <1>6 DEF Change
  <2>2. changes' # 0 BY <1>1, <2>1 DEF TypeIInv, TypeOK
  <2>3. ApartInv' /\ AtRootInv' BY <1>1, <2>1 DEF ApartInv, AtRootInv, Dirs, Queued
  <2> QED BY <2>2, <2>3 DEF SeenInv, AmbiguityExact
<1>7. CASE UNCHANGED vars
  <2>1. UNCHANGED <<tree, changes, untouched, request, scan, answer>> BY <1>7 DEF vars, worldVars
  <2>2. ApartInv' /\ AtRootInv' BY <1>1, <2>1 DEF ApartInv, AtRootInv, Dirs, Queued
  <2>3. /\ \A p : Waiting(p)' <=> Waiting(p)
        /\ \A p, id : Carries(p, id)' <=> Carries(p, id)
    BY <2>1 DEF Waiting, Carries, Rooted, RootsLeft
  <2>4. SeenInv' BY <1>1, <2>1, <2>3 DEF SeenInv
  <2> QED BY <1>1, <2>1, <2>2, <2>4 DEF AmbiguityExact, InPlace
<1> QED BY <1>3, <1>4, <1>5, <1>6, <1>7 DEF Next, Scan

\* For every tree, every command and whatever is done to the tree: the file an id is resolved to
\* is the only one in place that carries it, an id that is not found is in none, and in an
\* unchanged tree ambiguity is only said of two files.
THEOREM CatalogResolutionExact == Spec => []ResolutionExact
<1>1. Init => ResolutionIInv
  <2> SUFFICES ASSUME Init PROVE ResolutionIInv OBVIOUS
  <2>1. /\ scan.stack = <<>> /\ scan.entries = {} /\ scan.files = <<>> /\ scan.candidates = {}
        /\ scan.seen = {} /\ scan.ambiguous = {} /\ untouched = Paths /\ answer.kind = "none"
    BY DEF Init, NewScan, NoAnswer
  <2>2. DOMAIN <<>> = {} /\ Range(<<>>) = {} BY DEF Range
  <2>3. Dirs = {} /\ Queued = {} BY <2>1, <2>2 DEF Dirs, Queued
  <2>4. ApartInv /\ AtRootInv BY <2>1, <2>2, <2>3 DEF ApartInv, AtRootInv
  <2> QED BY <2>1, <2>4, InitFound DEF ResolutionIInv, SeenInv, AmbiguityExact
<1>2. ResolutionIInv => ResolutionExact BY DEF ResolutionIInv, FoundIInv, ResolutionExact
<1> QED BY <1>1, <1>2, ResolutionKept, PTL DEF Spec
=============================================================================
