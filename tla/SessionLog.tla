------------------------------ MODULE SessionLog ------------------------------
(***************************************************************************)
(* The JSONL session log a viewer query reads, record by record.  The      *)
(* agent appends a record in two writes (a partial line, then the rest     *)
(* with its newline), and the path may be replaced by a new file, which on *)
(* Unix gives it a new generation (src/query/cursor.rs, Generation).  An   *)
(* open handle keeps reading the file it opened.                           *)
(*                                                                         *)
(* Byte offsets are kept in half records: 2 * k is the end of record k,    *)
(* 2 * k + 1 lies inside a partial record k + 1.  A record is its kind:    *)
(* how many events it normalizes to, whether they are in scope and match,  *)
(* whether it exceeds the normal record cap, whether it names the session. *)
(***************************************************************************)
EXTENDS Naturals, Sequences, FiniteSets

CONSTANTS Kinds,           \* kinds the agent may write
          InitialRecords,  \* contents a file may have when it is created
          MaxRecords,      \* bound on the records of a file
          MaxGens          \* bound on the files that live at the path

AllKinds == {"hit", "double", "miss", "empty", "bad", "meta",
             "huge", "hollow", "hugemeta"}

ASSUME LogAssumption ==
  /\ Kinds \subseteq AllKinds
  /\ InitialRecords \subseteq Seq(AllKinds)
  /\ MaxRecords \in Nat
  /\ MaxGens \in Nat \ {0}

VARIABLES gen,       \* the file now at the path
          recs,        \* complete records of each file
          partial,     \* whether a file ends in an unfinished record
          mtime        \* modification stamp of the file at the path

logVars == <<gen, recs, partial, mtime>>

LogTypeOK ==
  /\ gen \in 1..MaxGens
  /\ recs \in [1..MaxGens -> Seq(AllKinds)]
  /\ partial \in [1..MaxGens -> BOOLEAN]
  /\ mtime \in Nat

LogInit ==
  /\ gen = 1
  /\ recs \in [1..MaxGens -> InitialRecords]
  /\ partial = [g \in 1..MaxGens |-> FALSE]
  /\ mtime = 0

BeginRecord ==
  /\ Len(recs[gen]) < MaxRecords
  /\ ~partial[gen]
  /\ partial' = [partial EXCEPT ![gen] = TRUE]
  /\ mtime' = mtime + 1
  /\ UNCHANGED <<gen, recs>>

FinishRecord ==
  /\ partial[gen]
  /\ \E k \in Kinds : recs' = [recs EXCEPT ![gen] = Append(@, k)]
  /\ partial' = [partial EXCEPT ![gen] = FALSE]
  /\ mtime' = mtime + 1
  /\ UNCHANGED gen

Replace ==
  /\ gen < MaxGens
  /\ gen' = gen + 1
  /\ mtime' = mtime + 1
  /\ UNCHANGED <<recs, partial>>

LogNext == BeginRecord \/ FinishRecord \/ Replace

----------------------------------------------------------------------------
Length(g) == 2 * Len(recs[g]) + (IF partial[g] THEN 1 ELSE 0)

\* What Normalizer::normalize makes of a record (src/query/normalize.rs).
Subevents(k) ==
  CASE k \in {"empty", "hollow"} -> 0
    [] k = "double" -> 2
    [] OTHER -> 1

InScope(k) == k \in {"hit", "double", "huge", "miss"}
Matching(k) == k \in {"hit", "double", "huge"}
Invalid(k) == k = "bad"
NamesSession(k) == k \in {"meta", "hugemeta"}

\* Over --max-record-bytes, unless the caller raised it.
Oversize(k, cap) == k \in {"huge", "hollow", "hugemeta"} /\ cap = "normal"
=============================================================================
