----------------------------- MODULE OutputFiles -----------------------------
(***************************************************************************)
(* The files that the commands of src/runner.rs write.  write_atomic       *)
(* creates a temporary file beside the destination, writes and flushes it, *)
(* looks at the destination once more and renames the temporary over it.   *)
(* Each of these steps may fail, the process may be killed between any     *)
(* two, and other processes work in the same directory.                    *)
(*                                                                         *)
(* What a file holds is abstracted to who put it there: "old" is a         *)
(* complete file of someone else, "new" the complete output of this        *)
(* command, "part" a beginning of it.  "input" is a name of the session    *)
(* file that is being exported, "link" and "folder" are no regular files.  *)
(***************************************************************************)
EXTENDS Naturals, Sequences

CONSTANTS Destinations,     \* the paths a command may write
          MaxMeddling       \* bound on the changes other processes make

ASSUME OutputAssumption == MaxMeddling \in Nat

VARIABLES dir,              \* what each destination path holds
          temp,             \* the temporary file of the running write_atomic
          litter,           \* temporaries that a killed process left behind
          meddling          \* changes other processes made so far

outputVars == <<dir, temp, litter, meddling>>

Contents == {"absent", "old", "new", "part", "input", "link", "folder"}
Regular == {"old", "new", "part", "input"}

OutputTypeOK ==
  /\ dir \in [Destinations -> Contents]
  /\ temp \in {"none", "part", "full"}
  /\ litter \in Nat
  /\ meddling \in 0..MaxMeddling

\* The directory as the first command finds it, and the changes already used up.
OutputInit(found, used) ==
  /\ dir = found
  /\ temp = "none"
  /\ litter = 0
  /\ meddling = used

\* check_destination(path, None) and check_destination(path, Some(input)).
Writable(d) == dir[d] \in Regular \cup {"absent"}
\* Mutant of WritableBesideInput: check_destination is not told of the input.
WritableAlone(d) == Writable(d)

WritableBesideInput(d) == Writable(d) /\ dir[d] # "input"

\* NamedTempFile::new_in.
CreateTemporary ==
  /\ temp' = "part"
  /\ UNCHANGED <<dir, litter, meddling>>

\* Mutant of FillTemporary: a short write passes for a whole one.
FillTemporaryShort ==
  /\ temp' = "part"
  /\ UNCHANGED <<dir, litter, meddling>>

\* `write(file)` and the flush.
FillTemporary ==
  /\ temp' = "full"
  /\ UNCHANGED <<dir, litter, meddling>>

\* persist: the rename replaces a file or a link of that name, not a folder.
Persistable(d) == dir[d] # "folder"

Persist(d) ==
  /\ dir' = [dir EXCEPT ![d] = IF temp = "full" THEN "new" ELSE "part"]
  /\ temp' = "none"
  /\ UNCHANGED <<litter, meddling>>

\* Mutant of DropTemporary: the file is kept.
DropNothing == UNCHANGED outputVars

\* An error drops the NamedTempFile, which removes the file.
DropTemporary ==
  /\ temp' = "none"
  /\ UNCHANGED <<dir, litter, meddling>>

\* A killed process removes nothing.
LeaveTemporary ==
  /\ litter' = litter + (IF temp = "none" THEN 0 ELSE 1)
  /\ temp' = "none"
  /\ UNCHANGED <<dir, meddling>>

\* A new command takes what an earlier one wrote for any other file.
Settle ==
  /\ dir' = [d \in Destinations |-> IF dir[d] = "new" THEN "old" ELSE dir[d]]
  /\ UNCHANGED <<temp, litter, meddling>>

\* Another process creates, replaces or removes a destination.
Meddle ==
  /\ meddling < MaxMeddling
  /\ meddling' = meddling + 1
  /\ \E d \in Destinations :
       /\ dir[d] # "input"
       /\ \E c \in {"absent", "old", "link", "folder"} \ {dir[d]} :
            dir' = [dir EXCEPT ![d] = c]
  /\ UNCHANGED <<temp, litter>>
=============================================================================
