--------------------------- MODULE HighScoreStore ---------------------------
(***************************************************************************)
(* FileHighScoreStore (src/persistence/file_high_score_store.cpp) at the   *)
(* level of its system calls, over a file system with a page cache: load,  *)
(* and save as open, write, fsync, close and rename of a temporary file.   *)
(*                                                                         *)
(* The content of a file is the number its text parses to, or Unreadable   *)
(* for a text that load refuses (empty, or not a number, or negative).  A  *)
(* write that is cut short leaves a prefix of the digits.                  *)
(*                                                                         *)
(* The file system is not part of the repository.  It is taken to be what  *)
(* the code relies on: rename is atomic, fsync puts the content of the     *)
(* file on the flash, and everything else reaches the flash when the       *)
(* kernel gets to it, the directory in one piece.                          *)
(***************************************************************************)
EXTENDS Integers, FiniteSets

CONSTANTS
  Inodes,     \* the files there is room for
  NoFile,     \* what a name stands for when there is no such file
  Scores,     \* the scores a game can reach
  DiskFaults  \* whether open, write, fsync and rename can fail

ASSUME StoreAssumption ==
  /\ NoFile \notin Inodes
  /\ Scores \subseteq Nat
  /\ DiskFaults \in BOOLEAN

Names == {"dat", "tmp"} \* file_path_ and temp_path_

Unreadable == -1

Contents == Nat \union {Unreadable}

VARIABLES
  pc,     \* the system call save makes next; "off" when there is no process
  fd,     \* the file save has open
  high,   \* the engine's high score, which is what save is given
  name,   \* the directory as the kernel has it
  data,   \* the contents as the kernel has them
  flashName, flashData, \* both as they are on the flash
  failed  \* history: a write or fsync of this save failed

vars == <<pc, fd, high, name, data, flashName, flashData, failed>>

disk == <<name, data, flashName, flashData>>

\* Mutant: the parsed number is not checked.
LoadUnchecked(names, contents) ==
  IF names["dat"] = NoFile THEN 0 ELSE contents[names["dat"]]

\* FileHighScoreStore::load, given directory and contents.
Load(names, contents) ==
  IF names["dat"] = NoFile \/ contents[names["dat"]] = Unreadable THEN 0
  ELSE contents[names["dat"]]

\* At first there is no file, or one with a score or with something else
\* in it, all of it on the flash.
Init ==
  /\ pc = "off" /\ fd = NoFile /\ high = 0 /\ failed = FALSE
  /\ \E file \in Inodes \union {NoFile}, content \in Scores \union {Unreadable} :
       /\ name = [n \in Names |-> IF n = "dat" THEN file ELSE NoFile]
       /\ data = [i \in Inodes |-> IF i = file THEN content ELSE Unreadable]
  /\ flashName = name /\ flashData = data

-----------------------------------------------------------------------------
\* The process.

\* Application's constructor loads the score.
Start ==
  /\ pc = "off" /\ pc' = "idle"
  /\ high' = Load(name, data)
  /\ UNCHANGED <<disk, fd, failed>>

\* The application saves its high score, raised by the run or not.
Save(score) ==
  /\ pc = "idle" /\ pc' = "open"
  /\ score >= high /\ high' = score
  /\ failed' = FALSE
  /\ UNCHANGED <<disk, fd>>

\* A file no directory knows, not even the one on the flash.
IsFree(i) == \A n \in Names : name[n] # i /\ flashName[n] # i

\* open(O_CREAT | O_TRUNC) of the temporary file.  A temporary file left
\* by an earlier save is used again.  When open fails, save returns.
Open ==
  /\ pc = "open"
  /\ UNCHANGED <<high, flashName, flashData, failed>>
  /\ \/ \E i \in Inodes :
          /\ IF name["tmp"] = NoFile THEN IsFree(i) ELSE i = name["tmp"]
          /\ name' = [name EXCEPT !["tmp"] = i]
          /\ data' = [data EXCEPT ![i] = Unreadable]
          /\ fd' = i /\ pc' = "write"
     \/ DiskFaults /\ pc' = "idle" /\ UNCHANGED <<name, data, fd>>

\* What a write cut short leaves of a number: nothing or leading digits.
Prefixes(n) == ({n \div 10^k : k \in 1..9} \ {0}) \union {Unreadable}

\* The result of write is not looked at.
Write ==
  /\ pc = "write" /\ pc' = "fsync"
  /\ \/ data' = [data EXCEPT ![fd] = high] /\ UNCHANGED failed
     \/ /\ DiskFaults /\ failed' = TRUE
        /\ \E rest \in Prefixes(high) : data' = [data EXCEPT ![fd] = rest]
  /\ UNCHANGED <<fd, high, name, flashName, flashData>>

\* Mutant: fsync is left out.
FsyncSkipped ==
  /\ pc = "fsync" /\ pc' = "close"
  /\ UNCHANGED <<disk, fd, high, failed>>

\* Nor is the result of fsync.
Fsync ==
  /\ pc = "fsync" /\ pc' = "close"
  /\ \/ flashData' = [flashData EXCEPT ![fd] = data[fd]] /\ UNCHANGED failed
     \/ DiskFaults /\ failed' = TRUE /\ UNCHANGED flashData
  /\ UNCHANGED <<fd, high, name, data, flashName>>

Close ==
  /\ pc = "close" /\ pc' = "rename"
  /\ fd' = NoFile
  /\ UNCHANGED <<disk, high, failed>>

\* rename of the temporary file over the score file.
Rename ==
  /\ pc = "rename" /\ pc' = "idle"
  /\ \/ name' = [n \in Names |-> IF n = "dat" THEN name["tmp"] ELSE NoFile]
     \/ DiskFaults /\ UNCHANGED name
  /\ UNCHANGED <<fd, high, data, flashName, flashData, failed>>

-----------------------------------------------------------------------------
\* The environment.

\* The kernel writes the content of a file, or the directory, to the flash.
WriteBackData(i) ==
  /\ flashData' = [flashData EXCEPT ![i] = data[i]]
  /\ UNCHANGED <<pc, fd, high, name, data, flashName, failed>>

WriteBackNames ==
  /\ flashName' = name
  /\ UNCHANGED <<pc, fd, high, name, data, flashData, failed>>

\* The process ends or is killed; the kernel keeps what it was given.
Kill ==
  /\ pc # "off" /\ pc' = "off" /\ fd' = NoFile
  /\ UNCHANGED <<disk, high, failed>>

\* Only the flash survives a power loss.
PowerLoss ==
  /\ pc' = "off" /\ fd' = NoFile
  /\ name' = flashName /\ data' = flashData
  /\ UNCHANGED <<high, flashName, flashData, failed>>

Next ==
  \/ Start
  \/ \E score \in Scores : Save(score)
  \/ Open
  \/ Write
  \/ Fsync
  \/ Close
  \/ Rename
  \/ \E i \in Inodes : WriteBackData(i)
  \/ WriteBackNames
  \/ Kill
  \/ PowerLoss

Spec == Init /\ [][Next]_vars

-----------------------------------------------------------------------------
\* Properties.

TypeOK ==
  /\ pc \in {"off", "idle", "open", "write", "fsync", "close", "rename"}
  /\ fd \in Inodes \union {NoFile} /\ high \in Nat /\ failed \in BOOLEAN
  /\ {name, flashName} \subseteq [Names -> Inodes \union {NoFile}]
  /\ {data, flashData} \subseteq [Inodes -> Contents]

Seen == Load(name, data)
Safe == Load(flashName, flashData)

\* What a power loss leaves is never less than what an earlier one would
\* have left: the record on the flash only grows, through any sequence of
\* saves, kills and power losses (file_high_score_store.cpp:26-39).
SafeNeverFalls == [][Safe' >= Safe]_vars

Register == INSTANCE ScoreRegister WITH
  Values <- Scores, seen <- Seen, safe <- Safe

\* As long as no system call fails, the system calls of save amount to
\* changing one number all at once: no kill and no power loss, between any
\* two of them, leaves anything but a number saved before or the new one
\* (file_high_score_store.cpp:26-39).  Which of the two a power loss leaves
\* stays open until the kernel writes the directory back, also after save has
\* returned, as nothing syncs the directory: docs/persistence.md:64 says that
\* after the rename it is the new one, and that is not so.
ImplementsRegister == Register!RegisterSpec

\* What the documentation says: when writing or syncing fails, the
\* temporary file is removed and the existing score file stays intact
\* (docs/persistence.md:64, 72).  At the least, the record is not lost.
FailedSaveKeepsRecord == [][pc = "rename" /\ failed => Seen' >= Seen]_vars

=============================================================================
