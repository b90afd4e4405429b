----------------------- MODULE HighScoreStore_proofs -----------------------
(***************************************************************************)
(* Proofs about HighScoreStore, for every set of files and scores, as long *)
(* as no system call fails: save changes one number all at once, and the   *)
(* record that a power loss leaves only grows.                             *)
(***************************************************************************)
EXTENDS HighScoreStore, TLAPS

\* The files of the score and of a save under way are kept apart, in memory
\* and on the flash: no file that a load could read is ever opened.
Apart ==
  /\ name["tmp"] # NoFile => name["tmp"] \notin {name["dat"], flashName["dat"]}
  /\ flashName["tmp"] # NoFile => flashName["tmp"] # flashName["dat"]

\* A file that a load could read has the same content in memory and on the
\* flash, so neither a write-back nor a power loss changes it.
Settled ==
  /\ name["dat"] # NoFile => flashData[name["dat"]] = data[name["dat"]]
  /\ flashName["dat"] # NoFile => flashData[flashName["dat"]] = data[flashName["dat"]]

\* How far a save has come.
SaveProgress ==
  /\ pc \notin {"off", "idle"} => high \in Scores
  /\ pc \in {"write", "fsync", "close"} => fd = name["tmp"]
  /\ pc \in {"write", "fsync", "close", "rename"} => name["tmp"] # NoFile
  /\ pc \in {"fsync", "close", "rename"} => data[name["tmp"]] = high
  /\ pc \in {"close", "rename"} => flashData[name["tmp"]] = high

\* The engine's high score is the best that was read or saved.
Ordered ==
  /\ high \in Scores \union {0}
  /\ Seen \in Scores \union {0} /\ Safe \in Scores \union {0}
  /\ Safe <= Seen
  /\ pc # "off" => Seen <= high

IInv == TypeOK /\ Apart /\ Settled /\ SaveProgress /\ Ordered

-----------------------------------------------------------------------------

\* IInv holds of every disk the program can find.
LEMMA InitInv == Init => IInv
<1> USE StoreAssumption DEF Names, Unreadable, Contents
<1> SUFFICES ASSUME Init PROVE IInv
  OBVIOUS
<1>1. PICK file \in Inodes \union {NoFile}, content \in Scores \union {Unreadable} :
        /\ name = [n \in Names |-> IF n = "dat" THEN file ELSE NoFile]
        /\ data = [i \in Inodes |-> IF i = file THEN content ELSE Unreadable]
  BY DEF Init
<1>2. TypeOK
  <2>1. name \in [Names -> Inodes \union {NoFile}] /\ data \in [Inodes -> Contents]
    BY <1>1
  <2> QED
    BY <2>1 DEF Init, TypeOK
<1>3. Apart /\ Settled /\ SaveProgress
  BY <1>1 DEF Init, Apart, Settled, SaveProgress
<1>4. Seen = Safe /\ Seen \in Scores \union {0}
  BY <1>1 DEF Init, Seen, Safe, Load
<1>5. Ordered
  BY <1>4 DEF Init, Ordered
<1> QED
  BY <1>2, <1>3, <1>5 DEF IInv

\* What can be read depends only on the score's name and its file.
LEMMA SeenUnchanged ==
  ASSUME name'["dat"] = name["dat"],
         name["dat"] # NoFile => data'[name["dat"]] = data[name["dat"]]
  PROVE  Seen' = Seen
BY DEF Seen, Load

\* So does what a power loss leaves.
LEMMA SafeUnchanged ==
  ASSUME flashName'["dat"] = flashName["dat"],
         flashName["dat"] # NoFile =>
           flashData'[flashName["dat"]] = flashData[flashName["dat"]]
  PROVE  Safe' = Safe
BY DEF Safe, Load

\* What each step does to the two numbers the register consists of.
LEMMA StepEffect ==
  ASSUME ~DiskFaults, IInv, Next
  PROVE  \/ Seen' = Seen /\ Safe' = Safe
         \/ pc = "rename" /\ pc' = "idle" /\ Seen' = high /\ high' = high /\ Safe' = Safe
         \/ Seen' = Seen /\ Safe' = Seen /\ UNCHANGED <<pc, high>>
         \/ Seen' = Safe /\ Safe' = Safe /\ pc' = "off" /\ UNCHANGED high
<1> USE StoreAssumption DEF Names, Unreadable, Contents, IInv
<1>1. CASE Start
  BY <1>1, SeenUnchanged, SafeUnchanged DEF Start, disk
<1>2. ASSUME NEW score \in Scores, Save(score)
      PROVE  Seen' = Seen /\ Safe' = Safe
  BY <1>2, SeenUnchanged, SafeUnchanged DEF Save, disk
<1>3. CASE Open
  <2>1. PICK i \in Inodes :
          /\ IF name["tmp"] = NoFile THEN IsFree(i) ELSE i = name["tmp"]
          /\ name' = [name EXCEPT !["tmp"] = i]
          /\ data' = [data EXCEPT ![i] = Unreadable]
    BY <1>3 DEF Open
  <2>2. i # name["dat"]
    BY <2>1 DEF IsFree, Apart
  <2>3. name'["dat"] = name["dat"]
    BY <2>1 DEF TypeOK
  <2>4. name["dat"] # NoFile => data'[name["dat"]] = data[name["dat"]]
    BY <2>1, <2>2 DEF TypeOK
  <2> QED
    BY <1>3, <2>3, <2>4, SeenUnchanged, SafeUnchanged DEF Open
<1>4. CASE Write
  <2>1. name["dat"] # NoFile => data'[name["dat"]] = data[name["dat"]]
    BY <1>4 DEF Write, TypeOK, SaveProgress, Apart
  <2> QED
    BY <1>4, <2>1, SeenUnchanged, SafeUnchanged DEF Write
<1>5. CASE Fsync
  <2>1. flashName["dat"] # NoFile =>
          flashData'[flashName["dat"]] = flashData[flashName["dat"]]
    BY <1>5 DEF Fsync, TypeOK, Settled
  <2> QED
    BY <1>5, <2>1, SeenUnchanged, SafeUnchanged DEF Fsync
<1>6. CASE Close
  BY <1>6, SeenUnchanged, SafeUnchanged DEF Close, disk
<1>7. CASE Rename
  <2>1. Seen' = high
    BY <1>7 DEF Rename, TypeOK, SaveProgress, Seen, Load
  <2> QED
    BY <1>7, <2>1, SafeUnchanged DEF Rename
<1>8. ASSUME NEW i \in Inodes, WriteBackData(i)
      PROVE  Seen' = Seen /\ Safe' = Safe
  <2>1. flashName["dat"] # NoFile =>
          flashData'[flashName["dat"]] = flashData[flashName["dat"]]
    BY <1>8 DEF WriteBackData, TypeOK, Settled
  <2> QED
    BY <1>8, <2>1, SeenUnchanged, SafeUnchanged DEF WriteBackData
<1>9. CASE WriteBackNames
  <2>1. Safe' = Seen
    BY <1>9 DEF WriteBackNames, Settled, Seen, Safe, Load
  <2> QED
    BY <1>9, <2>1, SeenUnchanged DEF WriteBackNames
<1>10. CASE Kill
  BY <1>10, SeenUnchanged, SafeUnchanged DEF Kill, disk
<1>11. CASE PowerLoss
  <2>1. Seen' = Safe
    BY <1>11 DEF PowerLoss, Seen, Safe, Load
  <2> QED
    BY <1>11, <2>1, SafeUnchanged DEF PowerLoss
<1> QED
  BY <1>1, <1>2, <1>3, <1>4, <1>5, <1>6, <1>7, <1>8, <1>9, <1>10, <1>11 DEF Next

\* Every step preserves IInv.
LEMMA StepInv == ASSUME ~DiskFaults, IInv, [Next]_vars PROVE IInv'
<1> USE StoreAssumption DEF Names, Unreadable, Contents
<1>1. CASE UNCHANGED vars
  BY <1>1 DEF vars, IInv, TypeOK, Apart, Settled, SaveProgress, Ordered, Seen, Safe, Load
<1>2. CASE Next
  <2> USE DEF IInv
  <2>1. TypeOK' /\ Apart' /\ Settled' /\ SaveProgress'
    <3> USE DEF TypeOK, Apart, Settled, SaveProgress
    <3>1. CASE Start
      BY <3>1 DEF Start, disk, Ordered, Seen, Load
    <3>2. ASSUME NEW score \in Scores, Save(score)
          PROVE  TypeOK' /\ Apart' /\ Settled' /\ SaveProgress'
      BY <3>2 DEF Save, disk
    <3>3. CASE Open
      <4>1. PICK i \in Inodes :
              /\ IF name["tmp"] = NoFile THEN IsFree(i) ELSE i = name["tmp"]
              /\ name' = [name EXCEPT !["tmp"] = i]
              /\ data' = [data EXCEPT ![i] = Unreadable]
              /\ fd' = i /\ pc' = "write"
        BY <3>3 DEF Open
      <4>2. i \notin {name["dat"], flashName["dat"]}
        BY <4>1 DEF IsFree
      <4> QED
        BY <3>3, <4>1, <4>2 DEF Open
    <3>4. CASE Write
      BY <3>4 DEF Write
    <3>5. CASE Fsync
      BY <3>5 DEF Fsync
    <3>6. CASE Close
      BY <3>6 DEF Close, disk
    <3>7. CASE Rename
      BY <3>7 DEF Rename
    <3>8. ASSUME NEW i \in Inodes, WriteBackData(i)
          PROVE  TypeOK' /\ Apart' /\ Settled' /\ SaveProgress'
      BY <3>8 DEF WriteBackData
    <3>9. CASE WriteBackNames
      BY <3>9 DEF WriteBackNames
    <3>10. CASE Kill
      BY <3>10 DEF Kill, disk
    <3>11. CASE PowerLoss
      BY <3>11 DEF PowerLoss
    <3> QED
      BY <1>2, <3>1, <3>2, <3>3, <3>4, <3>5, <3>6, <3>7, <3>8, <3>9, <3>10, <3>11 DEF Next
  <2>2. /\ high' \in Scores \union {0}
        /\ pc # "off" => high' >= high
        /\ pc = "off" /\ pc' # "off" => high' = Seen
    <3>1. CASE Start
      BY <3>1 DEF Start, Ordered, Seen
    <3>2. CASE \E score \in Scores : Save(score)
      BY <3>2 DEF Save
    <3> QED
      BY <1>2, <3>1, <3>2 DEF Next, Open, Write, Fsync, Close, Rename, WriteBackData,
        WriteBackNames, Kill, PowerLoss, Ordered, TypeOK
  <2>3. Ordered'
    BY <1>2, <2>2, StepEffect DEF Ordered
  <2> QED
    BY <2>1, <2>3
<1> QED
  BY <1>1, <1>2

-----------------------------------------------------------------------------

\* The type invariant, and with it the record's order: what a power loss
\* leaves is at most what can be read, and that at most what the running
\* game shows as its high score.
THEOREM StoreInvariant == ASSUME ~DiskFaults PROVE Spec => [](TypeOK /\ Ordered)
<1>1. IInv => TypeOK /\ Ordered
  BY DEF IInv
<1>2. Spec => []IInv
  BY InitInv, StepInv, PTL DEF Spec
<1> QED
  BY <1>1, <1>2, PTL

\* The record on the flash only grows, whatever kills and power losses
\* interrupt the system calls of save.
THEOREM SafeOnlyGrows == ASSUME ~DiskFaults PROVE Spec => SafeNeverFalls
<1>1. ASSUME IInv, [Next]_vars PROVE Safe' >= Safe \/ UNCHANGED vars
  <2>1. Safe \in Nat /\ Seen \in Nat /\ Safe <= Seen
    BY <1>1, StoreAssumption DEF IInv, Ordered
  <2> QED
    BY <1>1, <2>1, StepEffect
<1>2. Spec => []IInv
  BY InitInv, StepInv, PTL DEF Spec
<1> QED
  BY <1>1, <1>2, PTL DEF Spec, SafeNeverFalls

\* save is atomic, in memory and on the flash, though not at the same time:
\* its system calls implement a register whose number changes all at once, and
\* survives a power loss once the directory is written back, for any number of
\* files and any scores.
THEOREM StoreImplementsRegister == ASSUME ~DiskFaults PROVE Spec => ImplementsRegister
<1>1. Init => Register!RegisterInit
  <2> SUFFICES ASSUME Init PROVE Register!RegisterInit
    OBVIOUS
  <2>1. Seen \in Scores \union {0}
    BY InitInv DEF IInv, Ordered
  <2>2. Safe = Seen
    BY DEF Init, Seen, Safe
  <2> QED
    BY <2>1, <2>2 DEF Register!RegisterInit
<1>2. ASSUME IInv, [Next]_vars
      PROVE  [Register!RegisterNext]_<<Seen, Safe>>
  <2>1. CASE UNCHANGED vars
    BY <2>1 DEF vars, Seen, Safe, Load
  <2>2. CASE Next
    <3>1. pc = "rename" => high \in Scores
      BY <1>2 DEF IInv, SaveProgress
    <3> QED
      BY <1>2, <2>2, <3>1, StepEffect
        DEF Register!RegisterNext, Register!Commit, Register!Harden, Register!LosePower
  <2> QED
    BY <1>2, <2>1, <2>2
<1>3. Spec => []IInv
  BY InitInv, StepInv, PTL DEF Spec
<1> QED
  BY <1>1, <1>2, <1>3, PTL
    DEF Spec, ImplementsRegister, Register!RegisterSpec, Register!registerVars

=============================================================================
