---------------------------- MODULE LogFilesProofs ----------------------------
(***************************************************************************)
(* What TLAPS proves of LogFiles, for any paths and goroutines and every   *)
(* bound.  The inductive invariant IInv adds to the checked invariants what *)
(* each point of a rotation knows of the two files it works on             *)
(* (RotationOK), what every file is like (DiskOK), and where the logger    *)
(* may point (OpenOK).                                                     *)
(***************************************************************************)
EXTENDS LogFiles, TLAPS

(* A log that is not compressed can always be read, and the number 0 is for *)
(* the live file only.                                                     *)
DiskOK ==
    \A f \in DOMAIN disk :
        /\ disk[f].lines \subseteq 1 .. printed
        /\ f[3] = "log" => disk[f].whole
        /\ f[3] = "gz" => f[2] # 0

(* The name chosen stays free until the rotation takes it, the compressed  *)
(* file is cut short until the copy is done and is a copy from then on.    *)
RotationOK ==
    \A w \in Writers :
        LET p == at[w].path
            n == at[w].target
        IN  /\ Holding(w) => p \in Paths
            /\ at[w].pc \in {"rename", "zip", "copy", "remove"} => n \in 1 .. MaxArchives
            /\ at[w].pc = "rename" => Exists(Live(p)) /\ Unused(p, n)
            /\ at[w].pc = "zip" => ~Exists(Zipped(p, n))
            /\ at[w].pc = "copy" => Exists(Zipped(p, n)) /\ ~disk[Zipped(p, n)].whole
            /\ at[w].pc = "remove" =>
                   Exists(Zipped(p, n)) /\ disk[Zipped(p, n)] = disk[Plain(p, n)]

(* The logger never writes to a compressed file; nobody logs without a     *)
(* logger, and one that writes to a file without a name is adrift or about *)
(* to be replaced.                                                         *)
OpenOK ==
    /\ open \in DOMAIN disk => open[3] = "log"
    /\ open = NoFile => \A w \in Writers : at[w] = Idle
    /\ ~up => open = NoFile
    /\ open = Gone => adrift \/ \E w \in Writers : at[w].pc = "reopen"

Consistent == DiskOK /\ RotationOK /\ OpenOK

IInv == TypeOK /\ Consistent /\ LinesKept /\ LinesOnce

(* The step properties NothingForgotten and ArchivesKept, as formulas of   *)
(* one step.                                                               *)
Remembers == CanRead \subseteq CanRead'
Preserves ==
    \A f \in DOMAIN disk :
        f[3] = "gz" /\ (disk[f].whole \/ ~Rotating(f[1], f[2]))
        => f \in DOMAIN disk' /\ disk'[f] = disk[f]

-----------------------------------------------------------------------------
(* What the proofs use of names.                                           *)
LEMMA NameFacts ==
    ASSUME NEW p \in Paths, NEW n \in 0 .. MaxArchives
    PROVE  /\ Live(p) \in Names /\ Plain(p, n) \in Names /\ Zipped(p, n) \in Names
           /\ Live(p)[1] = p /\ Live(p)[2] = 0 /\ Live(p)[3] = "log"
           /\ Plain(p, n)[1] = p /\ Plain(p, n)[2] = n /\ Plain(p, n)[3] = "log"
           /\ Zipped(p, n)[1] = p /\ Zipped(p, n)[2] = n /\ Zipped(p, n)[3] = "gz"
BY ConstantsAssumption DEF Names, Live, Plain, Zipped

LEMMA NoNames ==
    /\ NoFile \notin Names /\ Gone \notin Names /\ Closed \notin Names
    /\ NoFile # Gone /\ NoFile # Closed /\ Gone # Closed
BY ConstantsAssumption DEF Names, NoFile, Gone, Closed

LEMMA NewFileFacts == NewFile \in File /\ NewFile.lines = {} /\ NewFile.whole
BY DEF NewFile, File

LEMMA IdleFacts == Idle \in Local /\ Idle.pc = "idle" /\ Idle.path = NoPath
BY ConstantsAssumption DEF Idle, Local, NoTarget

(* A line is readable as long as the file it is in stays, in a file that   *)
(* can be read.                                                            *)
LEMMA Readable ==
    ASSUME \A f \in DOMAIN disk :
               disk[f].whole => \E g \in DOMAIN disk' :
                                    disk'[g].whole /\ disk[f].lines \subseteq disk'[g].lines
    PROVE  Remembers
BY DEF Remembers, CanRead, Whole

(* Lines stay where they are readable, unless a step prints one.           *)
LEMMA KeptIfRemembered ==
    ASSUME LinesKept, Remembers, UNCHANGED <<printed, astray>>
    PROVE  LinesKept'
BY DEF LinesKept, Remembers

-----------------------------------------------------------------------------
LEMMA InitIInv == Init => IInv
<1> SUFFICES ASSUME Init PROVE IInv
    OBVIOUS
<1>1. PICK p \in Paths : p = path
    BY DEF Init
<1>2. Live(p) \in Names /\ Live(p)[3] = "log" /\ Live(p) \notin {NoFile, Gone, Closed}
    BY NameFacts, NoNames, ConstantsAssumption
<1>3. DOMAIN disk = {Live(p)} /\ disk[Live(p)] = NewFile /\ disk \in [DOMAIN disk -> File]
    BY <1>1, NewFileFacts DEF Init
<1>4. \A w \in Writers : at[w] = Idle /\ ~Holding(w)
    BY IdleFacts DEF Init, Holding
<1>5. TypeOK
    BY <1>1, <1>2, <1>3, <1>4, IdleFacts DEF Init, TypeOK
<1>6. DiskOK
    BY <1>2, <1>3, NewFileFacts DEF DiskOK
<1>7. RotationOK
    BY <1>4, IdleFacts DEF RotationOK
<1>8. OpenOK
    BY <1>1, <1>2, <1>4 DEF OpenOK, Init
<1>9. LinesKept
    BY DEF LinesKept, Init
<1>10. LinesOnce
    BY <1>3, NewFileFacts DEF LinesOnce, Whole
<1> QED
    BY <1>5, <1>6, <1>7, <1>8, <1>9, <1>10 DEF IInv, Consistent

-----------------------------------------------------------------------------
(* Steps that leave the files alone keep what is said of them.             *)
LEMMA SameDisk ==
    ASSUME IInv, UNCHANGED <<disk, printed>>
    PROVE  /\ DiskOK' /\ LinesOnce' /\ Remembers /\ Preserves
           /\ UNCHANGED astray => LinesKept'
<1>1. DiskOK'
    BY DEF IInv, Consistent, DiskOK
<1>2. LinesOnce' /\ Remembers
    BY DEF IInv, LinesOnce, Remembers, CanRead, Whole
<1>3. Preserves
    BY DEF Preserves
<1>4. UNCHANGED astray => LinesKept'
    BY <1>2, KeptIfRemembered DEF IInv
<1> QED
    BY <1>1, <1>2, <1>3, <1>4

(* A step of one writer, with what it may assume of the others: none of    *)
(* them is past the mutex.                                                 *)
LEMMA OthersWait ==
    ASSUME IInv, NEW w \in Writers, Holding(w), NEW v \in Writers, v # w
    PROVE  ~Holding(v) /\ at[v].pc \in {"idle", "wait"}
BY DEF IInv, TypeOK, Holding

LEMMA LogIInv == ASSUME IInv, NEW w \in Writers, Log(w) PROVE IInv' /\ Remembers /\ Preserves
<1>1. TypeOK'
    BY IdleFacts DEF IInv, TypeOK, Log, Goto, Holding, Local, Exists
<1>2. RotationOK'
    BY IdleFacts DEF IInv, TypeOK, Consistent, RotationOK, Log, Goto, Holding, Exists, Unused, Local
<1>3. OpenOK'
    BY IdleFacts DEF IInv, TypeOK, Consistent, OpenOK, Log, Goto, Local
<1> QED
    BY <1>1, <1>2, <1>3, SameDisk DEF IInv, Consistent, Log

LEMMA LockIInv == ASSUME IInv, NEW w \in Writers, Lock(w) PROVE IInv' /\ Remembers /\ Preserves
<1>1. TypeOK'
    BY DEF IInv, TypeOK, Lock, Free, Holding, Local, Exists, Spent
<1>2. RotationOK'
    BY DEF IInv, TypeOK, Consistent, RotationOK, Lock, Holding, Exists, Unused, Local
<1>3. OpenOK'
    BY IdleFacts DEF IInv, TypeOK, Consistent, OpenOK, Lock, Local
<1> QED
    BY <1>1, <1>2, <1>3, SameDisk DEF IInv, Consistent, Lock, Spent

LEMMA KeepIInv == ASSUME IInv, NEW w \in Writers, Keep(w) PROVE IInv' /\ Remembers /\ Preserves
<1>1. TypeOK'
    BY DEF IInv, TypeOK, Keep, Goto, Holding, Local, Exists, Spent
<1>2. RotationOK'
    BY DEF IInv, TypeOK, Consistent, RotationOK, Keep, Goto, Holding, Exists, Unused, Local
<1>3. OpenOK'
    BY IdleFacts DEF IInv, TypeOK, Consistent, OpenOK, Keep, Goto, Local
<1> QED
    BY <1>1, <1>2, <1>3, SameDisk DEF IInv, Consistent, Keep, Spent

LEMMA ChooseIInv == ASSUME IInv, NEW w \in Writers, Choose(w) PROVE IInv' /\ Remembers /\ Preserves
<1>1. PICK n \in 1 .. MaxArchives :
          Target(w, n) /\ at' = [at EXCEPT ![w].pc = "rename", ![w].target = n]
    BY DEF Choose
<1>2. TypeOK'
  <2>1. at' \in [Writers -> Local]
    <3>1. at[w] \in Local /\ n \in 0 .. MaxArchives /\ DOMAIN at' = Writers
        BY <1>1, ConstantsAssumption DEF IInv, TypeOK
    <3>2. [at[w] EXCEPT !.pc = "rename", !.target = n] \in Local
        BY <3>1 DEF Local
    <3>3. at' = [at EXCEPT ![w] = [at[w] EXCEPT !.pc = "rename", !.target = n]]
        BY <1>1 DEF IInv, TypeOK
    <3> QED
        BY <3>2, <3>3 DEF IInv, TypeOK
  <2>2. \A v \in Writers : at'[v].pc \in {"zip", "copy", "remove"} => at'[v] = at[v]
      BY <1>1 DEF IInv, TypeOK
  <2>3. \A v \in Writers : Holding(v)' => Holding(v)
      BY <1>1 DEF IInv, TypeOK, Choose, Holding
  <2> QED
      BY <2>1, <2>2, <2>3 DEF IInv, TypeOK, Choose, Exists, Spent
<1>3. RotationOK'
    BY <1>1, ConstantsAssumption
       DEF IInv, TypeOK, Consistent, RotationOK, Choose, Target, Holding, Exists, Unused, Local
<1>4. OpenOK'
    BY <1>1, IdleFacts DEF IInv, TypeOK, Consistent, OpenOK, Choose, Local
<1> QED
    BY <1>2, <1>3, <1>4, SameDisk DEF IInv, Consistent, Choose, Spent

LEMMA SetPathIInv == ASSUME IInv, NEW p \in Paths, SetPath(p) PROVE IInv' /\ Remembers /\ Preserves
<1>1. TypeOK'
    BY DEF IInv, TypeOK, SetPath, Holding, Exists
<1>2. RotationOK' /\ OpenOK'
    BY DEF IInv, Consistent, RotationOK, OpenOK, SetPath, Holding, Exists, Unused
<1> QED
    BY <1>1, <1>2, SameDisk DEF IInv, Consistent, SetPath

LEMMA CloseIInv == ASSUME IInv, Close PROVE IInv' /\ Remembers /\ Preserves
<1>1. Closed \notin DOMAIN disk /\ Closed # NoFile /\ Closed # Gone
    BY NoNames DEF IInv, TypeOK
<1>2. TypeOK'
    BY DEF IInv, TypeOK, Close, Holding, Exists, Spent
<1>3. RotationOK' /\ OpenOK'
    BY <1>1 DEF IInv, Consistent, RotationOK, OpenOK, Close, Holding, Exists, Unused
<1> QED
    BY <1>2, <1>3, SameDisk DEF IInv, Consistent, Close, Spent

LEMMA KillIInv == ASSUME IInv, Kill PROVE IInv' /\ Remembers /\ Preserves
<1>1. NoFile \notin DOMAIN disk /\ NoFile # Gone
    BY NoNames DEF IInv, TypeOK
<1>2. \A w \in Writers : at'[w] = Idle
    BY DEF Kill
<1>3. TypeOK'
  <2>1. at' \in [Writers -> Local] /\ kills' \in Nat
      BY <1>2, IdleFacts DEF IInv, TypeOK, Kill
  <2>2. \A v \in Writers : ~Holding(v)' /\ at'[v].pc \notin {"zip", "copy", "remove"}
      BY <1>2, IdleFacts DEF Holding
  <2> QED
      BY <2>1, <2>2 DEF IInv, TypeOK, Kill
<1>4. RotationOK'
    BY <1>2, IdleFacts DEF RotationOK, Holding
<1>5. OpenOK'
    BY <1>1, <1>2 DEF OpenOK, Kill
<1> QED
    BY <1>3, <1>4, <1>5, SameDisk DEF IInv, Consistent, Kill

-----------------------------------------------------------------------------
(* A failure, wherever it is, only takes the rotation to its next step.     *)
LEMMA GoesOn ==
    ASSUME IInv, NEW w \in Writers, Holding(w), NEW pc \in {"reopen", "print"}, Goto(w, pc),
           Fails, UNCHANGED <<up, path, disk, open, printed, astray>>,
           adrift' \in BOOLEAN, adrift => adrift',
           pc = "reopen" \/ adrift' \/ at[w].pc # "reopen"
    PROVE  IInv' /\ Remembers /\ Preserves
<1>1. /\ at' \in [Writers -> Local] /\ failures' \in Nat
      /\ at'[w].pc = pc
      /\ \A v \in Writers : v # w => at'[v] = at[v]
      /\ \A v \in Writers : Holding(v)' => Holding(v) /\ at'[v].path = at[v].path
      /\ \A v \in Writers : at'[v].pc \in {"rename", "zip", "copy", "remove"} => at'[v] = at[v]
    BY DEF IInv, TypeOK, Goto, Holding, Local, Fails
<1>2. TypeOK'
    BY <1>1 DEF IInv, TypeOK, Exists, Fails
<1>3. RotationOK'
    BY <1>1 DEF IInv, Consistent, RotationOK, Exists, Unused
<1>4. OpenOK'
    BY <1>1, IdleFacts DEF IInv, TypeOK, Consistent, OpenOK, Holding
<1> QED
    BY <1>2, <1>3, <1>4, SameDisk DEF IInv, Consistent

-----------------------------------------------------------------------------
(* The steps that change the files: what the new ones are, then what holds *)
(* of them.                                                                *)
LEMMA RenameIInv == ASSUME IInv, NEW w \in Writers, Rename(w) PROVE IInv' /\ Remembers /\ Preserves
<1> DEFINE p == at[w].path
           n == at[w].target
           live == Live(p)
           archive == Plain(p, n)
<1>1. /\ Holding(w) /\ at[w].pc = "rename" /\ at[w] \in Local /\ p \in Paths
      /\ n \in 1 .. MaxArchives /\ n \in 0 .. MaxArchives
      /\ live \in DOMAIN disk /\ archive \notin DOMAIN disk /\ Zipped(p, n) \notin DOMAIN disk
    BY DEF IInv, TypeOK, Consistent, RotationOK, Rename, Holding, Exists, Unused
<1>2. /\ live \in Names /\ archive \in Names /\ live # archive
      /\ live[1] = p /\ live[2] = 0 /\ live[3] = "log"
      /\ archive[1] = p /\ archive[2] = n /\ archive[3] = "log"
    BY <1>1, NameFacts
<1>3. \A v \in Writers : v # w => ~Holding(v) /\ at[v].pc \in {"idle", "wait"}
    BY <1>1, OthersWait
<1>4. CASE Goto(w, "print") /\ UNCHANGED <<disk, open, up, path, printed, adrift, astray>> /\ Fails
    BY <1>1, <1>4, GoesOn DEF IInv, TypeOK
<1>5. CASE /\ disk' = Moved(live, archive)
           /\ open' = IF open = live THEN archive ELSE open
           /\ Goto(w, "zip")
           /\ Succeeds
           /\ UNCHANGED <<up, path, printed, adrift, astray>>
  <2>1. /\ DOMAIN disk' = (DOMAIN disk \ {live}) \union {archive}
        /\ disk'[archive] = disk[live]
        /\ \A g \in DOMAIN disk \ {live} : g # archive /\ disk'[g] = disk[g]
        /\ disk' = [g \in DOMAIN disk' |-> disk'[g]]
      BY <1>1, <1>5 DEF Moved
  <2>2. /\ \A v \in Writers : v # w => at'[v] = at[v]
        /\ at'[w].pc = "zip" /\ at'[w].path = p /\ at'[w].target = n
        /\ at' \in [Writers -> Local]
      BY <1>1, <1>5 DEF Goto, IInv, TypeOK, Local
  <2>3. TypeOK'
    <3>1. DOMAIN disk' \subseteq Names /\ disk' \in [DOMAIN disk' -> File]
        BY <1>1, <1>2, <2>1 DEF IInv, TypeOK
    <3>2. open' \in DOMAIN disk' \union {NoFile, Gone, Closed}
        BY <1>5, <2>1 DEF IInv, TypeOK
    <3>3. \A u, v \in Writers : Holding(u)' /\ Holding(v)' => u = v
        BY <1>3, <2>2 DEF Holding
    <3>4. \A v \in Writers : at'[v].pc \in {"zip", "copy", "remove"} =>
              Exists(Plain(at[v].path, at[v].target))'
        BY <1>3, <2>1, <2>2 DEF Exists
    <3> QED
        BY <1>5, <2>2, <3>1, <3>2, <3>3, <3>4 DEF IInv, TypeOK, Succeeds, Spent
  <2>4. DiskOK'
      BY <1>1, <1>2, <1>5, <2>1 DEF IInv, Consistent, DiskOK
  <2>5. RotationOK'
    <3>1. Zipped(p, n) \notin DOMAIN disk'
        BY <1>1, <2>1, NameFacts
    <3> QED
        BY <1>1, <1>3, <2>2, <3>1 DEF RotationOK, Holding, Exists
  <2>6. OpenOK'
      BY <1>1, <1>2, <1>3, <1>5, <2>1, <2>2, NoNames, IdleFacts DEF IInv, TypeOK, Consistent, OpenOK
  <2>7. Remembers
      BY <1>1, <2>1, Readable
  <2>8. LinesOnce'
    <3>1. \A g \in Whole \ {live} : disk[g].lines \intersect disk[live].lines = {}
      <4>1. \A g \in DOMAIN disk : g[1] = p /\ g[2] = 0 => g = live
          BY <1>1 DEF IInv, TypeOK, Consistent, DiskOK, Names, Live
      <4>2. live \in Whole
          BY <1>1, <1>2 DEF Whole, IInv, Consistent, DiskOK
      <4> QED
          BY <1>2, <4>1, <4>2 DEF IInv, LinesOnce, Whole
    <3>2. \A g \in Whole' : g = archive \/ g \in Whole \ {live}
        BY <2>1 DEF Whole
    <3>3. \A g \in Whole \ {live} : disk'[g] = disk[g]
        BY <2>1 DEF Whole
    <3> QED
        BY <2>1, <3>1, <3>2, <3>3 DEF IInv, LinesOnce
  <2>9. Preserves
      BY <1>2, <2>1 DEF Preserves
  <2> QED
      BY <1>5, <2>3, <2>4, <2>5, <2>6, <2>7, <2>8, <2>9, KeptIfRemembered DEF IInv, Consistent
<1> QED
    BY <1>4, <1>5 DEF Rename

LEMMA ZipIInv == ASSUME IInv, NEW w \in Writers, Zip(w) PROVE IInv' /\ Remembers /\ Preserves
<1> DEFINE p == at[w].path
           n == at[w].target
           gz == Zipped(p, n)
           part == [lines |-> {}, whole |-> FALSE]
<1>1. /\ Holding(w) /\ at[w].pc = "zip" /\ at[w] \in Local /\ p \in Paths
      /\ n \in 1 .. MaxArchives /\ n \in 0 .. MaxArchives /\ n # 0
      /\ Plain(p, n) \in DOMAIN disk /\ gz \notin DOMAIN disk
    BY DEF IInv, TypeOK, Consistent, RotationOK, Zip, Holding, Exists
<1>2. gz \in Names /\ gz[2] = n /\ gz[3] = "gz"
    BY <1>1, NameFacts
<1>3. \A v \in Writers : v # w => ~Holding(v) /\ at[v].pc \in {"idle", "wait"}
    BY <1>1, OthersWait
<1>4. CASE Goto(w, "reopen") /\ Fails /\ UNCHANGED <<disk, up, path, open, printed, adrift, astray>>
    BY <1>1, <1>4, GoesOn DEF IInv, TypeOK
<1>5. CASE /\ disk' = With(gz, part)
           /\ Goto(w, "copy")
           /\ Succeeds
           /\ UNCHANGED <<up, path, open, printed, adrift, astray>>
  <2>1. /\ DOMAIN disk' = DOMAIN disk \union {gz}
        /\ disk'[gz] = part /\ part \in File /\ part.lines = {} /\ ~part.whole
        /\ \A g \in DOMAIN disk : g # gz /\ disk'[g] = disk[g]
        /\ disk' = [g \in DOMAIN disk' |-> disk'[g]]
      BY <1>1, <1>5 DEF With, File
  <2>2. /\ \A v \in Writers : v # w => at'[v] = at[v]
        /\ at'[w].pc = "copy" /\ at'[w].path = p /\ at'[w].target = n
        /\ at' \in [Writers -> Local]
      BY <1>1, <1>5 DEF Goto, IInv, TypeOK, Local
  <2>3. TypeOK'
    <3>1. DOMAIN disk' \subseteq Names /\ disk' \in [DOMAIN disk' -> File]
        BY <1>1, <1>2, <2>1 DEF IInv, TypeOK
    <3>2. \A u, v \in Writers : Holding(u)' /\ Holding(v)' => u = v
        BY <1>3, <2>2 DEF Holding
    <3>3. \A v \in Writers : at'[v].pc \in {"zip", "copy", "remove"} =>
              Exists(Plain(at[v].path, at[v].target))'
        BY <1>1, <1>3, <2>1, <2>2 DEF Exists
    <3> QED
        BY <1>5, <2>1, <2>2, <3>1, <3>2, <3>3 DEF IInv, TypeOK, Succeeds, Spent
  <2>4. DiskOK'
      BY <1>1, <1>2, <1>5, <2>1 DEF IInv, Consistent, DiskOK
  <2>5. RotationOK'
      BY <1>1, <1>3, <2>1, <2>2 DEF RotationOK, Holding, Exists
  <2>6. OpenOK'
      BY <1>1, <1>2, <1>3, <1>5, <2>1, <2>2, NoNames, IdleFacts DEF IInv, TypeOK, Consistent, OpenOK
  <2>7. Remembers
      BY <1>1, <2>1, Readable
  <2>8. LinesOnce'
      BY <2>1 DEF IInv, LinesOnce, Whole
  <2>9. Preserves
      BY <2>1 DEF Preserves
  <2> QED
      BY <1>5, <2>3, <2>4, <2>5, <2>6, <2>7, <2>8, <2>9, KeptIfRemembered DEF IInv, Consistent
<1> QED
    BY <1>4, <1>5 DEF Zip

LEMMA CopyIInv == ASSUME IInv, NEW w \in Writers, Copy(w) PROVE IInv' /\ Remembers /\ Preserves
<1> DEFINE p == at[w].path
           n == at[w].target
           plain == Plain(p, n)
           gz == Zipped(p, n)
<1>1. /\ Holding(w) /\ at[w].pc = "copy" /\ at[w] \in Local /\ p \in Paths
      /\ n \in 1 .. MaxArchives /\ n \in 0 .. MaxArchives /\ n # 0
      /\ plain \in DOMAIN disk /\ gz \in DOMAIN disk /\ ~disk[gz].whole
    BY DEF IInv, TypeOK, Consistent, RotationOK, Copy, Holding, Exists
<1>2. /\ gz[1] = p /\ gz[2] = n /\ gz[3] = "gz" /\ plain # gz
      /\ plain[1] = p /\ plain[2] = n /\ plain[3] = "log"
    BY <1>1, NameFacts
<1>3. \A v \in Writers : v # w => ~Holding(v) /\ at[v].pc \in {"idle", "wait"}
    BY <1>1, OthersWait
<1>4. CASE Goto(w, "reopen") /\ Fails /\ UNCHANGED <<disk, up, path, open, printed, adrift, astray>>
    BY <1>1, <1>4, GoesOn DEF IInv, TypeOK
<1>5. CASE /\ disk' = With(gz, disk[plain])
           /\ Goto(w, "remove")
           /\ Succeeds
           /\ UNCHANGED <<up, path, open, printed, adrift, astray>>
  <2>1. /\ DOMAIN disk' = DOMAIN disk
        /\ disk'[gz] = disk[plain]
        /\ \A g \in DOMAIN disk \ {gz} : disk'[g] = disk[g]
        /\ disk' = [g \in DOMAIN disk' |-> disk'[g]]
      BY <1>1, <1>5 DEF With
  <2>2. /\ \A v \in Writers : v # w => at'[v] = at[v]
        /\ at'[w].pc = "remove" /\ at'[w].path = p /\ at'[w].target = n
        /\ at' \in [Writers -> Local]
      BY <1>1, <1>5 DEF Goto, IInv, TypeOK, Local
  <2>3. TypeOK'
    <3>1. DOMAIN disk' \subseteq Names /\ disk' \in [DOMAIN disk' -> File]
        BY <1>1, <2>1 DEF IInv, TypeOK
    <3>2. \A u, v \in Writers : Holding(u)' /\ Holding(v)' => u = v
        BY <1>3, <2>2 DEF Holding
    <3>3. \A v \in Writers : at'[v].pc \in {"zip", "copy", "remove"} =>
              Exists(Plain(at[v].path, at[v].target))'
        BY <1>1, <1>3, <2>1, <2>2 DEF Exists
    <3> QED
        BY <1>5, <2>1, <2>2, <3>1, <3>2, <3>3 DEF IInv, TypeOK, Succeeds, Spent
  <2>4. DiskOK'
      BY <1>1, <1>2, <1>5, <2>1 DEF IInv, Consistent, DiskOK
  <2>5. RotationOK'
      BY <1>1, <1>2, <1>3, <2>1, <2>2 DEF RotationOK, Holding, Exists
  <2>6. OpenOK'
      BY <1>1, <1>3, <1>5, <2>1, <2>2, NoNames, IdleFacts DEF IInv, TypeOK, Consistent, OpenOK
  <2>7. Remembers
      BY <1>1, <2>1, Readable
  <2>8. LinesOnce'
    <3>1. /\ plain \in Whole /\ gz \in Whole' /\ disk'[gz].lines = disk[plain].lines
          /\ \A g \in Whole' \ {gz} : g \in Whole /\ disk'[g] = disk[g]
        BY <1>1, <1>2, <2>1 DEF Whole, IInv, Consistent, DiskOK
    <3> QED
        BY <1>2, <3>1 DEF IInv, LinesOnce
  <2>9. Preserves
      BY <1>1, <1>2, <2>1 DEF Preserves, Rotating
  <2> QED
      BY <1>5, <2>3, <2>4, <2>5, <2>6, <2>7, <2>8, <2>9, KeptIfRemembered DEF IInv, Consistent
<1> QED
    BY <1>4, <1>5 DEF Copy

LEMMA RemoveIInv == ASSUME IInv, NEW w \in Writers, Remove(w) PROVE IInv' /\ Remembers /\ Preserves
<1> DEFINE p == at[w].path
           n == at[w].target
           plain == Plain(p, n)
           gz == Zipped(p, n)
<1>1. /\ Holding(w) /\ at[w].pc = "remove" /\ at[w] \in Local /\ p \in Paths
      /\ n \in 0 .. MaxArchives
      /\ plain \in DOMAIN disk /\ gz \in DOMAIN disk /\ disk[gz] = disk[plain]
    BY DEF IInv, TypeOK, Consistent, RotationOK, Remove, Holding, Exists
<1>2. gz[3] = "gz" /\ plain[3] = "log" /\ plain # gz
    BY <1>1, NameFacts
<1>3. \A v \in Writers : v # w => ~Holding(v) /\ at[v].pc \in {"idle", "wait"}
    BY <1>1, OthersWait
<1>4. CASE Goto(w, "reopen") /\ Fails /\ UNCHANGED <<disk, up, path, open, printed, adrift, astray>>
    BY <1>1, <1>4, GoesOn DEF IInv, TypeOK
<1>5. CASE /\ disk' = Without(plain)
           /\ open' = IF open = plain THEN Gone ELSE open
           /\ Goto(w, "reopen")
           /\ Succeeds
           /\ UNCHANGED <<up, path, printed, adrift, astray>>
  <2>1. /\ DOMAIN disk' = DOMAIN disk \ {plain}
        /\ \A g \in DOMAIN disk' : disk'[g] = disk[g]
        /\ disk' = [g \in DOMAIN disk' |-> disk'[g]]
      BY <1>1, <1>5 DEF Without
  <2>2. /\ \A v \in Writers : v # w => at'[v] = at[v]
        /\ at'[w].pc = "reopen" /\ at'[w].path = p
        /\ at' \in [Writers -> Local]
      BY <1>1, <1>5 DEF Goto, IInv, TypeOK, Local
  <2>3. TypeOK'
    <3>1. DOMAIN disk' \subseteq Names /\ disk' \in [DOMAIN disk' -> File]
        BY <1>1, <2>1 DEF IInv, TypeOK
    <3>2. open' \in DOMAIN disk' \union {NoFile, Gone, Closed}
        BY <1>5, <2>1 DEF IInv, TypeOK
    <3>3. \A u, v \in Writers : Holding(u)' /\ Holding(v)' => u = v
        BY <1>3, <2>2 DEF Holding
    <3>4. \A v \in Writers : at'[v].pc \notin {"zip", "copy", "remove"}
        BY <1>3, <2>2
    <3> QED
        BY <1>5, <2>2, <3>1, <3>2, <3>3, <3>4 DEF IInv, TypeOK, Succeeds, Spent
  <2>4. DiskOK'
      BY <1>1, <1>2, <1>5, <2>1 DEF IInv, Consistent, DiskOK
  <2>5. RotationOK'
      BY <1>1, <1>3, <2>2 DEF RotationOK, Holding
  <2>6. OpenOK'
      BY <1>1, <1>2, <1>3, <1>5, <2>1, <2>2, NoNames, IdleFacts DEF IInv, TypeOK, Consistent, OpenOK
  <2>7. Remembers
      BY <1>1, <1>2, <2>1, Readable
  <2>8. LinesOnce'
      BY <2>1 DEF IInv, LinesOnce, Whole
  <2>9. Preserves
      BY <1>2, <2>1 DEF Preserves
  <2> QED
      BY <1>5, <2>3, <2>4, <2>5, <2>6, <2>7, <2>8, <2>9, KeptIfRemembered DEF IInv, Consistent
<1> QED
    BY <1>4, <1>5 DEF Remove

(* Opening a file for append adds an empty one, if it is not there.         *)
LEMMA Opens ==
    ASSUME IInv, NEW p \in Paths, disk' = Opened(Live(p)), UNCHANGED printed
    PROVE  /\ Live(p) \in DOMAIN disk' /\ Live(p) \in Names /\ Live(p)[3] = "log"
           /\ DOMAIN disk \subseteq DOMAIN disk'
           /\ \A g \in DOMAIN disk : disk'[g] = disk[g]
           /\ DOMAIN disk' \subseteq Names /\ disk' \in [DOMAIN disk' -> File]
           /\ DiskOK' /\ LinesOnce' /\ Remembers /\ Preserves
<1>1. Live(p) \in Names /\ Live(p)[3] = "log"
    BY NameFacts, ConstantsAssumption
<1>2. /\ DOMAIN disk' = DOMAIN disk \union {Live(p)}
      /\ \A g \in DOMAIN disk : disk'[g] = disk[g]
      /\ Live(p) \notin DOMAIN disk => disk'[Live(p)] = NewFile
      /\ disk' = [g \in DOMAIN disk' |-> disk'[g]]
    BY DEF Opened, With, Exists, IInv, TypeOK
<1>3. DOMAIN disk' \subseteq Names /\ disk' \in [DOMAIN disk' -> File]
    BY <1>1, <1>2, NewFileFacts DEF IInv, TypeOK
<1>4. DiskOK'
    BY <1>1, <1>2, NewFileFacts DEF IInv, Consistent, DiskOK
<1>5. LinesOnce'
    BY <1>2, NewFileFacts DEF IInv, LinesOnce, Whole
<1>6. Remembers
    BY <1>2, Readable
<1>7. Preserves
    BY <1>2 DEF Preserves
<1> QED
    BY <1>1, <1>2, <1>3, <1>4, <1>5, <1>6, <1>7

LEMMA ReopenIInv == ASSUME IInv, NEW w \in Writers, Reopen(w) PROVE IInv' /\ Remembers /\ Preserves
<1> DEFINE p == at[w].path
<1>1. Holding(w) /\ at[w].pc = "reopen" /\ at[w] \in Local /\ p \in Paths
    BY DEF IInv, TypeOK, Consistent, RotationOK, Reopen, Holding
<1>2. \A v \in Writers : v # w => ~Holding(v) /\ at[v].pc \in {"idle", "wait"}
    BY <1>1, OthersWait
<1>3. CASE Goto(w, "print") /\ adrift' = TRUE /\ Fails
           /\ UNCHANGED <<disk, up, path, open, printed, astray>>
    BY <1>1, <1>3, GoesOn
<1>4. CASE /\ disk' = Opened(Live(p))
           /\ open' = IF p = path THEN Live(p) ELSE open
           /\ adrift' = (p # path)
           /\ Goto(w, "print")
           /\ Succeeds
           /\ UNCHANGED <<up, path, printed, astray>>
  <2>1. /\ Live(p) \in DOMAIN disk' /\ Live(p) \in Names /\ Live(p)[3] = "log"
        /\ DOMAIN disk \subseteq DOMAIN disk'
        /\ DOMAIN disk' \subseteq Names /\ disk' \in [DOMAIN disk' -> File]
        /\ DiskOK' /\ LinesOnce' /\ Remembers /\ Preserves
      BY <1>1, <1>4, Opens
  <2>2. /\ \A v \in Writers : v # w => at'[v] = at[v]
        /\ at'[w].pc = "print" /\ at'[w].path = p
        /\ at' \in [Writers -> Local]
      BY <1>1, <1>4 DEF Goto, IInv, TypeOK, Local
  <2>3. TypeOK'
    <3>1. open' \in DOMAIN disk' \union {NoFile, Gone, Closed}
        BY <1>4, <2>1 DEF IInv, TypeOK
    <3>2. \A u, v \in Writers : Holding(u)' /\ Holding(v)' => u = v
        BY <1>2, <2>2 DEF Holding
    <3>3. \A v \in Writers : at'[v].pc \notin {"zip", "copy", "remove"}
        BY <1>2, <2>2
    <3> QED
        BY <1>4, <2>1, <2>2, <3>1, <3>2, <3>3 DEF IInv, TypeOK, Succeeds, Spent
  <2>4. RotationOK'
      BY <1>1, <1>2, <2>2 DEF RotationOK, Holding
  <2>5. OpenOK'
    <3>1. open' \in DOMAIN disk' => open'[3] = "log"
      <4>1. open \in DOMAIN disk' => open \in DOMAIN disk
          BY <2>1, NoNames DEF IInv, TypeOK
      <4> QED
          BY <1>4, <2>1, <4>1 DEF IInv, Consistent, OpenOK
    <3>2. open' # NoFile /\ up'
        BY <1>1, <1>4, <2>1, NoNames, IdleFacts DEF IInv, TypeOK, Consistent, OpenOK
    <3>3. open' = Gone => adrift'
        BY <1>4, <2>1, NoNames
    <3> QED
        BY <3>1, <3>2, <3>3 DEF OpenOK
  <2> QED
      BY <1>4, <2>1, <2>3, <2>4, <2>5, KeptIfRemembered DEF IInv, Consistent
<1> QED
    BY <1>3, <1>4 DEF Reopen

LEMMA StartIInv == ASSUME IInv, Start PROVE IInv' /\ Remembers /\ Preserves
<1>1. /\ open = NoFile /\ path \in Paths /\ NoFile # Gone /\ NoFile \notin DOMAIN disk
      /\ \A w \in Writers : at[w] = Idle /\ ~Holding(w)
    BY NoNames, IdleFacts DEF IInv, TypeOK, Consistent, OpenOK, Start, Holding
<1>2. UNCHANGED <<path, at, printed, astray>> /\ adrift' = FALSE /\ up' = TRUE
    BY DEF Start
<1>3. RotationOK'
    BY <1>1, <1>2, IdleFacts DEF RotationOK, Holding
<1>4. CASE Fails /\ UNCHANGED <<disk, open>>
  <2>1. TypeOK'
    <3>1. failures' \in Nat
        BY <1>4 DEF IInv, TypeOK, Fails
    <3> QED
        BY <1>2, <1>4, <3>1 DEF IInv, TypeOK, Fails, Holding, Exists
  <2>2. OpenOK'
      BY <1>1, <1>2, <1>4 DEF OpenOK
  <2> QED
      BY <1>2, <1>3, <1>4, <2>1, <2>2, SameDisk DEF IInv, Consistent
<1>5. CASE disk' = Opened(Live(path)) /\ open' = Live(path) /\ Succeeds
  <2>1. /\ Live(path) \in DOMAIN disk' /\ Live(path) \in Names /\ Live(path)[3] = "log"
        /\ DOMAIN disk' \subseteq Names /\ disk' \in [DOMAIN disk' -> File]
        /\ DiskOK' /\ LinesOnce' /\ Remembers /\ Preserves
      BY <1>1, <1>2, <1>5, Opens
  <2>2. TypeOK'
      BY <1>1, <1>2, <1>5, <2>1, IdleFacts DEF IInv, TypeOK, Succeeds, Spent, Holding
  <2>3. OpenOK'
      BY <1>2, <1>5, <2>1, NoNames DEF OpenOK
  <2> QED
      BY <1>2, <1>3, <2>1, <2>2, <2>3, KeptIfRemembered DEF IInv, Consistent
<1> QED
    BY <1>4, <1>5 DEF Start

(* The line goes to a file that can be read, unless it goes astray.         *)
LEMMA WriteLineIInv ==
    ASSUME IInv, NEW w \in Writers, WriteLine(w) PROVE IInv' /\ Remembers /\ Preserves
<1> DEFINE line == printed + 1
<1>1. Holding(w) /\ at[w].pc = "print" /\ printed \in Nat /\ printed' = line
    BY DEF IInv, TypeOK, WriteLine, Holding
<1>2. \A v \in Writers : v # w => ~Holding(v) /\ at[v].pc \in {"idle", "wait"}
    BY <1>1, OthersWait
<1>3. /\ \A v \in Writers : v # w => at'[v] = at[v]
      /\ at'[w] = Idle /\ at' \in [Writers -> Local]
    BY IdleFacts DEF WriteLine, IInv, TypeOK
<1>4. /\ DOMAIN disk' = DOMAIN disk
      /\ \A g \in DOMAIN disk \ {open} : disk'[g] = disk[g]
      /\ open \in DOMAIN disk =>
             disk'[open].lines = disk[open].lines \union {line}
             /\ disk'[open].whole /\ disk[open].whole /\ disk'[open] \in File /\ open[3] = "log"
  <2>1. CASE open \in DOMAIN disk
    <3>1. disk' = [disk EXCEPT ![open].lines = @ \union {line}]
        BY <2>1 DEF WriteLine, Exists
    <3>2. disk[open] \in File /\ disk[open].whole /\ open[3] = "log"
        BY <2>1 DEF IInv, TypeOK, Consistent, DiskOK, OpenOK
    <3> QED
        BY <1>1, <2>1, <3>1, <3>2 DEF File, IInv, TypeOK
  <2>2. CASE open \notin DOMAIN disk
      BY <2>2 DEF WriteLine, Exists
  <2> QED
      BY <2>1, <2>2
<1>5. disk' \in [DOMAIN disk' -> File]
  <2>1. disk' = [g \in DOMAIN disk' |-> disk'[g]]
      BY DEF WriteLine, Exists, IInv, TypeOK
  <2> QED
      BY <1>4, <2>1 DEF IInv, TypeOK
<1>6. TypeOK'
  <2>1. printed' \in Nat /\ astray' \subseteq 1 .. printed'
      BY <1>1 DEF IInv, TypeOK, WriteLine
  <2>2. \A u, v \in Writers : Holding(u)' /\ Holding(v)' => u = v
      BY <1>2, <1>3, IdleFacts DEF Holding
  <2>3. \A v \in Writers : at'[v].pc \notin {"zip", "copy", "remove"}
      BY <1>2, <1>3, IdleFacts
  <2> QED
      BY <1>3, <1>4, <1>5, <2>1, <2>2, <2>3 DEF IInv, TypeOK, WriteLine, Spent
<1>7. DiskOK'
    BY <1>1, <1>4 DEF IInv, Consistent, DiskOK
<1>8. RotationOK'
    BY <1>2, <1>3, IdleFacts DEF RotationOK, Holding
<1>9. OpenOK'
    BY <1>1, <1>2, <1>3, <1>4, IdleFacts DEF IInv, Consistent, OpenOK, WriteLine
<1>10. Remembers
    BY <1>4, Readable
<1>11. LinesKept'
  <2>1. CASE adrift \/ open = Closed
      BY <1>1, <1>10, <2>1 DEF IInv, LinesKept, Remembers, WriteLine
  <2>2. CASE ~adrift /\ open # Closed
    <3>1. open \in DOMAIN disk
        BY <1>1, <1>2, <2>2, IdleFacts DEF IInv, TypeOK, Consistent, OpenOK
    <3>2. line \in CanRead'
        BY <1>4, <3>1 DEF CanRead, Whole
    <3> QED
        BY <1>1, <1>10, <2>2, <3>2 DEF IInv, LinesKept, Remembers, WriteLine
  <2> QED
      BY <2>1, <2>2
<1>12. LinesOnce'
  <2>1. \A g \in DOMAIN disk : line \notin disk[g].lines
      BY <1>1 DEF IInv, Consistent, DiskOK
  <2> QED
      BY <1>4, <2>1 DEF IInv, LinesOnce, Whole
<1>13. Preserves
    BY <1>4 DEF Preserves
<1> QED
    BY <1>6, <1>7, <1>8, <1>9, <1>10, <1>11, <1>12, <1>13 DEF IInv, Consistent

-----------------------------------------------------------------------------
LEMMA NextIInv == IInv /\ [Next]_vars => IInv' /\ (Next => Remembers /\ Preserves)
<1> SUFFICES ASSUME IInv, [Next]_vars PROVE IInv' /\ (Next => Remembers /\ Preserves)
    OBVIOUS
<1>1. CASE Next
  <2>1. ASSUME NEW w \in Writers, Log(w) \/ Step(w) PROVE IInv' /\ Remembers /\ Preserves
      BY <2>1, LogIInv, LockIInv, KeepIInv, ChooseIInv, RenameIInv, ZipIInv, CopyIInv,
         RemoveIInv, ReopenIInv, WriteLineIInv DEF Step
  <2> QED
      BY <1>1, <2>1, SetPathIInv, CloseIInv, KillIInv, StartIInv DEF Next
<1>2. CASE UNCHANGED vars /\ ~Next
  <2>1. TypeOK' /\ RotationOK' /\ OpenOK'
      BY <1>2 DEF vars, IInv, TypeOK, Consistent, RotationOK, OpenOK, Holding, Exists, Unused
  <2> QED
      BY <1>2, <2>1, SameDisk DEF vars, IInv, Consistent
<1> QED
    BY <1>1, <1>2

(* The inductive invariant of the log, over the files, the rotation and the *)
(* logger.                                                                  *)
THEOREM Invariance == Spec => []IInv
<1>1. IInv /\ [Next]_vars => IInv'
    BY NextIInv
<1> QED
    BY InitIInv, <1>1, PTL DEF Spec

(* One goroutine at a time is past the mutex, and the file the logger       *)
(* writes to has a name or is none.                                         *)
THEOREM TypeCorrect == Spec => []TypeOK
BY Invariance, PTL DEF IInv

(* Every line logged is kept unless it went to a closed file or into a      *)
(* logger without a new file.                                               *)
THEOREM LinesAreKept == Spec => []LinesKept
BY Invariance, PTL DEF IInv

(* No line is in two archives.                                              *)
THEOREM LinesAreOnce == Spec => []LinesOnce
BY Invariance, PTL DEF IInv

(* No step, of a rotation or a failure or a kill, makes a line unreadable.  *)
THEOREM NothingIsForgotten == Spec => NothingForgotten
<1>1. IInv /\ [Next]_vars => [CanRead \subseteq CanRead']_vars
    BY NextIInv DEF Remembers
<1> QED
    BY Invariance, <1>1, PTL DEF Spec, NothingForgotten

(* No step writes over a finished compressed file, or over one cut short by *)
(* another rotation.                                                        *)
THEOREM ArchivesAreKept == Spec => ArchivesKept
<1>1. IInv /\ [Next]_vars =>
          [\A f \in DOMAIN disk :
               f[3] = "gz" /\ (disk[f].whole \/ ~Rotating(f[1], f[2]))
               => f \in DOMAIN disk' /\ disk'[f] = disk[f]]_vars
    BY NextIInv DEF Preserves
<1> QED
    BY Invariance, <1>1, PTL DEF Spec, ArchivesKept

-----------------------------------------------------------------------------
(* The files as a journal: a step that writes no line leaves the readable  *)
(* lines as they are, because each file that can be read afterwards is new *)
(* and empty or says what a readable file said before.                     *)
Told ==
    \A g \in DOMAIN disk' :
        disk'[g].whole =>
            \/ disk'[g].lines = {}
            \/ \E f \in DOMAIN disk : disk[f].whole /\ disk'[g].lines \subseteq disk[f].lines

LEMMA NothingInvented == ASSUME Told PROVE CanRead' \subseteq CanRead
BY DEF Told, CanRead, Whole

LEMMA OpenedTells == ASSUME NEW f, disk' = Opened(f) PROVE Told
BY NewFileFacts DEF Told, Opened, With, Exists

LEMMA RenameTells == ASSUME IInv, NEW w \in Writers, Rename(w) PROVE Told
<1>1. CASE UNCHANGED disk
    BY <1>1 DEF Told
<1>2. ASSUME disk' = Moved(Live(at[w].path), Plain(at[w].path, at[w].target))
      PROVE  Told
  <2>1. Exists(Live(at[w].path)) /\ at[w].path \in Paths
      BY DEF IInv, Consistent, RotationOK, Rename, Holding
  <2>2. Live(at[w].path)[3] = "log"
      BY DEF Live
  <2>3. Live(at[w].path) \in DOMAIN disk /\ disk[Live(at[w].path)].whole
      BY <2>1, <2>2 DEF IInv, Consistent, DiskOK, Exists
  <2> QED
      BY <1>2, <2>3 DEF Told, Moved
<1> QED
    BY <1>1, <1>2 DEF Rename

LEMMA CopyTells == ASSUME IInv, NEW w \in Writers, Copy(w) PROVE Told
<1> DEFINE source == Plain(at[w].path, at[w].target)
<1>1. CASE UNCHANGED disk
    BY <1>1 DEF Told
<1>2. ASSUME disk' = With(Zipped(at[w].path, at[w].target), disk[source])
      PROVE  Told
  <2>1. /\ Exists(source) /\ at[w].path \in Paths /\ at[w].target \in 0 .. MaxArchives
      BY ConstantsAssumption DEF IInv, TypeOK, Consistent, RotationOK, Copy, Holding
  <2>2. source \in DOMAIN disk /\ disk[source].whole
      BY <2>1, NameFacts DEF IInv, Consistent, DiskOK, Exists
  <2> QED
      BY <1>2, <2>2 DEF Told, With
<1> QED
    BY <1>1, <1>2 DEF Copy

(* A step other than writing a line is a step of nobody in the journal.     *)
LEMMA OtherSteps ==
    ASSUME IInv, Next, UNCHANGED <<printed, astray>>
    PROVE  CanRead' = CanRead
<1>1. CASE UNCHANGED disk
    BY <1>1 DEF CanRead, Whole
<1>2. ASSUME NEW w \in Writers, Log(w) \/ Step(w) PROVE Told
  <2>1. CASE UNCHANGED disk
      BY <2>1 DEF Told
  <2>2. CASE Rename(w)
      BY <2>2, RenameTells
  <2>3. CASE Zip(w)
      BY <2>3 DEF Zip, With, Told
  <2>4. CASE Copy(w)
      BY <2>4, CopyTells
  <2>5. CASE Remove(w)
      BY <2>5 DEF Remove, Without, Told
  <2>6. CASE Reopen(w)
      BY <2>1, <2>6, OpenedTells DEF Reopen
  <2>7. ~WriteLine(w)
      BY DEF WriteLine, IInv, TypeOK
  <2> QED
      BY <1>2, <2>1, <2>2, <2>3, <2>4, <2>5, <2>6, <2>7 DEF Log, Step, Lock, Keep, Choose
<1>3. CASE Start
    BY <1>1, <1>3, OpenedTells, NothingInvented, NextIInv DEF Start, Remembers
<1>4. Told => CanRead' = CanRead
    BY NextIInv, NothingInvented DEF Remembers
<1> QED
    BY <1>1, <1>2, <1>3, <1>4 DEF Next, SetPath, Close, Kill

(* The line written is the only one that can be readable and was not.       *)
LEMMA WriteLineWrites ==
    ASSUME IInv, NEW w \in Writers, WriteLine(w)
    PROVE  Lines!JournalNext
<1> DEFINE line == printed + 1
<1>1. printed' = line /\ IInv' /\ CanRead \subseteq CanRead'
    BY WriteLineIInv DEF WriteLine, Remembers
<1>2. CanRead' \subseteq CanRead \union {line}
  <2>1. DOMAIN disk' = DOMAIN disk
      BY DEF WriteLine
  <2>2. \A g \in DOMAIN disk :
            /\ disk'[g].lines \subseteq disk[g].lines \union {line}
            /\ disk'[g].whole = disk[g].whole
      BY DEF WriteLine, IInv, TypeOK, File
  <2> QED
      BY <2>1, <2>2 DEF CanRead, Whole
<1>3. CanRead' \in {CanRead, CanRead \union {line}}
    BY <1>1, <1>2
<1>4. CASE UNCHANGED astray
  <2>1. astray \subseteq 1 .. printed /\ printed \in Nat
      BY DEF IInv, TypeOK
  <2>2. line \in CanRead'
      BY <1>1, <1>4, <2>1 DEF IInv, LinesKept
  <2> QED
      BY <1>1, <1>3, <1>4, <2>2 DEF Lines!JournalNext, Lines!Write
<1>5. CASE astray' = astray \union {line}
    BY <1>1, <1>3, <1>5 DEF Lines!JournalNext, Lines!WriteAstray
<1> QED
    BY <1>4, <1>5 DEF WriteLine

(* Logging, rotation, failures, kills and changes of the path implement the *)
(* journal: readers of the files see lines being written and nothing else   *)
(* (writeLog, rotateLog and gzipFile).                                      *)
THEOREM FilesImplementJournal == Spec => FilesAreJournal
<1>1. Init => Lines!JournalInit
    BY NewFileFacts DEF Init, Lines!JournalInit, CanRead, Whole
<1>2. IInv /\ [Next]_vars => [Lines!JournalNext]_<<printed, CanRead, astray>>
  <2> SUFFICES ASSUME IInv, [Next]_vars
               PROVE  Lines!JournalNext \/ UNCHANGED <<printed, CanRead, astray>>
      OBVIOUS
  <2>1. ASSUME NEW w \in Writers, WriteLine(w) PROVE Lines!JournalNext
      BY <2>1, WriteLineWrites
  <2>2. CASE Next /\ UNCHANGED <<printed, astray>>
      BY <2>2, OtherSteps
  <2>3. CASE UNCHANGED vars
      BY <2>3 DEF vars, CanRead, Whole
  <2>4. CASE Next /\ \A w \in Writers : ~WriteLine(w)
      BY <2>2, <2>4
         DEF Next, Log, Step, Lock, Keep, Choose, Rename, Zip, Copy, Remove, Reopen,
             SetPath, Close, Kill, Start
  <2> QED
      BY <2>1, <2>3, <2>4
<1> QED
    BY Invariance, <1>1, <1>2, PTL DEF Spec, FilesAreJournal, Lines!JournalSpec
=============================================================================
