--------------------------- MODULE SeedCheckProofs ---------------------------
(***************************************************************************)
(* What TLAPS proves of SeedCheck, for every set of cells, seeds and       *)
(* requests and every bound.  IInv relates the file, the map in memory and *)
(* the request that holds seedMu; Trusted says that whoever may write has  *)
(* read the files, or runs in a process that a reload switched on blindly. *)
(***************************************************************************)
EXTENDS SeedCheck, TLAPS

ReqStates ==
    [pc : {"idle", "check", "record", "append", "write", "rename", "answered"},
     cell : Cells \union {NoCell}, seed : HexSeeds \union {NoSeed, OddSeed},
     collected : BOOLEAN, result : {"none", "accept", "reject"}]

(* Only a file that can be parsed holds seeds. *)
FileShape ==
    /\ verifiedFile.state # "ok" => verifiedFile.map = {}
    /\ collectedFile.state # "ok" => collectedFile.map = {}

(* A process that is down has no memory. *)
DownIsEmpty ==
    process = "down" =>
        seedCollected = {} /\ seedMu = NoRequest /\ \A p \in Requests : reqs[p].pc = "idle"

(* seedMu is held exactly between the lock and the unlock. *)
HolderInside ==
    \A p \in Requests : reqs[p].pc \in {"append", "write", "rename"} <=> seedMu = p

(* A seed enters the map in memory before the file is written, and a        *)
(* request says so only when it is answered.                               *)
InMemory ==
    \A p \in Requests :
        /\ reqs[p].pc # "answered" => ~reqs[p].collected
        /\ reqs[p].pc \in {"write", "rename"} \/ reqs[p].collected
              => Collected(p) \in seedCollected

(* Only a seed of 16 hexadecimal digits reaches recordCollectedSeed, and    *)
(* only one of a cell takes seedMu.                                        *)
Recording ==
    \A p \in Requests :
        /\ reqs[p].pc \in {"record", "append", "write", "rename"} => reqs[p].seed \in HexSeeds
        /\ reqs[p].pc \in {"append", "write", "rename"} => reqs[p].cell \in Cells

(* Between two rewrites the file has all that the memory has. *)
FileUpToDate ==
    ~unsaved /\ (\A p \in Requests : reqs[p].pc \notin {"write", "rename"})
        => seedCollected \subseteq collectedFile.map

IInv ==
    /\ TypeOK /\ FileShape /\ DownIsEmpty /\ HolderInside
    /\ InMemory /\ Recording /\ FileUpToDate /\ AcceptedIsDurable

-----------------------------------------------------------------------------
LEMMA InitIInv == Init => IInv
<1> SUFFICES ASSUME Init PROVE IInv
    OBVIOUS
<1>1. TypeOK
    <2>1. verifiedFile \in Files /\ collectedFile \in Files
        BY DEF Init, Files, Absent, Corrupt, Ok, Map
    <2>2. Idle \in ReqStates
        BY DEF Idle, ReqStates
    <2> QED
        BY <2>1, <2>2 DEF Init, TypeOK, Map, ReqStates, Views
<1>2. FileShape
    BY DEF Init, FileShape, Absent, Corrupt, Ok
<1>3. \A p \in Requests : reqs[p].pc = "idle" /\ ~reqs[p].collected
    BY DEF Init, Idle
<1>4. DownIsEmpty /\ InMemory /\ Recording /\ FileUpToDate /\ AcceptedIsDurable
    BY <1>3 DEF Init, DownIsEmpty, InMemory, Recording, FileUpToDate, AcceptedIsDurable
<1>5. HolderInside
    BY <1>3, ConstantsAssumption DEF Init, HolderInside
<1> QED
    BY <1>1, <1>2, <1>4, <1>5 DEF IInv

(* The process starts, dies or is reconfigured. *)
LEMMA ProcessIInv ==
    ASSUME IInv, Start \/ Crash \/ Edit \/ Reload
    PROVE  IInv'
<1> USE DEF IInv
<1>1. CASE Start
    <2>1. /\ verifiedFile' \in {verifiedFile, Ok({})}
          /\ collectedFile' = collectedFile \/ (collectedFile = Absent /\ collectedFile' = Ok({}))
        BY <1>1 DEF Start, StartEnabled, StartDisabled, EnsureSeedFile, files
    <2>2. TypeOK'
        <3>1. verifiedFile' \in Files /\ collectedFile' \in Files
            <4>1. Ok({}) \in Files
                BY DEF Files, Map, Ok
            <4> QED
                BY <2>1, <4>1 DEF TypeOK
        <3>2. seedVerified' \in Map /\ seedCollected' \in Map /\ seedDataValid' \in BOOLEAN
            <4>1. verifiedFile.map \in Map /\ collectedFile.map \in Map /\ {} \in Map
                BY DEF TypeOK, Files, Map
            <4> QED
                BY <1>1, <4>1 DEF Start, StartEnabled, StartDisabled
        <3> QED
            <4>1. process' = "up" /\ unsaved' = FALSE /\ starts' = starts + 1 /\ starts \in Nat
                BY <1>1 DEF Start, TypeOK
            <4>2. UNCHANGED <<enabled, seedMu, reqs, failures, edits>>
                BY <1>1 DEF Start
            <4>3. starts' \in Nat
                BY <4>1
            <4>4. process' \in {"up", "down"} /\ unsaved' \in BOOLEAN /\ view' \in Views
                BY <1>1, <4>1 DEF Start, Views
            <4>5. /\ enabled' \in BOOLEAN /\ seedMu' \in Requests \union {NoRequest}
                  /\ reqs' \in [Requests -> ReqStates] /\ failures' \in Nat /\ edits' \in Nat
                BY <4>2 DEF TypeOK, ReqStates
            <4> QED
                BY <3>1, <3>2, <4>3, <4>4, <4>5 DEF TypeOK, ReqStates
    <2>3. FileShape'
        BY <2>1 DEF FileShape, Ok
    <2>4. seedCollected' \subseteq collectedFile'.map
        <3>1. seedCollected' = collectedFile.map \/ seedCollected' = {}
            BY <1>1 DEF Start, StartEnabled, StartDisabled
        <3> QED
            BY <2>1, <3>1 DEF Absent, Ok
    <2>5. reqs' = reqs /\ seedMu' = seedMu /\ \A p \in Requests : reqs[p].pc = "idle"
        BY <1>1 DEF Start, DownIsEmpty
    <2>6. DownIsEmpty'
        BY <1>1 DEF Start, DownIsEmpty
    <2>7. HolderInside' /\ InMemory' /\ Recording' /\ AcceptedIsDurable'
        BY <2>5 DEF HolderInside, InMemory, Recording, AcceptedIsDurable
    <2> QED
        BY <2>2, <2>3, <2>4, <2>6, <2>7 DEF FileUpToDate
<1>2. CASE Crash
    <2>1. \A p \in Requests : reqs'[p].pc = "idle" /\ ~reqs'[p].collected
        BY <1>2 DEF Crash, Idle
    <2>2. TypeOK'
        BY <1>2 DEF Crash, TypeOK, Map, Idle, files, bounds, Views
    <2>3. FileShape' /\ DownIsEmpty' /\ FileUpToDate'
        BY <1>2, <2>1 DEF Crash, FileShape, DownIsEmpty, FileUpToDate, files
    <2>4. HolderInside' /\ InMemory' /\ Recording' /\ AcceptedIsDurable'
        BY <1>2, <2>1, ConstantsAssumption DEF Crash, HolderInside, InMemory, Recording, AcceptedIsDurable
    <2> QED
        BY <2>2, <2>3, <2>4
<1>3. CASE Edit
    <2>1. \A p \in Requests : reqs[p].pc = "idle"
        BY <1>3 DEF Edit, DownIsEmpty
    <2>2. /\ verifiedFile' \in {verifiedFile, Corrupt} /\ collectedFile' \in {collectedFile, Corrupt}
          /\ enabled' \in BOOLEAN
        BY <1>3 DEF Edit, TypeOK, files
    <2>3. TypeOK'
        BY <1>3, <2>2 DEF Edit, TypeOK, Files, Map, Corrupt, globals
    <2>4. FileShape'
        BY <2>2 DEF FileShape, Corrupt
    <2>5. DownIsEmpty' /\ HolderInside' /\ InMemory' /\ Recording' /\ FileUpToDate' /\ AcceptedIsDurable'
        BY <1>3, <2>1 DEF Edit, globals, DownIsEmpty, HolderInside, InMemory,
                          Recording, FileUpToDate,
                          AcceptedIsDurable, Collected
    <2> QED
        BY <2>3, <2>4, <2>5
<1>4. CASE Reload
    <2>1. TypeOK'
        BY <1>4 DEF Reload, TypeOK, files, globals, Views
    <2> QED
        BY <1>4, <2>1 DEF Reload, files, globals, FileShape, DownIsEmpty, HolderInside,
                          InMemory, Recording, FileUpToDate, AcceptedIsDurable, Collected
<1> QED
    BY <1>1, <1>2, <1>3, <1>4

-----------------------------------------------------------------------------
(* What the steps of a request have in common. *)
LEMMA RequestFrame ==
    ASSUME IInv, NEW p \in Requests, NEW q \in ReqStates, Becomes(p, q), process = "up"
    PROVE  /\ reqs' \in [Requests -> ReqStates]
           /\ reqs'[p] = q
           /\ \A r \in Requests \ {p} : reqs'[r] = reqs[r]
           /\ DownIsEmpty'
BY DEF IInv, TypeOK, Becomes, ReqStates, DownIsEmpty

LEMMA LocalStates ==
    ASSUME IInv, NEW p \in Requests, process = "up"
    PROVE  /\ reqs[p] \in ReqStates
           /\ \A pc \in {"check", "record", "append", "write", "rename"} :
                /\ Goto(p, pc) \in ReqStates
                /\ Goto(p, pc).pc = pc
                /\ Goto(p, pc).collected = reqs[p].collected
                /\ Goto(p, pc).cell = reqs[p].cell /\ Goto(p, pc).seed = reqs[p].seed
           /\ \A result \in {"accept", "reject"} :
                /\ Answer(p, result) \in ReqStates
                /\ Answer(p, result).pc = "answered"
                /\ Answer(p, result).collected = reqs[p].collected
           /\ LET a == [Answer(p, "accept") EXCEPT !.collected = TRUE]
              IN  /\ a \in ReqStates /\ a.pc = "answered" /\ a.collected
                  /\ a.cell = reqs[p].cell /\ a.seed = reqs[p].seed
<1>1. reqs[p] \in ReqStates
    BY DEF IInv, TypeOK, ReqStates
<1> QED
    BY <1>1 DEF ReqStates, Goto, Answer

(* The steps that leave the file, the map and the lock alone: the next      *)
(* local state is outside the lock and has collected nothing.               *)
LEMMA LookIInv ==
    ASSUME IInv, NEW p \in Requests, NEW q \in ReqStates, process = "up",
           Becomes(p, q), UNCHANGED <<collectedFile, seedCollected, seedMu, failures, unsaved>>,
           reqs[p].pc \in {"idle", "check", "record"},
           q.pc \in {"check", "record", "answered"}, ~q.collected,
           q.pc = "record" => q.seed \in HexSeeds
    PROVE  IInv'
<1> USE DEF IInv
<1>1. /\ reqs' \in [Requests -> ReqStates] /\ reqs'[p] = q /\ DownIsEmpty'
      /\ \A r \in Requests \ {p} : reqs'[r] = reqs[r]
    BY RequestFrame
<1>2. TypeOK'
    BY <1>1 DEF Becomes, TypeOK, ReqStates
<1>3. FileShape' /\ HolderInside'
    BY <1>1 DEF Becomes, FileShape, HolderInside
<1>4. InMemory'
    BY <1>1 DEF InMemory, Collected
<1>5. Recording'
    BY <1>1 DEF Recording
<1>6. FileUpToDate'
    BY <1>1 DEF FileUpToDate
<1>7. AcceptedIsDurable'
    BY <1>1 DEF AcceptedIsDurable, Collected
<1> QED
    BY <1>1, <1>2, <1>3, <1>4, <1>5, <1>6, <1>7

LEMMA VerdictStates ==
    ASSUME IInv, NEW p \in Requests, NEW probe \in BOOLEAN, process = "up", reqs[p].pc = "check"
    PROVE  /\ Verdict(p, probe) \in ReqStates
           /\ Verdict(p, probe).pc \in {"record", "answered"} /\ ~Verdict(p, probe).collected
           /\ Verdict(p, probe).pc = "record"
                => Enabled /\ Verdict(p, probe).seed \in HexSeeds
BY LocalStates DEF Verdict, IInv, InMemory

LEMMA JudgeIInv ==
    ASSUME IInv, NEW p \in Requests,
           \/ \E cell \in Cells \union {NoCell}, seed \in HexSeeds \union {NoSeed, OddSeed} :
                Arrive(p, cell, seed)
           \/ SeedReject(p) \/ RecordNothing(p)
    PROVE  IInv'
<1>1. ASSUME NEW cell \in Cells \union {NoCell}, NEW seed \in HexSeeds \union {NoSeed, OddSeed},
             Arrive(p, cell, seed)
      PROVE  IInv'
    <2> DEFINE q == [Idle EXCEPT !.pc = "check", !.cell = cell, !.seed = seed]
    <2>1. q \in ReqStates /\ q.pc = "check" /\ ~q.collected
        BY DEF Idle, ReqStates
    <2>2. Becomes(p, q) /\ process = "up" /\ reqs[p].pc = "idle"
        BY <1>1 DEF Arrive, At
    <2>3. UNCHANGED <<collectedFile, seedCollected, seedMu, failures, unsaved>>
        BY <1>1 DEF Arrive
    <2> HIDE DEF q
    <2> QED
        BY <2>1, <2>2, <2>3, LookIInv
<1>2. CASE SeedReject(p)
    <2>1. PICK probe \in BOOLEAN : Becomes(p, Verdict(p, probe))
        BY <1>2 DEF SeedReject
    <2>2. process = "up" /\ reqs[p].pc = "check"
          /\ UNCHANGED <<collectedFile, seedCollected, seedMu, failures, unsaved>>
        BY <1>2 DEF SeedReject, At
    <2> DEFINE q == Verdict(p, probe)
    <2>3. /\ q \in ReqStates /\ q.pc \in {"record", "answered"} /\ ~q.collected
          /\ q.pc = "record" => q.seed \in HexSeeds
        BY <2>2, VerdictStates
    <2>4. Becomes(p, q)
        BY <2>1
    <2> HIDE DEF q
    <2> QED
        BY <2>2, <2>3, <2>4, LookIInv
<1>3. CASE RecordNothing(p)
    <2>1. ~reqs[p].collected
        BY <1>3 DEF RecordNothing, At, IInv, InMemory
    <2> DEFINE q == Answer(p, "accept")
    <2>2. process = "up" /\ reqs[p].pc = "record" /\ Becomes(p, q)
          /\ UNCHANGED <<collectedFile, seedCollected, seedMu, failures, unsaved>>
        BY <1>3 DEF RecordNothing, At
    <2>3. q \in ReqStates /\ q.pc = "answered" /\ ~q.collected
        BY <2>1, <2>2, LocalStates
    <2> HIDE DEF q
    <2> QED
        BY <2>2, <2>3, LookIInv
<1> QED
    BY <1>1, <1>2, <1>3

-----------------------------------------------------------------------------
LEMMA LockIInv ==
    ASSUME IInv, NEW p \in Requests, RecordLock(p)
    PROVE  IInv'
<1> USE DEF IInv
<1>1. process = "up" /\ reqs[p].pc = "record" /\ ~reqs[p].collected
    BY DEF RecordLock, At, InMemory
<1>2. Goto(p, "append") \in ReqStates /\ Goto(p, "append").pc = "append" /\ ~Goto(p, "append").collected
    BY <1>1, LocalStates
<1>3. /\ reqs' \in [Requests -> ReqStates] /\ reqs'[p] = Goto(p, "append") /\ DownIsEmpty'
      /\ \A r \in Requests \ {p} : reqs'[r] = reqs[r]
    BY <1>1, <1>2, RequestFrame DEF RecordLock
<1>4. TypeOK'
    BY <1>3 DEF RecordLock, Becomes, TypeOK, ReqStates
<1>5. FileShape' /\ HolderInside'
    BY <1>2, <1>3, ConstantsAssumption DEF RecordLock, Becomes, FileShape, HolderInside
<1>6. InMemory'
    BY <1>2, <1>3 DEF RecordLock, InMemory, Collected
<1>7. FileUpToDate'
    BY <1>1, <1>2, <1>3 DEF RecordLock, FileUpToDate
<1>8. Recording'
    <2>1. Goto(p, "append").seed \in HexSeeds /\ Goto(p, "append").cell \in Cells
        BY <1>1, LocalStates DEF Recording, RecordLock, TypeOK
    <2> QED
        BY <1>3, <2>1 DEF Recording
<1>9. AcceptedIsDurable'
    BY <1>2, <1>3 DEF RecordLock, AcceptedIsDurable, Collected
<1> QED
    BY <1>3, <1>4, <1>5, <1>6, <1>7, <1>8, <1>9

(* A step that stays under seedMu.  The file is not complete any more. *)
LEMMA HoldIInv ==
    ASSUME IInv, NEW p \in Requests, NEW pc \in {"write", "rename"},
           process = "up", reqs[p].pc \in {"append", "write"}, Becomes(p, Goto(p, pc)),
           UNCHANGED <<collectedFile, seedMu, failures, unsaved>>,
           seedCollected' \in Map, seedCollected \subseteq seedCollected',
           Collected(p) \in seedCollected'
    PROVE  IInv'
<1> USE DEF IInv
<1> DEFINE q == Goto(p, pc)
<1>1. /\ q \in ReqStates /\ q.pc = pc /\ q.collected = reqs[p].collected
      /\ q.cell = reqs[p].cell /\ q.seed = reqs[p].seed
    <2>1. pc \in {"check", "record", "append", "write", "rename"}
        OBVIOUS
    <2> QED
        BY <2>1, LocalStates
<1> HIDE DEF q
<1>2. /\ reqs' \in [Requests -> ReqStates] /\ reqs'[p] = q /\ DownIsEmpty'
      /\ \A r \in Requests \ {p} : reqs'[r] = reqs[r]
    <2>1. Becomes(p, q)
        BY DEF q
    <2> QED
        BY <1>1, <2>1, RequestFrame
<1>3. TypeOK'
    BY <1>2 DEF Becomes, TypeOK, ReqStates
<1>4. FileShape' /\ HolderInside'
    BY <1>1, <1>2 DEF Becomes, FileShape, HolderInside
<1>5. InMemory' /\ Recording'
    BY <1>1, <1>2 DEF InMemory, Recording, Collected
<1>6. FileUpToDate' /\ AcceptedIsDurable'
    BY <1>1, <1>2 DEF FileUpToDate, InMemory, AcceptedIsDurable, Collected
<1> QED
    BY <1>2, <1>3, <1>4, <1>5, <1>6

(* A step that gives seedMu back and answers, be it with the file complete  *)
(* or after a failure.                                                     *)
LEMMA ReleaseIInv ==
    ASSUME IInv, NEW p \in Requests, process = "up", seedMu = p,
           Becomes(p, [Answer(p, "accept") EXCEPT !.collected = TRUE]),
           seedMu' = NoRequest, seedCollected' = seedCollected, failures' \in Nat,
           collectedFile' \in Files, collectedFile'.state # "ok" => collectedFile'.map = {},
           unsaved' \in BOOLEAN, Collected(p) \in seedCollected,
           ~unsaved' => seedCollected \subseteq collectedFile'.map
    PROVE  IInv'
<1> USE DEF IInv
<1> DEFINE a == [Answer(p, "accept") EXCEPT !.collected = TRUE]
<1>1. /\ a \in ReqStates /\ a.pc = "answered" /\ a.collected
      /\ a.cell = reqs[p].cell /\ a.seed = reqs[p].seed
    BY LocalStates
<1> HIDE DEF a
<1>2. /\ reqs' \in [Requests -> ReqStates] /\ reqs'[p] = a /\ DownIsEmpty'
      /\ \A r \in Requests \ {p} : reqs'[r] = reqs[r]
    <2>1. Becomes(p, a)
        BY DEF a
    <2> QED
        BY <1>1, <2>1, RequestFrame
<1>3. TypeOK'
    BY <1>2 DEF Becomes, TypeOK, ReqStates
<1>4. FileShape' /\ FileUpToDate'
    BY DEF Becomes, FileShape, FileUpToDate
<1>5. HolderInside'
    BY <1>1, <1>2, ConstantsAssumption DEF HolderInside
<1>6. InMemory' /\ Recording'
    BY <1>1, <1>2 DEF InMemory, Recording, Collected
<1>7. AcceptedIsDurable'
    BY <1>6 DEF AcceptedIsDurable, InMemory, FileShape
<1> QED
    BY <1>2, <1>3, <1>4, <1>5, <1>6, <1>7

LEMMA RecordIInv ==
    ASSUME IInv, NEW p \in Requests,
           RecordAppend(p) \/ WriteTemporary(p) \/ RenameTemporary(p)
    PROVE  IInv'
<1> USE DEF IInv
<1>1. process = "up" /\ reqs[p].pc \in {"append", "write", "rename"} /\ seedMu = p
    BY DEF RecordAppend, WriteTemporary, RenameTemporary, At, HolderInside
<1>2. \A r \in Requests \ {p} : reqs[r].pc \notin {"write", "rename"}
    BY <1>1 DEF HolderInside
<1>3. Collected(p) \in Cells \X HexSeeds
    BY <1>1 DEF Recording, Collected
<1>4. CASE RecordAppend(p)
    <2>1. reqs[p].pc = "append"
        BY <1>4 DEF RecordAppend, At
    <2>2. CASE Collected(p) \in seedCollected
        <3>1. ~unsaved => seedCollected \subseteq collectedFile.map
            BY <1>2, <2>1 DEF FileUpToDate
        <3> QED
            BY <1>1, <1>4, <2>2, <3>1, ReleaseIInv DEF RecordAppend, FileShape, TypeOK
    <2>3. CASE Collected(p) \notin seedCollected
        <3>1. seedCollected' = seedCollected \union {Collected(p)}
            BY <1>4, <2>3 DEF RecordAppend
        <3>2. seedCollected' \in Map
            BY <1>3, <3>1 DEF TypeOK, Map
        <3>3. Becomes(p, Goto(p, "write")) /\ UNCHANGED <<collectedFile, seedMu, failures, unsaved>>
            BY <1>4, <2>3 DEF RecordAppend
        <3> QED
            BY <1>1, <2>1, <3>1, <3>2, <3>3, HoldIInv
    <2> QED
        BY <2>2, <2>3
<1>5. ASSUME RecordFails(p), seedCollected' = seedCollected, reqs[p].pc \in {"write", "rename"}
      PROVE  IInv'
    <2>1. failures' \in Nat /\ Collected(p) \in seedCollected
        BY <1>5 DEF RecordFails, Fails, TypeOK, InMemory
    <2> QED
        BY <1>1, <1>5, <2>1, ReleaseIInv DEF RecordFails, FileShape, TypeOK
<1>6. CASE WriteTemporary(p)
    <2>1. reqs[p].pc = "write" /\ Collected(p) \in seedCollected /\ seedCollected' = seedCollected
        BY <1>6 DEF WriteTemporary, At, InMemory
    <2>2. CASE Becomes(p, Goto(p, "rename")) /\ UNCHANGED <<collectedFile, seedMu, failures, unsaved>>
        BY <1>1, <2>1, <2>2, HoldIInv DEF TypeOK
    <2> QED
        BY <1>5, <1>6, <2>1, <2>2 DEF WriteTemporary
<1>7. CASE RenameTemporary(p)
    <2>1. reqs[p].pc = "rename" /\ Collected(p) \in seedCollected /\ seedCollected' = seedCollected
        BY <1>7 DEF RenameTemporary, At, InMemory
    <2>2. CASE /\ collectedFile' = Ok(seedCollected)
               /\ Becomes(p, [Answer(p, "accept") EXCEPT !.collected = TRUE])
               /\ seedMu' = NoRequest /\ unsaved' = FALSE /\ UNCHANGED failures
        <3>1. Ok(seedCollected) \in Files /\ Ok(seedCollected).state = "ok"
              /\ Ok(seedCollected).map = seedCollected
            BY DEF TypeOK, Files, Ok
        <3> QED
            BY <1>1, <2>1, <2>2, <3>1, ReleaseIInv DEF TypeOK
    <2> QED
        BY <1>5, <1>7, <2>1, <2>2 DEF RenameTemporary
<1> QED
    BY <1>4, <1>6, <1>7

(* Spec keeps the inductive invariant. *)
THEOREM Invariance == Spec => []IInv
<1>1. IInv /\ [Next]_vars => IInv'
    <2> SUFFICES ASSUME IInv, [Next]_vars PROVE IInv'
        OBVIOUS
    <2>1. CASE UNCHANGED vars
        BY <2>1 DEF vars, IInv, TypeOK, FileShape, DownIsEmpty, HolderInside, InMemory,
                    Recording, FileUpToDate, AcceptedIsDurable, Collected
    <2>2. CASE Next
        BY <2>2, ProcessIInv, JudgeIInv, LockIInv, RecordIInv DEF Next, RequestStep
    <2> QED
        BY <2>1, <2>2
<1> QED
    BY <1>1, InitIInv, PTL DEF Spec

(* Files, maps and requests keep their shapes (initSeedCheck, loadSeedMap,  *)
(* recordCollectedSeed).                                                   *)
THEOREM TypeCorrect == Spec => []TypeOK
<1>1. IInv => TypeOK
    BY DEF IInv
<1> QED
    BY <1>1, Invariance, PTL

(* Whoever is answered after recordCollectedSeed took its seed has it in    *)
(* the file, unless the last write of this process failed                   *)
(* (recordCollectedSeed writes the whole map every time).                  *)
THEOREM AcceptedSeedsDurable == Spec => []AcceptedIsDurable
<1>1. IInv => AcceptedIsDurable
    BY DEF IInv
<1> QED
    BY <1>1, Invariance, PTL

-----------------------------------------------------------------------------
(* The files could be read when the process started, and the memory has all *)
(* that the collected file has.                                            *)
Read ==
    /\ "corrupt" \notin {verifiedFile.state, collectedFile.state}
    /\ collectedFile.map \subseteq seedCollected

(* A process that may write, and a request about to write in it, has read   *)
(* the files, unless the process was switched on by a reload without having *)
(* read them.                                                              *)
Trusted ==
    /\ process = "up" /\ view = "read" /\ seedDataValid => Read
    /\ process = "up" /\ enabled => view # "unread"
    /\ \A p \in Requests :
         reqs[p].pc \in {"record", "append", "write", "rename"}
           => view # "unread" /\ (view = "read" => Read)

LEMMA TrustedStep ==
    ASSUME IInv, Trusted, [Next]_vars
    PROVE  Trusted'
<1>1. CASE UNCHANGED vars
    BY <1>1 DEF vars, Trusted, Enabled, Read
<1>2. CASE Start
    <2>1. \A p \in Requests : reqs'[p].pc = "idle"
        BY <1>2 DEF Start, IInv, DownIsEmpty
    <2>2. CASE StartEnabled /\ seedDataValid'
        <3>1. /\ seedCollected' = collectedFile.map
              /\ "corrupt" \notin {verifiedFile.state, collectedFile.state}
              /\ verifiedFile' = verifiedFile \/ verifiedFile' = Ok({})
              /\ collectedFile' = collectedFile \/ collectedFile' = Ok({})
            BY <2>2 DEF StartEnabled
        <3>2. Read'
            BY <3>1 DEF Read, Ok
        <3> QED
            BY <1>2, <2>1, <2>2, <3>2 DEF Trusted, Start, StartEnabled
    <2>3. CASE ~(enabled' /\ seedDataValid')
        BY <1>2, <2>1, <2>3 DEF Trusted, Start
    <2> QED
        BY <1>2, <2>2, <2>3 DEF Start, StartDisabled
<1>3. CASE Crash \/ Edit
    <2>1. process' = "down" /\ \A p \in Requests : reqs'[p].pc = "idle"
        BY <1>3 DEF Crash, Edit, Idle, IInv, DownIsEmpty
    <2> QED
        BY <2>1 DEF Trusted
<1>4. CASE Reload
    BY <1>4 DEF Reload, Trusted, Enabled, Read, files, globals, IInv, TypeOK
<1>5. ASSUME NEW p \in Requests,
             \/ \E cell \in Cells \union {NoCell}, seed \in HexSeeds \union {NoSeed, OddSeed} :
                  Arrive(p, cell, seed)
             \/ RequestStep(p) \/ RecordLock(p)
      PROVE  Trusted'
    <2>1. PICK q : Becomes(p, q) /\ process = "up"
        BY <1>5 DEF Arrive, RequestStep, SeedReject, RecordNothing, RecordLock, RecordAppend,
                    WriteTemporary, RenameTemporary, RecordFails, At
    <2>2. /\ seedCollected \subseteq seedCollected'
          /\ UNCHANGED collectedFile \/ (collectedFile' = Ok(seedCollected) /\ reqs[p].pc = "rename")
        BY <1>5 DEF Arrive, RequestStep, SeedReject, RecordNothing, RecordLock, RecordAppend,
                    WriteTemporary, RenameTemporary, RecordFails, At
    <2>3. Read => Read'
        BY <2>1, <2>2 DEF Read, Ok, Becomes
    <2>4. reqs'[p].pc \in {"record", "append", "write", "rename"}
            => view # "unread" /\ (view = "read" => Read)
        <3>1. CASE reqs[p].pc \in {"record", "append", "write", "rename"}
            BY <3>1 DEF Trusted
        <3>2. CASE reqs[p].pc = "check"
            <4>1. PICK probe \in BOOLEAN : Becomes(p, Verdict(p, probe))
                BY <1>5, <3>2 DEF Arrive, RequestStep, SeedReject, RecordNothing, RecordLock,
                                  RecordAppend, WriteTemporary, RenameTemporary, At
            <4>2. Verdict(p, probe).pc = "record" => Enabled
                BY <2>1, <3>2, VerdictStates
            <4>3. reqs'[p] = Verdict(p, probe) /\ Verdict(p, probe).pc \in {"record", "answered"}
                BY <2>1, <3>2, <4>1, VerdictStates DEF Becomes, IInv, TypeOK
            <4> QED
                BY <2>1, <4>2, <4>3 DEF Trusted, Enabled
        <3>3. CASE reqs[p].pc \in {"idle", "answered"}
            <4>1. PICK cell \in Cells \union {NoCell}, seed \in HexSeeds \union {NoSeed, OddSeed} :
                    Arrive(p, cell, seed)
                BY <1>5, <3>3 DEF RequestStep, SeedReject, RecordNothing, RecordLock,
                                  RecordAppend, WriteTemporary, RenameTemporary, At
            <4>2. reqs'[p].pc = "check"
                BY <4>1 DEF Arrive, Becomes, Idle, IInv, TypeOK
            <4> QED
                BY <4>2
        <3> QED
            BY <3>1, <3>2, <3>3 DEF IInv, TypeOK
    <2>5. \A r \in Requests \ {p} : reqs'[r] = reqs[r]
        BY <2>1 DEF Becomes, IInv, TypeOK
    <2> QED
        BY <2>1, <2>3, <2>4, <2>5 DEF Trusted, Becomes, Enabled
<1> QED
    BY <1>1, <1>2, <1>3, <1>4, <1>5 DEF Next

(* Only a process that has read both files records seeds, or one that a     *)
(* reload switched on (initSeedCheck reads them when the check is on).      *)
THEOREM TrustedInvariance == Spec => [](IInv /\ Trusted)
<1>1. Init => Trusted
    BY DEF Init, Trusted, Idle
<1>2. IInv /\ Trusted /\ [Next]_vars => Trusted'
    BY TrustedStep
<1> QED
    BY <1>1, <1>2, Invariance, PTL DEF Spec

(* No step of the program makes the collected file unreadable or takes a    *)
(* seed out of it, whatever the operator switches, but in a process that    *)
(* was switched on by a reload without having read the file                *)
(* (writeSeedMapAtomic, ensureSeedFile, seedWriteEnabled).                  *)
THEOREM CollectedGrows == Spec => CollectedOnlyGrows
<1>1. ASSUME IInv, Trusted, [Next]_vars, Running, view # "blind", collectedFile.state = "ok"
      PROVE  collectedFile'.state = "ok" /\ collectedFile.map \subseteq collectedFile'.map
    <2>1. CASE UNCHANGED collectedFile
        BY <1>1, <2>1
    <2>2. CASE Start
        BY <1>1, <2>2 DEF Start, StartEnabled, StartDisabled, EnsureSeedFile, files, Absent
    <2>3. CASE Edit
        BY <1>1, <2>3 DEF Edit, Running
    <2>4. ASSUME NEW p \in Requests, RenameTemporary(p)
          PROVE  collectedFile' = collectedFile \/ (collectedFile' = Ok(seedCollected) /\ Read)
        BY <1>1, <2>4 DEF RenameTemporary, RecordFails, At, Trusted, IInv, TypeOK, Views
    <2>5. CASE \E p \in Requests : RenameTemporary(p)
        BY <1>1, <2>4, <2>5 DEF Read, Ok
    <2> QED
        BY <1>1, <2>1, <2>2, <2>3, <2>5 DEF Next, vars, Crash, Reload, files, RequestStep, Arrive,
            SeedReject, RecordNothing, RecordLock, RecordAppend, WriteTemporary, RecordFails
<1>2. IInv /\ Trusted /\ [Next]_vars =>
        [Running /\ view # "blind" /\ collectedFile.state = "ok"
           => collectedFile'.state = "ok" /\ collectedFile.map \subseteq collectedFile'.map]_vars
    BY <1>1
<1> QED
    BY <1>2, TrustedInvariance, PTL DEF Spec, CollectedOnlyGrows

(* The collected file is left alone while it or the verified file cannot be *)
(* parsed, but that a start creates the missing one and that a process      *)
(* switched on by a reload without having read the files writes             *)
(* (initSeedCheck, seedWriteEnabled).                                      *)
THEOREM UnusableLeftAlone == Spec => UnusableKept
<1>1. ASSUME IInv, Trusted, [Next]_vars, Running, view # "blind",
             "corrupt" \in {verifiedFile.state, collectedFile.state}
      PROVE  \/ collectedFile' = collectedFile
             \/ process = "down" /\ collectedFile = Absent /\ collectedFile' = Ok({})
    <2>1. \A p \in Requests : ~RenameTemporary(p)
        BY <1>1 DEF RenameTemporary, At, Trusted, Read, IInv, TypeOK, Views
    <2>2. CASE Start
        BY <2>2 DEF Start, StartEnabled, StartDisabled, EnsureSeedFile, files
    <2>3. ~Edit
        BY <1>1 DEF Edit, Running
    <2> QED
        BY <1>1, <2>1, <2>2, <2>3 DEF Next, vars, Crash, Reload, files, RequestStep, Arrive,
            SeedReject, RecordNothing, RecordLock, RecordAppend, WriteTemporary, RecordFails
<1>2. IInv /\ Trusted /\ [Next]_vars =>
        [Running /\ view # "blind" /\ "corrupt" \in {verifiedFile.state, collectedFile.state}
           => \/ collectedFile' = collectedFile
              \/ process = "down" /\ collectedFile = Absent /\ collectedFile' = Ok({})]_vars
    BY <1>1
<1> QED
    BY <1>2, TrustedInvariance, PTL DEF Spec, UnusableKept
=============================================================================
