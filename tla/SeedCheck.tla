------------------------------ MODULE SeedCheck ------------------------------
(***************************************************************************)
(* The dispatchSeed check of seed.go.  Two JSON files hold, for each cell  *)
(* (a canonical version and a platform), the seeds that were verified by   *)
(* hand and the seeds collected from clients.  initSeedCheck loads both    *)
(* when the process starts and the check is switched on; seedReject judges *)
(* every dispatch request against the verified seeds and collects the      *)
(* seeds of cells that have none, rewriting the collected file under       *)
(* seedMu.  The switch itself is read from the configuration every time,   *)
(* and a reload (SIGHUP, or the REPL) may change it while the process runs.*)
(***************************************************************************)
EXTENDS Naturals, FiniteSets

CONSTANTS Cells,          \* version and platform
          HexSeeds,       \* seeds of 16 hexadecimal digits
          Requests,       \* dispatch requests, one check each while a process lives
          MaxFailures, MaxStarts, MaxEdits   \* bounds

NoCell == "none"   \* an empty version, or a platform nobody can name
NoSeed == "none"
OddSeed == "odd"   \* a seed that is not 16 hexadecimal digits
NoRequest == "free"

ASSUME ConstantsAssumption ==
    /\ NoCell \notin Cells /\ {NoSeed, OddSeed} \intersect HexSeeds = {}
    /\ NoRequest \notin Requests
    /\ MaxFailures \in Nat /\ MaxStarts \in Nat /\ MaxEdits \in Nat

VARIABLES
    verifiedFile, collectedFile,   \* the files: a state and the map in them
    enabled,                       \* seedCheck.enabled of the configuration
    process,                       \* "up" or "down"
    seedVerified, seedCollected, seedDataValid,   \* the globals of seed.go
    seedMu,                        \* the request that holds seedMu
    reqs,                          \* the local state of each request
    failures, starts, edits,       \* spent against the bounds
    unsaved,                       \* history: the last write of this process failed
    view                           \* history: what this process knows of the files

vars == <<verifiedFile, collectedFile, enabled, process, seedVerified,
          seedCollected, seedDataValid, seedMu, reqs, failures, starts, edits,
          unsaved, view>>
globals == <<seedVerified, seedCollected, seedDataValid>>
bounds == <<failures, starts, edits>>
files == <<verifiedFile, collectedFile>>

Map == SUBSET (Cells \X HexSeeds)
Files == [state : {"absent", "corrupt", "ok"}, map : Map]
Absent == [state |-> "absent", map |-> {}]
Corrupt == [state |-> "corrupt", map |-> {}]
Ok(m) == [state |-> "ok", map |-> m]

(* A process that starts with the check on has read the files; one that     *)
(* starts with it off has not, which matters once a reload switches it on.  *)
Views == {"read", "unread", "blind"}

Idle == [pc |-> "idle", cell |-> NoCell, seed |-> NoSeed, collected |-> FALSE, result |-> "none"]

Init ==
    /\ verifiedFile \in {Absent, Corrupt} \union {Ok(m) : m \in Map}
    /\ collectedFile = Absent
    /\ enabled \in BOOLEAN
    /\ process = "down"
    /\ seedVerified = {} /\ seedCollected = {} /\ seedDataValid = FALSE
    /\ seedMu = NoRequest
    /\ reqs = [p \in Requests |-> Idle]
    /\ failures = 0 /\ starts = 0 /\ edits = 0
    /\ unsaved = FALSE /\ view = "unread"

Fails == failures < MaxFailures /\ failures' = failures + 1

-----------------------------------------------------------------------------
(* initSeedCheck, before the server listens.  ensureSeedFile creates the    *)
(* missing files; the temporary file and the rename leave a file as it was  *)
(* or complete, so creating one is one step that happens or does not.       *)
EnsureSeedFile(old, new) == new = old \/ (old = Absent /\ new = Ok({}))

(* Slip: a file that cannot be parsed counts as an empty one. *)
SlipStartAnyway ==
    /\ enabled
    /\ seedDataValid' = TRUE
    /\ seedVerified' = verifiedFile.map /\ seedCollected' = collectedFile.map
    /\ UNCHANGED files

StartEnabled ==
    /\ enabled
    /\ seedDataValid' = (verifiedFile.state # "corrupt" /\ collectedFile.state # "corrupt")
    /\ seedVerified' = verifiedFile.map /\ seedCollected' = collectedFile.map
    /\ verifiedFile' \in {verifiedFile, Ok({})}
    /\ EnsureSeedFile(verifiedFile, verifiedFile')
    /\ collectedFile' \in {collectedFile, Ok({})}
    /\ EnsureSeedFile(collectedFile, collectedFile')

StartDisabled ==
    /\ ~enabled
    /\ seedDataValid' = TRUE /\ seedVerified' = {} /\ seedCollected' = {}
    /\ UNCHANGED files

Start ==
    /\ process = "down" /\ process' = "up"
    /\ starts < MaxStarts /\ starts' = starts + 1
    /\ StartEnabled \/ StartDisabled
    /\ unsaved' = FALSE /\ view' = (IF enabled THEN "read" ELSE "unread")
    /\ UNCHANGED <<enabled, seedMu, reqs, failures, edits>>

(* The process dies between any two steps; only the files survive. *)
Crash ==
    /\ process = "up" /\ process' = "down"
    /\ seedVerified' = {} /\ seedCollected' = {} /\ seedDataValid' = FALSE
    /\ seedMu' = NoRequest /\ reqs' = [p \in Requests |-> Idle]
    /\ unsaved' = FALSE /\ view' = "unread"
    /\ UNCHANGED <<files, enabled, bounds>>

(* The operator, while the process is down: the switch, and the files,      *)
(* which a mistake may leave unusable.                                     *)
Edit ==
    /\ process = "down" /\ edits < MaxEdits /\ edits' = edits + 1
    /\ \/ enabled' = ~enabled /\ UNCHANGED files
       \/ verifiedFile' = Corrupt /\ UNCHANGED <<enabled, collectedFile>>
       \/ collectedFile' = Corrupt /\ UNCHANGED <<enabled, verifiedFile>>
    /\ UNCHANGED <<process, globals, seedMu, reqs, failures, starts, unsaved, view>>

(* reloadConfig only replaces the configuration: seed.go is not run again. *)
Reload ==
    /\ process = "up" /\ edits < MaxEdits /\ edits' = edits + 1
    /\ enabled' = ~enabled
    /\ view' = (IF enabled' /\ view = "unread" THEN "blind" ELSE view)
    /\ UNCHANGED <<files, process, globals, seedMu, reqs, failures, starts, unsaved>>

-----------------------------------------------------------------------------
At(p, pc) == process = "up" /\ reqs[p].pc = pc

(* The next local state of p, and what no step of a request changes. *)
Becomes(p, q) ==
    /\ reqs' = [reqs EXCEPT ![p] = q]
    /\ UNCHANGED <<verifiedFile, enabled, process, seedVerified, seedDataValid,
                   starts, edits, view>>

Goto(p, pc) == [reqs[p] EXCEPT !.pc = pc]
Answer(p, result) == [reqs[p] EXCEPT !.pc = "answered", !.result = result]
Collected(p) == <<reqs[p].cell, reqs[p].seed>>

Arrive(p, cell, seed) ==
    /\ At(p, "idle")
    /\ Becomes(p, [Idle EXCEPT !.pc = "check", !.cell = cell, !.seed = seed])
    /\ UNCHANGED <<collectedFile, seedCollected, seedMu, failures, unsaved>>

Verified(cell) == {s \in HexSeeds : <<cell, s>> \in seedVerified}

Enabled == enabled /\ seedDataValid   \* seedWriteEnabled

(* Slip: any seed is collected, not only those of 16 hexadecimal digits. *)
SlipAnySeed(p, probe) ==
    LET q == reqs[p] IN
    IF ~Enabled THEN Answer(p, "accept")
    ELSE IF Verified(q.cell) # {}
    THEN Answer(p, IF q.seed \in Verified(q.cell) THEN "accept" ELSE "reject")
    ELSE IF q.seed # NoSeed THEN Goto(p, "record")
    ELSE Answer(p, IF probe THEN "accept" ELSE "reject")

(* seedReject, up to recordCollectedSeed.  probe: the path names a region   *)
(* of the configuration.                                                   *)
Verdict(p, probe) ==
    LET q == reqs[p] IN
    IF ~Enabled THEN Answer(p, "accept")
    ELSE IF Verified(q.cell) # {}
    THEN Answer(p, IF q.seed \in Verified(q.cell) THEN "accept" ELSE "reject")
    ELSE IF q.seed \in HexSeeds THEN Goto(p, "record")
    ELSE Answer(p, IF probe THEN "accept" ELSE "reject")

SeedReject(p) ==
    /\ At(p, "check") /\ \E probe \in BOOLEAN : Becomes(p, Verdict(p, probe))
    /\ UNCHANGED <<collectedFile, seedCollected, seedMu, failures, unsaved>>

-----------------------------------------------------------------------------
(* recordCollectedSeed: all of it but the first check under seedMu. *)
RecordNothing(p) ==
    /\ At(p, "record") /\ reqs[p].cell = NoCell
    /\ Becomes(p, Answer(p, "accept"))
    /\ UNCHANGED <<collectedFile, seedCollected, seedMu, failures, unsaved>>

RecordLock(p) ==
    /\ At(p, "record") /\ reqs[p].cell # NoCell
    /\ seedMu = NoRequest /\ seedMu' = p
    /\ Becomes(p, Goto(p, "append"))
    /\ UNCHANGED <<collectedFile, seedCollected, failures, unsaved>>

(* Slip: seedMu is given back before the file is written. *)
SlipUnlockEarly(p) ==
    /\ At(p, "append") /\ seedMu' = NoRequest
    /\ IF Collected(p) \in seedCollected
       THEN /\ Becomes(p, [Answer(p, "accept") EXCEPT !.collected = TRUE])
            /\ UNCHANGED seedCollected
       ELSE /\ Becomes(p, Goto(p, "write"))
            /\ seedCollected' = seedCollected \union {Collected(p)}
    /\ UNCHANGED <<collectedFile, failures, unsaved>>

(* A seed that is already in memory is not written again. *)
RecordAppend(p) ==
    /\ At(p, "append")
    /\ IF Collected(p) \in seedCollected
       THEN /\ Becomes(p, [Answer(p, "accept") EXCEPT !.collected = TRUE])
            /\ seedMu' = NoRequest /\ UNCHANGED seedCollected
       ELSE /\ Becomes(p, Goto(p, "write"))
            /\ seedCollected' = seedCollected \union {Collected(p)}
            /\ UNCHANGED seedMu
    /\ UNCHANGED <<collectedFile, failures, unsaved>>

(* Slip: the file is written in place, so it is cut off first. *)
SlipWriteInPlace(p) ==
    /\ At(p, "write")
    /\ collectedFile' = Corrupt /\ Becomes(p, Goto(p, "rename"))
    /\ UNCHANGED <<seedCollected, seedMu, failures, unsaved>>

(* Slip: an error return that skips the unlock. *)
SlipKeepMu(p) ==
    /\ Fails /\ unsaved' = TRUE
    /\ Becomes(p, [Answer(p, "accept") EXCEPT !.collected = TRUE])
    /\ UNCHANGED <<seedMu, collectedFile>>

RecordFails(p) ==
    /\ Fails /\ unsaved' = TRUE
    /\ Becomes(p, [Answer(p, "accept") EXCEPT !.collected = TRUE])
    /\ seedMu' = NoRequest /\ UNCHANGED collectedFile

(* writeSeedMapAtomic: the temporary file. *)
WriteTemporary(p) ==
    /\ At(p, "write")
    /\ \/ Becomes(p, Goto(p, "rename")) /\ UNCHANGED <<collectedFile, seedMu, failures, unsaved>>
       \/ RecordFails(p)
    /\ UNCHANGED seedCollected

(* writeSeedMapAtomic: the rename puts the whole map in place, with the    *)
(* seeds that earlier writes failed to put there.                          *)
RenameTemporary(p) ==
    /\ At(p, "rename")
    /\ \/ /\ collectedFile' = Ok(seedCollected)
          /\ Becomes(p, [Answer(p, "accept") EXCEPT !.collected = TRUE])
          /\ seedMu' = NoRequest /\ unsaved' = FALSE /\ UNCHANGED failures
       \/ RecordFails(p)
    /\ UNCHANGED seedCollected

-----------------------------------------------------------------------------
RequestStep(p) ==
    \/ SeedReject(p) \/ RecordNothing(p) \/ RecordAppend(p)
    \/ WriteTemporary(p) \/ RenameTemporary(p)

Next ==
    \/ Start \/ Crash \/ Edit \/ Reload
    \/ \E p \in Requests :
         \/ \E cell \in Cells \union {NoCell}, seed \in HexSeeds \union {NoSeed, OddSeed} :
              Arrive(p, cell, seed)
         \/ RequestStep(p) \/ RecordLock(p)

Spec == Init /\ [][Next]_vars

(* Handlers are scheduled; sync.Mutex hands seedMu to a starving waiter. *)
Fairness == \A p \in Requests : WF_vars(RequestStep(p)) /\ SF_vars(RecordLock(p))

FairSpec == Spec /\ Fairness

-----------------------------------------------------------------------------
(* Type invariant: files, maps and requests keep their shapes. *)
TypeOK ==
    /\ verifiedFile \in Files /\ collectedFile \in Files
    /\ enabled \in BOOLEAN /\ process \in {"up", "down"}
    /\ seedVerified \in Map /\ seedCollected \in Map /\ seedDataValid \in BOOLEAN
    /\ seedMu \in Requests \union {NoRequest}
    /\ reqs \in [Requests ->
         [pc : {"idle", "check", "record", "append", "write", "rename", "answered"},
          cell : Cells \union {NoCell}, seed : HexSeeds \union {NoSeed, OddSeed},
          collected : BOOLEAN, result : {"none", "accept", "reject"}]]
    /\ failures \in Nat /\ starts \in Nat /\ edits \in Nat
    /\ unsaved \in BOOLEAN /\ view \in Views

Running == process = "up" \/ process' = "up"

(* What the program once wrote to the collected file it does not lose: no   *)
(* write, failed write, crash in the middle of one, restart, or switching   *)
(* the check off and on again leaves the file unreadable or without a seed  *)
(* it had.  The exception is a process that started with the check off, has *)
(* not read the file (seed.go:33-35) and had the check switched on by a     *)
(* reload (seed.go:77): the first seed it collects replaces the file        *)
(* (seed.go:198).                                                          *)
CollectedOnlyGrows ==
    [][Running /\ view # "blind" /\ collectedFile.state = "ok"
         => collectedFile'.state = "ok" /\ collectedFile.map \subseteq collectedFile'.map]_vars

(* As long as the collected or the verified file cannot be parsed the       *)
(* program leaves the collected file alone, whatever is switched, started   *)
(* and collected, with two exceptions: a start still creates the collected  *)
(* file, empty, when only the verified one is unusable (seed.go:44-49), and *)
(* a process that a reload switched on without its having read the files    *)
(* writes over whatever is there.                                          *)
UnusableKept ==
    [][Running /\ view # "blind" /\ "corrupt" \in {verifiedFile.state, collectedFile.state}
         => \/ collectedFile' = collectedFile
            \/ process = "down" /\ collectedFile = Absent /\ collectedFile' = Ok({})]_vars

(* seed.go:39,46: when a file is unusable the check falls back to "no       *)
(* verification and no writes": no running process changes the collected    *)
(* file as long as it or the verified file cannot be parsed.  The start     *)
(* itself is left out here, see UnusableKept.                              *)
NoWritesWhenUnusable ==
    [][process = "up" /\ "corrupt" \in {verifiedFile.state, collectedFile.state}
         => collectedFile' = collectedFile]_vars

(* A client whose seed was collected, whether its own request wrote it or   *)
(* another one had it in memory already, has it in the file when it is      *)
(* answered, unless the last write of this process failed: a later one     *)
(* makes up for it, for whoever was answered meanwhile.                     *)
AcceptedIsDurable ==
    \A p \in Requests :
        reqs[p].pc = "answered" /\ reqs[p].collected /\ ~unsaved
            => collectedFile.state = "ok" /\ Collected(p) \in collectedFile.map

(* The check decides every request, whatever writes fail, unless the        *)
(* process dies: none waits for seedMu forever.                             *)
EveryRequestDecided ==
    \A p \in Requests : reqs[p].pc = "check" ~> (reqs[p].pc = "answered" \/ process = "down")
=============================================================================
