---------------------------- MODULE StatsCounter ----------------------------
(***************************************************************************)
(* The request statistics of database.go: handleCurRegion counts every     *)
(* request in memory, startStatsFlusher moves the counts to SQLite every   *)
(* 30 seconds and once more when shutdownCh closes, getHotUpdateCount adds *)
(* the two halves for the dashboard and the status page.  Request          *)
(* goroutines, the flusher, account creation (which shares insertMu), the  *)
(* signal goroutine and the REPL all run concurrently.                     *)
(*                                                                         *)
(* One action is one atomic operation of the code: an atomic add or swap,  *)
(* a section under a mutex, or one SQL statement (the pool has a single    *)
(* connection and every statement commits by itself).                      *)
(***************************************************************************)
EXTENDS Integers

CONSTANTS VersionKeys,  \* version + "\x00" + platform, the rows of version_stats
          Readers,      \* requests that report the counter
          MaxRequests,  \* bound: dispatch requests over all process lifetimes
          MaxFailures,  \* bound: SQL statements that fail
          MaxStarts     \* bound: how often the process is started again

ASSUME BoundsAssumption ==
    MaxRequests \in Nat /\ MaxFailures \in Nat /\ MaxStarts \in Nat

VARIABLES
    hot,        \* the dispatch counter, see Counter
    versions,   \* the counter of each version key
    flusher,    \* startStatsFlusher's goroutine: pc, and last if shutdownCh woke it
    insertMu,   \* who holds insertMu
    shutdownCh, \* TRUE once the REPL's "stop" closed the channel
    process,    \* "up", "draining" inside httpServer.Shutdown, or "down"
    requests,   \* accepted: not counted yet; serving: counted, no version recorded
    readers,    \* the reporting requests, inside getHotUpdateCount
    failures, starts   \* spent against the bounds

vars == <<hot, versions, flusher, insertMu, shutdownCh, process, requests,
          readers, failures, starts>>

-----------------------------------------------------------------------------
(* A counter: pending in memory, taken into a flush's local variables,      *)
(* saved in the database; counted and lost are history.  For the version    *)
(* rows, pending and taken are 0 where the key is absent from the map.      *)
Counter == [pending : Nat, taken : Nat, saved : Nat, counted : Nat, lost : Nat]
Zero == [pending |-> 0, taken |-> 0, saved |-> 0, counted |-> 0, lost |-> 0]

Live(c) == c.saved + c.pending + c.taken

AddOne(c) == [c EXCEPT !.pending = @ + 1, !.counted = @ + 1]

(* Slip: the pending count is loaded and not swapped to zero. *)
SlipLoad(c) == [c EXCEPT !.taken = c.pending]
Take(c) == [c EXCEPT !.taken = c.pending, !.pending = 0]

Save(c) == [c EXCEPT !.saved = @ + c.taken, !.taken = 0]

(* Slips: the count of a failed statement is dropped, or is put back over   *)
(* what was counted while the statement ran.                               *)
SlipDrop(c) == [c EXCEPT !.taken = 0]
SlipOverwrite(c) == [c EXCEPT !.pending = c.taken, !.taken = 0]
PutBack(c) == [c EXCEPT !.pending = @ + c.taken, !.taken = 0]

(* The process ends: what is only in memory is lost. *)
Lose(c) == [c EXCEPT !.lost = @ + c.pending + c.taken, !.pending = 0, !.taken = 0]

-----------------------------------------------------------------------------
IdleReader == [pc |-> "idle", count |-> 0, quiet |-> FALSE]

Init ==
    /\ hot = Zero /\ versions = [k \in VersionKeys |-> Zero]
    /\ flusher = [pc |-> "waiting", last |-> FALSE]
    /\ insertMu = "free" /\ shutdownCh = FALSE /\ process = "up"
    /\ requests = [accepted |-> 0, serving |-> 0]
    /\ readers = [r \in Readers |-> IdleReader]
    /\ failures = 0 /\ starts = 0

Running == process # "down"
Fails == failures < MaxFailures /\ failures' = failures + 1

(* Dispatch requests: handleCurRegion. *)
AcceptRequest ==
    /\ process = "up" /\ hot.counted + requests.accepted < MaxRequests
    /\ requests' = [requests EXCEPT !.accepted = @ + 1]
    /\ UNCHANGED <<hot, versions, flusher, insertMu, shutdownCh, process, readers,
                   failures, starts>>

(* Slip: a request that was counted already is counted again. *)
SlipCountTwice ==
    /\ Running
    /\ requests' = [requests EXCEPT !.accepted = @ - 1, !.serving = @ + 1]
    /\ hot' = AddOne(hot)
    /\ UNCHANGED <<versions, flusher, insertMu, shutdownCh, process, readers,
                   failures, starts>>

IncrementHotUpdateCount ==
    /\ Running /\ requests.accepted > 0
    /\ requests' = [requests EXCEPT !.accepted = @ - 1, !.serving = @ + 1]
    /\ hot' = AddOne(hot)
    /\ UNCHANGED <<versions, flusher, insertMu, shutdownCh, process, readers,
                   failures, starts>>

(* The request passed seedReject and named a version. *)
RecordVersionRequest(k) ==
    /\ Running /\ requests.serving > 0
    /\ requests' = [requests EXCEPT !.serving = @ - 1]
    /\ versions' = [versions EXCEPT ![k] = AddOne(@)]
    /\ UNCHANGED <<hot, flusher, insertMu, shutdownCh, process, readers, failures,
                   starts>>

(* seedReject turned the request away, or its version is empty. *)
SkipVersionRequest ==
    /\ Running /\ requests.serving > 0
    /\ requests' = [requests EXCEPT !.serving = @ - 1]
    /\ UNCHANGED <<hot, versions, flusher, insertMu, shutdownCh, process, readers,
                   failures, starts>>

-----------------------------------------------------------------------------
(* flushStats, run by the goroutine of startStatsFlusher. *)

At(pc) == Running /\ flusher.pc = pc
Goto(pc) == flusher' = [flusher EXCEPT !.pc = pc]

(* A read in progress is no longer quiet once a flush moves counts about. *)
Disturb == readers' = [r \in Readers |-> [readers[r] EXCEPT !.quiet = FALSE]]

FlushStart(last) ==
    /\ At("waiting") /\ (last => shutdownCh)
    /\ flusher' = [pc |-> "swapHot", last |-> last]
    /\ UNCHANGED <<hot, versions, insertMu, shutdownCh, process, requests, readers,
                   failures, starts>>

FlushSwapHot ==
    /\ At("swapHot")
    /\ hot' = Take(hot)
    /\ IF hot.pending > 0
       THEN Goto("writeHot") /\ Disturb
       ELSE Goto("swapVersions") /\ UNCHANGED readers
    /\ UNCHANGED <<versions, insertMu, shutdownCh, process, requests, failures, starts>>

FlushWriteHot ==
    /\ At("writeHot") /\ Goto("swapVersions") /\ Disturb
    /\ \/ hot' = Save(hot) /\ UNCHANGED failures
       \/ hot' = PutBack(hot) /\ Fails
    /\ UNCHANGED <<versions, insertMu, shutdownCh, process, requests, starts>>

FlushSwapVersions ==
    /\ At("swapVersions") /\ Goto("lock")
    /\ versions' = [k \in VersionKeys |-> Take(versions[k])]
    /\ UNCHANGED <<hot, insertMu, shutdownCh, process, requests, readers, failures,
                   starts>>

FlushLock ==
    /\ At("lock") /\ Goto("upsert")
    /\ insertMu = "free" /\ insertMu' = "flusher"
    /\ UNCHANGED <<hot, versions, shutdownCh, process, requests, readers, failures,
                   starts>>

FlushUpsert(k) ==
    /\ At("upsert") /\ versions[k].taken > 0
    /\ \/ versions' = [versions EXCEPT ![k] = Save(@)] /\ UNCHANGED failures
       \/ versions' = [versions EXCEPT ![k] = PutBack(@)] /\ Fails
    /\ UNCHANGED <<hot, flusher, insertMu, shutdownCh, process, requests, readers,
                   starts>>

FlushDone ==
    /\ At("upsert") /\ \A k \in VersionKeys : versions[k].taken = 0
    /\ Goto(IF flusher.last THEN "returned" ELSE "waiting")
    /\ UNCHANGED <<hot, versions, shutdownCh, process, requests, readers, failures,
                   starts>>

(* Slip: flushStats returns without unlocking insertMu. *)
SlipKeepLock == FlushDone /\ UNCHANGED insertMu
FlushUnlock == FlushDone /\ insertMu' = "free"

(* createAccount (modelled in GameLogin) competes for insertMu. *)
AccountLock ==
    /\ Running /\ insertMu = "free" /\ insertMu' = "account"
    /\ UNCHANGED <<hot, versions, flusher, shutdownCh, process, requests, readers,
                   failures, starts>>

AccountUnlock ==
    /\ Running /\ insertMu = "account" /\ insertMu' = "free"
    /\ UNCHANGED <<hot, versions, flusher, shutdownCh, process, requests, readers,
                   failures, starts>>

-----------------------------------------------------------------------------
(* getHotUpdateCount: the database first, the pending count afterwards.  A  *)
(* failed query is logged and leaves the scan target at zero.               *)
ReadCount(r) ==
    /\ Running /\ readers[r].pc = "idle"
    /\ \/ /\ readers' = [readers EXCEPT ![r] =
                [pc |-> "adding", count |-> hot.saved, quiet |-> hot.taken = 0]]
          /\ UNCHANGED failures
       \/ /\ readers' = [readers EXCEPT ![r] =
                [pc |-> "adding", count |-> 0, quiet |-> FALSE]]
          /\ Fails
    /\ UNCHANGED <<hot, versions, flusher, insertMu, shutdownCh, process, requests,
                   starts>>

(* What getHotUpdateCount returns if its second half runs now. *)
Reported(r) == readers[r].count + hot.pending

ReadPending(r) ==
    /\ Running /\ readers[r].pc = "adding"
    /\ readers' = [readers EXCEPT ![r] = IdleReader]
    /\ UNCHANGED <<hot, versions, flusher, insertMu, shutdownCh, process, requests,
                   failures, starts>>

-----------------------------------------------------------------------------
ReplStop ==
    /\ Running /\ ~shutdownCh /\ shutdownCh' = TRUE
    /\ UNCHANGED <<hot, versions, flusher, insertMu, process, requests, readers,
                   failures, starts>>

(* setupSignal's goroutine calls shutdown(): on SIGINT or SIGTERM at any   *)
(* time, or because the channel closed; a signal does not close it.         *)
BeginShutdown ==
    /\ process = "up" /\ process' = "draining"
    /\ UNCHANGED <<hot, versions, flusher, insertMu, shutdownCh, requests, readers,
                   failures, starts>>

ProcessEnds ==
    /\ process' = "down"
    /\ hot' = Lose(hot) /\ versions' = [k \in VersionKeys |-> Lose(versions[k])]
    /\ flusher' = [pc |-> "waiting", last |-> FALSE]
    /\ insertMu' = "free" /\ shutdownCh' = FALSE
    /\ requests' = [accepted |-> 0, serving |-> 0]
    /\ readers' = [r \in Readers |-> IdleReader]
    /\ UNCHANGED <<failures, starts>>

Drained ==
    /\ requests.accepted = 0 /\ requests.serving = 0
    /\ \A r \in Readers : readers[r].pc = "idle"

(* httpServer.Shutdown returned because every request was answered. *)
ExitDrained == process = "draining" /\ Drained /\ ProcessEnds

(* httpServer.Shutdown gave up after its 10 seconds. *)
ExitTimeout == process = "draining" /\ ~Drained /\ ProcessEnds

Killed == Running /\ ProcessEnds

Restart ==
    /\ process = "down" /\ process' = "up"
    /\ starts < MaxStarts /\ starts' = starts + 1
    /\ UNCHANGED <<hot, versions, flusher, insertMu, shutdownCh, requests, readers,
                   failures>>

-----------------------------------------------------------------------------
Flush ==
    \/ \E last \in BOOLEAN : FlushStart(last)
    \/ FlushSwapHot \/ FlushWriteHot \/ FlushSwapVersions \/ FlushLock
    \/ \E k \in VersionKeys : FlushUpsert(k)
    \/ FlushUnlock

Request ==
    \/ AcceptRequest \/ IncrementHotUpdateCount \/ SkipVersionRequest
    \/ \E k \in VersionKeys : RecordVersionRequest(k)

Report == \E r \in Readers : ReadCount(r) \/ ReadPending(r)

Lifecycle ==
    ReplStop \/ BeginShutdown \/ ExitDrained \/ ExitTimeout \/ Killed \/ Restart

Next == Flush \/ Request \/ Report \/ AccountLock \/ AccountUnlock \/ Lifecycle

Spec == Init /\ [][Next]_vars

(* The ticker keeps firing and goroutines keep being scheduled.  sync.Mutex *)
(* hands the lock to a waiter starved for 1 ms, so the flusher's Lock gets  *)
(* through however often accounts are created: strong fairness.            *)
Fairness ==
    /\ WF_vars(\E last \in BOOLEAN : FlushStart(last))
    /\ WF_vars(FlushSwapHot) /\ WF_vars(FlushWriteHot) /\ WF_vars(FlushSwapVersions)
    /\ SF_vars(FlushLock)
    /\ WF_vars(\E k \in VersionKeys : FlushUpsert(k))
    /\ WF_vars(FlushUnlock) /\ WF_vars(AccountUnlock)

FairSpec == Spec /\ Fairness

-----------------------------------------------------------------------------
FlusherStates == [pc : {"waiting", "swapHot", "writeHot", "swapVersions", "lock",
                        "upsert", "returned"}, last : BOOLEAN]
ReaderStates == [pc : {"idle", "adding"}, count : Nat, quiet : BOOLEAN]

(* Type invariant of the statistics: no step of a flush, a request or the   *)
(* shutdown ever makes a count negative or leaves a goroutine nowhere.     *)
TypeOK ==
    /\ hot \in Counter /\ versions \in [VersionKeys -> Counter]
    /\ flusher \in FlusherStates
    /\ insertMu \in {"free", "flusher", "account"}
    /\ shutdownCh \in BOOLEAN /\ process \in {"up", "draining", "down"}
    /\ requests \in [accepted : Nat, serving : Nat]
    /\ readers \in [Readers -> ReaderStates]
    /\ failures \in Nat /\ starts \in Nat

Conserved(c) == c.counted = Live(c) + c.lost

(* Every dispatch request is counted exactly once: across swaps, failed     *)
(* statements that are put back, kills and restarts, what was counted is    *)
(* saved, pending, in the flusher's hand or was lost with a process.  The   *)
(* same holds of every version_stats row.  (flushStats' swap and re-add.)  *)
Conservation == Conserved(hot) /\ \A k \in VersionKeys : Conserved(versions[k])

(* getHotUpdateCount reads its two halves at different times, and a flush   *)
(* may run between them.  Because it reads the database first, the number   *)
(* it reports never exceeds the requests really counted.                   *)
ReadNeverAhead ==
    \A r \in Readers :
        readers[r].pc = "adding" => Reported(r) <= hot.counted - hot.lost

(* A report that no flush overlaps is exact: it misses nothing and counts   *)
(* nothing twice, whatever flushes and failed statements came before it.   *)
QuietReadExact ==
    \A r \in Readers :
        readers[r].pc = "adding" /\ readers[r].quiet
            => Reported(r) = hot.counted - hot.lost

(* The dispatch counter implements the ledger: counts are saved at most     *)
(* once, the saved value never goes back, and only the end of the process   *)
(* drops what was not saved.                                               *)
HotLedger == INSTANCE StatsLedger WITH saved <- hot.saved, live <- Live(hot)
HotImplementsLedger == HotLedger!LedgerSpec

(* Every (version, platform) row implements the ledger as well, although    *)
(* its upserts run one key at a time and may fail one key at a time.       *)
VersionLedger(k) ==
    INSTANCE StatsLedger WITH saved <- versions[k].saved, live <- Live(versions[k])
VersionsImplementLedger ==
    /\ \A k \in VersionKeys : VersionLedger(k)!LedgerInit
    /\ [][\A k \in VersionKeys : VersionLedger(k)!LedgerStep]_vars

Settled == process # "up" \/ flusher.pc = "returned"

(* While the process stays up, everything counted reaches the database:     *)
(* failed statements are put back and written by a later tick, and a stream *)
(* of account creations cannot keep the flusher from insertMu.             *)
EventuallySaved ==
    \A n \in 1 .. MaxRequests :
        /\ (hot.counted - hot.lost >= n) ~> (hot.saved >= n \/ Settled)
        /\ \A k \in VersionKeys :
             (versions[k].counted - versions[k].lost >= n)
                ~> (versions[k].saved >= n \/ Settled)

(* PROGRESS.md:31 says that the statistics are flushed a last time when     *)
(* shutdownCh closes: once that flush is done and every request has been    *)
(* answered, the process exits without losing a count.                     *)
LastFlushIsLast ==
    [][ExitDrained /\ flusher.pc = "returned" => hot'.lost = hot.lost]_vars
=============================================================================
