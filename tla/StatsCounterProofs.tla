------------------------- MODULE StatsCounterProofs -------------------------
(***************************************************************************)
(* What TLAPS proves of StatsCounter, for every set of version keys and    *)
(* readers and every bound.  The inductive invariant IInv adds to the      *)
(* checked invariants where counts can be in a flush's hand (InHand) and   *)
(* what a reader's first half still says about the database (ReaderHolds). *)
(***************************************************************************)
EXTENDS StatsCounter, TLAPS

(* Counts are in flushStats' local variables only between the swap and the *)
(* statement; without this, a swap would overwrite counts in hand.         *)
InHand ==
    /\ flusher.pc # "writeHot" => hot.taken = 0
    /\ flusher.pc \notin {"lock", "upsert"} => \A k \in VersionKeys : versions[k].taken = 0

(* The database only grows after a reader's query, and for a quiet reader  *)
(* it has not changed at all.                                              *)
ReaderHolds ==
    \A r \in Readers :
        readers[r].pc = "adding" =>
            /\ readers[r].count <= hot.saved
            /\ readers[r].quiet => readers[r].count = hot.saved /\ hot.taken = 0

IInv == TypeOK /\ Conservation /\ InHand /\ ReaderHolds

-----------------------------------------------------------------------------
(* The operations on a counter keep its type and conserve its counts.  Take *)
(* needs an empty hand, as flushStats' fresh locals have.                  *)
LEMMA CounterOperations ==
    ASSUME NEW c \in Counter, Conserved(c)
    PROVE  /\ AddOne(c) \in Counter /\ Conserved(AddOne(c))
           /\ Save(c) \in Counter /\ Conserved(Save(c))
           /\ PutBack(c) \in Counter /\ Conserved(PutBack(c))
           /\ Lose(c) \in Counter /\ Conserved(Lose(c))
           /\ Take(c) \in Counter /\ (c.taken = 0 => Conserved(Take(c)))
<1>1. /\ c.pending + 1 \in Nat /\ c.counted + 1 \in Nat
      /\ c.saved + c.taken \in Nat /\ c.pending + c.taken \in Nat
      /\ c.lost + c.pending + c.taken \in Nat
    BY DEF Counter
<1>2. AddOne(c) \in Counter /\ Save(c) \in Counter /\ PutBack(c) \in Counter
    BY <1>1 DEF Counter, AddOne, Save, PutBack
<1>3. Lose(c) \in Counter /\ Take(c) \in Counter
    BY <1>1 DEF Counter, Lose, Take
<1>4. Conserved(AddOne(c)) /\ Conserved(Save(c)) /\ Conserved(PutBack(c))
    BY DEF Counter, Conserved, Live, AddOne, Save, PutBack
<1>5. Conserved(Lose(c)) /\ (c.taken = 0 => Conserved(Take(c)))
    BY DEF Counter, Conserved, Live, Lose, Take
<1> QED
    BY <1>2, <1>3, <1>4, <1>5

(* What each operation does to the saved and the live count: this is what   *)
(* the ledger sees of it.                                                  *)
LEMMA CounterEffects ==
    ASSUME NEW c \in Counter
    PROVE  /\ AddOne(c).saved = c.saved /\ Live(AddOne(c)) = Live(c) + 1
           /\ Save(c).saved = c.saved + c.taken /\ Live(Save(c)) = Live(c)
           /\ PutBack(c).saved = c.saved /\ Live(PutBack(c)) = Live(c)
           /\ Lose(c).saved = c.saved /\ Live(Lose(c)) = c.saved
           /\ Take(c).saved = c.saved
           /\ c.taken = 0 => Live(Take(c)) = Live(c)
           /\ c.saved \in Nat /\ c.taken \in Nat /\ Live(c) \in Nat
           /\ c.saved <= Live(c) /\ c.saved + c.taken <= Live(c)
BY DEF Counter, Live, AddOne, Save, PutBack, Lose, Take

LEMMA ZeroCounter ==
    Zero \in Counter /\ Conserved(Zero) /\ Zero.taken = 0 /\ Zero.saved = 0 /\ Live(Zero) = 0
BY DEF Zero, Counter, Conserved, Live

LEMMA InitIInv == Init => IInv
<1> SUFFICES ASSUME Init PROVE IInv
    OBVIOUS
<1>1. TypeOK
    BY ZeroCounter DEF Init, TypeOK, FlusherStates, ReaderStates, IdleReader
<1>2. Conservation
    BY ZeroCounter DEF Init, Conservation
<1>3. InHand /\ ReaderHolds
    BY ZeroCounter DEF Init, InHand, ReaderHolds, IdleReader
<1> QED
    BY <1>1, <1>2, <1>3 DEF IInv

(* Actions that touch neither a counter nor the flusher nor a reader. *)
LEMMA CountersKept ==
    ASSUME IInv, UNCHANGED <<hot, versions, flusher, readers>>
    PROVE  Conservation' /\ InHand' /\ ReaderHolds'
BY DEF IInv, Conservation, InHand, ReaderHolds, Conserved, Live

LEMMA RequestIInv ==
    ASSUME IInv, Request
    PROVE  IInv'
<1> USE DEF IInv
<1>1. CASE AcceptRequest
    <2>1. TypeOK'
        BY <1>1 DEF AcceptRequest, TypeOK
    <2> QED
        BY <1>1, <2>1, CountersKept DEF AcceptRequest
<1>2. CASE IncrementHotUpdateCount
    <2>1. hot \in Counter /\ Conserved(hot)
        BY DEF TypeOK, Conservation
    <2>2. hot' = AddOne(hot) /\ hot' \in Counter /\ Conserved(hot')
        BY <1>2, <2>1, CounterOperations DEF IncrementHotUpdateCount
    <2>3. hot'.taken = hot.taken /\ hot'.saved = hot.saved
        BY <2>1, <2>2 DEF AddOne, Counter
    <2>4. requests' \in [accepted : Nat, serving : Nat]
        <3>1. requests.accepted - 1 \in Nat /\ requests.serving + 1 \in Nat
            BY <1>2 DEF IncrementHotUpdateCount, TypeOK
        <3> QED
            BY <1>2, <3>1 DEF IncrementHotUpdateCount, TypeOK
    <2>5. TypeOK'
        BY <1>2, <2>2, <2>4 DEF IncrementHotUpdateCount, TypeOK
    <2>6. Conservation'
        BY <1>2, <2>2 DEF IncrementHotUpdateCount, Conservation
    <2>7. InHand' /\ ReaderHolds'
        BY <1>2, <2>3 DEF IncrementHotUpdateCount, InHand, ReaderHolds
    <2> QED
        BY <2>5, <2>6, <2>7
<1>3. CASE SkipVersionRequest
    <2>1. TypeOK'
        BY <1>3 DEF SkipVersionRequest, TypeOK
    <2> QED
        BY <1>3, <2>1, CountersKept DEF SkipVersionRequest
<1>4. ASSUME NEW k \in VersionKeys, RecordVersionRequest(k)
      PROVE  IInv'
    <2>1. versions[k] \in Counter /\ Conserved(versions[k])
        BY DEF TypeOK, Conservation
    <2>2. AddOne(versions[k]) \in Counter /\ Conserved(AddOne(versions[k]))
        BY <2>1, CounterOperations
    <2>3. AddOne(versions[k]).taken = versions[k].taken
        BY <2>1 DEF AddOne, Counter
    <2>4. TypeOK'
        BY <1>4, <2>2 DEF RecordVersionRequest, TypeOK
    <2>5. \A j \in VersionKeys :
            versions'[j] = IF j = k THEN AddOne(versions[k]) ELSE versions[j]
        BY <1>4 DEF RecordVersionRequest, TypeOK
    <2>6. Conservation'
        BY <1>4, <2>2, <2>5 DEF RecordVersionRequest, Conservation, Conserved, Live
    <2>7. InHand' /\ ReaderHolds'
        BY <1>4, <2>3, <2>5 DEF RecordVersionRequest, InHand, ReaderHolds
    <2> QED
        BY <2>4, <2>6, <2>7
<1> QED
    BY <1>1, <1>2, <1>3, <1>4 DEF Request

(* A flush that moves counts about leaves the readers where they stand and  *)
(* ends their quiet.                                                       *)
LEMMA DisturbedReaders ==
    ASSUME readers \in [Readers -> ReaderStates], Disturb
    PROVE  /\ readers' \in [Readers -> ReaderStates]
           /\ \A r \in Readers : /\ readers'[r].pc = readers[r].pc
                                 /\ readers'[r].count = readers[r].count
                                 /\ ~readers'[r].quiet
<1>1. ASSUME NEW r \in Readers
      PROVE  [readers[r] EXCEPT !.quiet = FALSE] \in ReaderStates
    <2>1. readers[r] \in ReaderStates
        OBVIOUS
    <2> QED
        BY <2>1 DEF ReaderStates
<1>2. readers' \in [Readers -> ReaderStates]
    BY <1>1 DEF Disturb
<1>3. ASSUME NEW r \in Readers
      PROVE  /\ readers'[r].pc = readers[r].pc /\ readers'[r].count = readers[r].count
             /\ ~readers'[r].quiet
    <2>1. readers[r] \in ReaderStates /\ readers'[r] = [readers[r] EXCEPT !.quiet = FALSE]
        BY DEF Disturb
    <2> QED
        BY <2>1 DEF ReaderStates
<1> QED
    BY <1>2, <1>3

(* The steps of a flush that replace no version counter. *)
LEMMA FlushHotIInv ==
    ASSUME IInv, FlushSwapHot \/ FlushWriteHot
    PROVE  IInv'
<1> USE DEF IInv
<1>1. hot \in Counter /\ Conserved(hot)
    BY DEF TypeOK, Conservation
<1>2. /\ Take(hot).taken = hot.pending /\ Take(hot).saved = hot.saved
      /\ Save(hot).taken = 0 /\ Save(hot).saved = hot.saved + hot.taken
      /\ PutBack(hot).taken = 0 /\ PutBack(hot).saved = hot.saved
      /\ hot.taken \in Nat /\ hot.saved \in Nat /\ hot.pending \in Nat
    BY <1>1 DEF Counter, Take, Save, PutBack
<1>3. CASE FlushSwapHot
    <2>1. hot.taken = 0 /\ hot' = Take(hot)
        BY <1>3 DEF FlushSwapHot, At, InHand
    <2>2. hot' \in Counter /\ Conserved(hot')
        BY <1>1, <2>1, CounterOperations
    <2>3. flusher' \in FlusherStates
        BY <1>3 DEF FlushSwapHot, TypeOK, Goto, FlusherStates
    <2>4. readers' \in [Readers -> ReaderStates]
        BY <1>3, DisturbedReaders DEF FlushSwapHot, TypeOK
    <2>5. TypeOK'
        BY <1>3, <2>2, <2>3, <2>4 DEF FlushSwapHot, TypeOK
    <2>6. Conservation'
        BY <1>3, <2>2 DEF FlushSwapHot, Conservation
    <2>7. InHand'
        BY <1>2, <1>3, <2>1 DEF FlushSwapHot, InHand, At, Goto, TypeOK, FlusherStates
    <2>8. ReaderHolds'
        BY <1>2, <1>3, <2>1, DisturbedReaders DEF FlushSwapHot, ReaderHolds, TypeOK
    <2> QED
        BY <2>5, <2>6, <2>7, <2>8
<1>4. CASE FlushWriteHot
    <2>1. hot' = Save(hot) \/ hot' = PutBack(hot)
        BY <1>4 DEF FlushWriteHot
    <2>2. hot' \in Counter /\ Conserved(hot')
        BY <1>1, <2>1, CounterOperations
    <2>3. hot'.taken = 0 /\ hot'.saved >= hot.saved /\ hot'.saved \in Nat
        BY <1>2, <2>1
    <2>4. failures' \in Nat /\ flusher' \in FlusherStates
        BY <1>4 DEF FlushWriteHot, TypeOK, Fails, Goto, FlusherStates
    <2>5. TypeOK'
        BY <1>4, <2>2, <2>4, DisturbedReaders DEF FlushWriteHot, TypeOK
    <2>6. Conservation'
        BY <1>4, <2>2 DEF FlushWriteHot, Conservation
    <2>7. InHand'
        BY <1>4, <2>3 DEF FlushWriteHot, InHand, At, Goto, TypeOK, FlusherStates
    <2>8. ASSUME NEW r \in Readers, readers'[r].pc = "adding"
          PROVE  readers'[r].count <= hot'.saved /\ ~readers'[r].quiet
        <3>1. /\ readers'[r].pc = readers[r].pc /\ readers'[r].count = readers[r].count
              /\ ~readers'[r].quiet
            BY <1>4, DisturbedReaders DEF FlushWriteHot, TypeOK
        <3>2. readers[r].count \in Nat /\ readers[r].count <= hot.saved
            BY <2>8, <3>1 DEF ReaderHolds, TypeOK, ReaderStates
        <3> QED
            BY <1>2, <2>3, <3>1, <3>2
    <2> QED
        BY <2>5, <2>6, <2>7, <2>8 DEF ReaderHolds
<1> QED
    BY <1>3, <1>4

(* The steps of a flush around and inside the version_stats upserts. *)
LEMMA FlushVersionsIInv ==
    ASSUME IInv,
           \/ \E last \in BOOLEAN : FlushStart(last)
           \/ FlushSwapVersions \/ FlushLock \/ FlushUnlock
           \/ \E k \in VersionKeys : FlushUpsert(k)
    PROVE  IInv'
<1> USE DEF IInv
<1>1. \A k \in VersionKeys : versions[k] \in Counter /\ Conserved(versions[k])
    BY DEF TypeOK, Conservation
<1>2. ASSUME NEW last \in BOOLEAN, FlushStart(last)
      PROVE  IInv'
    <2>1. TypeOK'
        BY <1>2 DEF FlushStart, TypeOK, FlusherStates
    <2>2. Conservation' /\ ReaderHolds'
        BY <1>2 DEF FlushStart, Conservation, ReaderHolds, Conserved, Live
    <2>3. InHand'
        BY <1>2 DEF FlushStart, InHand, At
    <2> QED
        BY <2>1, <2>2, <2>3
<1>3. CASE FlushSwapVersions
    <2>1. \A k \in VersionKeys : versions[k].taken = 0 /\ versions'[k] = Take(versions[k])
        BY <1>3 DEF FlushSwapVersions, InHand, At
    <2>2. \A k \in VersionKeys : Take(versions[k]) \in Counter /\ Conserved(Take(versions[k]))
        BY <1>1, <2>1, CounterOperations
    <2>3. flusher' \in FlusherStates
        BY <1>3 DEF FlushSwapVersions, Goto, TypeOK, FlusherStates
    <2>4. TypeOK'
        BY <1>3, <2>2, <2>3 DEF FlushSwapVersions, TypeOK
    <2>5. Conservation'
        BY <1>3, <2>1, <2>2 DEF FlushSwapVersions, Conservation, Conserved, Live
    <2>6. InHand' /\ ReaderHolds'
        BY <1>3 DEF FlushSwapVersions, InHand, ReaderHolds, At, Goto, TypeOK, FlusherStates
    <2> QED
        BY <2>4, <2>5, <2>6
<1>4. CASE FlushLock
    <2>1. TypeOK'
        BY <1>4 DEF FlushLock, TypeOK, Goto, FlusherStates
    <2>2. Conservation' /\ ReaderHolds'
        BY <1>4 DEF FlushLock, Conservation, ReaderHolds, Conserved, Live
    <2>3. InHand'
        BY <1>4 DEF FlushLock, InHand, At, Goto, TypeOK, FlusherStates
    <2> QED
        BY <2>1, <2>2, <2>3
<1>5. CASE FlushUnlock
    <2>1. TypeOK'
        BY <1>5 DEF FlushUnlock, FlushDone, TypeOK, Goto, FlusherStates
    <2>2. Conservation' /\ ReaderHolds'
        BY <1>5 DEF FlushUnlock, FlushDone, Conservation, ReaderHolds, Conserved, Live
    <2>3. InHand'
        BY <1>5 DEF FlushUnlock, FlushDone, InHand, At, Goto, TypeOK, FlusherStates
    <2> QED
        BY <2>1, <2>2, <2>3
<1>6. ASSUME NEW k \in VersionKeys, FlushUpsert(k)
      PROVE  IInv'
    <2>1. PICK c \in {Save(versions[k]), PutBack(versions[k])} :
            versions' = [versions EXCEPT ![k] = c]
        BY <1>6 DEF FlushUpsert
    <2>2. c \in Counter /\ Conserved(c)
        BY <1>1, <2>1, CounterOperations
    <2>3. \A j \in VersionKeys : versions'[j] = IF j = k THEN c ELSE versions[j]
        BY <2>1 DEF TypeOK
    <2>4. TypeOK'
        BY <1>6, <2>1, <2>2 DEF FlushUpsert, TypeOK, Fails
    <2>5. Conservation'
        BY <1>1, <1>6, <2>2, <2>3 DEF FlushUpsert, Conservation, Conserved, Live
    <2>6. InHand' /\ ReaderHolds'
        BY <1>6 DEF FlushUpsert, InHand, ReaderHolds, At
    <2> QED
        BY <2>4, <2>5, <2>6
<1> QED
    BY <1>2, <1>3, <1>4, <1>5, <1>6

LEMMA ReportIInv ==
    ASSUME IInv, Report
    PROVE  IInv'
<1> USE DEF IInv
<1>1. PICK r \in Readers : ReadCount(r) \/ ReadPending(r)
    BY DEF Report
<1>2. hot.saved \in Nat /\ hot.taken \in Nat
    BY DEF TypeOK, Counter
<1>3. PICK rd \in ReaderStates :
        /\ readers' = [readers EXCEPT ![r] = rd]
        /\ rd.pc = "adding" => rd.count <= hot.saved
        /\ rd.quiet => rd.count = hot.saved /\ hot.taken = 0
    <2> DEFINE fresh == [pc |-> "adding", count |-> hot.saved, quiet |-> hot.taken = 0]
               failed == [pc |-> "adding", count |-> 0, quiet |-> FALSE]
    <2>1. fresh \in ReaderStates
        <3>1. (hot.taken = 0) \in BOOLEAN
            OBVIOUS
        <3> QED
            BY <1>2, <3>1 DEF ReaderStates
    <2>2. failed \in ReaderStates /\ IdleReader \in ReaderStates
        BY DEF ReaderStates, IdleReader
    <2>3. CASE readers' = [readers EXCEPT ![r] = fresh]
        <3>1. fresh.count = hot.saved
            BY Zenon
        <3>2. fresh.quiet => hot.taken = 0
            BY Zenon
        <3> fresh \in ReaderStates
            BY <2>1
        <3> HIDE DEF fresh
        <3> WITNESS fresh \in ReaderStates
        <3> QED
            BY <1>2, <2>3, <3>1, <3>2
    <2>4. CASE readers' = [readers EXCEPT ![r] = failed]
        <3>1. /\ failed.pc = "adding" => failed.count <= hot.saved
              /\ failed.quiet => failed.count = hot.saved /\ hot.taken = 0
            BY <1>2
        <3> failed \in ReaderStates
            BY <2>2
        <3> HIDE DEF failed
        <3> WITNESS failed \in ReaderStates
        <3> QED
            BY <2>4, <3>1
    <2>5. CASE readers' = [readers EXCEPT ![r] = IdleReader]
        BY <2>2, <2>5 DEF IdleReader
    <2> QED
        BY <1>1, <2>3, <2>4, <2>5 DEF ReadCount, ReadPending
<1>4. UNCHANGED <<hot, versions, flusher, insertMu, shutdownCh, process, requests, starts>>
    BY <1>1 DEF ReadCount, ReadPending
<1>5. failures' \in Nat
    BY <1>1 DEF ReadCount, ReadPending, TypeOK, Fails
<1>6. TypeOK'
    BY <1>3, <1>4, <1>5 DEF TypeOK
<1>7. Conservation' /\ InHand'
    BY <1>4 DEF Conservation, InHand, Conserved, Live
<1>8. ReaderHolds'
    BY <1>3, <1>4 DEF ReaderHolds, TypeOK
<1> QED
    BY <1>6, <1>7, <1>8

LEMMA LifecycleIInv ==
    ASSUME IInv, Lifecycle \/ AccountLock \/ AccountUnlock
    PROVE  IInv'
<1> USE DEF IInv
<1>1. CASE ReplStop \/ BeginShutdown \/ Restart \/ AccountLock \/ AccountUnlock
    <2>1. TypeOK'
        <3>1. starts' \in Nat
            BY <1>1 DEF ReplStop, BeginShutdown, Restart, AccountLock, AccountUnlock, TypeOK
        <3> QED
            BY <1>1, <3>1
            DEF ReplStop, BeginShutdown, Restart, AccountLock, AccountUnlock, TypeOK
    <2>2. UNCHANGED <<hot, versions, flusher, readers>>
        BY <1>1 DEF ReplStop, BeginShutdown, Restart, AccountLock, AccountUnlock
    <2> QED
        BY <2>1, <2>2, CountersKept
<1>2. CASE ProcessEnds
    <2>1. hot \in Counter /\ Conserved(hot)
        BY DEF TypeOK, Conservation
    <2>2. \A k \in VersionKeys : versions[k] \in Counter /\ Conserved(versions[k])
        BY DEF TypeOK, Conservation
    <2>3. \A c \in Counter : Lose(c).taken = 0
        BY DEF Counter, Lose
    <2>4. /\ hot' = Lose(hot) /\ hot' \in Counter /\ Conserved(hot') /\ hot'.taken = 0
        BY <1>2, <2>1, <2>3, CounterOperations DEF ProcessEnds
    <2>5. \A k \in VersionKeys :
            /\ versions'[k] = Lose(versions[k]) /\ Lose(versions[k]) \in Counter
            /\ Conserved(versions'[k]) /\ versions'[k].taken = 0
        BY <1>2, <2>2, <2>3, CounterOperations DEF ProcessEnds
    <2>6. TypeOK'
        BY <1>2, <2>4, <2>5
        DEF ProcessEnds, TypeOK, FlusherStates, ReaderStates, IdleReader
    <2>7. Conservation'
        BY <2>4, <2>5 DEF Conservation, Conserved, Live
    <2>8. InHand' /\ ReaderHolds'
        BY <1>2, <2>4, <2>5 DEF ProcessEnds, InHand, ReaderHolds, IdleReader
    <2> QED
        BY <2>6, <2>7, <2>8
<1> QED
    BY <1>1, <1>2 DEF Lifecycle, ExitDrained, ExitTimeout, Killed

LEMMA NextIInv == IInv /\ [Next]_vars => IInv'
<1> SUFFICES ASSUME IInv, [Next]_vars
             PROVE  IInv'
    OBVIOUS
<1>1. CASE UNCHANGED vars
    <2>1. TypeOK'
        BY <1>1 DEF IInv, vars, TypeOK
    <2> QED
        BY <1>1, <2>1, CountersKept DEF IInv, vars
<1>2. CASE Flush
    BY <1>2, FlushHotIInv, FlushVersionsIInv DEF Flush
<1>3. CASE Request
    BY <1>3, RequestIInv
<1>4. CASE Report
    BY <1>4, ReportIInv
<1>5. CASE Lifecycle \/ AccountLock \/ AccountUnlock
    BY <1>5, LifecycleIInv
<1> QED
    BY <1>1, <1>2, <1>3, <1>4, <1>5 DEF Next

(* The inductive invariant holds in every reachable state. *)
THEOREM Invariance == Spec => []IInv
BY InitIInv, NextIInv, PTL DEF Spec

(* Counts never go negative and every goroutine is somewhere in its code. *)
THEOREM TypeCorrect == Spec => []TypeOK
<1>1. IInv => TypeOK
    BY DEF IInv
<1> QED
    BY <1>1, Invariance, PTL

(* Each request is counted exactly once, whatever fails and whenever the   *)
(* process ends.                                                           *)
THEOREM CountsConserved == Spec => []Conservation
<1>1. IInv => Conservation
    BY DEF IInv
<1> QED
    BY <1>1, Invariance, PTL

(* A report never exceeds what was counted, and one that overlaps no flush  *)
(* is exact.                                                               *)
THEOREM ReportsBounded == Spec => [](ReadNeverAhead /\ QuietReadExact)
<1>1. IInv => ReadNeverAhead /\ QuietReadExact
    <2> SUFFICES ASSUME IInv, NEW r \in Readers, readers[r].pc = "adding"
                 PROVE  /\ Reported(r) <= hot.counted - hot.lost
                        /\ readers[r].quiet => Reported(r) = hot.counted - hot.lost
        BY DEF ReadNeverAhead, QuietReadExact
    <2>1. hot \in Counter /\ readers[r].count \in Nat
        BY DEF IInv, TypeOK, ReaderStates
    <2>2. hot.counted - hot.lost = hot.saved + hot.pending + hot.taken
        BY <2>1 DEF IInv, Conservation, Conserved, Live, Counter
    <2>3. /\ readers[r].count <= hot.saved
          /\ readers[r].quiet => readers[r].count = hot.saved /\ hot.taken = 0
        BY DEF IInv, ReaderHolds
    <2> QED
        BY <2>1, <2>2, <2>3 DEF Reported, Counter
<1> QED
    BY <1>1, Invariance, PTL

(* A report that no flush overlaps misses nothing and counts nothing twice. *)
THEOREM QuietReportsExact == Spec => []QuietReadExact
BY ReportsBounded, PTL

-----------------------------------------------------------------------------
(* What a step may do to one counter. *)
Move(c, d) ==
    \/ d = c \/ d = AddOne(c) \/ d = Save(c) \/ d = PutBack(c) \/ d = Lose(c)
    \/ c.taken = 0 /\ d = Take(c)

LEMMA NextMovesCounters ==
    ASSUME IInv, [Next]_vars
    PROVE  Move(hot, hot') /\ \A k \in VersionKeys : Move(versions[k], versions'[k])
<1> USE DEF Move
<1>1. CASE Flush
    <2>1. Move(hot, hot')
        BY <1>1 DEF Flush, FlushStart, FlushSwapHot, FlushWriteHot, FlushSwapVersions,
                    FlushLock, FlushUpsert, FlushUnlock, FlushDone, IInv, InHand, At
    <2>2. ASSUME NEW k \in VersionKeys
          PROVE  Move(versions[k], versions'[k])
        <3>1. CASE UNCHANGED versions
            BY <3>1
        <3>2. CASE FlushSwapVersions
            BY <3>2 DEF FlushSwapVersions, IInv, InHand, At
        <3>3. CASE \E j \in VersionKeys : FlushUpsert(j)
            BY <3>3 DEF FlushUpsert, IInv, TypeOK
        <3> QED
            BY <1>1, <3>1, <3>2, <3>3
            DEF Flush, FlushStart, FlushSwapHot, FlushWriteHot, FlushLock, FlushUnlock,
                FlushDone
    <2> QED
        BY <2>1, <2>2
<1>2. CASE Request
    BY <1>2 DEF Request, AcceptRequest, IncrementHotUpdateCount, SkipVersionRequest,
                RecordVersionRequest, IInv, TypeOK
<1>3. CASE Lifecycle
    BY <1>3 DEF Lifecycle, ReplStop, BeginShutdown, ExitDrained, ExitTimeout, Killed,
                Restart, ProcessEnds
<1>4. CASE Report \/ AccountLock \/ AccountUnlock \/ UNCHANGED vars
    BY <1>4 DEF Report, ReadCount, ReadPending, AccountLock, AccountUnlock, vars
<1> QED
    BY <1>1, <1>2, <1>3, <1>4 DEF Next

(* A move of a counter is a step, or no step, of the ledger. *)
LEMMA MoveIsLedgerStep ==
    ASSUME NEW c \in Counter, NEW d, Move(c, d)
    PROVE  \/ d.saved = c.saved /\ Live(d) \in {Live(c), Live(c) + 1, c.saved}
           \/ d.saved \in c.saved .. Live(c) /\ Live(d) = Live(c)
BY CounterEffects DEF Move

(* The dispatch counter implements the ledger: it is saved at most once,    *)
(* never goes back, and only the end of a process loses counts.            *)
THEOREM HotRefinement == Spec => HotImplementsLedger
<1>1. Init => HotLedger!LedgerInit
    BY ZeroCounter DEF Init, HotLedger!LedgerInit
<1>2. IInv /\ [Next]_vars => [HotLedger!LedgerNext]_<<hot.saved, Live(hot)>>
    <2> SUFFICES ASSUME IInv, [Next]_vars
                 PROVE  [HotLedger!LedgerNext]_<<hot.saved, Live(hot)>>
        OBVIOUS
    <2>1. hot \in Counter
        BY DEF IInv, TypeOK
    <2>2. \/ hot'.saved = hot.saved /\ Live(hot') \in {Live(hot), Live(hot) + 1, hot.saved}
          \/ hot'.saved \in hot.saved .. Live(hot) /\ Live(hot') = Live(hot)
        BY <2>1, NextMovesCounters, MoveIsLedgerStep
    <2>3. Live(hot)' = Live(hot')
        BY DEF Live
    <2> QED
        BY <2>2, <2>3
        DEF HotLedger!LedgerNext, HotLedger!Count, HotLedger!Persist, HotLedger!ProcessEnds
<1> QED
    BY <1>1, <1>2, Invariance, PTL DEF Spec, HotImplementsLedger, HotLedger!LedgerSpec

(* So does the counter of every version key, although keys are written one *)
(* at a time and fail one at a time.                                       *)
THEOREM VersionRefinement == Spec => VersionsImplementLedger
<1>1. Init => \A k \in VersionKeys : VersionLedger(k)!LedgerInit
    BY ZeroCounter DEF Init, VersionLedger!LedgerInit
<1>2. IInv /\ [Next]_vars => \A k \in VersionKeys : VersionLedger(k)!LedgerStep
    <2> SUFFICES ASSUME IInv, [Next]_vars, NEW k \in VersionKeys
                 PROVE  VersionLedger(k)!LedgerStep
        OBVIOUS
    <2> DEFINE c == versions[k]
               d == versions'[k]
    <2>1. c \in Counter
        BY DEF IInv, TypeOK
    <2>2. \/ d.saved = c.saved /\ Live(d) \in {Live(c), Live(c) + 1, c.saved}
          \/ d.saved \in c.saved .. Live(c) /\ Live(d) = Live(c)
        BY <2>1, NextMovesCounters, MoveIsLedgerStep
    <2>3. Live(versions[k])' = Live(versions'[k])
        BY DEF Live
    <2> QED
        BY <2>2, <2>3
        DEF VersionLedger!LedgerStep, VersionLedger!LedgerNext, VersionLedger!Count,
            VersionLedger!Persist, VersionLedger!ProcessEnds
<1> QED
    BY <1>1, <1>2, Invariance, PTL DEF Spec, VersionsImplementLedger
=============================================================================
