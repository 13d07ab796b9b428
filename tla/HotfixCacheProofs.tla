-------------------------- MODULE HotfixCacheProofs --------------------------
(***************************************************************************)
(* What TLAPS proves of HotfixCache, for every set of keys, contents,      *)
(* requests and reloaders and every bound.  The invariant follows what a   *)
(* reload knows while no edit has come between: which files there were     *)
(* when the scan began, which it has reached, and that a request about to  *)
(* store holds what the file says unless it read before a reload.          *)
(***************************************************************************)
EXTENDS HotfixCache, TLAPS

LoadStates ==
    [pc : {"idle", "lookup", "read", "store", "answered"}, key : Keys \union {NoKey},
     config : Contents \union {NoConfig}, old : BOOLEAN,
     window : SUBSET (Contents \union {NoConfig})]

ReloadStates ==
    [pc : {"idle", "config", "stat", "clear", "open", "scan"},
     todo : SUBSET Keys, listed : SUBSET Keys, quiet : BOOLEAN]

(* What a fill of the cache makes of the file of k. *)
Filled(k) == IF Readable(k) THEN disk[k] ELSE NotCached

(* No file has changed since the last reload, or since some reload that is  *)
(* under way, began.                                                       *)
Calm == settled \/ \E r \in Reloaders : reloads[r].pc # "idle" /\ reloads[r].quiet

(* What a request carries, and: what it is about to store is what the file  *)
(* says, unless a reload or an edit came after it was read.                *)
LoadOK(q) ==
    /\ q.pc \in {"lookup", "read", "store"} => q.key \in Keys
    /\ q.pc = "store" => q.config \in Contents
    /\ Calm /\ q.pc = "store" /\ ~q.old => Readable(q.key) /\ q.config = disk[q.key]

LoadsOK == \A p \in Loaders : LoadOK(loads[p])

(* hotfixCacheMu is held for writing exactly during a scan. *)
WriterScans == \A r \in Reloaders : reloads[r].pc = "scan" <=> writer = r

SettledIdle == settled => \A r \in Reloaders : reloads[r].pc = "idle"

(* What a reload that no edit disturbed has established so far. *)
ReloadOK(q) ==
    q.quiet =>
        /\ q.pc = "clear" => ~root
        /\ q.pc = "scan" =>
             /\ q.listed = Listed
             /\ \A k \in Keys : hotfixCache[k] = IF k \in q.todo THEN NotCached ELSE Filled(k)

ReloadsOK == \A r \in Reloaders : ReloadOK(reloads[r])

IInv ==
    /\ TypeOK /\ LoadsOK /\ WriterScans /\ SettledIdle /\ ReloadsOK /\ ReloadExact

-----------------------------------------------------------------------------
LEMMA InitIInv == Init => IInv
<1> SUFFICES ASSUME Init PROVE IInv
    OBVIOUS
<1>1. NotLoading \in LoadStates /\ NotReloading \in ReloadStates
    BY DEF NotLoading, LoadStates, NotReloading, ReloadStates
<1>2. hotfixCache \in [Keys -> Contents \union {NotCached}]
    <2>1. \A k \in Keys : Readable(k) => disk[k] \in Contents
        BY ConstantsAssumption DEF Readable, OnDisk
    <2> QED
        BY <2>1 DEF Init
<1>3. TypeOK
    BY <1>1, <1>2 DEF Init, TypeOK, LoadStates, ReloadStates
<1>4. LoadsOK /\ SettledIdle /\ ReloadsOK
    BY DEF Init, LoadsOK, LoadOK, SettledIdle, ReloadsOK, ReloadOK, NotLoading, NotReloading
<1>5. WriterScans
    BY ConstantsAssumption DEF Init, WriterScans, NotReloading
<1>6. ReloadExact
    BY DEF Init, ReloadExact
<1> QED
    BY <1>3, <1>4, <1>5, <1>6 DEF IInv

(* A readable file is a configuration and is listed. *)
LEMMA ReadableFiles ==
    ASSUME IInv, NEW k \in Keys
    PROVE  /\ Readable(k) => root /\ disk[k] \in Contents /\ k \in Listed
           /\ Filled(k) \in Contents \union {NotCached}
           /\ disk[k] \in Contents => disk[k] # NotCached /\ disk[k] # NoConfig
BY ConstantsAssumption DEF IInv, TypeOK, Readable, OnDisk, Listed, Filled, Absent, Bad

-----------------------------------------------------------------------------
(* A step of a request that leaves the cache alone. *)
LEMMA LookIInv ==
    ASSUME IInv, NEW p \in Loaders, NEW q \in LoadStates, LoadOK(q),
           loads' = [loads EXCEPT ![p] = q],
           UNCHANGED <<files, hotfixCache, writer, reloads, bounds, settled, late>>
    PROVE  IInv'
<1> USE DEF IInv, files, bounds
<1>1. TypeOK'
    BY DEF TypeOK, LoadStates
<1>2. \A x : LoadOK(x) => LoadOK(x)'
    BY DEF LoadOK, Calm, Readable, OnDisk
<1>3. LoadsOK'
    BY <1>2 DEF LoadsOK, TypeOK
<1>4. WriterScans' /\ SettledIdle' /\ ReloadsOK' /\ ReloadExact'
    BY DEF WriterScans, SettledIdle, ReloadsOK, ReloadOK, ReloadExact, Filled, Readable, OnDisk,
           Listed
<1> QED
    BY <1>1, <1>3, <1>4

LEMMA BeginLoadIInv ==
    ASSUME IInv, NEW p \in Loaders, NEW k \in Keys \union {NoKey}, BeginLoad(p, k)
    PROVE  IInv'
<1> DEFINE q == IF k = NoKey
                THEN [NotLoading EXCEPT !.pc = "answered", !.window = {NoConfig}]
                ELSE [NotLoading EXCEPT
                        !.pc = "lookup", !.key = k,
                        !.window = {Says(root, disk, k)} \union
                                   IF settled /\ k \notin late THEN {} ELSE Contents]
<1>1. q \in LoadStates
    BY DEF NotLoading, LoadStates, Says
<1>2. LoadOK(q)
    BY DEF NotLoading, LoadOK
<1>3. loads' = [loads EXCEPT ![p] = q]
      /\ UNCHANGED <<files, hotfixCache, writer, reloads, bounds, settled, late>>
    BY DEF BeginLoad
<1> HIDE DEF q
<1> QED
    BY <1>1, <1>2, <1>3, LookIInv

(* An answer is a local state of a request, and asks nothing of the files.  *)
LEMMA AnsweredState ==
    ASSUME NEW l \in LoadStates, NEW config \in Contents \union {NoConfig}
    PROVE  /\ Answered(l, config) \in LoadStates /\ LoadOK(Answered(l, config))
           /\ Answered(l, config).pc = "answered" /\ Answered(l, config).config = config
           /\ Answered(l, config).key = l.key
           /\ Answered(l, config).window = l.window \intersect {config}
BY DEF LoadStates, LoadOK, Answered

LEMMA LookupIInv ==
    ASSUME IInv, NEW p \in Loaders, Lookup(p) \/ ReadFile(p)
    PROVE  IInv'
<1> DEFINE l == loads[p]
<1>1. l \in LoadStates /\ LoadOK(l) /\ l.pc \in {"lookup", "read"} /\ l.key \in Keys
    BY DEF IInv, TypeOK, LoadStates, LoadsOK, LoadOK, Lookup, ReadFile
<1>2. \E q \in LoadStates : LoadOK(q) /\ loads' = [loads EXCEPT ![p] = q]
    <2>1. CASE Lookup(p) /\ hotfixCache[l.key] # NotCached
        <3>1. hotfixCache[l.key] \in Contents
            BY <1>1, <2>1 DEF IInv, TypeOK
        <3>2. loads' = [loads EXCEPT ![p] = Answered(l, hotfixCache[l.key])]
            BY <2>1 DEF Lookup, Answers
        <3> QED
            BY <1>1, <3>1, <3>2, AnsweredState
    <2>2. CASE Lookup(p) /\ hotfixCache[l.key] = NotCached
        <3> DEFINE q == [l EXCEPT !.pc = "read"]
        <3>1. q \in LoadStates /\ LoadOK(q)
            BY <1>1 DEF LoadStates, LoadOK
        <3>2. loads' = [loads EXCEPT ![p] = q]
            BY <2>2 DEF Lookup, IInv, TypeOK
        <3> HIDE DEF q
        <3> QED
            BY <3>1, <3>2
    <2>3. CASE ReadFile(p) /\ Readable(l.key)
        <3> DEFINE q == [l EXCEPT !.pc = "store", !.config = disk[l.key]]
        <3>1. q \in LoadStates /\ LoadOK(q)
            BY <1>1, <2>3, ReadableFiles DEF LoadStates, LoadOK
        <3>2. loads' = [loads EXCEPT ![p] = q]
            BY <2>3 DEF ReadFile, IInv, TypeOK
        <3> HIDE DEF q
        <3> QED
            BY <3>1, <3>2
    <2>4. CASE ReadFile(p) /\ ~Readable(l.key)
        <3>1. loads' = [loads EXCEPT ![p] = Answered(l, NoConfig)]
            BY <2>4 DEF ReadFile, Answers
        <3> QED
            BY <1>1, <3>1, AnsweredState
    <2> QED
        BY <2>1, <2>2, <2>3, <2>4
<1>3. UNCHANGED <<files, hotfixCache, writer, reloads, bounds, settled, late>>
    BY DEF Lookup, ReadFile
<1> QED
    BY <1>2, <1>3, LookIInv

(* What a store does to the requests: it answers one, and widens the        *)
(* windows of others.                                                      *)
LEMMA StoredLoads ==
    ASSUME IInv, NEW p \in Loaders, Store(p)
    PROVE  /\ loads'[p] = Answered(loads[p], loads[p].config) /\ loads'[p] \in LoadStates
           /\ \A q \in Loaders \ {p} :
                /\ loads'[q] \in LoadStates /\ loads'[q].window \subseteq Contents \union {NoConfig}
                /\ loads'[q].pc = loads[q].pc /\ loads'[q].key = loads[q].key
                /\ loads'[q].config = loads[q].config /\ loads'[q].old = loads[q].old
                /\ loads[q].window \subseteq loads'[q].window
                /\ loads[p].old /\ loads[q].key = loads[p].key /\ Pending(q)
                     => Contents \subseteq loads'[q].window
                /\ ~Pending(q) => loads'[q] = loads[q]
           /\ loads' \in [Loaders -> LoadStates]
<1>1. \A q \in Loaders : loads[q] \in LoadStates
    BY DEF IInv, TypeOK, LoadStates
<1>2. loads'[p] = Answered(loads[p], loads[p].config) /\ loads'[p] \in LoadStates
    BY <1>1, AnsweredState DEF Store, LoadStates
<1>3. ASSUME NEW q \in Loaders \ {p}
      PROVE  \/ loads'[q] = loads[q] /\ ~(loads[p].old /\ loads[q].key = loads[p].key /\ Pending(q))
             \/ Pending(q) /\ loads'[q] = [loads[q] EXCEPT !.window = @ \union Contents]
    BY DEF Store
<1>4. ASSUME NEW q \in Loaders \ {p}
      PROVE  /\ loads'[q] \in LoadStates /\ loads'[q].window \subseteq Contents \union {NoConfig}
             /\ loads'[q].pc = loads[q].pc /\ loads'[q].key = loads[q].key
             /\ loads'[q].config = loads[q].config /\ loads'[q].old = loads[q].old
             /\ loads[q].window \subseteq loads'[q].window
             /\ loads[p].old /\ loads[q].key = loads[p].key /\ Pending(q)
                  => Contents \subseteq loads'[q].window
             /\ ~Pending(q) => loads'[q] = loads[q]
    <2>1. loads[q] \in LoadStates
        BY <1>1
    <2>2. CASE loads'[q] = loads[q] /\ ~(loads[p].old /\ loads[q].key = loads[p].key /\ Pending(q))
        BY <2>1, <2>2 DEF LoadStates
    <2>3. CASE Pending(q) /\ loads'[q] = [loads[q] EXCEPT !.window = @ \union Contents]
        BY <2>1, <2>3 DEF LoadStates
    <2> QED
        BY <1>3, <2>2, <2>3
<1>5. loads' \in [Loaders -> LoadStates]
    <2>1. \A q \in Loaders : loads'[q] \in LoadStates
        BY <1>2, <1>4
    <2>2. loads' = [q \in Loaders |-> loads'[q]]
        BY DEF Store
    <2> QED
        BY <2>1, <2>2
<1> QED
    BY <1>2, <1>4, <1>5

(* What a request stores agrees with the file, or its key becomes late. *)
LEMMA StoreIInv ==
    ASSUME IInv, NEW p \in Loaders, Store(p)
    PROVE  IInv'
<1> USE DEF IInv, files, bounds
<1> DEFINE l == loads[p]
<1>1. l \in LoadStates /\ LoadOK(l) /\ l.pc = "store" /\ writer = NoHolder
    BY DEF TypeOK, LoadStates, LoadsOK, Store
<1>2. l.key \in Keys /\ l.config \in Contents /\ NoConfig \notin Contents /\ NotCached \notin Contents
    BY <1>1, ConstantsAssumption DEF LoadOK
<1>3. hotfixCache' = [hotfixCache EXCEPT ![l.key] = l.config]
    BY DEF Store
<1>5. late' = IF l.old THEN late \union {l.key} ELSE late
    BY DEF Store
<1>6. UNCHANGED <<configOk, root, disk, writer, reloads, begunReloads, edits, settled>>
    BY DEF Store
<1>7. TypeOK'
    <2>1. late' \subseteq Keys
        BY <1>2, <1>5 DEF TypeOK
    <2>2. hotfixCache' \in [Keys -> Contents \union {NotCached}]
        BY <1>2, <1>3 DEF TypeOK
    <2>3. loads' \in [Loaders -> LoadStates]
        BY StoredLoads
    <2> QED
        BY <1>6, <2>1, <2>2, <2>3 DEF TypeOK, LoadStates
<1>8. LoadsOK'
    <2>1. LoadOK(loads[p])'
        BY <1>1, <1>2, StoredLoads, AnsweredState DEF LoadOK
    <2>2. ASSUME NEW q \in Loaders \ {p} PROVE LoadOK(loads[q])'
        <3>1. LoadOK(loads[q])
            BY DEF LoadsOK
        <3> QED
            BY <1>6, <3>1, StoredLoads DEF LoadOK, Calm, Readable, OnDisk
    <2> QED
        BY <2>1, <2>2 DEF LoadsOK
<1>9. WriterScans' /\ SettledIdle'
    BY <1>6 DEF WriterScans, SettledIdle
<1>10. ReloadsOK'
    <2>1. \A r \in Reloaders : reloads[r].pc # "scan"
        BY <1>1, ConstantsAssumption DEF WriterScans
    <2> QED
        BY <1>6, <2>1 DEF ReloadsOK, ReloadOK
<1>11. ReloadExact'
    <2> SUFFICES ASSUME settled, NEW k \in Keys, k \notin late' PROVE hotfixCache'[k] = Filled(k)
        BY <1>6 DEF ReloadExact, Filled, Readable, OnDisk
    <2>1. CASE k = l.key
        <3>1. Readable(k) /\ l.config = disk[k]
            BY <1>1, <1>5, <2>1 DEF LoadOK, Calm
        <3> QED
            BY <1>2, <1>3, <2>1, <3>1 DEF Filled, TypeOK
    <2>2. CASE k # l.key
        BY <1>2, <1>3, <1>5, <2>2 DEF ReloadExact, Filled, TypeOK
    <2> QED
        BY <2>1, <2>2
<1> QED
    BY <1>7, <1>8, <1>9, <1>10, <1>11

-----------------------------------------------------------------------------
(* The steps of a reload before it takes the lock. *)
LEMMA PrepareIInv ==
    ASSUME IInv, NEW r \in Reloaders, ReloadConfig(r) \/ StatRoot(r)
    PROVE  IInv'
<1> USE DEF IInv, files, bounds
<1>1. reloads[r] \in ReloadStates /\ reloads[r].pc \in {"config", "stat"}
    BY DEF TypeOK, ReloadStates, ReloadConfig, StatRoot
<1>2. PICK q \in ReloadStates :
        /\ reloads' = [reloads EXCEPT ![r] = q]
        /\ q.pc # "scan" /\ (q.pc = "clear" => ~root) /\ (q.quiet => reloads[r].quiet)
    <2>1. CASE ReloadConfig(r)
        <3> DEFINE q == IF configOk THEN [reloads[r] EXCEPT !.pc = "stat"] ELSE NotReloading
        <3>1. q \in ReloadStates /\ q.pc \in {"stat", "idle"} /\ (q.quiet => reloads[r].quiet)
            BY <1>1 DEF ReloadStates, NotReloading
        <3>2. reloads' = [reloads EXCEPT ![r] = q]
            BY <2>1 DEF ReloadConfig, TypeOK
        <3> HIDE DEF q
        <3> QED
            BY <3>1, <3>2
    <2>2. CASE StatRoot(r)
        <3> DEFINE q == [reloads[r] EXCEPT !.pc = IF root THEN "open" ELSE "clear"]
        <3>1. /\ q \in ReloadStates /\ q.pc \in {"open", "clear"} /\ q.quiet = reloads[r].quiet
              /\ q.pc = "clear" => ~root
            BY <1>1 DEF ReloadStates
        <3>2. reloads' = [reloads EXCEPT ![r] = q]
            BY <2>2 DEF StatRoot, TypeOK
        <3> HIDE DEF q
        <3> QED
            BY <3>1, <3>2
    <2> QED
        BY <2>1, <2>2
<1>3. UNCHANGED <<configOk, root, disk, hotfixCache, writer, loads, begunReloads, edits, settled, late>>
    BY DEF ReloadConfig, StatRoot
<1>4. \A s \in Reloaders : reloads'[s] = IF s = r THEN q ELSE reloads[s]
    BY <1>2 DEF TypeOK
<1>5. TypeOK'
    BY <1>2, <1>3 DEF TypeOK, ReloadStates
<1>6. LoadsOK'
    <2>1. Calm' => Calm
        BY <1>1, <1>2, <1>3, <1>4 DEF Calm
    <2>2. \A x : LoadOK(x) => LoadOK(x)'
        BY <1>3, <2>1 DEF LoadOK, Readable, OnDisk
    <2> QED
        BY <1>3, <2>2 DEF LoadsOK
<1>7. WriterScans'
    BY <1>1, <1>2, <1>3, <1>4 DEF WriterScans
<1>8. SettledIdle' /\ ReloadExact'
    BY <1>1, <1>3 DEF SettledIdle, ReloadExact, Readable, OnDisk
<1>9. ReloadsOK'
    BY <1>2, <1>3, <1>4 DEF ReloadsOK, ReloadOK, Filled, Readable, OnDisk, Listed
<1> QED
    BY <1>5, <1>6, <1>7, <1>8, <1>9

(* The end of a reload.  If no edit disturbed it, the cache is now as the   *)
(* files are.                                                              *)
LEMMA EndsIInv ==
    ASSUME IInv, NEW r \in Reloaders, Ends(r), reloads[r].pc # "idle",
           UNCHANGED <<files, loads, bounds>>, writer \in {r, NoHolder}, writer' = NoHolder,
           hotfixCache' \in [Keys -> Contents \union {NotCached}], late' \subseteq Keys,
           reloads[r].quiet => \A k \in Keys : hotfixCache'[k] = Filled(k)
    PROVE  IInv'
<1> USE DEF IInv, files, bounds
<1>1. /\ \A s \in Reloaders : reloads'[s] = IF s = r THEN NotReloading ELSE reloads[s]
      /\ settled' = (reloads[r].quiet /\ \A s \in Reloaders \ {r} : reloads[s].pc = "idle")
    BY DEF Ends, TypeOK
<1>2. NotReloading \in ReloadStates /\ NotReloading.pc = "idle" /\ ~NotReloading.quiet
    BY DEF NotReloading, ReloadStates
<1>3. TypeOK'
    <2>1. reloads' \in [Reloaders -> ReloadStates]
        BY <1>2 DEF Ends, TypeOK, ReloadStates
    <2>2. settled' \in BOOLEAN /\ writer' \in Reloaders \union {NoHolder}
        BY <1>1
    <2> QED
        BY <2>1, <2>2 DEF TypeOK, ReloadStates
<1>4. LoadsOK'
    <2>1. Calm' => Calm
        BY <1>1, <1>2 DEF Calm
    <2>2. \A x : LoadOK(x) => LoadOK(x)'
        BY <2>1 DEF LoadOK, Readable, OnDisk
    <2> QED
        BY <2>2 DEF LoadsOK
<1>5. \A s \in Reloaders \ {r} : reloads[s].pc # "scan"
    BY ConstantsAssumption DEF WriterScans
<1>6. WriterScans'
    BY <1>1, <1>2, <1>5, ConstantsAssumption DEF WriterScans
<1>7. SettledIdle'
    BY <1>1, <1>2 DEF SettledIdle
<1>8. ReloadsOK'
    BY <1>1, <1>2, <1>5 DEF ReloadsOK, ReloadOK
<1>9. ReloadExact'
    BY <1>1 DEF ReloadExact, Filled, Readable, OnDisk
<1> QED
    BY <1>3, <1>4, <1>6, <1>7, <1>8, <1>9

(* Without the directory no file can be read, so an empty cache is exact. *)
LEMMA EmptyCache ==
    /\ Empty \in [Keys -> Contents \union {NotCached}]
    /\ ~root => \A k \in Keys : Empty[k] = Filled(k)
BY ConstantsAssumption DEF Empty, Filled, Readable, OnDisk

LEMMA ClearIInv ==
    ASSUME IInv, NEW r \in Reloaders, ClearCache(r) \/ (OpenRoot(r) /\ ~root) \/ ScanDone(r)
    PROVE  IInv'
<1> USE DEF IInv
<1>1. CASE ClearCache(r)
    <2>1. reloads[r].quiet => ~root
        BY <1>1 DEF ClearCache, ReloadsOK, ReloadOK
    <2> QED
        BY <1>1, <2>1, EmptyCache, EndsIInv DEF ClearCache
<1>2. CASE OpenRoot(r) /\ ~root
    BY <1>2, EmptyCache, EndsIInv DEF OpenRoot
<1>3. CASE ScanDone(r)
    <2>1. reloads[r].quiet => \A k \in Keys : hotfixCache[k] = Filled(k)
        BY <1>3 DEF ScanDone, ReloadsOK, ReloadOK
    <2>2. writer = r
        BY <1>3 DEF ScanDone, WriterScans
    <2> QED
        BY <1>3, <2>1, <2>2, EndsIInv DEF ScanDone, TypeOK
<1> QED
    BY <1>1, <1>2, <1>3

(* The scan begins on an empty cache, with every key still to be reached. *)
LEMMA OpenIInv ==
    ASSUME IInv, NEW r \in Reloaders, OpenRoot(r), root
    PROVE  IInv'
<1> USE DEF IInv, files, bounds
<1> DEFINE q == [reloads[r] EXCEPT !.pc = "scan", !.todo = Keys, !.listed = Listed]
<1>1. reloads[r] \in ReloadStates /\ reloads[r].pc = "open" /\ writer = NoHolder
    BY DEF TypeOK, ReloadStates, OpenRoot
<1>2. /\ q \in ReloadStates /\ q.pc = "scan" /\ q.quiet = reloads[r].quiet
      /\ q.todo = Keys /\ q.listed = Listed
    BY <1>1 DEF ReloadStates, Listed
<1>3. reloads' = [reloads EXCEPT ![r] = q]
    BY DEF OpenRoot, TypeOK
<1>4. /\ hotfixCache' = Empty /\ late' = {} /\ writer' = r
      /\ UNCHANGED <<configOk, root, disk, loads, begunReloads, edits, settled>>
    BY DEF OpenRoot
<1> HIDE DEF q
<1>5. \A s \in Reloaders : reloads'[s] = IF s = r THEN q ELSE reloads[s]
    BY <1>3 DEF TypeOK
<1>6. TypeOK'
    <2>1. reloads' \in [Reloaders -> ReloadStates] /\ hotfixCache' \in [Keys -> Contents \union {NotCached}]
        BY <1>2, <1>3, <1>4, EmptyCache DEF TypeOK, ReloadStates
    <2> QED
        BY <1>4, <2>1 DEF TypeOK, ReloadStates
<1>7. LoadsOK'
    <2>1. Calm' => Calm
        BY <1>1, <1>2, <1>4, <1>5 DEF Calm
    <2>2. \A x : LoadOK(x) => LoadOK(x)'
        BY <1>4, <2>1 DEF LoadOK, Readable, OnDisk
    <2> QED
        BY <1>4, <2>2 DEF LoadsOK
<1>8. \A s \in Reloaders : reloads[s].pc # "scan"
    BY <1>1, ConstantsAssumption DEF WriterScans
<1>9. WriterScans'
    BY <1>2, <1>4, <1>5, <1>8 DEF WriterScans
<1>10. SettledIdle' /\ ReloadExact'
    BY <1>1, <1>4 DEF SettledIdle, ReloadExact
<1>11. ReloadsOK'
    BY <1>2, <1>4, <1>5, <1>8 DEF ReloadsOK, ReloadOK, Empty, Filled, Readable, OnDisk, Listed
<1> QED
    BY <1>6, <1>7, <1>9, <1>10, <1>11

(* One more key is as its file: a listed file that can be read is not       *)
(* passed over.                                                            *)
LEMMA ScanIInv ==
    ASSUME IInv, NEW r \in Reloaders, NEW k \in Keys, ScanFile(r, k)
    PROVE  IInv'
<1> USE DEF IInv, files, bounds
<1> DEFINE q == [reloads[r] EXCEPT !.todo = @ \ {k}]
<1>1. reloads[r] \in ReloadStates /\ reloads[r].pc = "scan" /\ k \in reloads[r].todo /\ writer = r
    BY DEF TypeOK, ReloadStates, ScanFile, WriterScans
<1>2. /\ q \in ReloadStates /\ q.pc = "scan" /\ q.quiet = reloads[r].quiet
      /\ q.todo = reloads[r].todo \ {k} /\ q.listed = reloads[r].listed
    BY <1>1 DEF ReloadStates
<1>3. reloads' = [reloads EXCEPT ![r] = q]
    BY DEF ScanFile, TypeOK
<1>4. UNCHANGED <<configOk, root, disk, writer, loads, begunReloads, edits, settled, late>>
    BY DEF ScanFile
<1> HIDE DEF q
<1>5. \A s \in Reloaders : reloads'[s] = IF s = r THEN q ELSE reloads[s]
    BY <1>3 DEF TypeOK
<1>6. /\ hotfixCache' \in [Keys -> Contents \union {NotCached}]
      /\ \A j \in Keys \ {k} : hotfixCache'[j] = hotfixCache[j]
    <2>1. Readable(k) => disk[k] \in Contents
        BY ReadableFiles
    <2> QED
        BY <2>1 DEF ScanFile, TypeOK
<1>7. TypeOK'
    <2>1. reloads' \in [Reloaders -> ReloadStates]
        BY <1>2, <1>3 DEF TypeOK, ReloadStates
    <2> QED
        BY <1>4, <1>6, <2>1 DEF TypeOK, ReloadStates
<1>8. LoadsOK'
    <2>1. Calm' => Calm
        BY <1>1, <1>2, <1>4, <1>5 DEF Calm
    <2>2. \A x : LoadOK(x) => LoadOK(x)'
        BY <1>4, <2>1 DEF LoadOK, Readable, OnDisk
    <2> QED
        BY <1>4, <2>2 DEF LoadsOK
<1>9. WriterScans'
    BY <1>1, <1>2, <1>4, <1>5 DEF WriterScans
<1>10. SettledIdle' /\ ReloadExact'
    BY <1>1, <1>4 DEF SettledIdle, ReloadExact
<1>11. ASSUME reloads[r].quiet
       PROVE  /\ q.listed = Listed
              /\ \A j \in Keys : hotfixCache'[j] =
                   IF j \in q.todo THEN NotCached ELSE Filled(j)
    <2>1. /\ reloads[r].listed = Listed
          /\ \A j \in Keys : hotfixCache[j] = IF j \in reloads[r].todo THEN NotCached ELSE Filled(j)
        BY <1>1, <1>11 DEF ReloadsOK, ReloadOK
    <2>2. hotfixCache'[k] = Filled(k)
        BY <1>1, <2>1, ReadableFiles DEF ScanFile, Filled, TypeOK
    <2> QED
        BY <1>2, <1>6, <2>1, <2>2
<1>12. \A s \in Reloaders \ {r} : reloads[s].pc # "scan"
    BY <1>1 DEF WriterScans
<1>13. ReloadsOK'
    <2>1. ASSUME NEW s \in Reloaders PROVE ReloadOK(reloads[s])'
        <3>1. CASE s = r
            BY <1>2, <1>4, <1>5, <1>11, <3>1 DEF ReloadOK, Filled, Readable, OnDisk, Listed
        <3>2. CASE s # r
            BY <1>4, <1>5, <1>12, <3>2 DEF ReloadsOK, ReloadOK
        <3> QED
            BY <3>1, <3>2
    <2> QED
        BY <2>1 DEF ReloadsOK
<1> QED
    BY <1>7, <1>8, <1>9, <1>10, <1>13

-----------------------------------------------------------------------------
(* A reload that begins makes every request that has read its file late. *)
LEMMA BeginReloadIInv ==
    ASSUME IInv, NEW r \in Reloaders, BeginReload(r)
    PROVE  IInv'
<1> USE DEF IInv, files, bounds
<1> DEFINE q == [NotReloading EXCEPT !.pc = "config", !.quiet = TRUE]
<1>1. q \in ReloadStates /\ q.pc = "config" /\ q.quiet /\ reloads[r].pc = "idle"
    BY DEF BeginReload, NotReloading, ReloadStates
<1>2. /\ \A s \in Reloaders : reloads'[s] = IF s = r THEN q ELSE reloads[s]
      /\ reloads' = [reloads EXCEPT ![r] = q]
    BY DEF BeginReload, TypeOK
<1>3. /\ begunReloads' = begunReloads + 1 /\ settled' = FALSE
      /\ UNCHANGED <<configOk, root, disk, hotfixCache, writer, edits, late>>
    BY DEF BeginReload
<1>4. ASSUME NEW p \in Loaders
      PROVE  /\ loads'[p] \in LoadStates
             /\ LoadOK(loads[p]) => LoadOK(loads[p])'
    <2>1. loads[p] \in LoadStates
             /\ loads'[p] = [loads[p] EXCEPT !.old = @ \/ loads[p].pc = "store"]
        BY DEF BeginReload, TypeOK, LoadStates
    <2>2. loads'[p].pc = "store" => loads'[p].old
        BY <2>1 DEF LoadStates
    <2>3. /\ loads'[p].pc = loads[p].pc /\ loads'[p].key = loads[p].key
          /\ loads'[p].config = loads[p].config
        BY <2>1 DEF LoadStates
    <2>4. loads'[p] \in LoadStates
        BY <2>1 DEF LoadStates
    <2> QED
        BY <1>3, <2>2, <2>3, <2>4 DEF LoadOK, Readable, OnDisk
<1> HIDE DEF q
<1>5. TypeOK'
    <2>1. loads' \in [Loaders -> LoadStates]
        BY <1>4 DEF BeginReload
    <2>2. reloads' \in [Reloaders -> ReloadStates] /\ begunReloads' \in Nat
        BY <1>1, <1>2, <1>3 DEF TypeOK, ReloadStates
    <2> QED
        BY <1>3, <2>1, <2>2 DEF TypeOK, LoadStates, ReloadStates
<1>6. LoadsOK'
    BY <1>4 DEF LoadsOK
<1>7. WriterScans' /\ SettledIdle' /\ ReloadExact'
    BY <1>1, <1>2, <1>3 DEF WriterScans, SettledIdle, ReloadExact
<1>8. ReloadsOK'
    BY <1>1, <1>2, <1>3 DEF ReloadsOK, ReloadOK, Filled, Readable, OnDisk, Listed
<1> QED
    BY <1>5, <1>6, <1>7, <1>8

(* An edit ends every quiet: nothing but the types and the lock has to be   *)
(* looked at.                                                              *)
LEMMA TouchedIInv ==
    ASSUME IInv, NEW ks \in SUBSET Keys, Touched(ks),
           configOk' \in BOOLEAN, root' \in BOOLEAN,
           disk' \in [Keys -> Contents \union {Absent, Bad}]
    PROVE  IInv'
<1> USE DEF IInv
<1>1. ~Calm' /\ settled' = FALSE
    <2>1. settled' = FALSE /\ \A r \in Reloaders : ~reloads'[r].quiet
        BY DEF Touched, TypeOK
    <2> QED
        BY <2>1 DEF Calm
<1>2. ASSUME NEW r \in Reloaders
      PROVE  reloads'[r] \in ReloadStates /\ ~reloads'[r].quiet /\ reloads'[r].pc = reloads[r].pc
    <2>1. reloads[r] \in ReloadStates /\ reloads'[r] = [reloads[r] EXCEPT !.quiet = FALSE]
        BY DEF Touched, TypeOK, ReloadStates
    <2> QED
        BY <2>1 DEF ReloadStates
<1>3. ASSUME NEW p \in Loaders
      PROVE  /\ loads'[p] \in LoadStates
             /\ LoadOK(loads[p]) => LoadOK(loads[p])'
    <2>1. /\ loads[p] \in LoadStates
          /\ \/ loads'[p] = loads[p]
             \/ loads'[p] = [loads[p] EXCEPT
                                !.window = @ \union {Says(root', disk', loads[p].key)}]
        BY DEF Touched, TypeOK, LoadStates
    <2>2. Says(root', disk', loads[p].key) \in Contents \union {NoConfig}
        BY DEF Says
    <2>3. /\ loads'[p] \in LoadStates
          /\ loads'[p].pc = loads[p].pc /\ loads'[p].key = loads[p].key
          /\ loads'[p].config = loads[p].config
        BY <2>1, <2>2 DEF LoadStates
    <2> QED
        BY <1>1, <2>3 DEF LoadOK
<1>4. TypeOK'
    <2>1. loads' \in [Loaders -> LoadStates] /\ reloads' \in [Reloaders -> ReloadStates]
        BY <1>2, <1>3 DEF Touched
    <2>2. edits' \in Nat /\ UNCHANGED <<hotfixCache, writer, begunReloads, late>>
        BY DEF Touched, TypeOK
    <2> QED
        BY <1>1, <2>1, <2>2 DEF TypeOK, LoadStates, ReloadStates
<1>5. LoadsOK'
    BY <1>3 DEF LoadsOK
<1>6. WriterScans'
    BY <1>2 DEF WriterScans, Touched
<1>7. SettledIdle' /\ ReloadExact' /\ ReloadsOK'
    BY <1>1, <1>2 DEF SettledIdle, ReloadExact, ReloadsOK, ReloadOK
<1> QED
    BY <1>4, <1>5, <1>6, <1>7

LEMMA EditIInv ==
    ASSUME IInv,
           \/ \E k \in Keys, new \in Contents \union {Absent, Bad} : EditFile(k, new)
           \/ MoveRoot \/ EditConfig
    PROVE  IInv'
<1> USE DEF IInv
<1>1. ASSUME NEW k \in Keys, NEW new \in Contents \union {Absent, Bad}, EditFile(k, new)
      PROVE  IInv'
    BY <1>1, TouchedIInv DEF EditFile, TypeOK
<1>2. CASE MoveRoot
    BY <1>2, TouchedIInv DEF MoveRoot, TypeOK
<1>3. CASE EditConfig
    BY <1>3, TouchedIInv DEF EditConfig, TypeOK
<1> QED
    BY <1>1, <1>2, <1>3

-----------------------------------------------------------------------------
(* Spec keeps the inductive invariant. *)
THEOREM Invariance == Spec => []IInv
<1>1. IInv /\ [Next]_vars => IInv'
    <2> SUFFICES ASSUME IInv, [Next]_vars PROVE IInv'
        OBVIOUS
    <2>1. CASE UNCHANGED vars
        BY <2>1 DEF vars, IInv, TypeOK, LoadsOK, LoadOK, Calm, WriterScans, SettledIdle, ReloadsOK,
                    ReloadOK, ReloadExact, Filled, Readable, OnDisk, Listed
    <2>2. ASSUME NEW p \in Loaders,
                 LoadStep(p) \/ \E k \in Keys \union {NoKey} : BeginLoad(p, k)
          PROVE  IInv'
        BY <2>2, LookupIInv, StoreIInv, BeginLoadIInv DEF LoadStep
    <2>3. ASSUME NEW r \in Reloaders, BeginReload(r) \/ ReloadStep(r)
          PROVE  IInv'
        BY <2>3, BeginReloadIInv, PrepareIInv, ClearIInv, OpenIInv, ScanIInv DEF ReloadStep
    <2> QED
        BY <2>1, <2>2, <2>3, EditIInv DEF Next
<1> QED
    BY <1>1, InitIInv, PTL DEF Spec

(* Files, cache, requests and reloads keep their shapes. *)
THEOREM TypeCorrect == Spec => []TypeOK
<1>1. IInv => TypeOK
    BY DEF IInv
<1> QED
    BY <1>1, Invariance, PTL

(* A reload that nothing disturbed leaves the cache as the files are, but   *)
(* for the keys a request stored that had read them before the reload       *)
(* (reloadHotfixCache, initHotfixCache).                                   *)
THEOREM ReloadsAreExact == Spec => []ReloadExact
<1>1. IInv => ReloadExact
    BY DEF IInv
<1> QED
    BY <1>1, Invariance, PTL

(* Outside a reload's clear nothing leaves the cache (Store, ScanFile).     *)
THEOREM EntriesKept == Spec => EntriesSurvive
<1> DEFINE Kept == (\A r \in Reloaders : reloads[r].pc \notin {"clear", "open"})
         => \A k \in Keys : hotfixCache[k] # NotCached => hotfixCache'[k] # NotCached
<1>1. ASSUME IInv, [Next]_vars, \A r \in Reloaders : reloads[r].pc \notin {"clear", "open"},
             NEW k \in Keys, hotfixCache[k] # NotCached
      PROVE  hotfixCache'[k] # NotCached
    <2>1. CASE UNCHANGED hotfixCache
        BY <1>1, <2>1
    <2>2. ASSUME NEW p \in Loaders, Store(p)
          PROVE  hotfixCache'[k] # NotCached
        <3>1. loads[p].config # NotCached
            BY <2>2, <1>1, ConstantsAssumption DEF IInv, LoadsOK, LoadOK, Store
        <3> QED
            BY <1>1, <2>2, <3>1 DEF Store, IInv, TypeOK
    <2>3. ASSUME NEW r \in Reloaders, NEW j \in Keys, ScanFile(r, j)
          PROVE  hotfixCache'[k] # NotCached
        <3>1. Readable(j) => disk[j] # NotCached
            BY <1>1, ReadableFiles
        <3> QED
            BY <1>1, <2>3, <3>1 DEF ScanFile, IInv, TypeOK
    <2> QED
        BY <1>1, <2>1, <2>2, <2>3 DEF Next, vars, LoadStep, ReloadStep, BeginLoad, Lookup, ReadFile,
            BeginReload, ReloadConfig, StatRoot, ClearCache, OpenRoot, ScanDone, EditFile, MoveRoot,
            EditConfig, Touched
<1>2. IInv /\ [Next]_vars => [Kept]_vars
    BY <1>1
<1> HIDE DEF Kept
<1>3. Spec => [][Kept]_vars
    BY <1>2, Invariance, PTL DEF Spec
<1> QED
    BY <1>3 DEF Kept, EntriesSurvive

-----------------------------------------------------------------------------
(* What keeps the answers fresh: the window of a request that is under way  *)
(* holds what its file says and what the cache holds for it, and what it    *)
(* is about to store or was told.                                          *)
TellOK(l) ==
    /\ l.pc \in {"lookup", "read", "store"} =>
         /\ Says(root, disk, l.key) \in l.window
         /\ hotfixCache[l.key] \in l.window \union {NotCached}
    /\ l.pc \in {"store", "answered"} => l.config \in l.window

(* And what any other request is about to store for its key, unless that    *)
(* one read before a reload.                                               *)
Covers(l, q) ==
    l.pc \in {"lookup", "read", "store"} /\ q.pc = "store" /\ q.key = l.key /\ ~q.old
      => q.config \in l.window

WindowsOK == \A p \in Loaders : TellOK(loads[p]) /\ \A q \in Loaders : Covers(loads[p], loads[q])

(* A file says what a fill of the cache would make of it. *)
LEMMA FileSays ==
    ASSUME IInv, NEW k \in Keys
    PROVE  /\ Says(root, disk, k) = IF Readable(k) THEN disk[k] ELSE NoConfig
           /\ Filled(k) \in {Says(root, disk, k), NotCached}
BY ConstantsAssumption DEF Says, Readable, OnDisk, Filled

(* A step of a request that leaves the cache alone keeps the windows if its *)
(* next state is covered and covers.                                       *)
LEMMA LookWindows ==
    ASSUME IInv, WindowsOK, NEW p \in Loaders, NEW x \in LoadStates, TellOK(x), Covers(x, x),
           loads' = [loads EXCEPT ![p] = x], UNCHANGED <<files, hotfixCache>>,
           \A q \in Loaders : Covers(x, loads[q]) /\ Covers(loads[q], x)
    PROVE  WindowsOK'
<1>1. \A q \in Loaders : loads'[q] = IF q = p THEN x ELSE loads[q]
    BY DEF IInv, TypeOK
<1>2. \A l : TellOK(l) => TellOK(l)'
    BY DEF TellOK, files
<1>3. \A q \in Loaders : TellOK(loads[q])'
    BY <1>1, <1>2 DEF WindowsOK
<1>4. \A q, s \in Loaders : Covers(loads[q], loads[s])'
    BY <1>1 DEF WindowsOK
<1> QED
    BY <1>3, <1>4 DEF WindowsOK

(* A request that begins: after a settled reload the cache and all that     *)
(* waits to be stored are as the file is; otherwise its window is wide.    *)
LEMMA BeginLoadWindows ==
    ASSUME IInv, WindowsOK, NEW p \in Loaders, NEW k \in Keys \union {NoKey}, BeginLoad(p, k)
    PROVE  WindowsOK'
<1> DEFINE x == IF k = NoKey
                THEN [NotLoading EXCEPT !.pc = "answered", !.window = {NoConfig}]
                ELSE [NotLoading EXCEPT
                        !.pc = "lookup", !.key = k,
                        !.window = {Says(root, disk, k)} \union
                                   IF settled /\ k \notin late THEN {} ELSE Contents]
<1>1. x \in LoadStates
    BY DEF NotLoading, LoadStates, Says
<1>2. loads' = [loads EXCEPT ![p] = x] /\ UNCHANGED <<files, hotfixCache>>
    BY DEF BeginLoad
<1>3. /\ x.pc # "store" /\ (k = NoKey => x.pc = "answered" /\ x.config \in x.window)
      /\ k # NoKey => /\ x.pc = "lookup" /\ x.key = k /\ Says(root, disk, k) \in x.window
                      /\ ~(settled /\ k \notin late) => Contents \subseteq x.window
    BY DEF NotLoading
<1> HIDE DEF x
<1>4. TellOK(x)
    <2>1. k # NoKey => hotfixCache[k] \in x.window \union {NotCached}
        <3>1. CASE settled /\ k \in Keys \ late
            BY <1>3, <3>1, FileSays DEF IInv, ReloadExact, Filled
        <3>2. CASE ~(settled /\ k \notin late) /\ k \in Keys
            BY <1>3, <3>2, ConstantsAssumption DEF IInv, TypeOK
        <3> QED
            BY <3>1, <3>2
    <2> QED
        BY <1>3, <2>1 DEF TellOK
<1>5. ASSUME NEW q \in Loaders PROVE Covers(x, loads[q])
    <2> SUFFICES ASSUME k \in Keys, loads[q].pc = "store", loads[q].key = k, ~loads[q].old
                 PROVE  loads[q].config \in x.window
        BY <1>3 DEF Covers
    <2>1. LoadOK(loads[q])
        BY DEF IInv, LoadsOK
    <2>2. CASE settled
        <3>1. Readable(k) /\ loads[q].config = disk[k]
            BY <2>1, <2>2 DEF LoadOK, Calm
        <3>2. k # NoKey
            BY ConstantsAssumption
        <3> QED
            BY <1>3, <3>1, <3>2, FileSays
    <2>3. CASE ~settled
        BY <1>3, <2>1, <2>3, ConstantsAssumption DEF LoadOK
    <2> QED
        BY <2>2, <2>3
<1>6. Covers(x, x) /\ \A q \in Loaders : Covers(loads[q], x)
    BY <1>3 DEF Covers
<1> QED
    BY <1>1, <1>2, <1>4, <1>5, <1>6, LookWindows

(* An answer from the cache, or that there is no file, is in the window of  *)
(* the request that gets it.                                               *)
LEMMA AnswerWindows ==
    ASSUME IInv, WindowsOK, NEW p \in Loaders, NEW config \in Contents \union {NoConfig},
           config \in loads[p].window, loads' = [loads EXCEPT ![p] = Answered(loads[p], config)],
           UNCHANGED <<files, hotfixCache>>
    PROVE  WindowsOK'
<1> DEFINE x == Answered(loads[p], config)
<1>1. loads[p] \in LoadStates
    BY DEF IInv, TypeOK, LoadStates
<1>2. x \in LoadStates /\ x.pc = "answered" /\ x.config \in x.window
    BY <1>1, AnsweredState
<1> HIDE DEF x
<1>3. TellOK(x) /\ Covers(x, x) /\ \A q \in Loaders : Covers(x, loads[q]) /\ Covers(loads[q], x)
    BY <1>2 DEF TellOK, Covers
<1>4. loads' = [loads EXCEPT ![p] = x]
    BY DEF x
<1> QED
    BY <1>2, <1>3, <1>4, LookWindows

LEMMA LookupWindows ==
    ASSUME IInv, WindowsOK, NEW p \in Loaders, Lookup(p)
    PROVE  WindowsOK'
<1> DEFINE l == loads[p]
<1>1. l \in LoadStates /\ l.pc = "lookup" /\ l.key \in Keys /\ TellOK(l)
    BY DEF IInv, TypeOK, LoadStates, LoadsOK, LoadOK, WindowsOK, Lookup
<1>2. UNCHANGED <<files, hotfixCache>>
    BY DEF Lookup
<1>3. CASE hotfixCache[l.key] # NotCached
    <2>1. hotfixCache[l.key] \in Contents /\ hotfixCache[l.key] \in l.window
        BY <1>1, <1>3 DEF IInv, TypeOK, TellOK
    <2> QED
        BY <1>2, <1>3, <2>1, AnswerWindows DEF Lookup, Answers
<1>4. CASE hotfixCache[l.key] = NotCached
    <2> DEFINE x == [l EXCEPT !.pc = "read"]
    <2>1. /\ x \in LoadStates /\ x.pc = "read" /\ x.key = l.key /\ x.window = l.window
        BY <1>1 DEF LoadStates
    <2>2. loads' = [loads EXCEPT ![p] = x]
        BY <1>4 DEF Lookup, IInv, TypeOK
    <2> HIDE DEF x
    <2>3. TellOK(x)
        BY <1>1, <2>1 DEF TellOK
    <2>4. Covers(x, x) /\ \A q \in Loaders : Covers(x, loads[q]) /\ Covers(loads[q], x)
        BY <1>1, <2>1 DEF WindowsOK, Covers
    <2> QED
        BY <1>2, <2>1, <2>2, <2>3, <2>4, LookWindows
<1> QED
    BY <1>3, <1>4

(* What a request reads, every window of its key already holds. *)
LEMMA ReadFileWindows ==
    ASSUME IInv, WindowsOK, NEW p \in Loaders, ReadFile(p)
    PROVE  WindowsOK'
<1> DEFINE l == loads[p]
<1>1. l \in LoadStates /\ l.pc = "read" /\ l.key \in Keys /\ TellOK(l)
    BY DEF IInv, TypeOK, LoadStates, LoadsOK, LoadOK, WindowsOK, ReadFile
<1>2. UNCHANGED <<files, hotfixCache>>
    BY DEF ReadFile
<1>3. CASE Readable(l.key)
    <2> DEFINE x == [l EXCEPT !.pc = "store", !.config = disk[l.key]]
    <2>1. /\ x \in LoadStates /\ x.pc = "store" /\ x.key = l.key /\ x.window = l.window
          /\ x.config = disk[l.key]
        BY <1>1, <1>3, ReadableFiles DEF LoadStates
    <2>2. loads' = [loads EXCEPT ![p] = x]
        BY <1>3 DEF ReadFile, IInv, TypeOK
    <2>3. x.config = Says(root, disk, l.key)
        BY <1>1, <1>3, <2>1, FileSays
    <2> HIDE DEF x
    <2>4. TellOK(x)
        BY <1>1, <2>1, <2>3 DEF TellOK
    <2>5. Covers(x, x) /\ \A q \in Loaders : Covers(x, loads[q])
        BY <1>1, <2>1, <2>4 DEF WindowsOK, Covers, TellOK
    <2>6. ASSUME NEW q \in Loaders PROVE Covers(loads[q], x)
        <3>1. TellOK(loads[q])
            BY DEF WindowsOK
        <3> QED
            BY <2>1, <2>3, <3>1 DEF Covers, TellOK
    <2> QED
        BY <1>2, <2>1, <2>2, <2>4, <2>5, <2>6, LookWindows
<1>4. CASE ~Readable(l.key)
    <2>1. NoConfig \in l.window
        BY <1>1, <1>4, FileSays DEF TellOK
    <2> QED
        BY <1>2, <1>4, <2>1, AnswerWindows DEF ReadFile, Answers
<1> QED
    BY <1>3, <1>4

(* What one request stores, the windows of its key hold, or they become     *)
(* wide because it read before a reload.                                   *)
LEMMA StoreWindows ==
    ASSUME IInv, WindowsOK, NEW p \in Loaders, Store(p)
    PROVE  WindowsOK'
<1> DEFINE l == loads[p]
<1>1. l \in LoadStates /\ LoadOK(l) /\ l.pc = "store" /\ TellOK(l)
    BY DEF IInv, TypeOK, LoadStates, LoadsOK, WindowsOK, Store
<1>2. l.key \in Keys /\ l.config \in Contents /\ l.config \in l.window
    BY <1>1 DEF LoadOK, TellOK
<1>3. hotfixCache' = [hotfixCache EXCEPT ![l.key] = l.config] /\ UNCHANGED files
    BY DEF Store
<1>4. /\ loads'[p].pc = "answered" /\ loads'[p].config \in loads'[p].window
    BY <1>1, <1>2, StoredLoads, AnsweredState
<1>5. ASSUME NEW q \in Loaders PROVE TellOK(loads[q])'
    <2>1. CASE q = p
        BY <1>4, <2>1 DEF TellOK
    <2>2. CASE q # p
        <3>1. /\ loads'[q].pc = loads[q].pc /\ loads'[q].key = loads[q].key
              /\ loads'[q].config = loads[q].config /\ loads[q].window \subseteq loads'[q].window
              /\ l.old /\ loads[q].key = l.key /\ Pending(q) => Contents \subseteq loads'[q].window
            BY <2>2, StoredLoads
        <3>2. TellOK(loads[q]) /\ Covers(loads[q], l) /\ LoadOK(loads[q])
            BY DEF WindowsOK, IInv, LoadsOK
        <3>3. CASE Pending(q) /\ loads[q].key = l.key
            <4>1. l.config \in loads'[q].window
                BY <1>1, <1>2, <3>1, <3>2, <3>3 DEF Covers, Pending
            <4>2. hotfixCache'[l.key] = l.config
                BY <1>2, <1>3 DEF IInv, TypeOK
            <4> QED
                BY <1>3, <3>1, <3>2, <3>3, <4>1, <4>2 DEF TellOK, files
        <3>4. CASE Pending(q) /\ loads[q].key # l.key
            <4>1. hotfixCache'[loads[q].key] = hotfixCache[loads[q].key]
                BY <1>3, <3>2, <3>4 DEF IInv, TypeOK, LoadOK, Pending
            <4> QED
                BY <1>3, <3>1, <3>2, <4>1 DEF TellOK, files
        <3>5. CASE ~Pending(q)
            BY <3>1, <3>2, <3>5 DEF TellOK, Pending
        <3> QED
            BY <3>3, <3>4, <3>5
    <2> QED
        BY <2>1, <2>2
<1>6. ASSUME NEW q \in Loaders, NEW s \in Loaders PROVE Covers(loads[q], loads[s])'
    <2>1. Covers(loads[q], loads[s])
        BY DEF WindowsOK
    <2>2. CASE q = p \/ s = p
        BY <1>4, <2>2 DEF Covers
    <2>3. CASE q # p /\ s # p
        <3>1. /\ loads'[q].pc = loads[q].pc /\ loads'[q].key = loads[q].key
              /\ loads[q].window \subseteq loads'[q].window
            BY <2>3, StoredLoads
        <3>2. /\ loads'[s].pc = loads[s].pc /\ loads'[s].key = loads[s].key
              /\ loads'[s].config = loads[s].config /\ loads'[s].old = loads[s].old
            BY <2>3, StoredLoads
        <3> QED
            BY <2>1, <3>1, <3>2 DEF Covers
    <2> QED
        BY <2>2, <2>3
<1> QED
    BY <1>5, <1>6 DEF WindowsOK

(* A step that leaves requests and files alone, and puts nothing into the   *)
(* cache but what the files say, keeps the windows.                        *)
LEMMA FillWindows ==
    ASSUME IInv, WindowsOK, UNCHANGED <<files, loads>>,
           \A k \in Keys : hotfixCache'[k] \in {hotfixCache[k], NotCached, Says(root, disk, k)}
    PROVE  WindowsOK'
<1>1. ASSUME NEW p \in Loaders PROVE TellOK(loads[p])'
    <2>1. TellOK(loads[p]) /\ LoadOK(loads[p])
        BY DEF WindowsOK, IInv, LoadsOK
    <2> QED
        BY <2>1 DEF TellOK, LoadOK, files
<1>2. \A p, q \in Loaders : Covers(loads[p], loads[q])'
    BY DEF WindowsOK, Covers
<1> QED
    BY <1>1, <1>2 DEF WindowsOK

LEMMA ReloadWindows ==
    ASSUME IInv, WindowsOK, NEW r \in Reloaders, ReloadStep(r)
    PROVE  WindowsOK'
<1>1. CASE ReloadConfig(r) \/ StatRoot(r) \/ ScanDone(r)
    BY <1>1, FillWindows DEF ReloadConfig, StatRoot, ScanDone
<1>2. CASE ClearCache(r) \/ OpenRoot(r)
    BY <1>2, FillWindows DEF ClearCache, OpenRoot, Empty
<1>3. ASSUME NEW k \in Keys, ScanFile(r, k) PROVE WindowsOK'
    <2>1. Readable(k) => disk[k] = Says(root, disk, k)
        BY FileSays
    <2>2. \A j \in Keys : hotfixCache'[j] \in {hotfixCache[j], Says(root, disk, j)}
        BY <1>3, <2>1 DEF ScanFile, IInv, TypeOK
    <2> QED
        BY <1>3, <2>2, FillWindows DEF ScanFile
<1> QED
    BY <1>1, <1>2, <1>3 DEF ReloadStep

(* A reload that begins makes the stores that wait old, which asks less. *)
LEMMA BeginReloadWindows ==
    ASSUME IInv, WindowsOK, NEW r \in Reloaders, BeginReload(r)
    PROVE  WindowsOK'
<1>1. ASSUME NEW p \in Loaders
      PROVE  /\ loads'[p].pc = loads[p].pc /\ loads'[p].key = loads[p].key
             /\ loads'[p].config = loads[p].config /\ loads'[p].window = loads[p].window
             /\ loads[p].old => loads'[p].old
    <2>1. /\ loads[p] \in LoadStates
          /\ loads'[p] = [loads[p] EXCEPT !.old = @ \/ loads[p].pc = "store"]
        BY DEF BeginReload, IInv, TypeOK, LoadStates
    <2> QED
        BY <2>1 DEF LoadStates
<1>2. UNCHANGED <<root, disk, hotfixCache>>
    BY DEF BeginReload, files
<1>3. ASSUME NEW p \in Loaders PROVE TellOK(loads[p])'
    <2>1. TellOK(loads[p])
        BY DEF WindowsOK
    <2> QED
        BY <1>1, <1>2, <2>1 DEF TellOK
<1>4. ASSUME NEW p \in Loaders, NEW q \in Loaders PROVE Covers(loads[p], loads[q])'
    <2>1. Covers(loads[p], loads[q])
        BY DEF WindowsOK
    <2> QED
        BY <1>1, <2>1 DEF Covers
<1> QED
    BY <1>3, <1>4 DEF WindowsOK

(* An edit adds what the file now says to the windows of its key. *)
LEMMA TouchedWindows ==
    ASSUME IInv, WindowsOK, NEW ks \in SUBSET Keys, Touched(ks),
           \A k \in Keys \ ks : Says(root', disk', k) = Says(root, disk, k)
    PROVE  WindowsOK'
<1>1. ASSUME NEW p \in Loaders
      PROVE  /\ loads'[p].pc = loads[p].pc /\ loads'[p].key = loads[p].key
             /\ loads'[p].config = loads[p].config /\ loads'[p].old = loads[p].old
             /\ loads[p].window \subseteq loads'[p].window
             /\ loads[p].key \in ks /\ Pending(p)
                  => Says(root', disk', loads[p].key) \in loads'[p].window
    <2>1. /\ loads[p] \in LoadStates
          /\ \/ loads'[p] = loads[p] /\ ~(loads[p].key \in ks /\ Pending(p))
             \/ loads'[p] = [loads[p] EXCEPT
                                !.window = @ \union {Says(root', disk', loads[p].key)}]
        BY DEF Touched, IInv, TypeOK, LoadStates
    <2> QED
        BY <2>1 DEF LoadStates
<1>2. UNCHANGED hotfixCache
    BY DEF Touched
<1>3. ASSUME NEW p \in Loaders PROVE TellOK(loads[p])'
    <2>1. TellOK(loads[p]) /\ LoadOK(loads[p])
        BY DEF WindowsOK, IInv, LoadsOK
    <2>2. Pending(p) => Says(root', disk', loads[p].key) \in loads'[p].window
        BY <1>1, <2>1 DEF TellOK, LoadOK, Pending
    <2> QED
        BY <1>1, <1>2, <2>1, <2>2 DEF TellOK, Pending
<1>4. ASSUME NEW p \in Loaders, NEW q \in Loaders PROVE Covers(loads[p], loads[q])'
    <2>1. Covers(loads[p], loads[q])
        BY DEF WindowsOK
    <2> QED
        BY <1>1, <2>1 DEF Covers
<1> QED
    BY <1>3, <1>4 DEF WindowsOK

LEMMA EditWindows ==
    ASSUME IInv, WindowsOK,
           \/ \E k \in Keys, new \in Contents \union {Absent, Bad} : EditFile(k, new)
           \/ MoveRoot \/ EditConfig
    PROVE  WindowsOK'
<1>1. ASSUME NEW k \in Keys, NEW new \in Contents \union {Absent, Bad}, EditFile(k, new)
      PROVE  WindowsOK'
    <2>1. \A j \in Keys \ {k} : Says(root', disk', j) = Says(root, disk, j)
        BY <1>1 DEF EditFile, Says, IInv, TypeOK
    <2> QED
        BY <1>1, <2>1, TouchedWindows DEF EditFile
<1>2. CASE MoveRoot
    BY <1>2, TouchedWindows DEF MoveRoot
<1>3. CASE EditConfig
    BY <1>3, TouchedWindows DEF EditConfig, Says
<1> QED
    BY <1>1, <1>2, <1>3

(* The windows are right in every state. *)
THEOREM Windows == Spec => [](IInv /\ WindowsOK)
<1>1. Init => WindowsOK
    BY DEF Init, WindowsOK, TellOK, Covers, NotLoading
<1>2. IInv /\ WindowsOK /\ [Next]_vars => WindowsOK'
    <2> SUFFICES ASSUME IInv, WindowsOK, [Next]_vars PROVE WindowsOK'
        OBVIOUS
    <2>1. CASE UNCHANGED vars
        BY <2>1, FillWindows DEF vars, files
    <2>2. ASSUME NEW p \in Loaders,
                 LoadStep(p) \/ \E k \in Keys \union {NoKey} : BeginLoad(p, k)
          PROVE  WindowsOK'
        BY <2>2, LookupWindows, ReadFileWindows, StoreWindows, BeginLoadWindows DEF LoadStep
    <2>3. ASSUME NEW r \in Reloaders, BeginReload(r) \/ ReloadStep(r)
          PROVE  WindowsOK'
        BY <2>3, BeginReloadWindows, ReloadWindows
    <2> QED
        BY <2>1, <2>2, <2>3, EditWindows DEF Next
<1> QED
    BY <1>1, <1>2, Invariance, PTL DEF Spec

(* A request is told what its file says while it is under way, unless the   *)
(* cache was not in order when it began or is overtaken by a store of       *)
(* before a reload (LoadHotfixConfig).                                     *)
THEOREM AnswersFresh == Spec => []AnswersAreFresh
<1>1. IInv /\ WindowsOK => AnswersAreFresh
    BY DEF WindowsOK, TellOK, AnswersAreFresh
<1> QED
    BY <1>1, Windows, PTL
=============================================================================
