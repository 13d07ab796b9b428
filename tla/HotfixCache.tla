----------------------------- MODULE HotfixCache -----------------------------
(***************************************************************************)
(* The hotfix configurations of hotfix.go.  A JSON file for each region,   *)
(* platform and version number says which resources a client downloads.    *)
(* All files are read into hotfixCache when the process starts and on      *)
(* every reload (SIGHUP, the REPL); a dispatch request whose key is not    *)
(* cached reads the file itself and caches it.  The operator edits the     *)
(* files while all of that goes on.                                        *)
(***************************************************************************)
EXTENDS Naturals, FiniteSets

CONSTANTS Keys,        \* region/platform/version number
          Contents,    \* what a file may say
          Loaders,     \* dispatch requests, each of which loads once
          Reloaders,   \* the signal handler and the REPL
          MaxReloads, MaxEdits   \* bounds

NoKey == "none"       \* an empty version, or one without digits
NoConfig == "nil"     \* the result of a load that finds nothing
NotCached == "none"
Absent == "absent"
Bad == "bad"          \* a file that is not the JSON of a configuration
NoHolder == "free"

ASSUME ConstantsAssumption ==
    /\ NoKey \notin Keys
    /\ {NoConfig, NotCached, Absent, Bad} \intersect Contents = {}
    /\ NoHolder \notin Loaders \union Reloaders /\ Loaders \intersect Reloaders = {}
    /\ MaxReloads \in Nat /\ MaxEdits \in Nat

VARIABLES
    configOk,      \* whether config.json parses
    root,          \* whether the directory hotfix/ exists
    disk,          \* the file of each key
    hotfixCache,   \* the cached configuration of each key
    writer,        \* the reloader that holds hotfixCacheMu for writing
    loads,         \* the local state of each request
    reloads,       \* the local state of each reloader
    begunReloads, edits,   \* spent against the bounds
    settled,       \* history: a reload has ended and nothing changed since it began
    late           \* history: keys stored, since the last scan or clear of
                   \* the cache, by a request that read before a reload began

vars == <<configOk, root, disk, hotfixCache, writer, loads, reloads, begunReloads,
          edits, settled, late>>
files == <<configOk, root, disk>>
bounds == <<begunReloads, edits>>

OnDisk(k) == IF root THEN disk[k] ELSE Absent
Readable(k) == OnDisk(k) \in Contents
Listed == {k \in Keys : OnDisk(k) # Absent}
Empty == [k \in Keys |-> NotCached]

Pending(p) == loads[p].pc \in {"lookup", "read", "store"}

(* What a file says, to a request that finds it at once. *)
Says(there, contents, k) ==
    IF there /\ contents[k] \in Contents THEN contents[k] ELSE NoConfig

(* old: a reload began after the file was read.  window: what the file has  *)
(* said since the request began, and any configuration if the cache may     *)
(* hold an older one; once the request is answered, the answer if it is one *)
(* of these.                                                                *)
NotLoading == [pc |-> "idle", key |-> NoKey, config |-> NoConfig,
               old |-> FALSE, window |-> {}]

(* todo: the keys the scan has still to reach.  listed: those that had a    *)
(* file when it opened the directory.  quiet: no edit since it began.       *)
NotReloading == [pc |-> "idle", todo |-> {}, listed |-> {}, quiet |-> FALSE]

(* main: the cache has been filled before the server listens. *)
Init ==
    /\ configOk = TRUE /\ root \in BOOLEAN
    /\ disk \in [Keys -> Contents \union {Absent, Bad}]
    /\ hotfixCache = [k \in Keys |-> IF Readable(k) THEN disk[k] ELSE NotCached]
    /\ writer = NoHolder
    /\ loads = [p \in Loaders |-> NotLoading]
    /\ reloads = [r \in Reloaders |-> NotReloading]
    /\ begunReloads = 0 /\ edits = 0
    /\ settled = TRUE /\ late = {}

-----------------------------------------------------------------------------
(* LoadHotfixConfig. *)
BeginLoad(p, k) ==
    /\ loads[p].pc = "idle"
    /\ loads' = [loads EXCEPT ![p] =
          IF k = NoKey
          THEN [NotLoading EXCEPT !.pc = "answered", !.window = {NoConfig}]
          ELSE [NotLoading EXCEPT
                  !.pc = "lookup", !.key = k,
                  !.window = {Says(root, disk, k)} \union
                             IF settled /\ k \notin late THEN {} ELSE Contents]]
    /\ UNCHANGED <<files, hotfixCache, writer, reloads, bounds, settled, late>>

Answered(load, config) ==
    [load EXCEPT !.pc = "answered", !.config = config, !.window = @ \intersect {config}]
Answers(p, config) ==
    loads' = [loads EXCEPT ![p] = Answered(@, config)]

(* The lookup under RLock. *)
Lookup(p) ==
    /\ loads[p].pc = "lookup" /\ writer = NoHolder
    /\ LET cached == hotfixCache[loads[p].key] IN
       IF cached # NotCached THEN Answers(p, cached)
                             ELSE loads' = [loads EXCEPT ![p].pc = "read"]
    /\ UNCHANGED <<files, hotfixCache, writer, reloads, bounds, settled, late>>

(* Slip: a version that was not there at startup is never looked for. *)
SlipReadNothing(p) ==
    /\ loads[p].pc = "read" /\ Answers(p, NoConfig)
    /\ UNCHANGED <<files, hotfixCache, writer, reloads, bounds, settled, late>>

(* The file is read and parsed without the lock. *)
ReadFile(p) ==
    /\ loads[p].pc = "read"
    /\ IF Readable(loads[p].key)
       THEN loads' = [loads EXCEPT ![p].pc = "store",
                                   ![p].config = disk[loads[p].key]]
       ELSE Answers(p, NoConfig)
    /\ UNCHANGED <<files, hotfixCache, writer, reloads, bounds, settled, late>>

(* The parsed configuration goes into the cache, whatever is there by now. *)
Store(p) ==
    /\ loads[p].pc = "store" /\ writer = NoHolder
    /\ hotfixCache' = [hotfixCache EXCEPT ![loads[p].key] = loads[p].config]
    /\ late' = IF loads[p].old THEN late \union {loads[p].key} ELSE late
    /\ loads' = [q \in Loaders |->
          IF q = p THEN Answered(loads[p], loads[p].config)
          ELSE IF loads[p].old /\ loads[q].key = loads[p].key /\ Pending(q)
          THEN [loads[q] EXCEPT !.window = @ \union Contents]
          ELSE loads[q]]
    /\ UNCHANGED <<files, writer, reloads, bounds, settled>>

-----------------------------------------------------------------------------
(* doReload and the SIGHUP case of setupSignal. *)
BeginReload(r) ==
    /\ reloads[r].pc = "idle"
    /\ begunReloads < MaxReloads /\ begunReloads' = begunReloads + 1
    /\ reloads' = [reloads EXCEPT ![r] =
                     [NotReloading EXCEPT !.pc = "config", !.quiet = TRUE]]
    /\ loads' = [p \in Loaders |-> [loads[p] EXCEPT !.old = @ \/ loads[p].pc = "store"]]
    /\ settled' = FALSE
    /\ UNCHANGED <<files, hotfixCache, writer, edits, late>>

(* Slip: the cache is dropped before config.json turns out not to parse. *)
SlipDropFirst(r) ==
    /\ reloads[r].pc = "config" /\ writer = NoHolder
    /\ hotfixCache' = Empty
    /\ reloads' = [reloads EXCEPT ![r] = IF configOk THEN [@ EXCEPT !.pc = "stat"]
                                                     ELSE NotReloading]
    /\ UNCHANGED <<files, writer, loads, bounds, settled, late>>

(* reloadConfig: without a configuration the hotfix files stay as cached. *)
ReloadConfig(r) ==
    /\ reloads[r].pc = "config"
    /\ reloads' = [reloads EXCEPT ![r] = IF configOk THEN [@ EXCEPT !.pc = "stat"]
                                                     ELSE NotReloading]
    /\ UNCHANGED <<files, hotfixCache, writer, loads, bounds, settled, late>>

(* reloadHotfixCache. *)
StatRoot(r) ==
    /\ reloads[r].pc = "stat"
    /\ reloads' = [reloads EXCEPT ![r].pc = IF root THEN "open" ELSE "clear"]
    /\ UNCHANGED <<files, hotfixCache, writer, loads, bounds, settled, late>>

(* The end of a reload: what it did is in force unless a file changed, or   *)
(* another reload is still to come.                                        *)
Ends(r) ==
    /\ reloads' = [reloads EXCEPT ![r] = NotReloading]
    /\ settled' = (reloads[r].quiet /\ \A s \in Reloaders \ {r} : reloads[s].pc = "idle")

ClearCache(r) ==
    /\ reloads[r].pc = "clear" /\ writer = NoHolder
    /\ hotfixCache' = Empty /\ late' = {} /\ Ends(r)
    /\ UNCHANGED <<files, writer, loads, bounds>>

(* Slip: the scan adds to the map that is there instead of a new one. *)
SlipKeepEntries(r) ==
    /\ reloads[r].pc = "open" /\ writer = NoHolder
    /\ late' = {} /\ UNCHANGED hotfixCache
    /\ IF root
       THEN /\ writer' = r /\ UNCHANGED settled
            /\ reloads' = [reloads EXCEPT ![r].pc = "scan", ![r].todo = Keys,
                                          ![r].listed = Listed]
       ELSE Ends(r) /\ UNCHANGED writer
    /\ UNCHANGED <<files, loads, bounds>>

(* initHotfixCache: a new map under the lock, which is held to the end; the *)
(* directory may have gone since it was looked for.                        *)
OpenRoot(r) ==
    /\ reloads[r].pc = "open" /\ writer = NoHolder
    /\ hotfixCache' = Empty /\ late' = {}
    /\ IF root
       THEN /\ writer' = r /\ UNCHANGED settled
            /\ reloads' = [reloads EXCEPT ![r].pc = "scan", ![r].todo = Keys,
                                          ![r].listed = Listed]
       ELSE Ends(r) /\ UNCHANGED writer
    /\ UNCHANGED <<files, loads, bounds>>

(* Slip: a file is cached whether it parses or not. *)
SlipCacheBad(r, k) ==
    /\ reloads[r].pc = "scan" /\ k \in reloads[r].todo
    /\ hotfixCache' = [hotfixCache EXCEPT ![k] = IF OnDisk(k) # Absent THEN disk[k] ELSE @]
    /\ reloads' = [reloads EXCEPT ![r].todo = @ \ {k}]
    /\ UNCHANGED <<files, writer, loads, bounds, settled, late>>

(* The directory of a key is listed and its file is read at some moment of  *)
(* the scan; a file that appears between the two may be passed over.        *)
ScanFile(r, k) ==
    /\ reloads[r].pc = "scan" /\ k \in reloads[r].todo
    /\ \/ hotfixCache' = [hotfixCache EXCEPT ![k] = IF Readable(k) THEN disk[k] ELSE @]
       \/ k \notin reloads[r].listed /\ Readable(k) /\ UNCHANGED hotfixCache
    /\ reloads' = [reloads EXCEPT ![r].todo = @ \ {k}]
    /\ UNCHANGED <<files, writer, loads, bounds, settled, late>>

(* Slip: the lock is not given back. *)
SlipKeepLock(r) ==
    /\ reloads[r].pc = "scan" /\ reloads[r].todo = {}
    /\ Ends(r)
    /\ UNCHANGED <<files, hotfixCache, writer, loads, bounds, late>>

ScanDone(r) ==
    /\ reloads[r].pc = "scan" /\ reloads[r].todo = {}
    /\ writer' = NoHolder /\ Ends(r)
    /\ UNCHANGED <<files, hotfixCache, loads, bounds, late>>

-----------------------------------------------------------------------------
(* The operator: one file, the whole directory, or config.json. *)
Touched(ks) ==
    /\ edits < MaxEdits /\ edits' = edits + 1
    /\ settled' = FALSE
    /\ loads' = [p \in Loaders |->
          IF loads[p].key \in ks /\ Pending(p)
          THEN [loads[p] EXCEPT !.window = @ \union {Says(root', disk', loads[p].key)}]
          ELSE loads[p]]
    /\ reloads' = [r \in Reloaders |-> [reloads[r] EXCEPT !.quiet = FALSE]]
    /\ UNCHANGED <<hotfixCache, writer, begunReloads, late>>

EditFile(k, new) ==
    /\ root /\ disk[k] # new /\ disk' = [disk EXCEPT ![k] = new]
    /\ UNCHANGED <<root, configOk>>
    /\ Touched({k})

MoveRoot == root' = ~root /\ UNCHANGED <<disk, configOk>> /\ Touched(Keys)

EditConfig == configOk' = ~configOk /\ UNCHANGED <<disk, root>> /\ Touched({})

-----------------------------------------------------------------------------
LoadStep(p) == Lookup(p) \/ ReadFile(p) \/ Store(p)

ReloadStep(r) ==
    \/ ReloadConfig(r) \/ StatRoot(r) \/ ClearCache(r) \/ OpenRoot(r)
    \/ ScanDone(r) \/ \E k \in Keys : ScanFile(r, k)

Next ==
    \/ \E p \in Loaders :
         LoadStep(p) \/ \E k \in Keys \union {NoKey} : BeginLoad(p, k)
    \/ \E r \in Reloaders : BeginReload(r) \/ ReloadStep(r)
    \/ \E k \in Keys, new \in Contents \union {Absent, Bad} : EditFile(k, new)
    \/ MoveRoot \/ EditConfig

Spec == Init /\ [][Next]_vars

(* Goroutines are scheduled, and neither side of an RWMutex starves.  A      *)
(* request or a reload has never two different steps to choose from, so     *)
(* fairness to all its steps together is fairness to each.                  *)
Fairness ==
    /\ \A p \in Loaders : SF_vars(LoadStep(p))
    /\ \A r \in Reloaders : SF_vars(ReloadStep(r))

FairSpec == Spec /\ Fairness

-----------------------------------------------------------------------------
(* Type invariant. *)
TypeOK ==
    /\ configOk \in BOOLEAN /\ root \in BOOLEAN
    /\ disk \in [Keys -> Contents \union {Absent, Bad}]
    /\ hotfixCache \in [Keys -> Contents \union {NotCached}]
    /\ writer \in Reloaders \union {NoHolder}
    /\ loads \in [Loaders -> [pc : {"idle", "lookup", "read", "store", "answered"},
         key : Keys \union {NoKey}, config : Contents \union {NoConfig},
         old : BOOLEAN, window : SUBSET (Contents \union {NoConfig})]]
    /\ reloads \in [Reloaders -> [pc : {"idle", "config", "stat", "clear", "open", "scan"},
         todo : SUBSET Keys, listed : SUBSET Keys, quiet : BOOLEAN]]
    /\ begunReloads \in Nat /\ edits \in Nat
    /\ settled \in BOOLEAN /\ late \subseteq Keys

(* The cache agrees with the files once a reload (or the start) is over and *)
(* nothing was edited meanwhile, but for the keys that a request stored     *)
(* after reading them before that reload: every file that can be read is    *)
(* cached as it is, and no other key is in the cache.                       *)
ReloadExact ==
    settled => \A k \in Keys \ late :
        hotfixCache[k] = IF Readable(k) THEN disk[k] ELSE NotCached

(* crypto.go:45: a reload is made "so changed hotfix/region configs take    *)
(* effect": after it a cached configuration is the one on disk.             *)
ReloadTakesEffect ==
    settled => \A k \in Keys : hotfixCache[k] \in {OnDisk(k), NotCached}

(* A request that begins when the cache is in order (after the start or a   *)
(* reload, nothing edited since) is told what its file says at some moment  *)
(* of the request, whatever is edited, reloaded or stored by others         *)
(* meanwhile, until one that read the file before a reload stores what it   *)
(* read (hotfix.go:83-114).  Any other may be told of an older              *)
(* configuration, but never that there is none for a file that is readable  *)
(* all the time, though it may have been added after the start and reloads  *)
(* may clear and refill the cache around the request (PROGRESS.md:29).      *)
AnswersAreFresh ==
    \A p \in Loaders : loads[p].pc = "answered" => loads[p].config \in loads[p].window

(* Only a reload takes a configuration out of the cache; until one comes, a *)
(* client is never told that a version it could get has gone.              *)
EntriesSurvive ==
    [][(\A r \in Reloaders : reloads[r].pc \notin {"clear", "open"})
         => \A k \in Keys : hotfixCache[k] # NotCached => hotfixCache'[k] # NotCached]_vars

(* No request waits forever for a scan of the directory, however requests   *)
(* and reloads meet at hotfixCacheMu, and every reload comes to an end.     *)
EveryCallReturns ==
    /\ \A p \in Loaders : loads[p].pc = "lookup" ~> loads[p].pc = "answered"
    /\ \A r \in Reloaders : reloads[r].pc = "config" ~> reloads[r].pc = "idle"
=============================================================================
