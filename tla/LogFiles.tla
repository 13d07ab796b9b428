------------------------------- MODULE LogFiles -------------------------------
(***************************************************************************)
(* A log of server.go and its rotation.  Any goroutine logs a line: it     *)
(* takes the mutex of the log and, at most every 30 seconds, looks whether *)
(* the file is too large or from an earlier day.  If so it renames it,     *)
(* compresses it, removes the original and opens a new file, all before    *)
(* its own line is written.  Each file operation can fail, the process can *)
(* be killed between any two, and a reload can change the path of the data *)
(* log at any moment.  server.log is the case of one path.                 *)
(***************************************************************************)
EXTENDS Naturals

CONSTANTS Paths,      \* what DataLog.Path may be set to
          Writers,    \* goroutines that log
          MaxLines, MaxArchives, MaxFailures, MaxKills, MaxMoves   \* bounds

NoPath == "none"
NoTarget == 0
NoFile == <<NoPath, 0, "nil">>      \* the logger was never set
Gone == <<NoPath, 0, "gone">>       \* the open file has no name any more
Closed == <<NoPath, 0, "closed">>

ASSUME ConstantsAssumption ==
    /\ Paths # {} /\ NoPath \notin Paths
    /\ MaxLines \in Nat /\ MaxArchives \in Nat /\ MaxFailures \in Nat
    /\ MaxKills \in Nat /\ MaxMoves \in Nat

VARIABLES
    up,         \* whether the process runs
    path,       \* DataLog.Path of the live configuration
    disk,       \* the files: a function whose domain is the names in use
    open,       \* the name of the file the logger writes to
    at,         \* the local state of each writer
    printed,    \* the number of lines written so far, which numbers them
    begun, failures, kills, moves,   \* spent against the bounds
    adrift,     \* history: the last rotation renamed the file and put no
                \* new one in its place
    astray      \* history: the lines written while adrift, or to a closed file

vars == <<up, path, disk, open, at, printed, begun, failures, kills, moves, adrift, astray>>

(* The file with number 0 is the live one of its path.  Archives bear the   *)
(* date and, from the second of that date on, a number: one date is the     *)
(* case in which names can collide.                                         *)
Names == Paths \X (0 .. MaxArchives) \X {"log", "gz"}
Live(p) == <<p, 0, "log">>
Plain(p, n) == <<p, n, "log">>
Zipped(p, n) == <<p, n, "gz">>

(* whole: FALSE for a compressed file that was not written to its end.      *)
File == [lines : SUBSET Nat, whole : BOOLEAN]
NewFile == [lines |-> {}, whole |-> TRUE]

Exists(f) == f \in DOMAIN disk
With(f, c) == [g \in DOMAIN disk \union {f} |-> IF g = f THEN c ELSE disk[g]]
Without(f) == [g \in DOMAIN disk \ {f} |-> disk[g]]
(* Mutated Opened: os.O_TRUNC for os.O_APPEND.                               *)
SlipOpened(f) == With(f, NewFile)
Opened(f) == IF Exists(f) THEN disk ELSE With(f, NewFile)

Idle == [pc |-> "idle", path |-> NoPath, target |-> NoTarget]
Local == [pc : {"idle", "wait", "check", "rename", "zip", "copy", "remove", "reopen", "print"},
          path : Paths \union {NoPath}, target : 0 .. MaxArchives]

Holding(w) == at[w].pc \notin {"idle", "wait"}
Free == \A w \in Writers : ~Holding(w)
Goto(w, pc) == at' = [at EXCEPT ![w].pc = pc]
Spent == <<begun, failures, kills, moves>>
Fails == failures < MaxFailures /\ failures' = failures + 1 /\ UNCHANGED <<begun, kills, moves>>
Succeeds == UNCHANGED Spent

Init ==
    /\ up = TRUE
    /\ path \in Paths
    /\ disk = [f \in {Live(path)} |-> NewFile]
    /\ open = Live(path)
    /\ at = [w \in Writers |-> Idle]
    /\ printed = 0
    /\ begun = 0 /\ failures = 0 /\ kills = 0 /\ moves = 0
    /\ adrift = FALSE
    /\ astray = {}

(* writeLog, writeDataLog: a nil logger logs nothing.                       *)
Log(w) ==
    /\ up
    /\ open # NoFile
    /\ at[w] = Idle
    /\ begun < MaxLines
    /\ begun' = begun + 1
    /\ Goto(w, "wait")
    /\ UNCHANGED <<up, path, disk, open, printed, failures, kills, moves, adrift, astray>>

(* Mutated Lock: rotateLog is called before the mutex is taken.             *)
SlipLock(w) ==
    /\ at[w].pc = "wait"
    /\ at' = [at EXCEPT ![w].pc = "check", ![w].path = path]
    /\ UNCHANGED <<up, path, disk, open, printed, Spent, adrift, astray>>

(* The path of the data log is read once the mutex is held.                 *)
Lock(w) ==
    /\ at[w].pc = "wait"
    /\ Free
    /\ at' = [at EXCEPT ![w].pc = "check", ![w].path = path]
    /\ UNCHANGED <<up, path, disk, open, printed, Spent, adrift, astray>>

(* The file was looked at in the last 30 seconds, it is small and of today, *)
(* or there is none.                                                        *)
Keep(w) ==
    /\ at[w].pc = "check"
    /\ Goto(w, "print")
    /\ UNCHANGED <<up, path, disk, open, printed, Spent, adrift, astray>>

(* Mutated Unused: the compressed files are not looked at.                  *)
SlipUnused(p, n) == ~Exists(Plain(p, n))

(* The first number for which there is neither a .log nor a .log.gz.        *)
Unused(p, n) == ~Exists(Plain(p, n)) /\ ~Exists(Zipped(p, n))
Target(w, n) ==
    /\ Unused(at[w].path, n)
    /\ \A m \in 1 .. n - 1 : ~Unused(at[w].path, m)

Choose(w) ==
    /\ at[w].pc = "check"
    /\ Exists(Live(at[w].path))
    /\ \E n \in 1 .. MaxArchives :
           /\ Target(w, n)
           /\ at' = [at EXCEPT ![w].pc = "rename", ![w].target = n]
    /\ UNCHANGED <<up, path, disk, open, printed, Spent, adrift, astray>>

(* os.Rename: the logger goes on writing to the renamed file.               *)
Moved(from, to) ==
    [g \in (DOMAIN disk \ {from}) \union {to} |-> IF g = to THEN disk[from] ELSE disk[g]]
(* Mutated Rename: the archive is a second name of the live file.           *)
SlipRename(w) ==
    /\ at[w].pc = "rename"
    /\ disk' = With(Plain(at[w].path, at[w].target), disk[Live(at[w].path)])
    /\ Goto(w, "zip")
    /\ UNCHANGED <<up, path, open, printed, Spent, adrift, astray>>

Rename(w) ==
    /\ at[w].pc = "rename"
    /\ LET live == Live(at[w].path)
           archive == Plain(at[w].path, at[w].target)
       IN  \/ /\ disk' = Moved(live, archive)
              /\ open' = IF open = live THEN archive ELSE open
              /\ Goto(w, "zip")
              /\ Succeeds
           \/ /\ Goto(w, "print")
              /\ Fails
              /\ UNCHANGED <<disk, open>>
    /\ UNCHANGED <<up, path, printed, adrift, astray>>

(* gzipFile: the source is opened, the .gz created (or truncated), ...      *)
Zip(w) ==
    /\ at[w].pc = "zip"
    /\ \/ /\ disk' = With(Zipped(at[w].path, at[w].target), [lines |-> {}, whole |-> FALSE])
          /\ Goto(w, "copy")
          /\ Succeeds
       \/ Goto(w, "reopen") /\ Fails /\ UNCHANGED disk
    /\ UNCHANGED <<up, path, open, printed, adrift, astray>>

(* Mutated Copy: the original is removed whether the copy worked or not.    *)
SlipCopy(w) ==
    /\ at[w].pc = "copy"
    /\ \/ /\ disk' = With(Zipped(at[w].path, at[w].target),
                          disk[Plain(at[w].path, at[w].target)])
          /\ Succeeds
       \/ Fails /\ UNCHANGED disk
    /\ Goto(w, "remove")
    /\ UNCHANGED <<up, path, open, printed, adrift, astray>>

(* ... the lines copied and the writer closed; a failure leaves the part    *)
(* written so far, ...                                                      *)
Copy(w) ==
    /\ at[w].pc = "copy"
    /\ LET source == disk[Plain(at[w].path, at[w].target)]
       IN  \/ /\ disk' = With(Zipped(at[w].path, at[w].target), source)
              /\ Goto(w, "remove")
              /\ Succeeds
           \/ Goto(w, "reopen") /\ Fails /\ UNCHANGED disk
    /\ UNCHANGED <<up, path, open, printed, adrift, astray>>

(* ... and the source removed; the error of that call is not looked at.     *)
Remove(w) ==
    /\ at[w].pc = "remove"
    /\ LET archive == Plain(at[w].path, at[w].target)
       IN  \/ /\ disk' = Without(archive)
              /\ open' = IF open = archive THEN Gone ELSE open
              /\ Succeeds
           \/ Fails /\ UNCHANGED <<disk, open>>
    /\ Goto(w, "reopen")
    /\ UNCHANGED <<up, path, printed, adrift, astray>>

(* Mutated Reopen: the new file is assigned to a variable of the function   *)
(* (:= for =) and the logger keeps the old one.                             *)
SlipReopen(w) ==
    /\ at[w].pc = "reopen"
    /\ disk' = Opened(Live(at[w].path))
    /\ Goto(w, "print")
    /\ UNCHANGED <<up, path, open, printed, Spent, adrift, astray>>

(* The new file becomes the logger's only if the configured path is still   *)
(* the one that was rotated; a failed open leaves the logger as it is.      *)
Reopen(w) ==
    /\ at[w].pc = "reopen"
    /\ \/ /\ disk' = Opened(Live(at[w].path))
          /\ open' = IF at[w].path = path THEN Live(at[w].path) ELSE open
          /\ adrift' = (at[w].path # path)
          /\ Succeeds
       \/ adrift' = TRUE /\ Fails /\ UNCHANGED <<disk, open>>
    /\ Goto(w, "print")
    /\ UNCHANGED <<up, path, printed, astray>>

(* logger.Println and the unlock; the error of a closed file is not looked  *)
(* at.                                                                      *)
WriteLine(w) ==
    /\ at[w].pc = "print"
    /\ printed' = printed + 1
    /\ disk' = IF Exists(open)
               THEN [disk EXCEPT ![open].lines = @ \union {printed + 1}]
               ELSE disk
    /\ astray' = IF adrift \/ open = Closed THEN astray \union {printed + 1} ELSE astray
    /\ at' = [at EXCEPT ![w] = Idle]
    /\ UNCHANGED <<up, path, open, Spent, adrift>>

(* A reload changes DataLog.Path.                                           *)
SetPath(p) ==
    /\ up
    /\ p # path
    /\ moves < MaxMoves
    /\ moves' = moves + 1
    /\ path' = p
    /\ UNCHANGED <<up, disk, open, at, printed, begun, failures, kills, adrift, astray>>

(* shutdown closes the file under the mutex; requests that outlived the ten *)
(* seconds it waits for them, and the loop that logs the hourly statistics, *)
(* may still log before os.Exit.                                            *)
Close ==
    /\ up
    /\ Free
    /\ open \notin {NoFile, Closed}
    /\ open' = Closed
    /\ UNCHANGED <<up, path, disk, at, printed, Spent, adrift, astray>>

(* os.Exit, or the process is killed.                                       *)
Kill ==
    /\ up
    /\ kills < MaxKills
    /\ kills' = kills + 1
    /\ up' = FALSE
    /\ open' = NoFile
    /\ at' = [w \in Writers |-> Idle]
    /\ UNCHANGED <<path, disk, printed, begun, failures, moves, adrift, astray>>

(* initLogging, initDataLogging: the configured file is opened for append.  *)
(* A failure leaves the data logger nil (and ends the process if it was     *)
(* server.log).                                                             *)
Start ==
    /\ ~up
    /\ up' = TRUE
    /\ \/ disk' = Opened(Live(path)) /\ open' = Live(path) /\ Succeeds
       \/ Fails /\ UNCHANGED <<disk, open>>
    /\ adrift' = FALSE
    /\ UNCHANGED <<path, at, printed, astray>>

Step(w) ==
    Lock(w) \/ Keep(w) \/ Choose(w) \/ Rename(w) \/ Zip(w) \/ Copy(w) \/ Remove(w)
    \/ Reopen(w) \/ WriteLine(w)

Next ==
    \/ \E w \in Writers : Log(w) \/ Step(w)
    \/ \E p \in Paths : SetPath(p)
    \/ Close
    \/ Kill
    \/ Start

Spec == Init /\ [][Next]_vars

-----------------------------------------------------------------------------
(* One goroutine at a time is past the mutex of the log (server.go:133-155), *)
(* the archive it fills exists until it is compressed, and the logger writes *)
(* to a file that has a name, or to none.                                    *)
TypeOK ==
    /\ up \in BOOLEAN /\ path \in Paths
    /\ DOMAIN disk \subseteq Names /\ disk \in [DOMAIN disk -> File]
    /\ open \in DOMAIN disk \union {NoFile, Gone, Closed}
    /\ at \in [Writers -> Local]
    /\ printed \in Nat /\ begun \in Nat
    /\ failures \in Nat /\ kills \in Nat /\ moves \in Nat
    /\ adrift \in BOOLEAN /\ astray \subseteq 1 .. printed
    /\ \A v, w \in Writers : Holding(v) /\ Holding(w) => v = w
    /\ \A w \in Writers : at[w].pc \in {"zip", "copy", "remove"} =>
           Exists(Plain(at[w].path, at[w].target))

(* A line can be read if it is in a file with a name that is not a          *)
(* compressed file cut short.                                               *)
Whole == {f \in DOMAIN disk : disk[f].whole}
CanRead == UNION {disk[f].lines : f \in Whole}

(* Every line logged is kept, wherever the rotation of server.go:59-131     *)
(* failed, was killed or ran into a reload, unless it was written to a      *)
(* closed file or after a rotation that put no new file in place (the open  *)
(* at server.go:98 failed, or the path compared at server.go:105 had        *)
(* changed) and before the next one or the next start.                      *)
LinesKept == (1 .. printed) \ astray \subseteq CanRead

(* A line that can be read stays so: gzipFile (server.go:111-131) removes   *)
(* the original only when the whole of it is in the compressed file.        *)
NothingForgotten == [][CanRead \subseteq CanRead']_vars

(* A compressed file that was written to its end never changes, and one     *)
(* that was cut short is never mistaken for a free name: the numbers the    *)
(* rotation tries (server.go:82-91) skip those in use, for a compressed     *)
(* file, for an original that could not be compressed, and for what a       *)
(* killed rotation left.                                                    *)
Rotating(p, n) == \E w \in Writers : Holding(w) /\ at[w].path = p /\ at[w].target = n
ArchivesKept ==
    [][\A f \in DOMAIN disk :
           f[3] = "gz" /\ (disk[f].whole \/ ~Rotating(f[1], f[2]))
           => f \in DOMAIN disk' /\ disk'[f] = disk[f]]_vars

(* A line is in one archive: only the original and the compressed file of   *)
(* the same number can both hold it, when the rotation was killed before,   *)
(* or failed in, the os.Remove of server.go:130.                            *)
LinesOnce ==
    \A f, g \in Whole :
        disk[f].lines \intersect disk[g].lines # {} => f[1] = g[1] /\ f[2] = g[2]

(* The files implement Journal: whatever the rotation of server.go:59-131   *)
(* renames, compresses, removes or leaves behind, and wherever it fails or  *)
(* the process is killed, the lines that can be read are those that were    *)
(* there before, and none comes into being but by writeLog and              *)
(* writeDataLog (server.go:133-155).                                        *)
Lines == INSTANCE Journal WITH count <- printed, kept <- CanRead, lost <- astray
FilesAreJournal == Lines!JournalSpec
=============================================================================
