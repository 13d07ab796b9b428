---------------------------- MODULE Configuration ----------------------------
(***************************************************************************)
(* The live configuration of config.go and the file it comes from.         *)
(* Handlers copy it with getConfig; the panel changes one field of it and  *)
(* writes the whole of it back (updateConfig); the operator edits the file *)
(* and has it read again (reloadConfig, on SIGHUP or from the REPL).  All  *)
(* of them hold cfgMu, but a copy shares the array of the regions, which a *)
(* reload decodes in place.  The steps of updateConfig are steps of the    *)
(* request that calls it; AdminPanel and Dispatch have the others.         *)
(***************************************************************************)
EXTENDS Naturals, Sequences

CONSTANTS Languages, Routes,
          Rests,        \* what the fields that only a reload changes may say
          RegionNames, Addresses,
          Blank,        \* the empty name or address: that of a region without one
          Capacity,     \* the elements the array of the regions has room for
          Default,      \* the document of defaultConfig
          Edits,        \* the documents the operator may write
          Absent,       \* the document does not have the field
          Bad,          \* its value has the wrong type
          Corrupt,      \* the file is not a JSON document
          None,
          Requests,     \* goroutines that serve a request
          MaxWork,        \* bound on the requests, see Costs
          MaxEvents       \* bound on edits, reloads, failures and kills

Free == "free"
Reload == "reload"      \* the holder of cfgMu that is not a request

Entry == [name : RegionNames, address : Addresses]
FileEntry == [name : RegionNames \union {Absent}, address : Addresses \union {Absent}]
Regions == UNION {[1 .. n -> FileEntry] : n \in 1 .. Capacity}
Document == [language : Languages \union {Absent, Bad}, route : Routes \union {Absent, Bad},
             rest : Rests \union {Absent, Bad}, regions : Regions \union {Absent, Bad}]
Given(d, field) == d[field] \notin {Absent, Bad}
Complete(d) ==
    /\ \A field \in DOMAIN d : Given(d, field)
    /\ \A i \in DOMAIN d.regions : d.regions[i] \in Entry

ASSUME ConstantsAssumption ==
    /\ {Absent, Bad} \intersect (Languages \union Routes \union Rests \union Regions) = {}
    /\ Absent \notin RegionNames \union Addresses
    /\ Blank \in RegionNames \intersect Addresses
    /\ None \notin Document /\ Corrupt \notin Document
    /\ {Free, Reload} \intersect Requests = {}
    /\ Capacity \in Nat \ {0}
    /\ Default \in Document /\ Complete(Default)
    /\ Edits \subseteq Document
    /\ MaxWork \in Nat /\ MaxEvents \in Nat

VARIABLES
    up,         \* whether the process runs
    cfg,        \* the live configuration, with the number of its regions
    slots,      \* the array of the regions
    owner,      \* who holds cfgMu for writing
    decoding,   \* the document the reload that holds cfgMu has read
    file,       \* config.json
    req,        \* the local state of each request
    work, events,   \* spent against the bounds
    diverged    \* history: the file was edited or only partly written, or the
                \* configuration partly loaded, since they last agreed

configVars == <<up, cfg, slots, owner, decoding, file, diverged>>
spent == <<work, events>>

(* A login and a page cost 1, every other request 2: many cheap requests or *)
(* a few others are served.                                                 *)
Costs(n) == work + n <= MaxWork /\ work' = work + n /\ UNCHANGED events

Happens == events < MaxEvents /\ events' = events + 1 /\ UNCHANGED work
Fails == Happens
Succeeds == UNCHANGED spent

Idle == [pc |-> "idle"]
At(r, pc) == req[r].pc = pc
Becomes(r, local) == req' = [req EXCEPT ![r] = local]
Goto(r, pc) == req' = [req EXCEPT ![r].pc = pc]
Ends(r) == Becomes(r, Idle)

(* json.Unmarshal: a field that is absent or of the wrong type keeps its    *)
(* value, and so does such a field of an element of the array: the elements *)
(* the document gives are written over, those after them stay in the array. *)
Overlaid(c, d) ==
    LET Field(f) == IF Given(d, f) THEN d[f] ELSE c[f]
    IN  [language |-> Field("language"), route |-> Field("route"), rest |-> Field("rest"),
         count |-> IF Given(d, "regions") THEN Len(d.regions) ELSE c.count]
Merged(e, given) ==
    [name |-> IF given.name = Absent THEN e.name ELSE given.name,
     address |-> IF given.address = Absent THEN e.address ELSE given.address]
Decoded(s, d) ==
    [i \in 1 .. Capacity |->
        IF Given(d, "regions") /\ i <= Len(d.regions) THEN Merged(s[i], d.regions[i]) ELSE s[i]]

DefaultConfig == [language |-> Default.language, route |-> Default.route,
                  rest |-> Default.rest, count |-> Len(Default.regions)]
EmptySlots == [i \in 1 .. Capacity |-> [name |-> Blank, address |-> Blank]]
LoadedConfig(d) == Overlaid(DefaultConfig, d)
LoadedSlots(d) == Decoded(Decoded(EmptySlots, Default), d)

(* json.MarshalIndent of a configuration.                                   *)
Marshalled(c, s) ==
    [language |-> c.language, route |-> c.route, rest |-> c.rest,
     regions |-> [i \in 1 .. c.count |-> s[i]]]

ConfigInit ==
    /\ up = TRUE
    /\ file = Default
    /\ cfg = LoadedConfig(Default)
    /\ slots = LoadedSlots(Default)
    /\ owner = Free
    /\ decoding = None
    /\ req = [r \in Requests |-> Idle]
    /\ work = 0 /\ events = 0
    /\ diverged = FALSE

(* getConfig is a read of cfg in a state in which nobody holds cfgMu.       *)
CanRead == owner = Free

(* Mutated Update: the mutex is released before the file is written.        *)
SlipUpdate(r, field, value, next) ==
    /\ owner = Free
    /\ cfg' = [cfg EXCEPT ![field] = value]
    /\ Becomes(r, [pc |-> "truncate", handler |-> req[r], next |-> next,
                   data |-> Marshalled(cfg', slots)])
    /\ diverged' = TRUE
    /\ UNCHANGED <<up, slots, owner, decoding, file>>

(* updateConfig: under the mutex the field is set, the configuration        *)
(* marshalled, the file truncated and the document written; next is where   *)
(* the handler goes on.  An error leaves the field set.                     *)
Update(r, field, value, next) ==
    /\ owner = Free
    /\ owner' = r
    /\ cfg' = [cfg EXCEPT ![field] = value]
    /\ Becomes(r, [pc |-> "truncate", handler |-> req[r], next |-> next,
                   data |-> Marshalled(cfg', slots)])
    /\ diverged' = TRUE
    /\ UNCHANGED <<up, slots, decoding, file>>

Unlocked(r) == IF owner = r THEN Free ELSE owner

Truncate(r) ==
    /\ At(r, "truncate")
    /\ \/ /\ file' = Corrupt
          /\ Goto(r, "write")
          /\ Succeeds
          /\ UNCHANGED owner
       \/ /\ owner' = Unlocked(r)
          /\ Ends(r)
          /\ Fails
          /\ UNCHANGED file
    /\ UNCHANGED <<up, cfg, slots, decoding, diverged>>

Write(r) ==
    /\ At(r, "write")
    /\ owner' = Unlocked(r)
    /\ \/ /\ file' = req[r].data
          /\ diverged' = FALSE
          /\ Becomes(r, [req[r].handler EXCEPT !.pc = req[r].next])
          /\ Succeeds
       \/ /\ Ends(r)
          /\ Fails
          /\ UNCHANGED <<file, diverged>>
    /\ UNCHANGED <<up, cfg, slots, decoding>>

(* The operator writes config.json.                                         *)
Edit ==
    /\ Happens
    /\ file' \in Edits
    /\ diverged' = TRUE
    /\ UNCHANGED <<up, cfg, slots, owner, decoding, req>>

(* reloadConfig: a file that cannot be read or parsed changes nothing.      *)
ReloadBegin ==
    /\ up
    /\ owner = Free
    /\ file # Corrupt
    /\ Happens
    /\ owner' = Reload
    /\ decoding' = file
    /\ UNCHANGED <<up, cfg, slots, file, diverged>>

(* The document is decoded; handlers may be reading the array meanwhile,    *)
(* see Dispatch.  A value of the wrong type makes the reload fail after     *)
(* everything else was decoded.                                             *)
ReloadEnd ==
    /\ owner = Reload
    /\ cfg' = Overlaid(cfg, decoding)
    /\ slots' = Decoded(slots, decoding)
    /\ owner' = Free
    /\ decoding' = None
    /\ diverged' = (file # decoding \/ ~Complete(decoding))
    /\ UNCHANGED <<up, file, spent>>

(* The process is killed, or exits, between any two steps.                  *)
ConfigKill ==
    /\ up
    /\ Happens
    /\ up' = FALSE
    /\ owner' = Free
    /\ decoding' = None
    /\ req' = [r \in Requests |-> Idle]
    /\ UNCHANGED <<cfg, slots, file, diverged>>

(* main: findConfig and loadConfig.  A file that does not parse, or has a   *)
(* value of the wrong type, ends the process.                               *)
ConfigStart ==
    /\ ~up
    /\ file # Corrupt
    /\ \A field \in DOMAIN file : file[field] # Bad
    /\ up' = TRUE
    /\ cfg' = LoadedConfig(file)
    /\ slots' = LoadedSlots(file)
    /\ diverged' = FALSE
    /\ UNCHANGED <<owner, decoding, file, req, spent>>

-----------------------------------------------------------------------------
ConfigTypeOK ==
    /\ up \in BOOLEAN
    /\ cfg \in [language : Languages, route : Routes, rest : Rests, count : 1 .. Capacity]
    /\ slots \in [1 .. Capacity -> Entry]
    /\ owner \in Requests \union {Free, Reload}
    /\ owner = Reload <=> decoding # None
    /\ file \in Document \union {Corrupt}
    /\ diverged \in BOOLEAN

(* What a restart would load is what the process runs with, once nobody     *)
(* holds cfgMu, unless the operator has edited the file, updateConfig       *)
(* (config.go:92-101) failed after it had changed the field, or a reload    *)
(* (config.go:181-193) met a document without some field; a later           *)
(* updateConfig that succeeds, and a reload of a complete document, put     *)
(* that right again.                                                        *)
RestartAgrees ==
    up /\ owner = Free /\ ~diverged =>
        /\ file # Corrupt
        /\ LoadedConfig(file) = cfg
        /\ \A i \in 1 .. cfg.count : LoadedSlots(file)[i] = slots[i]
=============================================================================
