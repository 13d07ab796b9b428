----------------------------- MODULE ServerProofs -----------------------------
(***************************************************************************)
(* What TLAPS proves of Server, for any requests, documents, credentials,  *)
(* keys and bounds.  Base is what the steps need of each other whatever    *)
(* property is looked at: the types, and the shape of what a request       *)
(* carries from step to step.  On top of it each property has a            *)
(* strengthening of its own.                                               *)
(***************************************************************************)
EXTENDS Server, FiniteSetTheorems, WellFoundedInduction, TLAPS

(* The local state of a request, by the handler that serves it.             *)
LoginLocal == [pc : {"check", "compare", "fail", "reset", "create"}, guess : Guesses]
LogoutLocal == [pc : {"revoke"}, token : Tokens]
SettingsLocal ==
    [pc : {"validate", "read", "change", "route", "revoke"}, token : Tokens, next : {"read"},
     change : Changes, old : Passwords, seen : Creds]
LanguageLocal ==
    [pc : {"validate", "language", "load"}, token : Tokens, next : {"language"},
     language : Languages]
SwapLocal == [pc : {"swap"}, language : Languages]
PageLocal ==
    [pc : {"build", "finish", "show"}, language : Languages,
     strings : SUBSET (Languages \union {Untranslated})]
RouteUpdate ==
    [pc : {"truncate", "write"}, handler : SettingsLocal, next : {"revoke"}, data : Document]
LanguageUpdate ==
    [pc : {"truncate", "write"}, handler : LanguageLocal, next : {"load"}, data : Document]
Configs == [language : Languages, route : Routes, rest : Rests, count : 1 .. Capacity]

DispatchLocal(name, array, text, sent) ==
    [pc : {"seed", "find", "encrypt", "store", "sent"}, name : {name}, key : KeyIds,
     copy : Configs, array : {array}, raced : BOOLEAN, text : {text}, sent : {sent}]
IsDispatch(l) ==
    /\ l \in DispatchLocal(l.name, l.array, l.text, l.sent)
    /\ l.pc = "store" => l.key \in EncryptionKeys

IsLocal(l) ==
    \/ l = Idle
    \/ l \in LoginLocal \union LogoutLocal \union SettingsLocal \union LanguageLocal
    \/ l \in SwapLocal \union PageLocal \union RouteUpdate \union LanguageUpdate
    \/ IsDispatch(l)

Shapes ==
    /\ req = [r \in Requests |-> req[r]]
    /\ \A r \in Requests :
           /\ IsLocal(req[r])
           /\ At(r, "route") => req[r].change.route # None
    /\ owner = Reload => decoding \in Document
    /\ ~up => owner = Free /\ \A r \in Requests : req[r] = Idle

Base == TypeOK /\ Shapes

-----------------------------------------------------------------------------
(* The step a request is at tells which handler serves it.                  *)
LEMMA Kinds ==
    ASSUME NEW l, IsLocal(l)
    PROVE  /\ l.pc = "idle" => l = Idle
           /\ l.pc \in {"check", "compare", "fail", "reset", "create"} => l \in LoginLocal
           /\ l.pc \in {"read", "change", "route"} => l \in SettingsLocal
           /\ l.pc = "revoke" => l \in LogoutLocal \union SettingsLocal
           /\ l.pc = "validate" => l \in SettingsLocal \union LanguageLocal
           /\ l.pc \in {"language", "load"} => l \in LanguageLocal
           /\ l.pc = "swap" => l \in SwapLocal
           /\ l.pc \in {"build", "finish", "show"} => l \in PageLocal
           /\ l.pc \in {"truncate", "write"} => l \in RouteUpdate \union LanguageUpdate
           /\ l.pc \in {"seed", "find", "encrypt", "store", "sent"} => IsDispatch(l)
BY DEF IsLocal, Idle, LoginLocal, LogoutLocal, SettingsLocal, LanguageLocal, SwapLocal,
       PageLocal, RouteUpdate, LanguageUpdate, IsDispatch, DispatchLocal

LEMMA GotoBecomes ==
    ASSUME Shapes, NEW r \in Requests, NEW pc, Goto(r, pc)
    PROVE  Becomes(r, [req[r] EXCEPT !.pc = pc])
BY DEF Shapes, Goto, Becomes

LEMMA OneRequest ==
    ASSUME Shapes, NEW r \in Requests, NEW local, Becomes(r, local)
    PROVE  /\ req'[r] = local
           /\ \A v \in Requests : v # r => req'[v] = req[v]
           /\ req' = [v \in Requests |-> req'[v]]
BY DEF Shapes, Becomes

LEMMA NoRequest == Free \notin Requests /\ Reload \notin Requests /\ Free # Reload
BY ConstantsAssumption DEF Free, Reload

(* Steps of a request that holds neither mutex before nor after.            *)
LEMMA QuietStep ==
    ASSUME Base, NEW r \in Requests, up,
           NEW local, Becomes(r, local), IsLocal(local),
           local.pc = "route" => local.change.route # None,
           local.pc \notin {"finish", "truncate", "write"},
           req[r].pc \notin {"finish", "truncate", "write"},
           UNCHANGED <<configVars, page, pageOwner>>,
           creds' \in Creds, wanted' \in Creds,
           sessions' \in [Tokens -> {"unused", "live", "over", "ended"}],
           adminFails' \in 0 .. AdminMaxFails - 1, adminLockout' \in {"none", "on", "over"},
           langStrings' \in Languages \union {Untranslated},
           guesses' \in Nat, overlapped' \in BOOLEAN, blurred' \in BOOLEAN,
           DispatchTypeOK'
    PROVE  Base'
<1>1. /\ req'[r] = local
      /\ \A v \in Requests : v # r => req'[v] = req[v]
      /\ req' = [v \in Requests |-> req'[v]]
    BY OneRequest DEF Base
<1>2. Shapes'
    BY <1>1 DEF Base, Shapes, configVars, At
<1>3. ConfigTypeOK'
    BY DEF Base, TypeOK, ConfigTypeOK, configVars
<1>4. PanelTypeOK'
  <2>1. \A v \in Requests : pageOwner' = v <=> At(v, "finish")'
      BY <1>1 DEF Base, TypeOK, PanelTypeOK, At
  <2> QED
      BY <2>1 DEF Base, TypeOK, PanelTypeOK
<1>5. \A v \in Requests : owner' = v <=> req'[v].pc \in {"truncate", "write"}
    BY <1>1 DEF Base, TypeOK, configVars
<1> QED
    BY <1>2, <1>3, <1>4, <1>5 DEF Base, TypeOK

(* A request that is being served is served by a process that runs.         *)
LEMMA Serving ==
    ASSUME Base, NEW r \in Requests, req[r].pc # "idle"
    PROVE  up /\ IsLocal(req[r])
BY DEF Base, Shapes, Idle

LEMMA IdleLocal == IsLocal(Idle) /\ Idle.pc = "idle"
BY DEF IsLocal, Idle

(* Types of the variables of the panel, as facts for the steps that change *)
(* a few of them.                                                          *)
LEMMA PanelTypes ==
    ASSUME Base
    PROVE  /\ creds \in Creds /\ wanted \in Creds
           /\ sessions \in [Tokens -> {"unused", "live", "over", "ended"}]
           /\ adminFails \in 0 .. AdminMaxFails - 1 /\ adminFails \in Nat
           /\ adminLockout \in {"none", "on", "over"}
           /\ langStrings \in Languages \union {Untranslated}
           /\ guesses \in Nat /\ overlapped \in BOOLEAN /\ blurred \in BOOLEAN
           /\ AdminMaxFails \in Nat \ {0}
BY PanelAssumption DEF Base, TypeOK, PanelTypeOK

LEMMA SameCache ==
    ASSUME Base, UNCHANGED regionRespCache
    PROVE  DispatchTypeOK'
BY DEF Base, TypeOK, DispatchTypeOK

-----------------------------------------------------------------------------
(* The steps of the panel, one handler after the other.                     *)
LEMMA AsksBase ==
    ASSUME Base, NEW r \in Requests, NEW cost, NEW local, Asks(r, cost, local), IsLocal(local),
           local.pc \notin {"route", "finish", "truncate", "write"}, UNCHANGED regionRespCache
    PROVE  Base'
<1>1. up /\ Becomes(r, local) /\ req[r].pc = "idle" /\ UNCHANGED <<configVars, panelVars>>
    BY IdleLocal DEF Asks
<1> QED
    BY <1>1, QuietStep, PanelTypes, SameCache DEF panelVars, loginVars, langVars

LEMMA AskPanelBase ==
    ASSUME Base, NEW r \in Requests, AskPanel(r), UNCHANGED regionRespCache
    PROVE  Base'
<1>1. CASE AskLogin(r)
  <2>1. PICK c \in Guesses : Asks(r, 1, [pc |-> "check", guess |-> c])
      BY <1>1 DEF AskLogin
  <2>2. IsLocal([pc |-> "check", guess |-> c])
      BY DEF IsLocal, LoginLocal
  <2> QED
      BY <2>1, <2>2, AsksBase
<1>2. CASE \E t \in Tokens : AskLogout(r, t)
  <2>1. PICK t \in Tokens : Asks(r, 2, [pc |-> "revoke", token |-> t])
      BY <1>2 DEF AskLogout
  <2>2. IsLocal([pc |-> "revoke", token |-> t])
      BY DEF IsLocal, LogoutLocal
  <2> QED
      BY <2>1, <2>2, AsksBase
<1>3. CASE \E t \in Tokens, change \in Changes, old \in Passwords : AskSettings(r, t, change, old)
  <2>1. PICK t \in Tokens, change \in Changes, old \in Passwords :
            Asks(r, 2, [pc |-> "validate", token |-> t, next |-> "read", change |-> change,
                        old |-> old, seen |-> FirstCreds])
      BY <1>3 DEF AskSettings
  <2>2. IsLocal([pc |-> "validate", token |-> t, next |-> "read", change |-> change,
                 old |-> old, seen |-> FirstCreds])
      BY PanelAssumption DEF IsLocal, SettingsLocal
  <2> QED
      BY <2>1, <2>2, AsksBase
<1>4. CASE \E t \in Tokens, language \in Languages : AskSetLang(r, t, language)
  <2>1. PICK t \in Tokens, language \in Languages :
            Asks(r, 2, [pc |-> "validate", token |-> t, next |-> "language",
                        language |-> language])
      BY <1>4 DEF AskSetLang
  <2>2. IsLocal([pc |-> "validate", token |-> t, next |-> "language", language |-> language])
      BY DEF IsLocal, LanguageLocal
  <2> QED
      BY <2>1, <2>2, AsksBase
<1>5. CASE AskPage(r)
  <2>1. Asks(r, 1, [pc |-> "build", language |-> cfg.language, strings |-> {}])
      BY <1>5 DEF AskPage
  <2>2. IsLocal([pc |-> "build", language |-> cfg.language, strings |-> {}])
      BY DEF IsLocal, PageLocal, Base, TypeOK, ConfigTypeOK
  <2> QED
      BY <2>1, <2>2, AsksBase
<1> QED
    BY <1>1, <1>2, <1>3, <1>4, <1>5 DEF AskPanel

LEMMA LoginBase ==
    ASSUME Base, NEW r \in Requests, UNCHANGED regionRespCache,
           LoginCheck(r) \/ LoginCompare(r) \/ LoginFail(r) \/ LoginReset(r) \/ LoginCreate(r)
    PROVE  Base'
<1>1. /\ req[r].pc \in {"check", "compare", "fail", "reset", "create"}
      /\ UNCHANGED <<configVars, langVars, creds, wanted, overlapped>>
    BY DEF LoginCheck, LoginCompare, LoginFail, LoginReset, LoginCreate, At
<1>2. up /\ req[r] \in LoginLocal
    BY <1>1, Serving, Kinds
<1>3. PICK local \in LoginLocal \union {Idle} : Becomes(r, local)
  <2>1. \A pc \in {"compare", "reset", "fail", "create"} : [req[r] EXCEPT !.pc = pc] \in LoginLocal
      BY <1>2 DEF LoginLocal
  <2>2. Ends(r) \/ \E pc \in {"compare", "reset", "fail", "create"} : Goto(r, pc)
      BY DEF LoginCheck, LoginCompare, LoginFail, LoginReset, LoginCreate
  <2>3. CASE Ends(r)
      BY <2>3 DEF Ends
  <2>4. ASSUME NEW pc \in {"compare", "reset", "fail", "create"}, Goto(r, pc)
        PROVE  \E local \in LoginLocal \union {Idle} : Becomes(r, local)
      BY <2>1, <2>4, GotoBecomes DEF Base
  <2> QED
      BY <2>2, <2>3, <2>4
<1>4. IsLocal(local) /\ local.pc \in {"idle", "check", "compare", "fail", "reset", "create"}
    BY <1>3, IdleLocal DEF IsLocal, LoginLocal
<1>5. /\ adminFails' \in 0 .. AdminMaxFails - 1 /\ adminLockout' \in {"none", "on", "over"}
      /\ guesses' \in Nat
      /\ sessions' \in [Tokens -> {"unused", "live", "over", "ended"}]
    BY PanelTypes DEF LoginCheck, LoginCompare, LoginFail, LoginReset, LoginCreate
<1> QED
    BY <1>1, <1>2, <1>3, <1>4, <1>5, QuietStep, PanelTypes, SameCache DEF langVars

LEMMA SessionBase ==
    ASSUME Base, NEW r \in Requests, UNCHANGED regionRespCache, Validate(r) \/ Revoke(r)
    PROVE  Base'
<1>1. /\ req[r].pc \in {"validate", "revoke"}
      /\ UNCHANGED <<configVars, langVars, creds, adminFails, adminLockout, guesses, wanted, overlapped>>
    BY DEF Validate, Revoke, At
<1>2. /\ up
      /\ req[r].pc = "validate" => req[r] \in SettingsLocal \union LanguageLocal
    BY <1>1, Serving, Kinds
<1>3. PICK local \in SettingsLocal \union LanguageLocal \union {Idle} :
          Becomes(r, local) /\ local.pc \notin {"route", "finish", "truncate", "write"}
  <2>1. CASE Ends(r)
      BY <2>1, IdleLocal DEF Ends
  <2>2. CASE Validate(r) /\ ~Ends(r)
    <3>1. Becomes(r, [req[r] EXCEPT !.pc = req[r].next]) /\ req[r] \in SettingsLocal \union LanguageLocal
        BY <1>1, <1>2, <2>2, GotoBecomes DEF Validate, At, Base
    <3>2. CASE req[r] \in SettingsLocal
        BY <3>1, <3>2 DEF SettingsLocal
    <3>3. CASE req[r] \in LanguageLocal
        BY <3>1, <3>3 DEF LanguageLocal
    <3> QED
        BY <3>1, <3>2, <3>3
  <2> QED
      BY <2>1, <2>2 DEF Revoke
<1>4. IsLocal(local)
    BY <1>3 DEF IsLocal
<1>5. sessions' \in [Tokens -> {"unused", "live", "over", "ended"}]
    BY PanelTypes DEF Validate, Revoke
<1> QED
    BY <1>1, <1>2, <1>3, <1>4, <1>5, QuietStep, PanelTypes, SameCache DEF langVars

LEMMA SettingsBase ==
    ASSUME Base, NEW r \in Requests, UNCHANGED regionRespCache,
           SettingsRead(r) \/ SettingsChange(r)
    PROVE  Base'
<1>1. /\ req[r].pc \in {"read", "change"}
      /\ UNCHANGED <<configVars, langVars, sessions, adminFails, adminLockout, guesses>>
    BY DEF SettingsRead, SettingsChange, At
<1>2. up /\ req[r] \in SettingsLocal
    BY <1>1, Serving, Kinds
<1>3. PICK local \in SettingsLocal \union {Idle} :
          /\ Becomes(r, local) /\ local.pc \in {"idle", "change", "route", "revoke"}
          /\ local.pc = "route" => local.change.route # None
  <2>1. CASE Ends(r)
      BY <2>1, IdleLocal DEF Ends
  <2>2. CASE SettingsRead(r) /\ ~Ends(r)
    <3>1. /\ Becomes(r, [req[r] EXCEPT !.pc = "change", !.seen = creds])
          /\ creds \in Creds
        BY <2>2, PanelTypes DEF SettingsRead
    <3>2. /\ [req[r] EXCEPT !.pc = "change", !.seen = creds] \in SettingsLocal
          /\ [req[r] EXCEPT !.pc = "change", !.seen = creds].pc = "change"
        BY <1>2, <3>1 DEF SettingsLocal
    <3> QED
        BY <3>1, <3>2
  <2>3. CASE SettingsChange(r) /\ ~Ends(r)
    <3> DEFINE pc == IF req[r].change.route = None THEN "revoke" ELSE "route"
    <3>1. Becomes(r, [req[r] EXCEPT !.pc = pc])
        BY <2>3, GotoBecomes DEF SettingsChange, Base
    <3>2. /\ [req[r] EXCEPT !.pc = pc] \in SettingsLocal
          /\ [req[r] EXCEPT !.pc = pc].pc = pc
          /\ [req[r] EXCEPT !.pc = pc].change = req[r].change
        BY <1>2 DEF SettingsLocal
    <3>3. pc \in {"route", "revoke"} /\ (pc = "route" => req[r].change.route # None)
        OBVIOUS
    <3> HIDE DEF pc
    <3> QED
        BY <3>1, <3>2, <3>3
  <2> QED
      BY <2>1, <2>2, <2>3
<1>4. IsLocal(local)
    BY <1>3 DEF IsLocal
<1>5. creds' \in Creds /\ wanted' \in Creds /\ overlapped' \in BOOLEAN
  <2>1. CASE SettingsRead(r)
      BY <2>1, PanelTypes DEF SettingsRead
  <2>2. CASE SettingsChange(r)
    <3>1. req[r].seen \in Creds /\ req[r].change \in Change
        BY <1>2, PanelAssumption DEF SettingsLocal
    <3> QED
        BY <2>2, <3>1, PanelTypes DEF SettingsChange, Applied, Or, Creds, Change
  <2> QED
      BY <2>1, <2>2
<1> QED
    BY <1>1, <1>2, <1>3, <1>4, <1>5, QuietStep, PanelTypes, SameCache DEF langVars

LEMMA LanguageBase ==
    ASSUME Base, NEW r \in Requests, UNCHANGED regionRespCache, LoadLang(r) \/ SwapLang(r)
    PROVE  Base'
<1>1. req[r].pc \in {"load", "swap"} /\ UNCHANGED <<configVars, loginVars, page, pageOwner>>
    BY DEF LoadLang, SwapLang, At, panelVars, langVars
<1>2. up /\ (req[r].pc = "swap" => req[r] \in SwapLocal)
    BY <1>1, Serving, Kinds
<1>3. PICK local \in SwapLocal \union {Idle} : Becomes(r, local) /\ local.pc \in {"idle", "swap"}
    BY IdleLocal DEF LoadLang, SwapLang, Ends, SwapLocal, Base, TypeOK, ConfigTypeOK
<1>4. IsLocal(local)
    BY <1>3 DEF IsLocal
<1>5. langStrings' \in Languages \union {Untranslated} /\ blurred' \in BOOLEAN
    BY <1>2, PanelTypes DEF LoadLang, SwapLang, SwapLocal, At, panelVars, langVars
<1> QED
    BY <1>1, <1>2, <1>3, <1>4, <1>5, QuietStep, PanelTypes, SameCache DEF loginVars

LEMMA PageBase ==
    ASSUME Base, NEW r \in Requests, UNCHANGED regionRespCache,
           PageBuild(r) \/ PageFinish(r) \/ PageShow(r)
    PROVE  Base'
<1>1. req[r].pc \in {"build", "finish", "show"} /\ UNCHANGED <<configVars, loginVars, langStrings>>
    BY DEF PageBuild, PageFinish, PageShow, At, panelVars, langVars
<1>2. up /\ req[r] \in PageLocal
    BY <1>1, Serving, Kinds
<1>3. page = NoPage \/ page \in [language : Languages,
                                 strings : (SUBSET (Languages \union {Untranslated})) \ {{}}]
    BY DEF Base, TypeOK, PanelTypeOK
<1>4. CASE PageShow(r)
    BY <1>1, <1>2, <1>4, QuietStep, PanelTypes, SameCache, IdleLocal
       DEF PageShow, Ends, At, panelVars, langVars, loginVars
<1>5. CASE PageBuild(r) /\ Cached(req[r].language)
  <2> DEFINE local == [req[r] EXCEPT !.pc = "show", !.strings = page.strings]
  <2>1. local \in PageLocal /\ local.pc = "show"
      BY <1>2, <1>3, <1>5 DEF PageLocal, Cached
  <2>2. Becomes(r, local) /\ req[r].pc = "build" /\ UNCHANGED <<page, pageOwner>>
      BY <1>5 DEF PageBuild, At
  <2>3. IsLocal(local) /\ blurred' \in BOOLEAN
      BY <1>5, <2>1, PanelTypes DEF IsLocal, PageBuild
  <2> HIDE DEF local
  <2> QED
      BY <1>1, <1>2, <2>1, <2>2, <2>3, QuietStep, PanelTypes, SameCache DEF loginVars
<1>6. CASE PageBuild(r) /\ ~Cached(req[r].language)
  <2> DEFINE local == [req[r] EXCEPT !.pc = "finish", !.strings = {langStrings}]
  <2>1. IsLocal(local) /\ local.pc = "finish"
    <3>1. {langStrings} \in SUBSET (Languages \union {Untranslated})
        BY PanelTypes
    <3> HIDE DEF Untranslated
    <3>2. local \in PageLocal /\ local.pc = "finish"
        BY <1>2, <3>1 DEF PageLocal
    <3> QED
        BY <3>2 DEF IsLocal
  <2>2. /\ Becomes(r, local) /\ req[r].pc = "build" /\ pageOwner = Free /\ pageOwner' = r
        /\ UNCHANGED page /\ blurred' \in BOOLEAN
      BY <1>6, PanelTypes DEF PageBuild, At
  <2> HIDE DEF local
  <2>3. /\ req'[r] = local
        /\ \A v \in Requests : v # r => req'[v] = req[v]
        /\ req' = [v \in Requests |-> req'[v]]
      BY <2>2, OneRequest DEF Base
  <2>4. Shapes'
      BY <1>1, <1>2, <2>1, <2>3 DEF Base, Shapes, configVars, At
  <2>5. \A v \in Requests : pageOwner' = v <=> At(v, "finish")'
      BY <2>1, <2>2, <2>3, NoRequest DEF Base, TypeOK, PanelTypeOK, At
  <2>6. PanelTypeOK'
      BY <1>1, <2>2, <2>5 DEF Base, TypeOK, PanelTypeOK, loginVars
  <2>7. ConfigTypeOK' /\ \A v \in Requests : owner' = v <=> req'[v].pc \in {"truncate", "write"}
      BY <1>1, <2>1, <2>2, <2>3 DEF Base, TypeOK, ConfigTypeOK, configVars
  <2> QED
      BY <2>4, <2>6, <2>7, SameCache DEF Base, TypeOK
<1>7. CASE PageFinish(r)
  <2> DEFINE strings == req[r].strings \union {langStrings}
             local == [req[r] EXCEPT !.pc = "show", !.strings = strings]
  <2>1. strings \in (SUBSET (Languages \union {Untranslated})) \ {{}}
      BY <1>2, PanelTypes DEF PageLocal
  <2>2. IsLocal(local) /\ local.pc = "show"
      BY <1>2, <2>1 DEF PageLocal, IsLocal
  <2>3. /\ Becomes(r, local) /\ req[r].pc = "finish" /\ pageOwner' = Free
        /\ page' = [language |-> req[r].language, strings |-> strings]
        /\ UNCHANGED blurred
      BY <1>7 DEF PageFinish, At
  <2>4. page' \in [language : Languages, strings : (SUBSET (Languages \union {Untranslated})) \ {{}}]
      BY <1>2, <2>1, <2>3 DEF PageLocal
  <2> HIDE DEF local, strings
  <2>5. /\ req'[r] = local
        /\ \A v \in Requests : v # r => req'[v] = req[v]
        /\ req' = [v \in Requests |-> req'[v]]
      BY <2>3, OneRequest DEF Base
  <2>6. Shapes'
      BY <1>1, <1>2, <2>2, <2>5 DEF Base, Shapes, configVars, At
  <2>7. \A v \in Requests : pageOwner' = v <=> At(v, "finish")'
      BY <2>2, <2>3, <2>5, NoRequest DEF Base, TypeOK, PanelTypeOK, At
  <2>8. PanelTypeOK'
      BY <1>1, <2>3, <2>4, <2>7 DEF Base, TypeOK, PanelTypeOK, loginVars
  <2>9. ConfigTypeOK' /\ \A v \in Requests : owner' = v <=> req'[v].pc \in {"truncate", "write"}
      BY <1>1, <2>2, <2>3, <2>5 DEF Base, TypeOK, ConfigTypeOK, configVars
  <2> QED
      BY <2>6, <2>8, <2>9, SameCache DEF Base, TypeOK
<1> QED
    BY <1>4, <1>5, <1>6, <1>7

-----------------------------------------------------------------------------
(* updateConfig.                                                            *)
LEMMA MarshalledDocument ==
    ASSUME NEW c \in Configs, NEW s, \A i \in 1 .. c.count : s[i] \in Entry
    PROVE  Marshalled(c, s) \in Document
<1>1. c.count \in 1 .. Capacity
    BY DEF Configs
<1>2. [i \in 1 .. c.count |-> s[i]] \in [1 .. c.count -> FileEntry]
    BY DEF Entry, FileEntry
<1>3. [i \in 1 .. c.count |-> s[i]] \in Regions
    BY <1>1, <1>2 DEF Regions
<1> HIDE DEF Entry
<1> QED
    BY <1>3 DEF Configs, Marshalled, Document

LEMMA SlotsGiven ==
    ASSUME Base
    PROVE  \A i \in 1 .. cfg.count : slots[i] \in Entry
<1>1. cfg.count \in 1 .. Capacity /\ Capacity \in Nat /\ slots \in [1 .. Capacity -> Entry]
    BY ConstantsAssumption DEF Base, TypeOK, ConfigTypeOK
<1> HIDE DEF Entry
<1> QED
    BY <1>1

LEMMA UpdateBase ==
    ASSUME Base, NEW r \in Requests, NEW field, NEW value, NEW next,
           Update(r, field, value, next), UNCHANGED <<page, pageOwner, regionRespCache>>,
           UNCHANGED loginVars, UNCHANGED langStrings, blurred' \in BOOLEAN,
           [cfg EXCEPT ![field] = value] \in Configs,
           [cfg EXCEPT ![field] = value].count = cfg.count,
           req[r].pc \notin {"idle", "finish", "truncate", "write"},
           \/ req[r] \in SettingsLocal /\ next = "revoke"
           \/ req[r] \in LanguageLocal /\ next = "load"
    PROVE  Base'
<1> DEFINE data == Marshalled(cfg', slots)
           local == [pc |-> "truncate", handler |-> req[r], next |-> next, data |-> data]
<1>1. /\ up /\ owner = Free /\ owner' = r /\ cfg' = [cfg EXCEPT ![field] = value]
      /\ Becomes(r, local) /\ diverged' = TRUE /\ UNCHANGED <<up, slots, decoding, file>>
    BY Serving DEF Update
<1>2. cfg' \in Configs /\ cfg'.count = cfg.count /\ \A i \in 1 .. cfg'.count : slots[i] \in Entry
    BY <1>1, SlotsGiven DEF Base, TypeOK, ConfigTypeOK
<1>3. data \in Document
    BY <1>2, MarshalledDocument
<1> HIDE DEF data
<1>4. IsLocal(local) /\ local.pc = "truncate"
    BY <1>3 DEF IsLocal, RouteUpdate, LanguageUpdate
<1> HIDE DEF local
<1>5. /\ req'[r] = local
      /\ \A v \in Requests : v # r => req'[v] = req[v]
      /\ req' = [v \in Requests |-> req'[v]]
    BY <1>1, OneRequest DEF Base
<1>6. Shapes'
    BY <1>1, <1>4, <1>5, NoRequest DEF Base, Shapes, At
<1>7. ConfigTypeOK'
    BY <1>1, <1>2, NoRequest DEF Base, TypeOK, ConfigTypeOK, Configs
<1>8. PanelTypeOK'
  <2>1. \A v \in Requests : pageOwner' = v <=> At(v, "finish")'
      BY <1>4, <1>5 DEF Base, TypeOK, PanelTypeOK, At
  <2> QED
      BY <2>1 DEF Base, TypeOK, PanelTypeOK, loginVars
<1>9. \A v \in Requests : owner' = v <=> req'[v].pc \in {"truncate", "write"}
    BY <1>1, <1>4, <1>5, NoRequest DEF Base, TypeOK
<1> QED
    BY <1>6, <1>7, <1>8, <1>9, SameCache DEF Base, TypeOK

LEMMA BeginUpdateBase ==
    ASSUME Base, NEW r \in Requests, UNCHANGED regionRespCache,
           SettingsRoute(r) \/ SetLanguage(r)
    PROVE  Base'
<1>1. cfg \in Configs
    BY DEF Base, TypeOK, ConfigTypeOK, Configs
<1>2. CASE SettingsRoute(r)
  <2> DEFINE route == req[r].change.route
  <2>1. req[r] \in SettingsLocal /\ req[r].pc = "route" /\ route # None
      BY <1>2, Serving, Kinds DEF SettingsRoute, At, Base, Shapes
  <2>2. route \in Routes
      BY <2>1, PanelAssumption DEF SettingsLocal, Change
  <2>3. /\ [cfg EXCEPT !["route"] = route] \in Configs
        /\ [cfg EXCEPT !["route"] = route].count = cfg.count
      BY <1>1, <2>2 DEF Configs
  <2> HIDE DEF route
  <2>4. Update(r, "route", route, "revoke") /\ UNCHANGED panelVars
      BY <1>2 DEF SettingsRoute, route
  <2> QED
      BY <2>1, <2>3, <2>4, UpdateBase, PanelTypes DEF panelVars, langVars
<1>3. CASE SetLanguage(r)
  <2> DEFINE language == req[r].language
  <2>1. req[r] \in LanguageLocal /\ req[r].pc = "language" /\ language \in Languages
      BY <1>3, Serving, Kinds DEF SetLanguage, At, LanguageLocal
  <2>2. /\ [cfg EXCEPT !["language"] = language] \in Configs
        /\ [cfg EXCEPT !["language"] = language].count = cfg.count
      BY <1>1, <2>1 DEF Configs
  <2> HIDE DEF language
  <2>3. /\ Update(r, "language", language, "load")
        /\ UNCHANGED <<loginVars, langStrings, page, pageOwner>>
        /\ blurred' \in BOOLEAN
      BY <1>3, PanelTypes DEF SetLanguage, language
  <2> QED
      BY <2>1, <2>2, <2>3, UpdateBase
<1> QED
    BY <1>2, <1>3

LEMMA UpdateStepBase ==
    ASSUME Base, NEW r \in Requests, UpdateStep(r)
    PROVE  Base'
<1>1. /\ req[r].pc \in {"truncate", "write"}
      /\ UNCHANGED <<up, cfg, slots, decoding, loginVars, langStrings, page, pageOwner,
                     regionRespCache>>
      /\ blurred' \in BOOLEAN
    BY PanelTypes DEF UpdateStep, Truncate, Write, PanelAfterUpdate, At
<1>2. up /\ req[r] \in RouteUpdate \union LanguageUpdate /\ owner = r /\ owner # Free /\ owner # Reload
    BY <1>1, Serving, Kinds, NoRequest DEF Base, TypeOK
<1>3. req[r].data \in Document
    BY <1>2 DEF RouteUpdate, LanguageUpdate
<1>4. PICK local : /\ Becomes(r, local) /\ IsLocal(local)
                   /\ local.pc \in {"idle", "write", "revoke", "load"}
                   /\ owner' = IF local.pc = "write" THEN r ELSE Free
                   /\ file' \in Document \union {Corrupt} /\ diverged' \in BOOLEAN
  <2>1. file \in Document \union {Corrupt} /\ diverged \in BOOLEAN
      BY DEF Base, TypeOK, ConfigTypeOK
  <2>2. CASE /\ Goto(r, "write") /\ file' = Corrupt
             /\ UNCHANGED <<owner, diverged>>
    <3>1. Becomes(r, [req[r] EXCEPT !.pc = "write"])
        BY <2>2, GotoBecomes DEF Base
    <3>2. /\ [req[r] EXCEPT !.pc = "write"] \in RouteUpdate \union LanguageUpdate
          /\ [req[r] EXCEPT !.pc = "write"].pc = "write"
        BY <1>2 DEF RouteUpdate, LanguageUpdate
    <3> QED
        BY <1>2, <2>1, <2>2, <3>1, <3>2 DEF IsLocal
  <2>3. CASE owner' = Unlocked(r) /\ Ends(r) /\ UNCHANGED <<file, diverged>>
      BY <1>2, <2>1, <2>3, IdleLocal DEF Unlocked, Ends
  <2>4. CASE Write(r) /\ ~Ends(r)
    <3> DEFINE local == [req[r].handler EXCEPT !.pc = req[r].next]
    <3>1. Becomes(r, local) /\ owner' = Free /\ file' = req[r].data /\ diverged' = FALSE
        BY <1>2, <2>4 DEF Write, Unlocked
    <3>2. IsLocal(local) /\ local.pc \in {"revoke", "load"}
      <4>1. CASE req[r] \in RouteUpdate
          BY <4>1 DEF RouteUpdate, SettingsLocal, IsLocal
      <4>2. CASE req[r] \in LanguageUpdate
          BY <4>2 DEF LanguageUpdate, LanguageLocal, IsLocal
      <4> QED
          BY <1>2, <4>1, <4>2
    <3> QED
        BY <1>3, <3>1, <3>2
  <2>5. CASE Write(r) /\ Ends(r)
      BY <1>2, <1>3, <2>1, <2>5, IdleLocal DEF Write, Unlocked, Ends
  <2> QED
      BY <2>2, <2>3, <2>4, <2>5 DEF UpdateStep, Truncate
<1>5. /\ req'[r] = local
      /\ \A v \in Requests : v # r => req'[v] = req[v]
      /\ req' = [v \in Requests |-> req'[v]]
    BY <1>4, OneRequest DEF Base
<1>6. Shapes'
    BY <1>1, <1>2, <1>4, <1>5, NoRequest DEF Base, Shapes, At
<1>7. ConfigTypeOK'
    BY <1>1, <1>2, <1>4, NoRequest DEF Base, TypeOK, ConfigTypeOK
<1>8. PanelTypeOK'
  <2>1. \A v \in Requests : pageOwner' = v <=> At(v, "finish")'
      BY <1>1, <1>4, <1>5 DEF Base, TypeOK, PanelTypeOK, At
  <2> QED
      BY <1>1, <2>1 DEF Base, TypeOK, PanelTypeOK, loginVars
<1>9. \A v \in Requests : owner' = v <=> req'[v].pc \in {"truncate", "write"}
    BY <1>2, <1>4, <1>5, NoRequest DEF Base, TypeOK
<1> QED
    BY <1>1, <1>6, <1>7, <1>8, <1>9, SameCache DEF Base, TypeOK

-----------------------------------------------------------------------------
(* The steps of a dispatch request; they leave the panel alone.             *)
LEMMA DispatchLocals ==
    ASSUME NEW l, IsDispatch(l), NEW pc \in {"find", "encrypt", "store", "sent"},
           pc = "store" => l.key \in EncryptionKeys, NEW text, NEW sent
    PROVE  /\ IsDispatch([l EXCEPT !.pc = pc])
           /\ IsDispatch([l EXCEPT !.pc = pc, !.text = text])
           /\ IsDispatch([l EXCEPT !.pc = pc, !.sent = sent])
           /\ IsDispatch([l EXCEPT !.raced = TRUE])
<1>1. ASSUME NEW m, NEW t, NEW s, m \in DispatchLocal(l.name, l.array, t, s),
             m.pc = "store" => m.key \in EncryptionKeys
      PROVE  IsDispatch(m)
    BY <1>1 DEF IsDispatch, DispatchLocal
<1>2. [l EXCEPT !.pc = pc] \in DispatchLocal(l.name, l.array, l.text, l.sent)
    BY DEF IsDispatch, DispatchLocal
<1>3. [l EXCEPT !.pc = pc, !.text = text] \in DispatchLocal(l.name, l.array, text, l.sent)
    BY DEF IsDispatch, DispatchLocal
<1>4. [l EXCEPT !.pc = pc, !.sent = sent] \in DispatchLocal(l.name, l.array, l.text, sent)
    BY DEF IsDispatch, DispatchLocal
<1>5. [l EXCEPT !.raced = TRUE] \in DispatchLocal(l.name, l.array, l.text, l.sent)
    BY DEF IsDispatch, DispatchLocal
<1>6. /\ [l EXCEPT !.pc = pc].pc = pc /\ [l EXCEPT !.pc = pc].key = l.key
      /\ [l EXCEPT !.pc = pc, !.text = text].pc = pc
      /\ [l EXCEPT !.pc = pc, !.text = text].key = l.key
      /\ [l EXCEPT !.pc = pc, !.sent = sent].pc = pc
      /\ [l EXCEPT !.pc = pc, !.sent = sent].key = l.key
      /\ [l EXCEPT !.raced = TRUE].pc = l.pc
      /\ [l EXCEPT !.raced = TRUE].key = l.key
    BY DEF IsDispatch, DispatchLocal
<1> QED
    BY <1>1, <1>2, <1>3, <1>4, <1>5, <1>6 DEF IsDispatch

LEMMA DispatchQuiet ==
    ASSUME Base, NEW r \in Requests, up,
           NEW local, Becomes(r, local), local = Idle \/ IsDispatch(local),
           req[r].pc \notin {"finish", "truncate", "write"},
           UNCHANGED <<configVars, panelVars>>, DispatchTypeOK'
    PROVE  Base'
<1>1. IsLocal(local) /\ local.pc \notin {"route", "finish", "truncate", "write"}
    BY IdleLocal DEF IsLocal, IsDispatch, DispatchLocal
<1> QED
    BY <1>1, QuietStep, PanelTypes DEF panelVars, loginVars, langVars

LEMMA AskRegionBase ==
    ASSUME Base, NEW r \in Requests, NEW name, NEW key \in KeyIds, AskRegion(r, name, key),
           UNCHANGED panelVars
    PROVE  Base'
<1> DEFINE local == [pc |-> "seed", name |-> name, key |-> key, copy |-> cfg, array |-> slots,
                     raced |-> FALSE, text |-> None, sent |-> None]
<1>1. /\ Becomes(r, local) /\ up /\ req[r].pc = "idle" /\ UNCHANGED configVars
      /\ UNCHANGED regionRespCache
    BY IdleLocal DEF AskRegion
<1>2. IsDispatch(local)
    BY DEF IsDispatch, DispatchLocal, Base, TypeOK, ConfigTypeOK, Configs
<1> HIDE DEF local
<1> QED
    BY <1>1, <1>2, DispatchQuiet, SameCache

LEMMA DispatchStepBase ==
    ASSUME Base, NEW r \in Requests, DispatchStep(r), UNCHANGED panelVars
    PROVE  Base'
<1>1. req[r].pc \in {"seed", "find", "encrypt", "store", "sent"} /\ UNCHANGED configVars
    BY DEF DispatchStep, DispatchSeed, DispatchFind, DispatchEncrypt, DispatchStore, DispatchEnd, At
<1>2. up /\ IsDispatch(req[r])
    BY <1>1, Serving, Kinds
<1>3. PICK local : Becomes(r, local) /\ (local = Idle \/ IsDispatch(local))
  <2>1. CASE \E pc \in {"find", "encrypt", "store", "sent"} :
                 Goto(r, pc) /\ (pc = "store" => req[r].key \in EncryptionKeys)
      BY <1>2, <2>1, GotoBecomes, DispatchLocals DEF Base
  <2>2. CASE \E text : Answer(r, text)
      BY <1>2, <2>2, DispatchLocals DEF Answer
  <2>3. CASE \E for, text : Sends(r, for, text)
      BY <1>2, <2>3, DispatchLocals DEF Sends
  <2>4. CASE Ends(r)
      BY <2>4 DEF Ends
  <2> QED
      BY <2>1, <2>2, <2>3, <2>4
         DEF DispatchStep, DispatchSeed, DispatchFind, DispatchEncrypt, DispatchStore, DispatchEnd
<1>4. DispatchTypeOK'
  <2>1. CASE UNCHANGED regionRespCache
      BY <2>1, SameCache
  <2>2. CASE /\ At(r, "store")
             /\ regionRespCache' = (regionRespCache \ Hits(r)) \union
                    {[under |-> CacheKey(r), for |-> req[r].key, text |-> req[r].text]}
    <3>1. req[r].key \in EncryptionKeys
        BY <1>2, <2>2 DEF IsDispatch, At
    <3> QED
        BY <2>2, <3>1 DEF Base, TypeOK, DispatchTypeOK, CacheKey
  <2> QED
      BY <2>1, <2>2
         DEF DispatchStep, DispatchSeed, DispatchFind, DispatchEncrypt, DispatchStore, DispatchEnd
<1> QED
    BY <1>1, <1>2, <1>3, <1>4, DispatchQuiet

-----------------------------------------------------------------------------
(* Time, the operator, reloads, kills and starts.                           *)
LEMMA TimeBase ==
    ASSUME Base, TimePasses
    PROVE  Base'
<1>1. /\ UNCHANGED <<configVars, req, langVars, creds, wanted, adminFails, guesses, overlapped>>
      /\ adminLockout' \in {"none", "on", "over"}
      /\ sessions' \in [Tokens -> {"unused", "live", "over", "ended"}]
    BY PanelTypes DEF TimePasses, LockRunsOut, SessionRunsOut
<1>2. Shapes'
    BY <1>1 DEF Base, Shapes, configVars, At
<1>3. ConfigTypeOK' /\ PanelTypeOK'
    BY <1>1 DEF Base, TypeOK, ConfigTypeOK, PanelTypeOK, configVars, langVars, At
<1>4. DispatchTypeOK' /\ \A v \in Requests : owner' = v <=> req'[v].pc \in {"truncate", "write"}
    BY <1>1, SameCache DEF TimePasses, Base, TypeOK, configVars
<1> QED
    BY <1>2, <1>3, <1>4 DEF Base, TypeOK

LEMMA EditBase ==
    ASSUME Base, OperatorEdits
    PROVE  Base'
<1>1. /\ UNCHANGED <<up, cfg, slots, owner, decoding, req, panelVars, regionRespCache>>
      /\ file' \in Document /\ diverged' = TRUE
    BY ConstantsAssumption DEF OperatorEdits, Edit
<1>2. Shapes'
    BY <1>1 DEF Base, Shapes, At
<1>3. ConfigTypeOK' /\ PanelTypeOK'
    BY <1>1 DEF Base, TypeOK, ConfigTypeOK, PanelTypeOK, panelVars, loginVars, langVars, At
<1> QED
    BY <1>1, <1>2, <1>3, SameCache DEF Base, TypeOK

(* What a reload that begins does to the requests: it leaves each at its    *)
(* step, and changes nothing of those that are not dispatch requests.       *)
LEMMA ReloadLocals ==
    ASSUME Base, DispatchAtReload, NEW r \in Requests
    PROVE  /\ IsLocal(req'[r]) /\ req'[r].pc = req[r].pc
           /\ \/ req'[r] = req[r]
              \/ IsDispatch(req[r]) /\ req'[r] = [req[r] EXCEPT !.raced = TRUE]
           /\ req[r].pc \notin {"seed", "find"} => req'[r] = req[r]
<1>1. CASE req'[r] = req[r]
  <2>1. IsLocal(req[r])
      BY DEF Base, Shapes
  <2> QED
      BY <1>1, <2>1
<1>2. CASE req[r].pc \in {"seed", "find"} /\ req'[r] = [req[r] EXCEPT !.raced = TRUE]
  <2>1. IsDispatch(req[r])
      BY <1>2, Serving, Kinds
  <2>2. IsDispatch([req[r] EXCEPT !.raced = TRUE])
      BY <2>1, DispatchLocals
  <2>3. [req[r] EXCEPT !.raced = TRUE].pc = req[r].pc
      BY <2>1 DEF IsDispatch, DispatchLocal
  <2> QED
      BY <1>2, <2>1, <2>2, <2>3 DEF IsLocal
<1> QED
    BY <1>1, <1>2 DEF DispatchAtReload

LEMMA ReloadBeginBase ==
    ASSUME Base, ReloadBegins
    PROVE  Base'
<1>1. /\ up /\ owner = Free /\ owner' = Reload /\ decoding' = file /\ file # Corrupt
      /\ UNCHANGED <<up, cfg, slots, file, diverged, panelVars, regionRespCache>>
      /\ DispatchAtReload
    BY DEF ReloadBegins, ReloadBegin, DispatchAtReload
<1>2. decoding' \in Document /\ decoding' # None
    BY <1>1, ConstantsAssumption DEF Base, TypeOK, ConfigTypeOK
<1>3. req' = [v \in Requests |-> req'[v]]
    BY <1>1 DEF DispatchAtReload
<1>4. Shapes'
  <2>1. ASSUME NEW v \in Requests, At(v, "route")'
        PROVE  (req[v].change.route # None)'
      BY <1>1, <2>1, ReloadLocals DEF Base, Shapes, At
  <2> QED
      BY <1>1, <1>2, <1>3, <2>1, ReloadLocals DEF Shapes
<1>5. ConfigTypeOK'
    BY <1>1, <1>2, NoRequest DEF Base, TypeOK, ConfigTypeOK
<1>6. PanelTypeOK'
  <2>1. \A v \in Requests : pageOwner' = v <=> At(v, "finish")'
      BY <1>1, ReloadLocals DEF Base, TypeOK, PanelTypeOK, At, panelVars, langVars
  <2> QED
      BY <1>1, <2>1 DEF Base, TypeOK, PanelTypeOK, panelVars, loginVars, langVars
<1>7. \A v \in Requests : owner' = v <=> req'[v].pc \in {"truncate", "write"}
    BY <1>1, NoRequest, ReloadLocals DEF Base, TypeOK
<1> QED
    BY <1>1, <1>4, <1>5, <1>6, <1>7, SameCache DEF Base, TypeOK

(* What json.Unmarshal leaves is a configuration again.                     *)
LEMMA OverlaidConfig ==
    ASSUME NEW c \in Configs, NEW d \in Document
    PROVE  Overlaid(c, d) \in Configs
<1>1. ASSUME Given(d, "regions")
      PROVE  Len(d.regions) \in 1 .. Capacity
  <2>1. d.regions \in Regions
      BY <1>1 DEF Document, Given
  <2>2. PICK n \in 1 .. Capacity : d.regions \in [1 .. n -> FileEntry]
      BY <2>1 DEF Regions
  <2> QED
      BY <2>2, ConstantsAssumption
<1>2. /\ Given(d, "language") => d.language \in Languages
      /\ Given(d, "route") => d.route \in Routes
      /\ Given(d, "rest") => d.rest \in Rests
    BY DEF Document, Given
<1> QED
    BY <1>1, <1>2 DEF Configs, Overlaid

LEMMA DecodedSlots ==
    ASSUME NEW s \in [1 .. Capacity -> Entry], NEW d \in Document
    PROVE  /\ Decoded(s, d) \in [1 .. Capacity -> Entry]
           /\ Given(d, "regions") => d.regions \in Regions /\ Len(d.regions) \in 1 .. Capacity
           /\ ~Given(d, "regions") => Decoded(s, d) = s
<1>1. ASSUME Given(d, "regions")
      PROVE  /\ d.regions \in Regions /\ Len(d.regions) \in 1 .. Capacity
             /\ \A i \in 1 .. Len(d.regions) : d.regions[i] \in FileEntry
  <2>1. d.regions \in Regions
      BY <1>1 DEF Document, Given
  <2>2. PICK n \in 1 .. Capacity : d.regions \in [1 .. n -> FileEntry]
      BY <2>1 DEF Regions
  <2> HIDE DEF FileEntry
  <2>3. Len(d.regions) = n
      BY <2>2, ConstantsAssumption
  <2> QED
      BY <2>1, <2>2, <2>3
<1>2. ASSUME NEW i \in 1 .. Capacity
      PROVE  (IF Given(d, "regions") /\ i <= Len(d.regions) THEN Merged(s[i], d.regions[i])
              ELSE s[i]) \in Entry
  <2>1. CASE Given(d, "regions") /\ i <= Len(d.regions)
    <3>1. d.regions[i] \in FileEntry /\ s[i] \in Entry
        BY <1>1, <2>1, ConstantsAssumption
    <3>2. Merged(s[i], d.regions[i]) \in Entry
        BY <3>1 DEF Merged, Entry, FileEntry
    <3> QED
        BY <2>1, <3>2
  <2>2. CASE ~(Given(d, "regions") /\ i <= Len(d.regions))
      BY <2>2
  <2> QED
      BY <2>1, <2>2
<1> HIDE DEF Entry, Given, Regions, Merged
<1>3. Decoded(s, d) \in [1 .. Capacity -> Entry]
    BY <1>2 DEF Decoded
<1>4. ~Given(d, "regions") => Decoded(s, d) = s
    BY DEF Decoded
<1> QED
    BY <1>1, <1>3, <1>4

LEMMA ReloadEndBase ==
    ASSUME Base, ReloadEnds
    PROVE  Base'
<1>1. /\ owner = Reload /\ owner' = Free /\ decoding' = None
      /\ cfg' = Overlaid(cfg, decoding) /\ slots' = Decoded(slots, decoding)
      /\ diverged' \in BOOLEAN /\ blurred' \in BOOLEAN
      /\ UNCHANGED <<up, file, req, loginVars, langStrings, page, pageOwner>>
      /\ regionRespCache' \in {regionRespCache, {}}
    BY PanelTypes DEF ReloadEnds, ReloadEnd, DispatchAfterReload, PanelAfterReload
<1>2. decoding \in Document /\ cfg \in Configs
    BY <1>1 DEF Base, Shapes, TypeOK, ConfigTypeOK, Configs
<1>3. Shapes'
    BY <1>1, NoRequest DEF Base, Shapes, At
<1>4. ConfigTypeOK'
  <2>1. cfg' \in Configs
      BY <1>1, <1>2, OverlaidConfig
  <2>2. slots \in [1 .. Capacity -> Entry]
      BY DEF Base, TypeOK, ConfigTypeOK
  <2>3. slots' \in [1 .. Capacity -> Entry]
      BY <1>1, <1>2, <2>2, DecodedSlots
  <2> QED
      BY <1>1, <2>1, <2>3, NoRequest DEF Base, TypeOK, ConfigTypeOK, Configs
<1>5. PanelTypeOK' /\ DispatchTypeOK'
    BY <1>1 DEF Base, TypeOK, PanelTypeOK, DispatchTypeOK, loginVars, At
<1>6. \A v \in Requests : owner' = v <=> req'[v].pc \in {"truncate", "write"}
    BY <1>1, NoRequest DEF Base, TypeOK
<1> QED
    BY <1>3, <1>4, <1>5, <1>6 DEF Base, TypeOK

LEMMA KillBase ==
    ASSUME Base, Kill
    PROVE  Base'
<1>1. /\ up' = FALSE /\ owner' = Free /\ decoding' = None /\ req' = [r \in Requests |-> Idle]
      /\ sessions' = [t \in Tokens |-> IF sessions[t] = "unused" THEN "unused" ELSE "ended"]
      /\ adminFails' = 0 /\ adminLockout' = "none" /\ guesses' = 0
      /\ page' = NoPage /\ pageOwner' = Free /\ regionRespCache' = {}
      /\ UNCHANGED <<cfg, slots, file, diverged, creds, wanted, overlapped, langStrings, blurred>>
    BY DEF Kill, ConfigKill, PanelKill, DispatchKill
<1>2. Shapes'
    BY <1>1, IdleLocal, NoRequest DEF Shapes, At
<1>3. ConfigTypeOK'
    BY <1>1, NoRequest DEF Base, TypeOK, ConfigTypeOK
<1>4. PanelTypeOK'
    BY <1>1, PanelTypes, IdleLocal, NoRequest DEF PanelTypeOK, At
<1> QED
    BY <1>1, <1>2, <1>3, <1>4, IdleLocal, NoRequest DEF TypeOK, DispatchTypeOK, Base

(* What a process that starts has loaded from the default document and d.   *)
LEMMA LoadedTypes ==
    ASSUME NEW d \in Document
    PROVE  /\ LoadedConfig(d) \in Configs
           /\ LoadedSlots(d) \in [1 .. Capacity -> Entry]
<1>1. /\ Default \in Document
      /\ Given(Default, "language") /\ Given(Default, "route") /\ Given(Default, "rest")
      /\ Given(Default, "regions")
    BY ConstantsAssumption DEF Complete, Document
<1>2. EmptySlots \in [1 .. Capacity -> Entry]
    BY ConstantsAssumption DEF EmptySlots, Entry
<1> DEFINE first == Decoded(EmptySlots, Default)
<1>3. /\ first \in [1 .. Capacity -> Entry]
      /\ Default.regions \in Regions /\ Len(Default.regions) \in 1 .. Capacity
    BY <1>1, <1>2, DecodedSlots
<1>4. LoadedSlots(d) = Decoded(first, d)
    BY DEF LoadedSlots
<1> HIDE DEF first
<1>6. DefaultConfig \in Configs
    BY <1>1, <1>3 DEF DefaultConfig, Configs, Document, Given
<1>7. LoadedConfig(d) \in Configs
    BY <1>6, OverlaidConfig DEF LoadedConfig
<1> QED
    BY <1>3, <1>4, <1>7, DecodedSlots

LEMMA StartBase ==
    ASSUME Base, Start
    PROVE  Base'
<1>1. /\ ~up /\ up' /\ file # Corrupt /\ cfg' = LoadedConfig(file) /\ slots' = LoadedSlots(file)
      /\ diverged' = FALSE /\ blurred' = FALSE /\ langStrings' = cfg'.language
      /\ UNCHANGED <<owner, decoding, file, req, loginVars, page, pageOwner, regionRespCache>>
    BY DEF Start, ConfigStart, PanelStart
<1>2. up' = TRUE
    BY DEF Start, ConfigStart
<1>3. file \in Document
    BY <1>1 DEF Base, TypeOK, ConfigTypeOK
<1>4. cfg' \in Configs
    BY <1>1, <1>3, LoadedTypes
<1>5. Shapes'
    BY <1>1 DEF Base, Shapes, At
<1>6. ConfigTypeOK'
    BY <1>1, <1>2, <1>3, <1>4, LoadedTypes DEF Base, TypeOK, ConfigTypeOK, Configs
<1>7. PanelTypeOK'
    BY <1>1, <1>4 DEF Base, TypeOK, PanelTypeOK, loginVars, At, Configs
<1> QED
    BY <1>1, <1>5, <1>6, <1>7, SameCache DEF Base, TypeOK

LEMMA InitBase ==
    ASSUME Init
    PROVE  Base
<1>1. Default \in Document
    BY ConstantsAssumption
<1>2. cfg \in Configs
    BY <1>1, LoadedTypes DEF Init, ConfigInit
<1>3. Shapes
    BY IdleLocal, NoRequest DEF Init, ConfigInit, Shapes, At
<1>4. ConfigTypeOK
    BY <1>1, <1>2, LoadedTypes, NoRequest DEF Init, ConfigInit, ConfigTypeOK, Configs
<1>5. Default.language \in Languages
    BY ConstantsAssumption DEF Complete, Document, Given
<1>6. PanelTypeOK
  <2>1. FirstCreds \in Creds /\ 0 \in 0 .. AdminMaxFails - 1
      BY PanelAssumption
  <2>2. \A r \in Requests : pageOwner = r <=> At(r, "finish")
      BY NoRequest, IdleLocal DEF Init, PanelInit, ConfigInit, At
  <2>3. sessions \in [Tokens -> {"unused", "live", "over", "ended"}]
      BY DEF Init, PanelInit
  <2> QED
      BY <1>5, <2>1, <2>2, <2>3 DEF Init, PanelInit, PanelTypeOK
<1> QED
    BY <1>3, <1>4, <1>6, IdleLocal, NoRequest
       DEF Base, TypeOK, Init, ConfigInit, DispatchInit, DispatchTypeOK

(* One step of the process, whichever it is.                                *)
LEMMA NextBase ==
    ASSUME Base, [Next]_vars
    PROVE  Base'
<1>1. CASE UNCHANGED vars
    BY <1>1 DEF vars, configVars, panelVars, loginVars, langVars, Base, Shapes, TypeOK,
                ConfigTypeOK, PanelTypeOK, DispatchTypeOK, At
<1>2. ASSUME NEW r \in Requests, AskPanel(r) \/ PanelStep(r), UNCHANGED regionRespCache
      PROVE  Base'
    BY <1>2, AskPanelBase, LoginBase, SessionBase, SettingsBase, LanguageBase, PageBase,
       BeginUpdateBase DEF PanelStep
<1>3. ASSUME NEW r \in Requests, NEW name \in RegionNames, NEW key \in KeyIds,
             AskRegion(r, name, key), UNCHANGED panelVars
      PROVE  Base'
    BY <1>3, AskRegionBase
<1>4. ASSUME NEW r \in Requests, DispatchStep(r), UNCHANGED panelVars
      PROVE  Base'
    BY <1>4, DispatchStepBase
<1> QED
    BY <1>1, <1>2, <1>3, <1>4, UpdateStepBase, TimeBase, EditBase, ReloadBeginBase, ReloadEndBase,
       KillBase, StartBase DEF Next

(* The types of all variables, and who holds the two mutexes: cfgMu is held *)
(* by a request exactly while its updateConfig runs (config.go:92-101), and *)
(* adminHTMLCacheMu exactly while it builds a page (admin.go:20-25).        *)
THEOREM TypeCorrect == Spec => []TypeOK
<1>1. Init => Base
    BY InitBase
<1>2. Base /\ [Next]_vars => Base'
    BY NextBase
<1>3. Base => TypeOK
    BY DEF Base
<1> QED
    BY <1>1, <1>2, <1>3, PTL DEF Spec

-----------------------------------------------------------------------------
(* How a request comes to a step: only by the action named here.            *)
ArrivesBy(v) ==
    /\ req'[v].pc = "compare" => LoginCheck(v)
    /\ req'[v].pc = "fail" => LoginCompare(v)
    /\ req'[v].pc = "change" => SettingsRead(v)
    /\ req'[v].pc \in {"truncate", "write"} => SettingsRoute(v) \/ SetLanguage(v) \/ UpdateStep(v)
    /\ req'[v].pc = "load" => UpdateStep(v)
    /\ req'[v].pc = "swap" => LoadLang(v)
    /\ req'[v].pc = "build" => AskPage(v)
    /\ req'[v].pc = "finish" => PageBuild(v)
    /\ req'[v].pc = "show" => PageBuild(v) \/ PageFinish(v)
    /\ req'[v].pc = "seed" =>
           \/ DispatchAtReload
           \/ \E name \in RegionNames, key \in KeyIds : AskRegion(v, name, key)
    /\ req'[v].pc = "find" => DispatchSeed(v) \/ DispatchAtReload
    /\ req'[v].pc = "encrypt" => DispatchSeed(v) \/ DispatchFind(v)
    /\ req'[v].pc = "store" => DispatchEncrypt(v)
    /\ req'[v].pc = "sent" => DispatchEncrypt(v) \/ DispatchStore(v)

LEMMA HasPc ==
    ASSUME NEW l, IsLocal(l), NEW pc
    PROVE  [l EXCEPT !.pc = pc].pc = pc
BY DEF IsLocal, Idle, LoginLocal, LogoutLocal, SettingsLocal, LanguageLocal, SwapLocal,
       PageLocal, RouteUpdate, LanguageUpdate, IsDispatch, DispatchLocal

LEMMA GoesTo ==
    ASSUME Base, NEW r \in Requests, NEW pc, Goto(r, pc)
    PROVE  req'[r].pc = pc
<1> DEFINE local == [req[r] EXCEPT !.pc = pc]
<1>1. Becomes(r, local) /\ IsLocal(req[r])
    BY GotoBecomes DEF Base, Shapes
<1>2. local.pc = pc
    BY <1>1, HasPc
<1> HIDE DEF local
<1> QED
    BY <1>1, <1>2, OneRequest DEF Base

LEMMA EndsIdle ==
    ASSUME Base, NEW r \in Requests, Ends(r)
    PROVE  req'[r].pc = "idle"
BY IdleLocal, OneRequest DEF Base, Ends

(* The steps of one request leave the others alone.                         *)
LEMMA OthersStay ==
    ASSUME Base, NEW r \in Requests,
           \/ AskPanel(r) \/ PanelStep(r) \/ DispatchStep(r) \/ UpdateStep(r)
           \/ \E name \in RegionNames, key \in KeyIds : AskRegion(r, name, key)
    PROVE  /\ \E local : Becomes(r, local)
           /\ \A v \in Requests : v # r => req'[v] = req[v]
<1>1. \A pc : Goto(r, pc) => \E local : Becomes(r, local)
    BY GotoBecomes DEF Base
<1>2. Ends(r) => \E local : Becomes(r, local)
    BY DEF Ends
<1>3. CASE AskPanel(r) \/ \E name \in RegionNames, key \in KeyIds : AskRegion(r, name, key)
  <2>1. \E local : Becomes(r, local)
      BY <1>3
         DEF AskPanel, AskLogin, AskLogout, AskSettings, AskSetLang, AskPage, Asks, AskRegion
  <2> QED
      BY <2>1, OneRequest DEF Base
<1>4. CASE PanelStep(r)
  <2>1. \E local : Becomes(r, local)
      BY <1>1, <1>2, <1>4
         DEF PanelStep, Validate, LoginCheck, LoginCompare, LoginFail, LoginReset, LoginCreate,
             SettingsRead, SettingsChange, SettingsRoute, Revoke, SetLanguage, Update,
             LoadLang, SwapLang, PageBuild, PageFinish, PageShow
  <2> QED
      BY <2>1, OneRequest DEF Base
<1>5. CASE DispatchStep(r)
  <2>1. \E local : Becomes(r, local)
      BY <1>1, <1>2, <1>5
         DEF DispatchStep, DispatchSeed, DispatchFind, DispatchEncrypt, DispatchStore,
             DispatchEnd, Answer, Sends
  <2> QED
      BY <2>1, OneRequest DEF Base
<1>6. CASE UpdateStep(r)
  <2>1. \E local : Becomes(r, local)
      BY <1>1, <1>2, <1>6 DEF UpdateStep, Truncate, Write
  <2> QED
      BY <2>1, OneRequest DEF Base
<1> QED
    BY <1>3, <1>4, <1>5, <1>6

LEMMA AsksArrive ==
    ASSUME Base, NEW r \in Requests, AskPanel(r)
    PROVE  /\ req'[r].pc \in {"check", "revoke", "validate", "build"}
           /\ req'[r].pc = "build" => AskPage(r)
<1>1. ASSUME NEW cost, NEW local, Asks(r, cost, local)
      PROVE  req'[r] = local
    BY <1>1, OneRequest DEF Asks, Base
<1>2. CASE AskLogin(r)
  <2>1. PICK c \in Guesses : Asks(r, 1, [pc |-> "check", guess |-> c])
      BY <1>2 DEF AskLogin
  <2>2. req'[r] = [pc |-> "check", guess |-> c]
      BY <1>1, <2>1
  <2> QED
      BY <2>2
<1>3. ASSUME NEW t \in Tokens, AskLogout(r, t)
      PROVE  req'[r].pc = "revoke"
  <2>1. req'[r] = [pc |-> "revoke", token |-> t]
      BY <1>1, <1>3 DEF AskLogout
  <2> QED
      BY <2>1
<1>4. ASSUME NEW t \in Tokens, NEW change \in Changes, NEW old \in Passwords,
             AskSettings(r, t, change, old)
      PROVE  req'[r].pc = "validate"
  <2>1. req'[r] = [pc |-> "validate", token |-> t, next |-> "read", change |-> change,
                   old |-> old, seen |-> FirstCreds]
      BY <1>1, <1>4 DEF AskSettings
  <2> QED
      BY <2>1
<1>5. ASSUME NEW t \in Tokens, NEW language \in Languages, AskSetLang(r, t, language)
      PROVE  req'[r].pc = "validate"
  <2>1. req'[r] = [pc |-> "validate", token |-> t, next |-> "language", language |-> language]
      BY <1>1, <1>5 DEF AskSetLang
  <2> QED
      BY <2>1
<1>6. CASE AskPage(r)
  <2>1. req'[r] = [pc |-> "build", language |-> cfg.language, strings |-> {}]
      BY <1>1, <1>6 DEF AskPage
  <2> QED
      BY <1>6, <2>1
<1> QED
    BY <1>2, <1>3, <1>4, <1>5, <1>6 DEF AskPanel

LEMMA PanelArrives ==
    ASSUME Base, NEW r \in Requests, PanelStep(r)
    PROVE  ArrivesBy(r)
<1>1. /\ \A pc : Goto(r, pc) => req'[r].pc = pc
      /\ Ends(r) => req'[r].pc = "idle"
      /\ \A local : Becomes(r, local) => req'[r] = local
    BY GoesTo, EndsIdle, OneRequest DEF Base
<1>2. IsLocal(req[r])
    BY DEF Base, Shapes
<1>3. CASE LoginCheck(r) \/ LoginCompare(r) \/ LoginFail(r) \/ LoginReset(r) \/ LoginCreate(r)
    BY <1>1, <1>3
       DEF LoginCheck, LoginCompare, LoginFail, LoginReset, LoginCreate, ArrivesBy
<1>4. CASE Validate(r) \/ Revoke(r)
  <2>1. At(r, "validate") => req[r].next \in {"read", "language"}
      BY <1>2, Kinds DEF At, SettingsLocal, LanguageLocal
  <2>2. req'[r].pc \in {"idle", "read", "language"}
      BY <1>1, <1>4, <2>1 DEF Validate, Revoke
  <2> QED
      BY <2>2 DEF ArrivesBy
<1>5. CASE SettingsRead(r)
  <2>1. At(r, "read") => [req[r] EXCEPT !.pc = "change", !.seen = creds].pc = "change"
      BY <1>2, Kinds DEF At, SettingsLocal
  <2>2. req'[r].pc \in {"idle", "change"}
      BY <1>1, <1>5, <2>1 DEF SettingsRead
  <2> QED
      BY <1>5, <2>2 DEF ArrivesBy
<1>6. CASE SettingsChange(r)
  <2>1. req'[r].pc \in {"idle", "revoke", "route"}
      BY <1>1, <1>6 DEF SettingsChange
  <2> QED
      BY <2>1 DEF ArrivesBy
<1>7. CASE SettingsRoute(r) \/ SetLanguage(r)
  <2>1. req'[r].pc = "truncate"
      BY <1>1, <1>7 DEF SettingsRoute, SetLanguage, Update
  <2> QED
      BY <1>7, <2>1 DEF ArrivesBy
<1>8. CASE LoadLang(r)
  <2>1. req'[r].pc = "swap"
      BY <1>1, <1>8 DEF LoadLang
  <2> QED
      BY <1>8, <2>1 DEF ArrivesBy
<1>9. CASE SwapLang(r) \/ PageShow(r)
    BY <1>1, <1>9 DEF SwapLang, PageShow, ArrivesBy
<1>10. CASE PageBuild(r)
  <2>1. /\ At(r, "build")
        /\ \/ Becomes(r, [req[r] EXCEPT !.pc = "show", !.strings = page.strings])
           \/ Becomes(r, [req[r] EXCEPT !.pc = "finish", !.strings = {langStrings}])
      BY <1>10 DEF PageBuild
  <2>2. /\ [req[r] EXCEPT !.pc = "show", !.strings = page.strings].pc = "show"
        /\ [req[r] EXCEPT !.pc = "finish", !.strings = {langStrings}].pc = "finish"
      BY <1>2, <2>1, Kinds DEF At, PageLocal
  <2>3. req'[r].pc \in {"show", "finish"}
      BY <1>1, <2>1, <2>2
  <2> QED
      BY <1>10, <2>3 DEF ArrivesBy
<1>11. CASE PageFinish(r)
  <2>1. \A pc, strings : At(r, "finish") => [req[r] EXCEPT !.pc = pc, !.strings = strings].pc = pc
      BY <1>2, Kinds DEF At, PageLocal
  <2>2. req'[r].pc = "show"
      BY <1>1, <1>11, <2>1 DEF PageFinish
  <2> QED
      BY <1>11, <2>2 DEF ArrivesBy
<1> QED
    BY <1>3, <1>4, <1>5, <1>6, <1>7, <1>8, <1>9, <1>10, <1>11 DEF PanelStep

LEMMA DispatchArrives ==
    ASSUME Base, NEW r \in Requests, DispatchStep(r)
    PROVE  ArrivesBy(r)
<1>1. /\ \A pc : Goto(r, pc) => req'[r].pc = pc
      /\ Ends(r) => req'[r].pc = "idle"
      /\ \A local : Becomes(r, local) => req'[r] = local
    BY GoesTo, EndsIdle, OneRequest DEF Base
<1>2. IsDispatch(req[r])
  <2>1. req[r].pc \in {"seed", "find", "encrypt", "store", "sent"}
      BY DEF DispatchStep, DispatchSeed, DispatchFind, DispatchEncrypt, DispatchStore,
             DispatchEnd, At
  <2> QED
      BY <2>1, Kinds DEF Base, Shapes
<1>3. /\ \A text : Answer(r, text) => req'[r].pc = "encrypt"
      /\ \A for, text : Sends(r, for, text) => req'[r].pc = "sent"
  <2>1. /\ \A text : [req[r] EXCEPT !.pc = "encrypt", !.text = text].pc = "encrypt"
        /\ \A sent : [req[r] EXCEPT !.pc = "sent", !.sent = sent].pc = "sent"
      BY <1>2 DEF IsDispatch, DispatchLocal
  <2> QED
      BY <1>1, <2>1 DEF Answer, Sends
<1> QED
    BY <1>1, <1>3
       DEF DispatchStep, DispatchSeed, DispatchFind, DispatchEncrypt, DispatchStore,
           DispatchEnd, ArrivesBy

LEMMA UpdateArrives ==
    ASSUME Base, NEW r \in Requests, UpdateStep(r)
    PROVE  ArrivesBy(r) /\ req'[r].pc \in {"idle", "write", "load", "revoke"}
<1>1. /\ \A pc : Goto(r, pc) => req'[r].pc = pc
      /\ Ends(r) => req'[r].pc = "idle"
      /\ \A local : Becomes(r, local) => req'[r] = local
    BY GoesTo, EndsIdle, OneRequest DEF Base
<1>2. req[r] \in RouteUpdate \union LanguageUpdate
  <2>1. req[r].pc \in {"truncate", "write"}
      BY DEF UpdateStep, Truncate, Write, At
  <2> QED
      BY <2>1, Kinds DEF Base, Shapes
<1>3. [req[r].handler EXCEPT !.pc = req[r].next].pc \in {"load", "revoke"}
  <2>1. CASE req[r] \in RouteUpdate
      BY <2>1 DEF RouteUpdate, SettingsLocal
  <2>2. CASE req[r] \in LanguageUpdate
      BY <2>2 DEF LanguageUpdate, LanguageLocal
  <2> QED
      BY <1>2, <2>1, <2>2
<1>4. req'[r].pc \in {"idle", "write", "load", "revoke"}
    BY <1>1, <1>3 DEF UpdateStep, Truncate, Write
<1> QED
    BY <1>4 DEF ArrivesBy

LEMMA Arrivals ==
    ASSUME Base, [Next]_vars, NEW v \in Requests, req'[v] # req[v]
    PROVE  ArrivesBy(v)
<1>1. ASSUME NEW r \in Requests, AskPanel(r) \/ PanelStep(r) \/ DispatchStep(r) \/ UpdateStep(r)
      PROVE  ArrivesBy(v)
  <2>1. r = v
      BY <1>1, OthersStay
  <2>2. CASE AskPanel(r)
      BY <2>1, <2>2, AsksArrive DEF ArrivesBy
  <2> QED
      BY <1>1, <2>1, <2>2, PanelArrives, DispatchArrives, UpdateArrives
<1>2. ASSUME NEW r \in Requests, NEW name \in RegionNames, NEW key \in KeyIds, AskRegion(r, name, key)
      PROVE  ArrivesBy(v)
  <2>1. r = v
      BY <1>2, OthersStay
  <2>2. req'[v].pc = "seed"
      BY <1>2, <2>1, OneRequest DEF AskRegion, Base
  <2> QED
      BY <1>2, <2>1, <2>2 DEF ArrivesBy
<1>3. CASE UNCHANGED req
    BY <1>3
<1>4. CASE ReloadBegins
    BY <1>4, ReloadLocals DEF ReloadBegins, ArrivesBy
<1>5. CASE Kill
    BY <1>5, IdleLocal DEF Kill, ConfigKill, ArrivesBy
<1> QED
    BY <1>1, <1>2, <1>3, <1>4, <1>5
       DEF Next, vars, TimePasses, LockRunsOut, SessionRunsOut, OperatorEdits, Edit, ReloadEnds,
           DispatchAfterReload, Start, ConfigStart

-----------------------------------------------------------------------------
(* The encrypted answers: an entry holds the text it is kept under, for the *)
(* key it is kept under.                                                    *)
EntriesOK ==
    \A entry \in regionRespCache : entry.for = entry.under[1] /\ entry.text = entry.under[2]

LEMMA Sent ==
    ASSUME Base, NEW r \in Requests, IsDispatch(req[r]), NEW for, NEW text, Sends(r, for, text)
    PROVE  /\ req'[r].sent.for = for /\ req'[r].sent.text = text
           /\ req'[r].text = req[r].text /\ req'[r].key = req[r].key
<1> DEFINE sent == [for |-> for, text |-> text]
           local == [req[r] EXCEPT !.pc = "sent", !.sent = sent]
<1>1. req'[r] = local
    BY OneRequest DEF Sends, Base
<1>2. sent.for = for /\ sent.text = text
    OBVIOUS
<1> HIDE DEF sent
<1>3. local.sent = sent /\ local.text = req[r].text /\ local.key = req[r].key
    BY DEF IsDispatch, DispatchLocal
<1> QED
    BY <1>1, <1>2, <1>3

LEMMA EntriesStep ==
    ASSUME Base, [Next]_vars, EntriesOK
    PROVE  EntriesOK'
<1>1. CASE regionRespCache' \subseteq regionRespCache
    BY <1>1 DEF EntriesOK
<1>2. ASSUME NEW r \in Requests,
             regionRespCache' = (regionRespCache \ Hits(r)) \union
                 {[under |-> CacheKey(r), for |-> req[r].key, text |-> req[r].text]}
      PROVE  EntriesOK'
    BY <1>2 DEF EntriesOK, CacheKey
<1>3. ASSUME NEW r \in Requests, DispatchStep(r)
      PROVE  \/ UNCHANGED regionRespCache
             \/ regionRespCache' = (regionRespCache \ Hits(r)) \union
                   {[under |-> CacheKey(r), for |-> req[r].key, text |-> req[r].text]}
    BY <1>3
       DEF DispatchStep, DispatchSeed, DispatchFind, DispatchEncrypt, DispatchStore, DispatchEnd
<1> QED
    BY <1>1, <1>2, <1>3
       DEF Next, vars, AskRegion, UpdateStep, TimePasses, OperatorEdits, ReloadBegins,
           DispatchAtReload, ReloadEnds, DispatchAfterReload, Kill, DispatchKill, Start

LEMMA SentStep ==
    ASSUME Base, [Next]_vars, EntriesOK, EncryptedForAsker
    PROVE  EncryptedForAsker'
<1> SUFFICES ASSUME NEW v \in Requests, req'[v].pc = "sent"
             PROVE  req'[v].sent.text = req'[v].text /\ req'[v].sent.for \in {req'[v].key, None}
    BY DEF EncryptedForAsker, At
<1>1. CASE req'[v] = req[v]
    BY <1>1 DEF EncryptedForAsker, At
<1>2. CASE req'[v] # req[v]
  <2>1. DispatchEncrypt(v) \/ DispatchStore(v)
      BY <1>2, Arrivals DEF ArrivesBy
  <2>2. IsDispatch(req[v])
      BY <2>1, Kinds DEF DispatchEncrypt, DispatchStore, At, Base, Shapes
  <2>3. CASE Sends(v, None, req[v].text) \/ Sends(v, req[v].key, req[v].text)
      BY <2>2, <2>3, Sent
  <2>4. ASSUME NEW entry \in Hits(v), Sends(v, entry.for, entry.text)
        PROVE  req'[v].sent.text = req'[v].text /\ req'[v].sent.for \in {req'[v].key, None}
    <3>1. entry.for = req[v].key /\ entry.text = req[v].text
        BY <2>4 DEF Hits, CacheKey, EntriesOK
    <3> QED
        BY <2>2, <2>4, <3>1, Sent
  <2>5. ~Goto(v, "store")
      BY GoesTo
  <2> QED
      BY <2>1, <2>3, <2>4, <2>5 DEF DispatchEncrypt, DispatchStore
<1> QED
    BY <1>1, <1>2

(* What a client gets is the answer to its own request, in the clear or     *)
(* encrypted for its own key, for any number of clients, keys and regions   *)
(* and however reloads clear the cache in between (crypto.go:129-169).      *)
THEOREM AnswersAreTheirOwn == Spec => []EncryptedForAsker
<1> DEFINE I == Base /\ EntriesOK /\ EncryptedForAsker
<1>1. Init => I
    BY InitBase, IdleLocal DEF Init, ConfigInit, DispatchInit, EntriesOK, EncryptedForAsker, At
<1>2. I /\ [Next]_vars => I'
    BY NextBase, EntriesStep, SentStep
<1>3. I => EncryptedForAsker
    OBVIOUS
<1> QED
    BY <1>1, <1>2, <1>3, PTL DEF Spec

-----------------------------------------------------------------------------
(* The credentials: without an overlap at most one request is between its   *)
(* read and its write, and the row is as it read it.                        *)
ChangesOK ==
    ~overlapped =>
        /\ creds = wanted
        /\ \A r \in Requests : Changing(r) => req[r].seen = creds
        /\ \A r, other \in Requests : Changing(r) /\ Changing(other) => r = other

LEMMA ChangesStep ==
    ASSUME Base, [Next]_vars, ChangesOK
    PROVE  ChangesOK'
<1>1. ASSUME NEW r \in Requests, SettingsRead(r)
      PROVE  ChangesOK'
  <2>1. AskPanel(r) \/ PanelStep(r) \/ DispatchStep(r) \/ UpdateStep(r)
      BY <1>1 DEF PanelStep
  <2>2. \A v \in Requests : v # r => req'[v] = req[v]
      BY <2>1, OthersStay
  <2>3. UNCHANGED <<creds, wanted>>
      BY <1>1 DEF SettingsRead
  <2>4. CASE Ends(r) /\ UNCHANGED overlapped
    <3>1. ~Changing(r)'
        BY <2>4, EndsIdle DEF Changing, At
    <3> QED
        BY <2>2, <2>3, <2>4, <3>1 DEF ChangesOK, Changing, At
  <2>5. CASE /\ Becomes(r, [req[r] EXCEPT !.pc = "change", !.seen = creds])
             /\ overlapped' = (overlapped \/ \E other \in Requests : Changing(other))
    <3>1. req[r] \in SettingsLocal
        BY <1>1, Kinds DEF SettingsRead, At, Base, Shapes
    <3>2. [req[r] EXCEPT !.pc = "change", !.seen = creds].seen = creds
        BY <3>1 DEF SettingsLocal
    <3>3. req'[r].seen = creds
        BY <2>5, <3>2, OneRequest DEF Base
    <3> QED
        BY <2>2, <2>3, <2>5, <3>3 DEF ChangesOK, Changing, At
  <2> QED
      BY <1>1, <2>4, <2>5 DEF SettingsRead
<1>2. ASSUME NEW r \in Requests, SettingsChange(r)
      PROVE  ChangesOK'
  <2>1. AskPanel(r) \/ PanelStep(r) \/ DispatchStep(r) \/ UpdateStep(r)
      BY <1>2 DEF PanelStep
  <2>2. \A v \in Requests : v # r => req'[v] = req[v]
      BY <2>1, OthersStay
  <2>3. Changing(r) /\ ~Changing(r)' /\ UNCHANGED overlapped
    <3>1. Changing(r) /\ UNCHANGED overlapped
        BY <1>2 DEF SettingsChange, Changing
    <3>2. req'[r].pc \in {"idle", "revoke", "route"}
        BY <1>2, EndsIdle, GoesTo DEF SettingsChange
    <3> QED
        BY <3>1, <3>2 DEF Changing, At
  <2>4. \A v \in Requests : Changing(v)' => Changing(v) /\ v # r
      BY <2>2, <2>3 DEF Changing, At
  <2>5. ASSUME ~overlapped
        PROVE  creds' = wanted' /\ \A v \in Requests : ~Changing(v)'
    <3>1. creds = wanted /\ req[r].seen = creds /\ \A v \in Requests : Changing(v) => v = r
        BY <2>3, <2>5 DEF ChangesOK
    <3>2. creds' = wanted'
        BY <1>2, <3>1 DEF SettingsChange, Applied
    <3> QED
        BY <2>4, <3>1, <3>2
  <2> QED
      BY <2>3, <2>5 DEF ChangesOK
<1>3. CASE ~\E r \in Requests : SettingsRead(r) \/ SettingsChange(r)
  <2>1. UNCHANGED <<creds, wanted, overlapped>>
      BY <1>3
         DEF Next, vars, panelVars, loginVars, AskPanel, AskLogin, AskLogout, AskSettings,
             AskSetLang, AskPage, Asks, PanelStep, Validate, LoginCheck, LoginCompare,
             LoginFail, LoginReset, LoginCreate, SettingsRoute, Revoke, SetLanguage, LoadLang,
             SwapLang, PageBuild, PageFinish, PageShow, UpdateStep, PanelAfterUpdate,
             TimePasses, LockRunsOut, SessionRunsOut, OperatorEdits, ReloadBegins, ReloadEnds,
             PanelAfterReload, Kill, PanelKill, Start, PanelStart
  <2>2. \A v \in Requests : Changing(v)' => req'[v] = req[v]
      BY <1>3, Arrivals DEF ArrivesBy, Changing, At
  <2> QED
      BY <2>1, <2>2 DEF ChangesOK, Changing, At
<1> QED
    BY <1>1, <1>2, <1>3

(* No change of the credentials is lost, for any number of administrators,  *)
(* unless two of them overlap (server.go:460-491): the session that ends,   *)
(* the route that is not written and the kill cost nothing.                 *)
THEOREM ChangesAreKept == Spec => []ChangesStick
<1> DEFINE I == Base /\ ChangesOK
<1>1. Init => I
    BY InitBase, IdleLocal DEF Init, ConfigInit, PanelInit, ChangesOK, Changing, At
<1>2. I /\ [Next]_vars => I'
    BY NextBase, ChangesStep
<1>3. I => ChangesStick
    BY DEF ChangesOK, ChangesStick
<1> QED
    BY <1>1, <1>2, <1>3, PTL DEF Spec

-----------------------------------------------------------------------------
(* The passwords tried: before the lock is set each is counted or about to  *)
(* be; after it, those being compared are all that can be added.            *)
Failing == {r \in Requests : At(r, "fail")}
Comparing == {r \in Requests : At(r, "compare")}
GuessOK ==
    /\ adminLockout = "none" => guesses <= adminFails + Cardinality(Failing)
    /\ adminLockout # "none" =>
           guesses + Cardinality(Comparing) <= AdminMaxFails - 1 + Cardinality(Requests)

LEMMA Counts ==
    /\ IsFiniteSet(Requests) /\ Cardinality(Requests) \in Nat
    /\ \A S \in SUBSET Requests :
           /\ IsFiniteSet(S) /\ Cardinality(S) \in Nat /\ Cardinality(S) <= Cardinality(Requests)
           /\ \A r \in S : Cardinality(S \ {r}) = Cardinality(S) - 1
           /\ \A r \in Requests \ S : Cardinality(S \union {r}) = Cardinality(S) + 1
           /\ \A T \in SUBSET S : Cardinality(T) <= Cardinality(S)
           /\ \A T \in SUBSET Requests :
                  S \intersect T = {} => Cardinality(S) + Cardinality(T) <= Cardinality(Requests)
<1>1. IsFiniteSet(Requests) /\ Cardinality(Requests) \in Nat
    BY PanelAssumption, FS_CardinalityType
<1>2. ASSUME NEW S \in SUBSET Requests
      PROVE  IsFiniteSet(S) /\ Cardinality(S) \in Nat /\ Cardinality(S) <= Cardinality(Requests)
    BY <1>1, FS_Subset, FS_CardinalityType
<1>3. ASSUME NEW S \in SUBSET Requests, NEW r \in S
      PROVE  Cardinality(S \ {r}) = Cardinality(S) - 1
    BY <1>2, FS_RemoveElement
<1>4. ASSUME NEW S \in SUBSET Requests, NEW r \in Requests \ S
      PROVE  Cardinality(S \union {r}) = Cardinality(S) + 1
    BY <1>2, FS_AddElement
<1>5. ASSUME NEW S \in SUBSET Requests, NEW T \in SUBSET S
      PROVE  Cardinality(T) <= Cardinality(S)
    BY <1>2, FS_Subset
<1>6. ASSUME NEW S \in SUBSET Requests, NEW T \in SUBSET Requests, S \intersect T = {}
      PROVE  Cardinality(S) + Cardinality(T) <= Cardinality(Requests)
  <2>1. S \union T \in SUBSET Requests
      OBVIOUS
  <2>2. Cardinality(S \union T) = Cardinality(S) + Cardinality(T) - Cardinality(S \intersect T)
      BY <1>2, FS_Union
  <2>3. Cardinality(S \intersect T) = 0
      BY <1>6, FS_EmptySet
  <2> QED
      BY <1>2, <2>1, <2>2, <2>3
<1> QED
    BY <1>1, <1>2, <1>3, <1>4, <1>5, <1>6

LEMMA GuessStep ==
    ASSUME Base, [Next]_vars, GuessOK
    PROVE  GuessOK'
<1>1. /\ Failing \in SUBSET Requests /\ Comparing \in SUBSET Requests
      /\ Failing' \in SUBSET Requests /\ Comparing' \in SUBSET Requests
      /\ Failing \intersect Comparing = {}
    BY DEF Failing, Comparing, At
<1>2. /\ Cardinality(Failing) \in Nat /\ Cardinality(Comparing) \in Nat
      /\ Cardinality(Failing') \in Nat /\ Cardinality(Comparing') \in Nat
      /\ Cardinality(Requests) \in Nat
      /\ Cardinality(Failing) + Cardinality(Comparing) <= Cardinality(Requests)
      /\ Cardinality(Comparing') <= Cardinality(Requests)
    BY <1>1, Counts
<1>3. /\ guesses \in Nat /\ adminFails \in 0 .. AdminMaxFails - 1 /\ AdminMaxFails \in Nat \ {0}
      /\ adminFails \in Nat
    BY PanelTypes
<1>4. ASSUME NEW r \in Requests,
             LoginCheck(r) \/ LoginCompare(r) \/ LoginFail(r) \/ LoginReset(r)
      PROVE  \A v \in Requests : v # r => req'[v] = req[v]
    BY <1>4, OthersStay DEF PanelStep
<1>5. ASSUME NEW r \in Requests, LoginCheck(r)
      PROVE  GuessOK'
  <2>1. At(r, "check") /\ req'[r].pc \in {"idle", "compare"}
      BY <1>5, GoesTo, EndsIdle DEF LoginCheck
  <2>2. Failing' = Failing
      BY <1>4, <1>5, <2>1 DEF Failing, At
  <2>3. CASE adminLockout = "over"
      BY <1>2, <1>5, <2>3 DEF LoginCheck, GuessOK
  <2>4. CASE adminLockout = "on"
    <3>1. req'[r].pc = "idle"
        BY <1>5, <2>4, EndsIdle DEF LoginCheck
    <3>2. Comparing' = Comparing
        BY <1>4, <1>5, <2>1, <3>1 DEF Comparing, At
    <3> QED
        BY <1>5, <2>4, <3>2 DEF LoginCheck, GuessOK
  <2>5. CASE adminLockout = "none"
      BY <1>5, <2>2, <2>5 DEF LoginCheck, GuessOK
  <2> QED
      BY <2>3, <2>4, <2>5, PanelTypes
<1>6. ASSUME NEW r \in Requests, LoginCompare(r)
      PROVE  GuessOK'
  <2>1. At(r, "compare") /\ UNCHANGED <<adminFails, adminLockout>>
      BY <1>6 DEF LoginCompare
  <2>2. /\ req'[r].pc \in {"idle", "reset", "fail"}
        /\ guesses' = IF req'[r].pc = "fail" THEN guesses + 1 ELSE guesses
      BY <1>6, GoesTo, EndsIdle DEF LoginCompare
  <2>3. Comparing' = Comparing \ {r} /\ r \in Comparing
      BY <1>4, <1>6, <2>1, <2>2 DEF Comparing, At
  <2>4. Cardinality(Comparing') = Cardinality(Comparing) - 1
      BY <1>1, <2>3, Counts
  <2>5. CASE req'[r].pc = "fail"
    <3>1. Failing' = Failing \union {r} /\ r \in Requests \ Failing
        BY <1>4, <1>6, <2>1, <2>5 DEF Failing, At
    <3>2. Cardinality(Failing') = Cardinality(Failing) + 1
        BY <1>1, <3>1, Counts
    <3> QED
        BY <1>2, <1>3, <2>1, <2>2, <2>4, <2>5, <3>2 DEF GuessOK
  <2>6. CASE req'[r].pc # "fail"
    <3>1. Failing' = Failing
        BY <1>4, <1>6, <2>1, <2>6 DEF Failing, At
    <3> QED
        BY <1>2, <1>3, <2>1, <2>2, <2>4, <2>6, <3>1 DEF GuessOK
  <2> QED
      BY <2>5, <2>6
<1>7. ASSUME NEW r \in Requests, LoginFail(r)
      PROVE  GuessOK'
  <2>1. At(r, "fail") /\ req'[r].pc = "idle" /\ UNCHANGED guesses
      BY <1>7, EndsIdle DEF LoginFail
  <2>2. Failing' = Failing \ {r} /\ r \in Failing /\ Comparing' = Comparing
      BY <1>4, <1>7, <2>1 DEF Failing, Comparing, At
  <2>3. Cardinality(Failing') = Cardinality(Failing) - 1
      BY <1>1, <2>2, Counts
  <2>4. CASE adminFails + 1 >= AdminMaxFails
    <3>1. adminLockout' = "on"
        BY <1>7, <2>4 DEF LoginFail
    <3> QED
        BY <1>2, <1>3, <2>1, <2>2, <3>1 DEF GuessOK
  <2>5. CASE ~(adminFails + 1 >= AdminMaxFails)
    <3>1. adminFails' = adminFails + 1 /\ UNCHANGED adminLockout
        BY <1>7, <2>5 DEF LoginFail
    <3> QED
        BY <1>2, <1>3, <2>1, <2>2, <2>3, <3>1 DEF GuessOK
  <2> QED
      BY <2>4, <2>5
<1>8. ASSUME NEW r \in Requests, LoginReset(r)
      PROVE  GuessOK'
  <2>1. guesses' = 0 /\ adminFails' = 0
      BY <1>8 DEF LoginReset
  <2> QED
      BY <1>2, <1>3, <2>1 DEF GuessOK
<1>9. CASE Kill
    BY <1>2, <1>9 DEF Kill, PanelKill, GuessOK
<1>10. CASE TimePasses
  <2>1. /\ UNCHANGED <<req, guesses, adminFails>>
        /\ adminLockout # "none" <=> adminLockout' # "none"
      BY <1>10 DEF TimePasses, LockRunsOut, SessionRunsOut
  <2>2. Failing' = Failing /\ Comparing' = Comparing
      BY <2>1 DEF Failing, Comparing, At
  <2> QED
      BY <2>1, <2>2 DEF GuessOK
<1>11. CASE /\ UNCHANGED <<guesses, adminFails, adminLockout>>
            /\ \A v \in Requests : /\ At(v, "compare")' => At(v, "compare")
                                   /\ At(v, "fail") <=> At(v, "fail")'
  <2>1. Failing' = Failing /\ Comparing' \subseteq Comparing
      BY <1>11 DEF Failing, Comparing
  <2>2. Cardinality(Comparing') <= Cardinality(Comparing)
      BY <1>1, <2>1, Counts
  <2> QED
      BY <1>2, <1>3, <1>11, <2>1, <2>2 DEF GuessOK
<1>12. CASE ~ \/ Kill
              \/ TimePasses
              \/ \E r \in Requests : LoginCheck(r) \/ LoginCompare(r) \/ LoginFail(r) \/ LoginReset(r)
  <2>1. UNCHANGED <<guesses, adminFails, adminLockout>>
      BY <1>12
         DEF Next, vars, panelVars, loginVars, AskPanel, AskLogin, AskLogout, AskSettings,
             AskSetLang, AskPage, Asks, PanelStep, Validate, LoginCreate, SettingsRead,
             SettingsChange, SettingsRoute, Revoke, SetLanguage, LoadLang, SwapLang, PageBuild,
             PageFinish, PageShow, UpdateStep, PanelAfterUpdate, OperatorEdits, ReloadBegins,
             ReloadEnds, PanelAfterReload, Start, PanelStart
  <2>2. \A v \in Requests : /\ At(v, "compare")' => At(v, "compare")
                            /\ At(v, "fail")' => At(v, "fail")
      BY <1>12, Arrivals DEF ArrivesBy, At
  <2>3. ASSUME NEW v \in Requests, At(v, "fail"), req'[v] # req[v]
        PROVE  FALSE
    <3>1. ASSUME NEW r \in Requests,
                 AskPanel(r) \/ PanelStep(r) \/ DispatchStep(r) \/ UpdateStep(r)
          PROVE  FALSE
      <4>1. r = v
          BY <2>3, <3>1, OthersStay
      <4>2. ~AskPanel(r)
        <5>1. AskPanel(r) => req[r] = Idle
            BY DEF AskPanel, AskLogin, AskLogout, AskSettings, AskSetLang, AskPage, Asks
        <5> QED
            BY <2>3, <4>1, <5>1, IdleLocal DEF At
      <4>3. ~DispatchStep(r) /\ ~UpdateStep(r)
          BY <2>3, <4>1 DEF DispatchStep, DispatchSeed, DispatchFind, DispatchEncrypt,
                            DispatchStore, DispatchEnd, UpdateStep, Truncate, Write, At
      <4>4. ~PanelStep(r)
        <5>1. ~(LoginCheck(r) \/ LoginCompare(r) \/ LoginFail(r) \/ LoginReset(r))
            BY <1>12
        <5>2. req[r].pc = "fail"
            BY <2>3, <4>1 DEF At
        <5>3. ~ \/ Validate(r) \/ LoginCreate(r) \/ Revoke(r)
                \/ SettingsRead(r) \/ SettingsChange(r) \/ SettingsRoute(r)
            BY <5>2 DEF At, Validate, LoginCreate, SettingsRead, SettingsChange,
                        SettingsRoute, Revoke
        <5>4. ~ \/ SetLanguage(r) \/ LoadLang(r) \/ SwapLang(r)
                \/ PageBuild(r) \/ PageFinish(r) \/ PageShow(r)
            BY <5>2 DEF At, SetLanguage, LoadLang, SwapLang, PageBuild, PageFinish, PageShow
        <5> QED
            BY <5>1, <5>3, <5>4 DEF PanelStep
      <4> QED
          BY <3>1, <4>2, <4>3, <4>4
    <3>2. ASSUME NEW r \in Requests, NEW name \in RegionNames, NEW key \in KeyIds,
                 AskRegion(r, name, key)
          PROVE  FALSE
      <4>1. r = v
          BY <2>3, <3>2, OthersStay
      <4>2. req[r] = Idle
          BY <3>2 DEF AskRegion
      <4> QED
          BY <2>3, <4>1, <4>2, IdleLocal DEF At
    <3>3. CASE ReloadBegins
        BY <2>3, <3>3, ReloadLocals DEF ReloadBegins, At
    <3>4. CASE UNCHANGED vars \/ OperatorEdits \/ ReloadEnds \/ Start
        BY <2>3, <3>4
           DEF vars, OperatorEdits, Edit, ReloadEnds, DispatchAfterReload, Start, ConfigStart
    <3> QED
        BY <1>12, <3>1, <3>2, <3>3, <3>4 DEF Next
  <2>4. \A v \in Requests : At(v, "fail") => At(v, "fail")'
      BY <2>3 DEF At
  <2> QED
      BY <1>11, <2>1, <2>2, <2>4
<1> QED
    BY <1>5, <1>6, <1>7, <1>8, <1>9, <1>10, <1>12

(* Fewer than AdminMaxFails passwords beyond one for each login in progress *)
(* are compared in vain between two resets of the count, for any number of  *)
(* requests: check, comparison and count are separate steps                 *)
(* (server.go:406, database.go:531-543), and no interleaving does worse.    *)
THEOREM GuessesAreFew == Spec => []GuessesBounded
<1> DEFINE I == Base /\ GuessOK
<1>1. Init => I
  <2>1. ASSUME Init
        PROVE  GuessOK
    <3>1. adminLockout = "none" /\ guesses = 0 /\ adminFails = 0
        BY <2>1 DEF Init, PanelInit
    <3>2. Cardinality(Failing) \in Nat
        BY Counts DEF Failing
    <3> QED
        BY <3>1, <3>2 DEF GuessOK
  <2> QED
      BY <2>1, InitBase
<1>2. I /\ [Next]_vars => I'
    BY NextBase, GuessStep
<1>3. I => GuessesBounded
  <2>1. ASSUME Base, GuessOK
        PROVE  GuessesBounded
    <3>1. /\ Cardinality(Failing) \in Nat /\ Cardinality(Comparing) \in Nat
          /\ Cardinality(Requests) \in Nat /\ Cardinality(Failing) <= Cardinality(Requests)
        BY Counts DEF Failing, Comparing
    <3>2. /\ guesses \in Nat /\ adminFails \in 0 .. AdminMaxFails - 1
          /\ AdminMaxFails \in Nat \ {0}
        BY <2>1, PanelTypes
    <3> QED
        BY <2>1, <3>1, <3>2 DEF GuessOK, GuessesBounded
  <2> QED
      BY <2>1
<1> QED
    BY <1>1, <1>2, <1>3, PTL DEF Spec

-----------------------------------------------------------------------------
(* The file and the configuration.  The fields of a document of which none  *)
(* is missing replace those of any configuration it is decoded over.        *)
LEMMA CompleteDocument ==
    ASSUME NEW d \in Document, Given(d, "language"), Given(d, "route"), Given(d, "rest"),
           Given(d, "regions"), \A i \in 1 .. Len(d.regions) : d.regions[i] \in Entry,
           NEW c, NEW s
    PROVE  /\ Overlaid(c, d) = [language |-> d.language, route |-> d.route, rest |-> d.rest,
                                count |-> Len(d.regions)]
           /\ \A i \in 1 .. Len(d.regions) : Decoded(s, d)[i] = d.regions[i]
<1>1. d.regions \in Regions
    BY DEF Document, Given
<1>2. PICK n \in 1 .. Capacity : d.regions \in [1 .. n -> FileEntry]
    BY <1>1 DEF Regions
<1>3. Len(d.regions) = n /\ Capacity \in Nat
    BY <1>2, ConstantsAssumption
<1>4. Overlaid(c, d) = [language |-> d.language, route |-> d.route, rest |-> d.rest,
                        count |-> Len(d.regions)]
    BY DEF Overlaid
<1>5. ASSUME NEW i \in 1 .. Len(d.regions)
      PROVE  Decoded(s, d)[i] = d.regions[i]
  <2>1. Decoded(s, d)[i] = Merged(s[i], d.regions[i])
      BY <1>3 DEF Decoded
  <2>2. \A e, given : given \in Entry => Merged(e, given) = given
      BY ConstantsAssumption DEF Merged, Entry
  <2> QED
      BY <2>1, <2>2
<1> QED
    BY <1>4, <1>5

LEMMA Fields ==
    ASSUME NEW d \in Document, Complete(d)
    PROVE  /\ Given(d, "language") /\ Given(d, "route") /\ Given(d, "rest") /\ Given(d, "regions")
           /\ \A i \in 1 .. Len(d.regions) : d.regions[i] \in Entry
<1>1. Given(d, "language") /\ Given(d, "route") /\ Given(d, "rest") /\ Given(d, "regions")
    BY DEF Complete, Document
<1>2. PICK n \in 1 .. Capacity : d.regions \in [1 .. n -> FileEntry]
    BY <1>1 DEF Document, Given, Regions
<1>3. DOMAIN d.regions = 1 .. Len(d.regions)
    BY <1>2, ConstantsAssumption
<1> QED
    BY <1>1, <1>3 DEF Complete

LEMMA MarshalledFields ==
    ASSUME NEW c \in Configs, NEW s, \A i \in 1 .. c.count : s[i] \in Entry
    PROVE  LET d == Marshalled(c, s)
           IN  /\ d \in Document /\ d # Corrupt
               /\ Given(d, "language") /\ Given(d, "route") /\ Given(d, "rest") /\ Given(d, "regions")
               /\ d.language = c.language /\ d.route = c.route /\ d.rest = c.rest
               /\ Len(d.regions) = c.count
               /\ \A i \in 1 .. c.count : d.regions[i] = s[i]
               /\ \A i \in 1 .. Len(d.regions) : d.regions[i] \in Entry
<1> DEFINE d == Marshalled(c, s)
<1>1. d \in Document
    BY MarshalledDocument
<1>2. /\ d.language = c.language /\ d.route = c.route /\ d.rest = c.rest
      /\ d.regions = [i \in 1 .. c.count |-> s[i]]
    BY DEF Marshalled
<1>3. c.count \in 1 .. Capacity /\ Capacity \in Nat
    BY ConstantsAssumption DEF Configs
<1>4. d.regions \in [1 .. c.count -> FileEntry]
    BY <1>2 DEF Entry, FileEntry
<1>5. d.regions \in Regions
    BY <1>3, <1>4 DEF Regions
<1>6. Len(d.regions) = c.count /\ \A i \in 1 .. c.count : d.regions[i] = s[i]
    BY <1>2, <1>3, <1>4
<1>7. c.language \in Languages /\ c.route \in Routes /\ c.rest \in Rests
    BY DEF Configs
<1> HIDE DEF d
<1>8. Given(d, "language") /\ Given(d, "route") /\ Given(d, "rest") /\ Given(d, "regions")
  <2>1. ASSUME NEW x \in Languages \union Routes \union Rests \union Regions
        PROVE  x \notin {Absent, Bad}
      BY ConstantsAssumption
  <2>2. d.language = c.language /\ d.route = c.route /\ d.rest = c.rest
      BY <1>2
  <2> HIDE DEF Regions
  <2> QED
      BY <1>5, <1>7, <2>1, <2>2 DEF Given
<1>9. d # Corrupt
    BY <1>1, ConstantsAssumption
<1> QED
    BY <1>1, <1>2, <1>6, <1>8, <1>9 DEF d

(* What the file holds is what the process has, whatever a start adds.      *)
Matches(d, c, s) ==
    /\ d # Corrupt /\ LoadedConfig(d) = c
    /\ \A i \in 1 .. c.count : LoadedSlots(d)[i] = s[i]

LEMMA MarshalledMatches ==
    ASSUME NEW c \in Configs, NEW s, \A i \in 1 .. c.count : s[i] \in Entry
    PROVE  Matches(Marshalled(c, s), c, s)
<1> DEFINE d == Marshalled(c, s)
<1>1. /\ d \in Document /\ d # Corrupt
      /\ Given(d, "language") /\ Given(d, "route") /\ Given(d, "rest") /\ Given(d, "regions")
      /\ d.language = c.language /\ d.route = c.route /\ d.rest = c.rest
      /\ Len(d.regions) = c.count
      /\ \A i \in 1 .. c.count : d.regions[i] = s[i]
      /\ \A i \in 1 .. Len(d.regions) : d.regions[i] \in Entry
    BY MarshalledFields
<1> HIDE DEF d
<1>2. LoadedConfig(d) = [language |-> c.language, route |-> c.route, rest |-> c.rest,
                         count |-> c.count]
    BY <1>1, CompleteDocument DEF LoadedConfig
<1>3. c = [language |-> c.language, route |-> c.route, rest |-> c.rest, count |-> c.count]
    BY DEF Configs
<1>4. \A i \in 1 .. c.count : LoadedSlots(d)[i] = s[i]
    BY <1>1, CompleteDocument DEF LoadedSlots
<1>5. Matches(d, c, s)
    BY <1>1, <1>2, <1>3, <1>4 DEF Matches
<1> QED
    BY <1>5 DEF d

LEMMA ReloadMatches ==
    ASSUME NEW d \in Document, Complete(d), NEW c, NEW s
    PROVE  Matches(d, Overlaid(c, d), Decoded(s, d))
<1>1. /\ Given(d, "language") /\ Given(d, "route") /\ Given(d, "rest") /\ Given(d, "regions")
      /\ \A i \in 1 .. Len(d.regions) : d.regions[i] \in Entry
    BY Fields
<1>2. Overlaid(c, d) = LoadedConfig(d) /\ Overlaid(c, d).count = Len(d.regions)
  <2> DEFINE loaded == [language |-> d.language, route |-> d.route, rest |-> d.rest,
                        count |-> Len(d.regions)]
  <2>1. Overlaid(c, d) = loaded /\ Overlaid(DefaultConfig, d) = loaded
      BY <1>1, CompleteDocument
  <2>2. loaded.count = Len(d.regions)
      OBVIOUS
  <2> HIDE DEF loaded
  <2> QED
      BY <2>1, <2>2 DEF LoadedConfig
<1>3. \A i \in 1 .. Len(d.regions) : LoadedSlots(d)[i] = Decoded(s, d)[i]
    BY <1>1, CompleteDocument DEF LoadedSlots
<1>4. d # Corrupt
    BY ConstantsAssumption
<1> QED
    BY <1>2, <1>3, <1>4 DEF Matches

RestartOK ==
    /\ owner \in Requests => diverged
    /\ \A r \in Requests : req[r].pc \in {"truncate", "write"} => req[r].data = Marshalled(cfg, slots)
    /\ up /\ ~diverged => Matches(file, cfg, slots)

LEMMA RestartStep ==
    ASSUME Base, [Next]_vars, RestartOK
    PROVE  RestartOK'
<1>1. /\ owner \in Requests \union {Free, Reload}
      /\ \A v \in Requests : owner = v <=> req[v].pc \in {"truncate", "write"}
    BY DEF Base, TypeOK, ConfigTypeOK
<1>2. ASSUME NEW r \in Requests, SettingsRoute(r) \/ SetLanguage(r)
      PROVE  RestartOK'
  <2>1. PICK field, value, next : Update(r, field, value, next)
      BY <1>2 DEF SettingsRoute, SetLanguage
  <2> DEFINE local == [pc |-> "truncate", handler |-> req[r], next |-> next,
                       data |-> Marshalled(cfg', slots)]
  <2>2. /\ owner = Free /\ owner' = r /\ diverged' = TRUE /\ slots' = slots
        /\ Becomes(r, local)
      BY <2>1 DEF Update
  <2>3. Marshalled(cfg', slots) = Marshalled(cfg, slots)'
      BY <2>2 DEF Marshalled
  <2>4. local.data = Marshalled(cfg, slots)'
      BY <2>3
  <2> HIDE DEF local
  <2>5. req'[r].data = Marshalled(cfg, slots)' /\ \A v \in Requests : v # r => req'[v] = req[v]
      BY <2>2, <2>4, OneRequest DEF Base
  <2> QED
      BY <1>1, <2>2, <2>5, NoRequest DEF RestartOK
<1>3. ASSUME NEW r \in Requests, UpdateStep(r)
      PROVE  RestartOK'
  <2>1. /\ req[r].pc \in {"truncate", "write"} /\ UNCHANGED <<cfg, slots>>
        /\ \A v \in Requests : v # r => req'[v] = req[v]
      BY <1>3, OthersStay DEF UpdateStep, Truncate, Write, At
  <2>2. diverged /\ owner = r /\ req[r].data = Marshalled(cfg, slots)
      BY <1>1, <2>1 DEF RestartOK
  <2>3. \/ diverged' = diverged
        \/ diverged' = FALSE /\ owner' = Free /\ file' = req[r].data
      BY <1>3, <2>2 DEF UpdateStep, Truncate, Write, Unlocked
  <2>4. owner' \in {r, Free} /\ (owner' = r => diverged' = diverged)
      BY <1>3, <2>2, NoRequest DEF UpdateStep, Truncate, Write, Unlocked
  <2>5. /\ Marshalled(cfg, slots)' = Marshalled(cfg, slots)
        /\ Matches(file, cfg, slots)' = Matches(file', cfg, slots)
      BY <2>1 DEF Marshalled, Matches, LoadedConfig, LoadedSlots
  <2>6. Matches(Marshalled(cfg, slots), cfg, slots)
      BY MarshalledMatches, SlotsGiven DEF Base, TypeOK, ConfigTypeOK, Configs
  <2>7. req'[r].pc \in {"truncate", "write"} => req'[r].data = req[r].data
    <3>1. CASE Goto(r, "write")
      <4>1. req[r] \in RouteUpdate \union LanguageUpdate
          BY <2>1, Kinds DEF Base, Shapes
      <4>2. [req[r] EXCEPT !.pc = "write"].data = req[r].data
          BY <4>1 DEF RouteUpdate, LanguageUpdate
      <4> QED
          BY <3>1, <4>2, GotoBecomes, OneRequest DEF Base
    <3>2. CASE ~Goto(r, "write")
      <4>1. req'[r].pc \in {"idle", "load", "revoke"}
        <5>1. CASE Ends(r)
            BY <5>1, EndsIdle
        <5>2. CASE Becomes(r, [req[r].handler EXCEPT !.pc = req[r].next])
          <6>1. req[r] \in RouteUpdate \union LanguageUpdate
              BY <2>1, Kinds DEF Base, Shapes
          <6>2. [req[r].handler EXCEPT !.pc = req[r].next].pc \in {"load", "revoke"}
            <7>1. CASE req[r] \in RouteUpdate
                BY <7>1 DEF RouteUpdate, SettingsLocal
            <7>2. CASE req[r] \in LanguageUpdate
                BY <7>2 DEF LanguageUpdate, LanguageLocal
            <7> QED
                BY <6>1, <7>1, <7>2
          <6> QED
              BY <5>2, <6>2, OneRequest DEF Base
        <5> QED
            BY <1>3, <3>2, <5>1, <5>2 DEF UpdateStep, Truncate, Write
      <4> QED
          BY <4>1
    <3> QED
        BY <3>1, <3>2
  <2>8. (up /\ ~diverged => Matches(file, cfg, slots))'
      BY <2>2, <2>3, <2>5, <2>6
  <2>9. (owner \in Requests => diverged)'
      BY <2>2, <2>4, NoRequest
  <2>10. ASSUME NEW v \in Requests, req'[v].pc \in {"truncate", "write"}
         PROVE  req'[v].data = Marshalled(cfg, slots)'
      BY <2>1, <2>2, <2>5, <2>7, <2>10 DEF RestartOK
  <2> QED
      BY <2>8, <2>9, <2>10 DEF RestartOK
<1>4. CASE OperatorEdits
  <2>1. UNCHANGED <<cfg, slots, owner, req>> /\ diverged' = TRUE
      BY <1>4 DEF OperatorEdits, Edit
  <2> QED
      BY <2>1 DEF RestartOK, Marshalled
<1>5. CASE ReloadBegins
  <2>1. owner' = Reload /\ UNCHANGED <<up, cfg, slots, file, diverged>>
      BY <1>5 DEF ReloadBegins, ReloadBegin
  <2>2. \A v \in Requests : req[v].pc \in {"truncate", "write"} => req'[v] = req[v]
      BY <1>5, ReloadLocals DEF ReloadBegins
  <2>3. \A v \in Requests : req'[v].pc = req[v].pc
      BY <1>5, ReloadLocals DEF ReloadBegins
  <2> QED
      BY <2>1, <2>2, <2>3, NoRequest DEF RestartOK, Marshalled, Matches, LoadedConfig, LoadedSlots
<1>6. CASE ReloadEnds
  <2>1. /\ owner = Reload /\ owner' = Free /\ UNCHANGED <<file, req>>
        /\ cfg' = Overlaid(cfg, decoding) /\ slots' = Decoded(slots, decoding)
        /\ diverged' = (file # decoding \/ ~Complete(decoding))
      BY <1>6 DEF ReloadEnds, ReloadEnd, DispatchAfterReload
  <2>2. \A v \in Requests : req[v].pc \notin {"truncate", "write"}
      BY <1>1, <2>1, NoRequest
  <2>3. ~diverged' => Matches(file, Overlaid(cfg, file), Decoded(slots, file))
      BY <2>1, ReloadMatches DEF Base, Shapes
  <2>4. Matches(file, cfg, slots)' = Matches(file, cfg', slots')
      BY <2>1 DEF Matches, LoadedConfig, LoadedSlots
  <2> QED
      BY <2>1, <2>2, <2>3, <2>4, NoRequest DEF RestartOK
<1>7. CASE Kill
  <2>1. up' = FALSE /\ owner' = Free /\ req' = [v \in Requests |-> Idle]
      BY <1>7 DEF Kill, ConfigKill
  <2> QED
      BY <2>1, IdleLocal, NoRequest DEF RestartOK
<1>8. CASE Start
  <2>1. /\ ~up /\ file # Corrupt /\ cfg' = LoadedConfig(file) /\ slots' = LoadedSlots(file)
        /\ UNCHANGED <<file, req, owner>>
      BY <1>8 DEF Start, ConfigStart
  <2>2. owner = Free /\ \A v \in Requests : req[v].pc = "idle"
      BY <2>1, IdleLocal DEF Base, Shapes
  <2>3. Matches(file, cfg, slots)' = Matches(file, cfg', slots')
      BY <2>1 DEF Matches, LoadedConfig, LoadedSlots
  <2>4. Matches(file, LoadedConfig(file), LoadedSlots(file))
      BY <2>1 DEF Matches
  <2> QED
      BY <2>1, <2>2, <2>3, <2>4, NoRequest DEF RestartOK
<1>9. CASE ~ \/ OperatorEdits \/ ReloadBegins \/ ReloadEnds \/ Kill \/ Start
             \/ \E r \in Requests : SettingsRoute(r) \/ SetLanguage(r) \/ UpdateStep(r)
  <2>1. UNCHANGED configVars
      BY <1>9
         DEF Next, vars, AskPanel, AskLogin, AskLogout, AskSettings, AskSetLang, AskPage, Asks,
             AskRegion, panelVars, PanelStep, Validate, LoginCheck, LoginCompare, LoginFail,
             LoginReset, LoginCreate, SettingsRead, SettingsChange, Revoke, LoadLang, SwapLang,
             PageBuild, PageFinish, PageShow, DispatchStep, DispatchSeed, DispatchFind,
             DispatchEncrypt, DispatchStore, DispatchEnd, TimePasses, LockRunsOut, SessionRunsOut
  <2>2. \A v \in Requests : req'[v].pc \in {"truncate", "write"} => req'[v] = req[v]
      BY <1>9, Arrivals DEF ArrivesBy
  <2>3. /\ Matches(file, cfg, slots)' = Matches(file, cfg, slots)
        /\ Marshalled(cfg, slots)' = Marshalled(cfg, slots)
      BY <2>1 DEF configVars, Matches, LoadedConfig, LoadedSlots, Marshalled
  <2> QED
      BY <2>1, <2>2, <2>3 DEF RestartOK, configVars
<1> QED
    BY <1>2, <1>3, <1>4, <1>5, <1>6, <1>7, <1>8, <1>9

(* A restart would load what the process runs with, for any documents and   *)
(* any number of requests that change it, outside the cases `diverged'      *)
(* records (config.go:92-101, 181-193): no interleaving of updateConfig     *)
(* with a reload, a kill or another updateConfig adds one.                  *)
THEOREM RestartsAgree == Spec => []RestartAgrees
<1> DEFINE I == Base /\ RestartOK
<1>1. Init => I
  <2>1. ASSUME Init
        PROVE  RestartOK
    <3>1. /\ owner = Free /\ file = Default /\ cfg = LoadedConfig(file)
          /\ slots = LoadedSlots(file) /\ \A r \in Requests : req[r] = Idle
        BY <2>1 DEF Init, ConfigInit
    <3>2. file # Corrupt
        BY <3>1, ConstantsAssumption
    <3> QED
        BY <3>1, <3>2, IdleLocal, NoRequest DEF RestartOK, Matches
  <2> QED
      BY <2>1, InitBase
<1>2. I /\ [Next]_vars => I'
    BY NextBase, RestartStep
<1>3. I => RestartAgrees
    BY DEF RestartOK, RestartAgrees, Matches
<1> QED
    BY <1>1, <1>2, <1>3, PTL DEF Spec

-----------------------------------------------------------------------------
(* The answers: until a reload begins to write to the array, the array is   *)
(* the one of which the request has a copy.                                 *)
AnswerOK ==
    \A r \in Requests :
        req[r].pc \in {"seed", "find"} /\ ~req[r].raced =>
            /\ req[r].array = slots
            /\ owner = Reload => ~Given(decoding, "regions")

LEMMA AnswerOKStep ==
    ASSUME Base, [Next]_vars, AnswerOK
    PROVE  AnswerOK'
<1> SUFFICES ASSUME NEW v \in Requests, req'[v].pc \in {"seed", "find"}, ~req'[v].raced
             PROVE  req'[v].array = slots' /\ (owner' = Reload => ~Given(decoding', "regions"))
    BY DEF AnswerOK
<1>1. CASE ReloadBegins
  <2>1. /\ \/ req'[v] = req[v]
           \/ IsDispatch(req[v]) /\ req'[v] = [req[v] EXCEPT !.raced = TRUE]
        /\ req'[v].pc = req[v].pc
      BY <1>1, ReloadLocals DEF ReloadBegins
  <2>2. req'[v] = req[v]
    <3>1. IsDispatch(req[v]) => [req[v] EXCEPT !.raced = TRUE].raced = TRUE
        BY DEF IsDispatch, DispatchLocal
    <3> QED
        BY <2>1, <3>1
  <2>3. ~Given(file, "regions")
    <3>1. ASSUME Given(file, "regions")
          PROVE  FALSE
      <4>1. req'[v] = [req[v] EXCEPT !.raced = TRUE]
          BY <1>1, <2>1, <3>1 DEF ReloadBegins, DispatchAtReload
      <4>2. IsDispatch(req[v])
          BY <2>1, Kinds DEF Base, Shapes
      <4>3. [req[v] EXCEPT !.raced = TRUE].raced = TRUE
          BY <4>2 DEF IsDispatch, DispatchLocal
      <4> QED
          BY <4>1, <4>3
    <3> QED
        BY <3>1
  <2>4. UNCHANGED slots /\ decoding' = file
      BY <1>1 DEF ReloadBegins, ReloadBegin
  <2> QED
      BY <2>2, <2>3, <2>4 DEF AnswerOK
<1>2. CASE ReloadEnds
  <2>1. UNCHANGED req /\ owner = Reload /\ owner' = Free /\ slots' = Decoded(slots, decoding)
      BY <1>2 DEF ReloadEnds, ReloadEnd, DispatchAfterReload
  <2>2. decoding \in Document /\ slots \in [1 .. Capacity -> Entry]
      BY <2>1 DEF Base, Shapes, TypeOK, ConfigTypeOK
  <2>3. req[v].array = slots /\ ~Given(decoding, "regions")
      BY <2>1 DEF AnswerOK
  <2> QED
      BY <2>1, <2>2, <2>3, DecodedSlots, NoRequest
<1>3. CASE Kill
    BY <1>3, IdleLocal DEF Kill, ConfigKill
<1>4. CASE Start
    BY <1>4, IdleLocal DEF Start, ConfigStart, Base, Shapes
<1>5. ASSUME NEW r \in Requests, NEW name \in RegionNames, NEW key \in KeyIds, AskRegion(r, name, key)
      PROVE  req'[v].array = slots' /\ (owner' = Reload => ~Given(decoding', "regions"))
  <2>1. owner = Free /\ UNCHANGED <<slots, owner, decoding>>
      BY <1>5 DEF AskRegion, CanRead, configVars
  <2>2. CASE v = r
    <3> DEFINE local == [pc |-> "seed", name |-> name, key |-> key, copy |-> cfg,
                         array |-> slots, raced |-> FALSE, text |-> None, sent |-> None]
    <3>1. Becomes(r, local) /\ local.array = slots
        BY <1>5 DEF AskRegion
    <3> HIDE DEF local
    <3> QED
        BY <2>1, <2>2, <3>1, OneRequest, NoRequest DEF Base
  <2>3. CASE v # r
      BY <1>5, <2>1, <2>3, OthersStay DEF AnswerOK
  <2> QED
      BY <2>2, <2>3
<1>6. CASE /\ ~(ReloadBegins \/ ReloadEnds \/ Kill \/ Start)
           /\ ~\E r \in Requests, name \in RegionNames, key \in KeyIds : AskRegion(r, name, key)
  <2>1. UNCHANGED slots /\ (owner' = Reload => owner = Reload /\ decoding' = decoding)
    <3>1. ASSUME NEW r \in Requests, UpdateStep(r)
          PROVE  UNCHANGED slots /\ (owner' = Reload => owner = Reload /\ decoding' = decoding)
        BY <3>1, NoRequest DEF UpdateStep, Truncate, Write, Unlocked
    <3>2. ASSUME NEW r \in Requests, SettingsRoute(r) \/ SetLanguage(r)
          PROVE  UNCHANGED slots /\ owner' = r
        BY <3>2 DEF SettingsRoute, SetLanguage, Update
    <3>3. CASE ~\E r \in Requests : UpdateStep(r) \/ SettingsRoute(r) \/ SetLanguage(r)
      <4>1. ASSUME NEW r \in Requests, AskPanel(r)
            PROVE  UNCHANGED <<slots, owner, decoding>>
          BY <4>1 DEF AskPanel, AskLogin, AskLogout, AskSettings, AskSetLang, AskPage, Asks,
                      configVars
      <4>2. ASSUME NEW r \in Requests, PanelStep(r)
            PROVE  UNCHANGED <<slots, owner, decoding>>
          BY <3>3, <4>2
             DEF PanelStep, Validate, LoginCheck, LoginCompare, LoginFail, LoginReset,
                 LoginCreate, SettingsRead, SettingsChange, Revoke, LoadLang, SwapLang,
                 PageBuild, PageFinish, PageShow, configVars
      <4>3. ASSUME NEW r \in Requests, DispatchStep(r)
            PROVE  UNCHANGED <<slots, owner, decoding>>
          BY <4>3 DEF DispatchStep, DispatchSeed, DispatchFind, DispatchEncrypt, DispatchStore,
                      DispatchEnd, configVars
      <4>4. CASE TimePasses \/ OperatorEdits \/ UNCHANGED vars
          BY <4>4 DEF TimePasses, LockRunsOut, SessionRunsOut, OperatorEdits, Edit, vars,
                      configVars
      <4> QED
          BY <1>6, <3>3, <4>1, <4>2, <4>3, <4>4 DEF Next
    <3> QED
        BY <3>1, <3>2, <3>3, NoRequest
  <2>2. CASE req'[v] = req[v]
      BY <2>1, <2>2 DEF AnswerOK
  <2>3. CASE req'[v] # req[v]
    <3>1. \/ DispatchAtReload
          \/ DispatchSeed(v) /\ req'[v].pc = "find"
        BY <1>6, <2>3, Arrivals DEF ArrivesBy
    <3>2. CASE DispatchSeed(v) /\ req'[v].pc = "find"
      <4>1. IsDispatch(req[v]) /\ req[v].pc = "seed"
          BY <3>2, Kinds DEF DispatchSeed, At, Base, Shapes
      <4>2. ~Answer(v, <<1, None>>)
        <5> DEFINE text == <<1, None>>
        <5>1. [req[v] EXCEPT !.pc = "encrypt", !.text = text].pc = "encrypt"
            BY <4>1 DEF IsDispatch, DispatchLocal
        <5> HIDE DEF text
        <5>2. ~Answer(v, text)
            BY <3>2, <5>1, OneRequest DEF Answer, Base
        <5> QED
            BY <5>2 DEF text
      <4>3. Becomes(v, [req[v] EXCEPT !.pc = "find"])
          BY <3>2, <4>2, GotoBecomes DEF DispatchSeed, Base
      <4>4. /\ [req[v] EXCEPT !.pc = "find"].raced = req[v].raced
            /\ [req[v] EXCEPT !.pc = "find"].array = req[v].array
          BY <4>1 DEF IsDispatch, DispatchLocal
      <4>5. req'[v].raced = req[v].raced /\ req'[v].array = req[v].array
          BY <4>3, <4>4, OneRequest DEF Base
      <4> QED
          BY <2>1, <4>1, <4>5 DEF AnswerOK
    <3>3. CASE DispatchAtReload
      <4>1. /\ req'[v].pc = req[v].pc
            /\ IsDispatch(req[v]) /\ req'[v] = [req[v] EXCEPT !.raced = TRUE]
          BY <2>3, <3>3, ReloadLocals
      <4>2. [req[v] EXCEPT !.raced = TRUE].raced = TRUE
          BY <4>1 DEF IsDispatch, DispatchLocal
      <4> QED
          BY <4>1, <4>2
    <3> QED
        BY <3>1, <3>2, <3>3
  <2> QED
      BY <2>2, <2>3
<1> QED
    BY <1>1, <1>2, <1>3, <1>4, <1>5, <1>6

(* What findRegion finds depends on the elements it looks at.               *)
LEMMA SameFound ==
    ASSUME NEW n \in Nat, NEW s, NEW t, \A i \in 1 .. n : s[i] = t[i], NEW name, NEW rest
    PROVE  FoundIn(s, n, name, rest) = FoundIn(t, n, name, rest)
<1> DEFINE named == {i \in 1 .. n : s[i].name = name}
           least == CHOOSE i \in named : \A j \in named : i <= j
<1>1. named = {i \in 1 .. n : t[i].name = name}
    OBVIOUS
<1>2. named # {} => least \in 1 .. n
  <2>1. ASSUME named # {}
        PROVE  \E i \in named : \A j \in named : i <= j
    <3>1. named \subseteq Nat
        OBVIOUS
    <3> HIDE DEF named
    <3>2. \E i \in named : \A j \in named : <<j, i>> \notin OpToRel(<, Nat)
        BY <2>1, <3>1, WFMin, NatLessThanWellFounded
    <3>3. \A i, j \in Nat : <<j, i>> \notin OpToRel(<, Nat) => i <= j
        BY DEF OpToRel
    <3> QED
        BY <3>1, <3>2, <3>3
  <2>2. named # {} => least \in named
      BY <2>1
  <2> QED
      BY <2>2
<1>3. named # {} => s[least] = t[least]
    BY <1>2
<1> DEFINE Address(x) == IF named = {} \/ x[least].address = Blank THEN rest ELSE x[least].address
<1>4. FoundIn(s, n, name, rest) = Address(s)
    BY DEF FoundIn
<1>5. FoundIn(t, n, name, rest) = Address(t)
  <2>1. FoundIn(t, n, name, rest) =
            LET ones == {i \in 1 .. n : t[i].name = name}
                address == t[CHOOSE i \in ones : \A j \in ones : i <= j].address
            IN  IF ones = {} \/ address = Blank THEN rest ELSE address
      BY DEF FoundIn
  <2> HIDE DEF named
  <2>2. FoundIn(t, n, name, rest) =
            LET address == t[CHOOSE i \in named : \A j \in named : i <= j].address
            IN  IF named = {} \/ address = Blank THEN rest ELSE address
      BY <1>1, <2>1
  <2> QED
      BY <2>2
<1> HIDE DEF named, least
<1> QED
    BY <1>3, <1>4, <1>5

LEMMA FoundInCopy ==
    ASSUME Base, AnswerOK, NEW r \in Requests, req[r].pc = "find", ~req[r].raced,
           NEW table \in Tables(req[r].copy.count)
    PROVE  Texts(req[r].name, table, req[r].copy) = Texts(req[r].name, req[r].array, req[r].copy)
<1>1. /\ req[r].array = slots
      /\ owner = Reload => ~Given(decoding, "regions")
    BY DEF AnswerOK
<1>2. req[r].copy.count \in 1 .. Capacity /\ Capacity \in Nat
  <2>1. req[r].copy \in Configs
      BY Kinds DEF Base, Shapes, IsDispatch, DispatchLocal
  <2> QED
      BY <2>1, ConstantsAssumption DEF Configs
<1>3. \A i \in 1 .. req[r].copy.count : table[i] = req[r].array[i]
  <2>1. ASSUME NEW i \in 1 .. req[r].copy.count
        PROVE  table[i] = slots[i]
    <3>1. owner = Reload => Decoded(slots, decoding) = slots
        BY <1>1, DecodedSlots DEF Base, Shapes, TypeOK, ConfigTypeOK
    <3>2. Seen(i) = {slots[i]}
        BY <3>1 DEF Seen
    <3>3. table[i] \in Seen(i)
        BY DEF Tables
    <3> QED
        BY <3>2, <3>3
  <2> QED
      BY <1>1, <2>1
<1>4. FoundIn(table, req[r].copy.count, req[r].name, req[r].copy.rest)
          = FoundIn(req[r].array, req[r].copy.count, req[r].name, req[r].copy.rest)
  <2> DEFINE n == req[r].copy.count
  <2>1. n \in Nat /\ \A i \in 1 .. n : table[i] = req[r].array[i]
      BY <1>2, <1>3
  <2> HIDE DEF n
  <2>2. FoundIn(table, n, req[r].name, req[r].copy.rest)
            = FoundIn(req[r].array, n, req[r].name, req[r].copy.rest)
      BY <2>1, SameFound
  <2> QED
      BY <2>2 DEF n
<1> QED
    BY <1>4 DEF Texts

LEMMA AnswerStep ==
    ASSUME Base, [Next]_vars, AnswerOK, AnswerFromOneConfig
    PROVE  AnswerFromOneConfig'
<1> SUFFICES ASSUME NEW v \in Requests, req'[v].pc \in {"encrypt", "store"}, ~req'[v].raced
             PROVE  req'[v].text \in Texts(req'[v].name, req'[v].array, req'[v].copy)
  <2>1. \A v \in Requests :
            req'[v].pc \in {"encrypt", "store"} /\ ~req'[v].raced =>
                req'[v].text \in Texts(req'[v].name, req'[v].array, req'[v].copy)
      OBVIOUS
  <2> QED
      BY <2>1 DEF AnswerFromOneConfig, Texts, FoundIn
<1>1. CASE req'[v] = req[v]
    BY <1>1 DEF AnswerFromOneConfig
<1>2. CASE req'[v] # req[v]
  <2>1. DispatchSeed(v) \/ DispatchFind(v) \/ DispatchEncrypt(v)
      BY <1>2, Arrivals DEF ArrivesBy
  <2>2. IsDispatch(req[v]) /\ req[v].pc \in {"seed", "find", "encrypt"}
      BY <2>1, Kinds DEF DispatchSeed, DispatchFind, DispatchEncrypt, At, Base, Shapes
  <2>3. ASSUME NEW text, Answer(v, text),
               ~req[v].raced => text \in Texts(req[v].name, req[v].array, req[v].copy)
        PROVE  req'[v].text \in Texts(req'[v].name, req'[v].array, req'[v].copy)
    <3> DEFINE local == [req[v] EXCEPT !.pc = "encrypt", !.text = text]
    <3>1. req'[v] = local
        BY <2>3, OneRequest DEF Answer, Base
    <3>2. /\ local.text = text /\ local.name = req[v].name /\ local.array = req[v].array
          /\ local.copy = req[v].copy /\ local.raced = req[v].raced
        BY <2>2 DEF IsDispatch, DispatchLocal
    <3> HIDE DEF local
    <3> QED
        BY <2>3, <3>1, <3>2
  <2>4. CASE DispatchSeed(v)
    <3>1. req'[v].pc # "find"
        OBVIOUS
    <3>2. Answer(v, <<1, None>>)
        BY <2>4, <3>1, GoesTo DEF DispatchSeed
    <3>3. <<1, None>> \in Texts(req[v].name, req[v].array, req[v].copy)
        BY DEF Texts
    <3> QED
        BY <2>3, <3>2, <3>3
  <2>5. CASE DispatchFind(v)
    <3>1. PICK table \in Tables(req[v].copy.count) :
              \E text \in Texts(req[v].name, table, req[v].copy) : Answer(v, text)
        BY <2>5 DEF DispatchFind
    <3>2. PICK text \in Texts(req[v].name, table, req[v].copy) : Answer(v, text)
        BY <3>1
    <3>3. ~req[v].raced => text \in Texts(req[v].name, req[v].array, req[v].copy)
        BY <2>5, <3>1, <3>2, FoundInCopy DEF DispatchFind, At
    <3> QED
        BY <2>3, <3>2, <3>3
  <2>6. CASE DispatchEncrypt(v)
    <3>1. \A for, text : ~Sends(v, for, text)
      <4>1. ASSUME NEW for, NEW text, Sends(v, for, text)
            PROVE  FALSE
        <5> DEFINE sent == [for |-> for, text |-> text]
                   local == [req[v] EXCEPT !.pc = "sent", !.sent = sent]
        <5>1. req'[v] = local
            BY <4>1, OneRequest DEF Sends, Base
        <5> HIDE DEF sent
        <5>2. local.pc = "sent"
            BY <2>2 DEF IsDispatch, DispatchLocal
        <5> QED
            BY <5>1, <5>2
      <4> QED
          BY <4>1
    <3>2. Goto(v, "store") /\ req[v].pc = "encrypt"
        BY <2>6, <3>1 DEF DispatchEncrypt, At
    <3> DEFINE local == [req[v] EXCEPT !.pc = "store"]
    <3>3. req'[v] = local
        BY <3>2, GotoBecomes, OneRequest DEF Base
    <3>4. /\ local.text = req[v].text /\ local.name = req[v].name /\ local.array = req[v].array
          /\ local.copy = req[v].copy /\ local.raced = req[v].raced
        BY <2>2 DEF IsDispatch, DispatchLocal
    <3> HIDE DEF local
    <3> QED
        BY <3>2, <3>3, <3>4 DEF AnswerFromOneConfig
  <2> QED
      BY <2>1, <2>4, <2>5, <2>6
<1> QED
    BY <1>1, <1>2

(* An answer is made of one configuration, for any regions, clients and     *)
(* documents, as long as no reload writes to the shared array while it is   *)
(* made (server.go:797, config.go:188): a reload whose document has no      *)
(* regions, and every updateConfig, are harmless.                           *)
THEOREM AnswersAreOfOneConfig == Spec => []AnswerFromOneConfig
<1> DEFINE I == Base /\ AnswerOK /\ AnswerFromOneConfig
<1>1. Init => I
    BY InitBase, IdleLocal DEF Init, ConfigInit, AnswerOK, AnswerFromOneConfig
<1>2. I /\ [Next]_vars => I'
    BY NextBase, AnswerOKStep, AnswerStep
<1>3. I => AnswerFromOneConfig
    OBVIOUS
<1> QED
    BY <1>1, <1>2, <1>3, PTL DEF Spec

-----------------------------------------------------------------------------
(* The language: a page that is being made is in the configured language,   *)
(* and the strings do not change under it.                                  *)
Loads(v) == \/ req[v].pc \in {"load", "swap"}
            \/ req[v].pc \in {"truncate", "write"} /\ req[v].next = "load"

PageOK(v) ==
    /\ req[v].pc = "build" => req[v].language = cfg.language
    /\ req[v].pc = "finish" => /\ req[v].language = cfg.language /\ langStrings = cfg.language
                               /\ req[v].strings = {langStrings} /\ \A w \in Requests : ~Loads(w)
    /\ req[v].pc = "swap" => req[v].language = cfg.language
    /\ req[v].pc = "show" => req[v].strings = {req[v].language}

LanguageOK ==
    /\ ~up => page = NoPage
    /\ up /\ ~blurred =>
           /\ \A v \in Requests : PageOK(v)
           /\ (\A v \in Requests : ~Loads(v)) => langStrings = cfg.language
           /\ page # NoPage => page.strings = {page.language}

(* Which step moves a request that is loading the strings.                  *)
LEMMA LoaderMoves ==
    ASSUME Base, [Next]_vars, NEW v \in Requests, req'[v] # req[v],
           req[v].pc \in {"load", "swap", "truncate", "write"}
    PROVE  LoadLang(v) \/ SwapLang(v) \/ UpdateStep(v) \/ Kill
<1>1. ASSUME NEW r \in Requests, AskPanel(r) \/ PanelStep(r) \/ DispatchStep(r) \/ UpdateStep(r)
      PROVE  LoadLang(v) \/ SwapLang(v) \/ UpdateStep(v)
  <2>1. r = v
      BY <1>1, OthersStay
  <2>2. ~AskPanel(r)
    <3>1. AskPanel(r) => req[r] = Idle
        BY DEF AskPanel, AskLogin, AskLogout, AskSettings, AskSetLang, AskPage, Asks
    <3> QED
        BY <2>1, <3>1, IdleLocal
  <2>3. ~DispatchStep(r)
      BY <2>1 DEF DispatchStep, DispatchSeed, DispatchFind, DispatchEncrypt, DispatchStore,
                  DispatchEnd, At
  <2>4. ~ \/ Validate(r) \/ LoginCheck(r) \/ LoginCompare(r) \/ LoginFail(r) \/ LoginReset(r)
          \/ LoginCreate(r) \/ SettingsRead(r) \/ SettingsChange(r) \/ SettingsRoute(r)
          \/ Revoke(r)
      BY <2>1 DEF At, Validate, LoginCheck, LoginCompare, LoginFail, LoginReset, LoginCreate,
                  SettingsRead, SettingsChange, SettingsRoute, Revoke
  <2>5. ~(SetLanguage(r) \/ PageBuild(r) \/ PageFinish(r) \/ PageShow(r))
      BY <2>1 DEF At, SetLanguage, PageBuild, PageFinish, PageShow
  <2> QED
      BY <1>1, <2>1, <2>2, <2>3, <2>4, <2>5 DEF PanelStep
<1>2. ASSUME NEW r \in Requests, NEW name \in RegionNames, NEW key \in KeyIds, AskRegion(r, name, key)
      PROVE  FALSE
  <2>1. r = v
      BY <1>2, OthersStay
  <2> QED
      BY <1>2, <2>1, IdleLocal DEF AskRegion
<1>3. ~ReloadBegins
    BY ReloadLocals DEF ReloadBegins
<1>4. req' # req
    OBVIOUS
<1>5. ~(UNCHANGED vars \/ TimePasses \/ OperatorEdits \/ ReloadEnds \/ Start)
    BY <1>4 DEF vars, TimePasses, LockRunsOut, SessionRunsOut, OperatorEdits, Edit, ReloadEnds,
                DispatchAfterReload, Start, ConfigStart
<1> QED
    BY <1>1, <1>2, <1>3, <1>5 DEF Next

LEMMA LanguageRests ==
    ASSUME Base, [Next]_vars, LanguageOK,
           ~\E r \in Requests : \/ SetLanguage(r) \/ UpdateStep(r) \/ LoadLang(r) \/ SwapLang(r)
                                \/ AskPage(r) \/ PageBuild(r) \/ PageFinish(r) \/ SettingsRoute(r),
           ~(ReloadEnds \/ Kill \/ Start)
    PROVE  LanguageOK'
<1>1. UNCHANGED <<cfg, up, langVars>>
  <2>1. ASSUME NEW r \in Requests, AskPanel(r)
        PROVE  UNCHANGED <<cfg, up, langVars>>
      BY <2>1 DEF AskPanel, AskLogin, AskLogout, AskSettings, AskSetLang, AskPage, Asks,
                  configVars, panelVars
  <2>2. ASSUME NEW r \in Requests, PanelStep(r)
        PROVE  UNCHANGED <<cfg, up, langVars>>
      BY <2>2 DEF PanelStep, configVars, panelVars, Validate, LoginCheck, LoginCompare,
                  LoginFail, LoginReset, LoginCreate, SettingsRead, SettingsChange, Revoke,
                  PageShow
  <2>3. CASE TimePasses \/ OperatorEdits \/ ReloadBegins \/ UNCHANGED vars
      BY <2>3 DEF TimePasses, LockRunsOut, SessionRunsOut, OperatorEdits, Edit, ReloadBegins,
                  ReloadBegin, vars, configVars, panelVars
  <2>4. ASSUME NEW r \in Requests,
               \/ DispatchStep(r) /\ UNCHANGED panelVars
               \/ \E name \in RegionNames, key \in KeyIds :
                      AskRegion(r, name, key) /\ UNCHANGED panelVars
        PROVE  UNCHANGED <<cfg, up, langVars>>
      BY <2>4 DEF DispatchStep, DispatchSeed, DispatchFind, DispatchEncrypt, DispatchStore,
                  DispatchEnd, AskRegion, configVars, panelVars
  <2> QED
      BY <2>1, <2>2, <2>3, <2>4 DEF Next
<1>2. \A v \in Requests :
          req'[v].pc \in {"load", "swap", "truncate", "write", "build", "finish", "show"}
          => req'[v] = req[v]
    BY Arrivals DEF ArrivesBy
<1>3. \A v \in Requests :
          req[v].pc \in {"load", "swap", "truncate", "write"} => req'[v] = req[v]
    BY LoaderMoves
<1>4. \A v \in Requests : Loads(v) <=> Loads(v)'
    BY <1>2, <1>3 DEF Loads
<1>5. ASSUME NEW v \in Requests, PageOK(v)
      PROVE  PageOK(v)'
  <2>1. (\A w \in Requests : ~Loads(w)) => (\A w \in Requests : ~Loads(w))'
      BY <1>4
  <2> QED
      BY <1>1, <1>2, <1>5, <2>1 DEF PageOK, langVars
<1>6. /\ up' = up /\ blurred' = blurred /\ page' = page /\ langStrings' = langStrings
      /\ cfg' = cfg
    BY <1>1 DEF langVars
<1>7. (\A w \in Requests : ~Loads(w))' => (\A w \in Requests : ~Loads(w))
    BY <1>4
<1> QED
    BY <1>5, <1>6, <1>7 DEF LanguageOK

(* The change of the language and of the route: they begin an updateConfig. *)
LEMMA LanguageSet ==
    ASSUME Base, LanguageOK, NEW r \in Requests, SetLanguage(r)
    PROVE  LanguageOK'
<1>1. /\ UNCHANGED <<up, langStrings, page>>
      /\ blurred' = (blurred \/ Loading \union Building # {})
    BY DEF SetLanguage, Update
<1>2. /\ \A v \in Requests : v # r => req'[v] = req[v]
      /\ req'[r].pc = "truncate" /\ req'[r].next = "load"
  <2>1. Becomes(r, [pc |-> "truncate", handler |-> req[r], next |-> "load",
                    data |-> Marshalled(cfg', slots)])
      BY DEF SetLanguage, Update
  <2> QED
      BY <2>1, OneRequest DEF Base
<1>3. up
    BY Serving DEF SetLanguage, At
<1>4. CASE blurred'
    BY <1>1, <1>3, <1>4 DEF LanguageOK
<1>5. CASE ~blurred'
  <2>1. ~blurred /\ Loading \union Building = {}
      BY <1>1, <1>5
  <2>2. \A v \in Requests : req[v].pc \notin {"load", "swap", "build", "finish"}
      BY <2>1 DEF Loading, Building
  <2>3. \A v \in Requests : PageOK(v)'
    <3>1. ASSUME NEW v \in Requests
          PROVE  PageOK(v)'
      <4>1. PageOK(v)
          BY <1>3, <2>1 DEF LanguageOK
      <4> QED
          BY <1>1, <1>2, <2>2, <4>1 DEF PageOK
    <3> QED
        BY <3>1
  <2>4. Loads(r)'
      BY <1>2 DEF Loads
  <2> QED
      BY <1>1, <1>3, <2>1, <2>3, <2>4 DEF LanguageOK
<1> QED
    BY <1>4, <1>5

LEMMA LanguageRoute ==
    ASSUME Base, LanguageOK, NEW r \in Requests, SettingsRoute(r)
    PROVE  LanguageOK'
<1>1. /\ UNCHANGED <<up, langStrings, page, blurred>> /\ At(r, "route")
      /\ cfg' = [cfg EXCEPT !["route"] = req[r].change.route]
    BY DEF SettingsRoute, Update, panelVars, langVars
<1>2. cfg'.language = cfg.language
    BY <1>1 DEF Base, TypeOK, ConfigTypeOK
<1>3. /\ \A v \in Requests : v # r => req'[v] = req[v]
      /\ req'[r].pc = "truncate" /\ req'[r].next = "revoke"
  <2>1. Becomes(r, [pc |-> "truncate", handler |-> req[r], next |-> "revoke",
                    data |-> Marshalled(cfg', slots)])
      BY DEF SettingsRoute, Update
  <2> QED
      BY <2>1, OneRequest DEF Base
<1>4. \A v \in Requests : Loads(v) <=> Loads(v)'
    BY <1>1, <1>3 DEF Loads, At
<1>5. ASSUME NEW v \in Requests, PageOK(v)
      PROVE  PageOK(v)'
  <2>1. (\A w \in Requests : ~Loads(w)) => (\A w \in Requests : ~Loads(w))'
      BY <1>4
  <2> QED
      BY <1>1, <1>2, <1>3, <1>5, <2>1 DEF PageOK
<1>6. (\A w \in Requests : ~Loads(w))' => (\A w \in Requests : ~Loads(w))
    BY <1>4
<1> QED
    BY <1>1, <1>2, <1>5, <1>6 DEF LanguageOK

LEMMA LanguageUpdated ==
    ASSUME Base, LanguageOK, NEW r \in Requests, UpdateStep(r)
    PROVE  LanguageOK'
<1>1. /\ UNCHANGED <<up, cfg, langStrings, page>> /\ req[r].pc \in {"truncate", "write"}
      /\ blurred' = (blurred \/ (req[r].next = "load" /\ req'[r] = Idle))
    BY DEF UpdateStep, Truncate, Write, PanelAfterUpdate, At
<1>2. up /\ \A v \in Requests : v # r => req'[v] = req[v]
    BY <1>1, Serving, OthersStay
<1>3. req[r] \in RouteUpdate \union LanguageUpdate
    BY <1>1, Kinds DEF Base, Shapes
<1>4. req'[r] # Idle => (Loads(r) <=> Loads(r)')
  <2>1. CASE Goto(r, "write")
    <3>1. /\ [req[r] EXCEPT !.pc = "write"].pc = "write"
          /\ [req[r] EXCEPT !.pc = "write"].next = req[r].next
        BY <1>3 DEF RouteUpdate, LanguageUpdate
    <3>2. Becomes(r, [req[r] EXCEPT !.pc = "write"])
        BY <2>1, GotoBecomes DEF Base
    <3>3. req'[r].pc = "write" /\ req'[r].next = req[r].next
        BY <3>1, <3>2, OneRequest DEF Base
    <3> QED
        BY <1>1, <3>3 DEF Loads
  <2>2. CASE Becomes(r, [req[r].handler EXCEPT !.pc = req[r].next])
    <3>1. /\ req[r].next \in {"load", "revoke"}
          /\ [req[r].handler EXCEPT !.pc = req[r].next].pc = req[r].next
      <4>1. CASE req[r] \in RouteUpdate
          BY <4>1 DEF RouteUpdate, SettingsLocal
      <4>2. CASE req[r] \in LanguageUpdate
          BY <4>2 DEF LanguageUpdate, LanguageLocal
      <4> QED
          BY <1>3, <4>1, <4>2
    <3>2. req'[r].pc = req[r].next
        BY <2>2, <3>1, OneRequest DEF Base
    <3> QED
        BY <1>1, <3>1, <3>2 DEF Loads
  <2>3. Ends(r) => req'[r] = Idle
      BY OneRequest DEF Ends, Base
  <2> QED
      BY <2>1, <2>2, <2>3 DEF UpdateStep, Truncate, Write
<1>5. req'[r] = Idle /\ ~blurred' => ~Loads(r) /\ ~Loads(r)'
    BY <1>1, IdleLocal DEF Loads
<1>6. CASE blurred'
    BY <1>1, <1>2, <1>6 DEF LanguageOK
<1>7. CASE ~blurred'
  <2>1. ~blurred /\ \A v \in Requests : Loads(v) <=> Loads(v)'
    <3>1. Loads(r) <=> Loads(r)'
        BY <1>4, <1>5, <1>7
    <3>2. \A v \in Requests : v # r => (Loads(v) <=> Loads(v)')
        BY <1>2 DEF Loads
    <3> QED
        BY <1>1, <1>7, <3>1, <3>2
  <2>2. req'[r].pc \in {"idle", "write", "load", "revoke"}
      BY UpdateArrives
  <2>3. ASSUME NEW v \in Requests, PageOK(v)
        PROVE  PageOK(v)'
    <3>1. (\A w \in Requests : ~Loads(w)) => (\A w \in Requests : ~Loads(w))'
        BY <2>1
    <3> QED
        BY <1>1, <1>2, <2>2, <2>3, <3>1 DEF PageOK
  <2>4. (\A w \in Requests : ~Loads(w))' => (\A w \in Requests : ~Loads(w))
      BY <2>1
  <2> QED
      BY <1>1, <1>2, <2>1, <2>3, <2>4 DEF LanguageOK
<1> QED
    BY <1>6, <1>7

LEMMA LanguageLoaded ==
    ASSUME Base, LanguageOK, NEW r \in Requests, LoadLang(r)
    PROVE  LanguageOK'
<1>1. /\ UNCHANGED <<up, cfg, langStrings, page, blurred>> /\ req[r].pc = "load"
      /\ Becomes(r, [pc |-> "swap", language |-> cfg.language])
    BY DEF LoadLang, At, configVars, panelVars, langVars
<1>2. /\ \A v \in Requests : v # r => req'[v] = req[v]
      /\ req'[r].pc = "swap" /\ req'[r].language = cfg.language
    BY <1>1, OneRequest DEF Base
<1>3. \A v \in Requests : Loads(v) <=> Loads(v)'
    BY <1>1, <1>2 DEF Loads
<1>4. ASSUME NEW v \in Requests, PageOK(v)
      PROVE  PageOK(v)'
  <2>1. (\A w \in Requests : ~Loads(w)) => (\A w \in Requests : ~Loads(w))'
      BY <1>3
  <2> QED
      BY <1>1, <1>2, <1>4, <2>1 DEF PageOK
<1>5. (\A w \in Requests : ~Loads(w))' => (\A w \in Requests : ~Loads(w))
    BY <1>3
<1> QED
    BY <1>1, <1>4, <1>5 DEF LanguageOK

(* SwapLang replaces the strings: no page is being made, for a request      *)
(* loads them.                                                              *)
LEMMA LanguageSwapped ==
    ASSUME Base, LanguageOK, NEW r \in Requests, SwapLang(r)
    PROVE  LanguageOK'
<1>1. /\ UNCHANGED <<up, cfg, page>> /\ req[r].pc = "swap" /\ up
      /\ \A v \in Requests : v # r => req'[v] = req[v]
      /\ req'[r].pc = "idle"
    BY OthersStay, EndsIdle, Serving DEF SwapLang, At, configVars, PanelStep
<1>2. CASE blurred'
    BY <1>1, <1>2 DEF LanguageOK
<1>3. CASE ~blurred'
  <2>1. langStrings' = req[r].language /\ ~blurred
      BY <1>3 DEF SwapLang
  <2>2. req[r].language = cfg.language /\ \A v \in Requests : PageOK(v) /\ req[v].pc # "finish"
    <3>1. \A v \in Requests : PageOK(v)
        BY <1>1, <2>1 DEF LanguageOK
    <3>2. Loads(r)
        BY <1>1 DEF Loads
    <3> QED
        BY <1>1, <3>1, <3>2 DEF PageOK
  <2>3. \A v \in Requests : PageOK(v)'
      BY <1>1, <2>2 DEF PageOK
  <2> QED
      BY <1>1, <2>1, <2>2, <2>3 DEF LanguageOK
<1> QED
    BY <1>2, <1>3

LEMMA LanguagePages ==
    ASSUME Base, LanguageOK, NEW r \in Requests, AskPage(r) \/ PageBuild(r) \/ PageFinish(r)
    PROVE  LanguageOK'
<1>1. UNCHANGED <<up, cfg, langStrings>> /\ up /\ (~blurred' => ~blurred)
  <2>1. CASE AskPage(r)
      BY <2>1 DEF AskPage, Asks, configVars, panelVars, langVars
  <2>2. CASE PageBuild(r) \/ PageFinish(r)
    <3>1. req[r].pc \in {"build", "finish"}
        BY <2>2 DEF PageBuild, PageFinish, At
    <3>2. ~blurred' => ~blurred
        BY <2>2 DEF PageBuild, PageFinish
    <3>3. UNCHANGED <<up, cfg, langStrings>>
        BY <2>2 DEF PageBuild, PageFinish, configVars
    <3> QED
        BY <3>1, <3>2, <3>3, Serving
  <2> QED
      BY <2>1, <2>2
<1>2. \A v \in Requests : v # r => req'[v] = req[v]
    BY OthersStay DEF AskPanel, PanelStep
<1>3. CASE blurred'
    BY <1>1, <1>3 DEF LanguageOK
<1>4. CASE ~blurred'
  <2>1. /\ \A v \in Requests : PageOK(v)
        /\ (\A v \in Requests : ~Loads(v)) => langStrings = cfg.language
        /\ page # NoPage => page.strings = {page.language}
      BY <1>1, <1>4 DEF LanguageOK
  <2>2. /\ req[r].pc \in {"idle", "build", "finish"}
        /\ req[r].pc # "idle" => req[r] \in PageLocal
    <3>1. req[r].pc \in {"idle", "build", "finish"}
        BY IdleLocal DEF AskPage, Asks, PageBuild, PageFinish, At
    <3> QED
        BY <3>1, Kinds DEF Base, Shapes
  <2>3. ASSUME req'[r].pc \in {"build", "finish", "show"},
               req'[r].pc = "build" => req'[r].language = cfg.language,
               req'[r].pc = "finish" => /\ req'[r].language = cfg.language
                                        /\ langStrings = cfg.language
                                        /\ req'[r].strings = {langStrings}
                                        /\ \A w \in Requests : ~Loads(w),
               req'[r].pc = "show" => req'[r].strings = {req'[r].language},
               page' # NoPage => page'.strings = {page'.language}
        PROVE  LanguageOK'
    <3>1. \A v \in Requests : Loads(v) <=> Loads(v)'
        BY <1>2, <2>2, <2>3 DEF Loads
    <3>2. (\A w \in Requests : ~Loads(w)) <=> (\A w \in Requests : ~Loads(w))'
        BY <3>1
    <3>3. PageOK(r)'
      <4>1. req'[r].pc = "finish" => \A w \in Requests : ~Loads(w)'
          BY <2>3, <3>2
      <4>2. req'[r].pc # "swap"
          BY <2>3
      <4> QED
          BY <1>1, <2>3, <4>1, <4>2 DEF PageOK
    <3>4. ASSUME NEW v \in Requests, v # r
          PROVE  PageOK(v)'
        BY <1>1, <1>2, <2>1, <3>2, <3>4 DEF PageOK
    <3> QED
        BY <1>1, <2>1, <2>3, <3>2, <3>3, <3>4 DEF LanguageOK
  <2>4. CASE AskPage(r)
    <3> DEFINE local == [pc |-> "build", language |-> cfg.language, strings |-> {}]
    <3>1. Becomes(r, local) /\ UNCHANGED page
        BY <2>4 DEF AskPage, Asks, panelVars, langVars
    <3>2. local.pc = "build" /\ local.language = cfg.language
        OBVIOUS
    <3> HIDE DEF local
    <3>3. req'[r] = local
        BY <3>1, OneRequest DEF Base
    <3> QED
        BY <2>1, <2>3, <3>1, <3>2, <3>3
  <2>5. CASE PageBuild(r) /\ Cached(req[r].language)
    <3> DEFINE local == [req[r] EXCEPT !.pc = "show", !.strings = page.strings]
    <3>1. Becomes(r, local) /\ UNCHANGED page /\ req[r].pc = "build"
        BY <2>5 DEF PageBuild, At
    <3>2. local.pc = "show" /\ local.strings = page.strings /\ local.language = req[r].language
        BY <2>2, <3>1 DEF PageLocal
    <3> HIDE DEF local
    <3>3. req'[r] = local
        BY <3>1, OneRequest DEF Base
    <3>4. page.strings = {req[r].language}
        BY <2>1, <2>5 DEF Cached
    <3> QED
        BY <2>1, <2>3, <3>1, <3>2, <3>3, <3>4
  <2>6. CASE PageBuild(r) /\ ~Cached(req[r].language)
    <3> DEFINE local == [req[r] EXCEPT !.pc = "finish", !.strings = {langStrings}]
    <3>1. /\ Becomes(r, local) /\ UNCHANGED page /\ req[r].pc = "build"
          /\ Loading = {}
        BY <1>4, <2>6 DEF PageBuild, At
    <3>2. local.pc = "finish" /\ local.strings = {langStrings} /\ local.language = req[r].language
        BY <2>2, <3>1 DEF PageLocal
    <3> HIDE DEF local
    <3>3. req'[r] = local
        BY <3>1, OneRequest DEF Base
    <3>4. \A w \in Requests : ~Loads(w)
        BY <3>1 DEF Loading, Loads
    <3>5. req[r].language = cfg.language /\ langStrings = cfg.language
        BY <2>1, <3>1, <3>4 DEF PageOK
    <3> QED
        BY <2>1, <2>3, <3>1, <3>2, <3>3, <3>4, <3>5
  <2>7. CASE PageFinish(r)
    <3> DEFINE strings == req[r].strings \union {langStrings}
               local == [req[r] EXCEPT !.pc = "show", !.strings = strings]
    <3>1. /\ Becomes(r, local) /\ req[r].pc = "finish"
          /\ page' = [language |-> req[r].language, strings |-> strings]
        BY <2>7 DEF PageFinish, At
    <3>2. strings = {req[r].language}
        BY <2>1, <3>1 DEF PageOK
    <3> HIDE DEF strings
    <3>3. local.pc = "show" /\ local.strings = strings /\ local.language = req[r].language
        BY <2>2, <3>1 DEF PageLocal
    <3>4. page'.strings = strings /\ page'.language = req[r].language
        BY <3>1
    <3> HIDE DEF local
    <3>5. req'[r] = local
        BY <3>1, OneRequest DEF Base
    <3> QED
        BY <2>3, <3>2, <3>3, <3>4, <3>5
  <2> QED
      BY <2>4, <2>5, <2>6, <2>7
<1> QED
    BY <1>3, <1>4

LEMMA LanguageStep ==
    ASSUME Base, [Next]_vars, LanguageOK
    PROVE  LanguageOK'
<1>1. CASE ReloadEnds
  <2>1. /\ UNCHANGED <<up, req, langStrings, page>>
        /\ blurred' = (blurred \/ cfg'.language # cfg.language)
      BY <1>1 DEF ReloadEnds, ReloadEnd, DispatchAfterReload, PanelAfterReload
  <2>2. (\A v \in Requests : ~Loads(v)) <=> (\A v \in Requests : ~Loads(v))'
      BY <2>1 DEF Loads
  <2>3. ~blurred' => \A v \in Requests : PageOK(v) => PageOK(v)'
      BY <2>1, <2>2 DEF PageOK
  <2> QED
      BY <2>1, <2>2, <2>3 DEF LanguageOK
<1>2. CASE Kill
    BY <1>2 DEF Kill, ConfigKill, PanelKill, LanguageOK
<1>3. CASE Start
  <2>1. /\ ~up /\ UNCHANGED <<req, page>> /\ langStrings' = cfg'.language
      BY <1>3 DEF Start, ConfigStart, PanelStart
  <2>2. \A v \in Requests : req'[v].pc = "idle"
      BY <2>1, IdleLocal DEF Base, Shapes
  <2>3. \A v \in Requests : PageOK(v)'
      BY <2>2 DEF PageOK
  <2> QED
      BY <2>1, <2>3 DEF LanguageOK
<1> QED
    BY <1>1, <1>2, <1>3, LanguageRests, LanguageSet, LanguageRoute, LanguageUpdated,
       LanguageLoaded, LanguageSwapped, LanguagePages

(* Pages and strings agree with the configured language, for any languages  *)
(* and any number of requests, outside the cases `blurred' records          *)
(* (admin.go:20-25, server.go:1418-1424): the cached page, which is kept by *)
(* language alone, is never one that was made while the strings changed.    *)
THEOREM LanguagesAgree == Spec => []LanguageAgrees
<1> DEFINE I == Base /\ LanguageOK
<1>1. Init => I
  <2>1. ASSUME Init
        PROVE  LanguageOK
    <3>1. /\ page = NoPage /\ langStrings = Default.language /\ cfg = LoadedConfig(Default)
          /\ \A v \in Requests : req[v].pc = "idle"
        BY <2>1, IdleLocal DEF Init, ConfigInit, PanelInit
    <3>2. Given(Default, "language")
        BY ConstantsAssumption, Fields
    <3>3. cfg.language = Default.language
        BY <3>1, <3>2 DEF LoadedConfig, Overlaid
    <3> QED
        BY <3>1, <3>3 DEF LanguageOK, PageOK
  <2> QED
      BY <2>1, InitBase
<1>2. I /\ [Next]_vars => I'
    BY NextBase, LanguageStep
<1>3. I => LanguageAgrees
  <2>1. Loading = {} => \A v \in Requests : ~Loads(v)
      BY DEF Loading, Loads
  <2> QED
      BY <2>1 DEF LanguageOK, LanguageAgrees, PageOK, At
<1> QED
    BY <1>1, <1>2, <1>3, PTL DEF Spec
=============================================================================
