---------------------------- MODULE ServerSessions ----------------------------
(***************************************************************************)
(* The proof that the panel of Server implements Sessions, for any number  *)
(* of requests and tokens: a handler goes on only for a token that was     *)
(* live, and a session that ended stays so, over the kills of the process. *)
(* It needs that no request carries a token that was never given away.     *)
(***************************************************************************)
EXTENDS ServerProofs

-----------------------------------------------------------------------------
(* The steps at which a request carries a token, its own or that of the     *)
(* handler which called updateConfig.                                      *)
Carrying == {"validate", "read", "change", "route", "revoke", "language", "load",
             "truncate", "write"}
Held(l) == IF l.pc \in {"truncate", "write"} THEN l.handler.token ELSE l.token

KnownOK == \A r \in Requests : req[r].pc \in Carrying => sessions[Held(req[r])] # "unused"

Trusted == {"read", "change", "route", "language", "load", "swap", "truncate", "write"}
Outside == {"idle", "check", "compare", "fail", "reset", "create", "revoke", "build", "finish",
            "show", "seed", "find", "encrypt", "store", "sent"}

LEMMA HeldTokens ==
    ASSUME NEW l, IsLocal(l), l.pc \in Carrying
    PROVE  Held(l) \in Tokens
BY Kinds DEF Carrying, Held, LogoutLocal, SettingsLocal, LanguageLocal, RouteUpdate, LanguageUpdate

(* A token that was given away stays so. *)
LEMMA TokensStay ==
    ASSUME Base, [Next]_vars, NEW t \in Tokens, sessions[t] # "unused"
    PROVE  sessions'[t] # "unused"
<1>1. sessions \in [Tokens -> {"unused", "live", "over", "ended"}]
    BY PanelTypes
<1>2. ASSUME UNCHANGED sessions PROVE sessions'[t] # "unused"
    BY <1>2
<1>3. ASSUME NEW r \in Requests, PanelStep(r) PROVE sessions'[t] # "unused"
  <2>1. CASE Validate(r) \/ Revoke(r) \/ LoginCreate(r)
      BY <1>1, <2>1 DEF Validate, Revoke, LoginCreate
  <2>2. CASE LoginCheck(r) \/ LoginCompare(r) \/ LoginFail(r) \/ LoginReset(r)
      BY <2>2 DEF LoginCheck, LoginCompare, LoginFail, LoginReset
  <2>3. CASE SettingsRead(r) \/ SettingsChange(r) \/ SettingsRoute(r) \/ SetLanguage(r)
      BY <2>3 DEF SettingsRead, SettingsChange, SettingsRoute, SetLanguage, panelVars, loginVars
  <2>4. CASE LoadLang(r) \/ SwapLang(r) \/ PageBuild(r) \/ PageFinish(r) \/ PageShow(r)
      BY <2>4 DEF LoadLang, SwapLang, PageBuild, PageFinish, PageShow, panelVars, loginVars
  <2> QED
      BY <1>3, <2>1, <2>2, <2>3, <2>4 DEF PanelStep
<1>4. CASE TimePasses
    BY <1>1, <1>4 DEF TimePasses, LockRunsOut, SessionRunsOut
<1>5. CASE Kill
    BY <1>5 DEF Kill, PanelKill
<1>6. ASSUME NEW r \in Requests, AskPanel(r) PROVE UNCHANGED sessions
    BY <1>6
       DEF AskPanel, AskLogin, AskLogout, AskSettings, AskSetLang, AskPage, Asks, panelVars, loginVars
<1>7. ASSUME NEW r \in Requests, UpdateStep(r) PROVE UNCHANGED sessions
    BY <1>7 DEF UpdateStep, PanelAfterUpdate, loginVars
<1>8. CASE OperatorEdits \/ ReloadBegins \/ ReloadEnds \/ Start \/ UNCHANGED vars
    BY <1>8
       DEF OperatorEdits, ReloadBegins, ReloadEnds, Start, PanelAfterReload, PanelStart, vars,
           panelVars, loginVars
<1> QED
    BY <1>2, <1>3, <1>4, <1>5, <1>6, <1>7, <1>8 DEF Next, panelVars, loginVars

-----------------------------------------------------------------------------
(* The steps of a request from inside, and those of one that is outside and *)
(* stays there.                                                            *)
Inner(r) ==
    \/ SettingsRead(r) \/ SettingsChange(r) \/ SettingsRoute(r) \/ SetLanguage(r)
    \/ LoadLang(r) \/ SwapLang(r)
LoginStep(r) ==
    LoginCheck(r) \/ LoginCompare(r) \/ LoginFail(r) \/ LoginReset(r) \/ LoginCreate(r)
PageStep(r) == PageBuild(r) \/ PageFinish(r) \/ PageShow(r)

LEMMA InnerMoves ==
    ASSUME Base, NEW r \in Requests, Inner(r)
    PROVE  /\ req[r].pc \in Trusted /\ req'[r].pc # "validate"
           /\ req'[r].pc \in Carrying => req[r].pc \in Carrying /\ Held(req'[r]) = Held(req[r])
<1>1. /\ \A pc : Goto(r, pc) => req'[r].pc = pc /\ req'[r] = [req[r] EXCEPT !.pc = pc]
      /\ Ends(r) => req'[r].pc = "idle"
      /\ \A local : Becomes(r, local) => req'[r] = local
    BY GoesTo, GotoBecomes, EndsIdle, OneRequest DEF Base
<1>2. IsLocal(req[r])
    BY DEF Base, Shapes
<1>3. CASE SettingsRead(r)
  <2>1. req[r].pc = "read" /\ req[r] \in SettingsLocal
      BY <1>2, <1>3, Kinds DEF SettingsRead, At
  <2>2. CASE Ends(r)
      BY <1>1, <2>1, <2>2 DEF Trusted, Carrying
  <2>3. CASE Becomes(r, [req[r] EXCEPT !.pc = "change", !.seen = creds])
    <3>1. req'[r] = [req[r] EXCEPT !.pc = "change", !.seen = creds]
        BY <1>1, <2>3
    <3>2. req'[r].pc = "change" /\ req'[r].token = req[r].token
        BY <2>1, <3>1 DEF SettingsLocal
    <3> QED
        BY <2>1, <3>2 DEF Trusted, Carrying, Held
  <2> QED
      BY <1>3, <2>2, <2>3 DEF SettingsRead
<1>4. CASE SettingsChange(r)
  <2>1. req[r].pc = "change" /\ req[r] \in SettingsLocal
      BY <1>2, <1>4, Kinds DEF SettingsChange, At
  <2>2. CASE Ends(r)
      BY <1>1, <2>1, <2>2 DEF Trusted, Carrying
  <2>3. ASSUME NEW pc \in {"revoke", "route"}, Goto(r, pc)
        PROVE  req'[r].pc = pc /\ req'[r].token = req[r].token
      BY <1>1, <2>1, <2>3 DEF SettingsLocal
  <2>4. Ends(r) \/ Goto(r, "revoke") \/ Goto(r, "route")
      BY <1>4 DEF SettingsChange
  <2> QED
      BY <2>1, <2>2, <2>3, <2>4 DEF Trusted, Carrying, Held
<1>5. CASE SettingsRoute(r) \/ SetLanguage(r)
  <2>1. req[r].pc \in {"route", "language"}
      BY <1>5 DEF SettingsRoute, SetLanguage, At
  <2>2. PICK next, data :
            Becomes(r, [pc |-> "truncate", handler |-> req[r], next |-> next, data |-> data])
      BY <1>5 DEF SettingsRoute, SetLanguage, Update
  <2>3. req'[r] = [pc |-> "truncate", handler |-> req[r], next |-> next, data |-> data]
      BY <1>1, <2>2
  <2>4. req'[r].pc = "truncate" /\ req'[r].handler = req[r]
      BY <2>3
  <2> QED
      BY <2>1, <2>4 DEF Trusted, Carrying, Held
<1>6. CASE LoadLang(r) \/ SwapLang(r)
  <2>1. req[r].pc \in {"load", "swap"}
      BY <1>6 DEF LoadLang, SwapLang, At
  <2>2. req'[r].pc \in {"swap", "idle"}
      BY <1>1, <1>6 DEF LoadLang, SwapLang
  <2> QED
      BY <2>1, <2>2 DEF Trusted, Carrying
<1> QED
    BY <1>3, <1>4, <1>5, <1>6 DEF Inner

LEMMA UpdateMoves ==
    ASSUME Base, NEW r \in Requests, UpdateStep(r)
    PROVE  /\ req[r].pc \in Trusted /\ req'[r].pc # "validate"
           /\ req'[r].pc \in Carrying => req[r].pc \in Carrying /\ Held(req'[r]) = Held(req[r])
<1>1. /\ req[r].pc \in {"truncate", "write"}
      /\ req'[r].pc \in {"idle", "write", "load", "revoke"}
    BY UpdateArrives DEF UpdateStep, Truncate, Write, At
<1>2. req[r] \in RouteUpdate \union LanguageUpdate
    BY <1>1, Kinds DEF Base, Shapes
<1>3. CASE Ends(r)
    BY <1>1, <1>3, EndsIdle DEF Trusted, Carrying
<1>4. CASE Goto(r, "write")
  <2>1. req'[r] = [req[r] EXCEPT !.pc = "write"]
      BY <1>4, GotoBecomes, OneRequest DEF Base
  <2>2. req'[r].pc = "write" /\ req'[r].handler = req[r].handler
      BY <1>2, <2>1 DEF RouteUpdate, LanguageUpdate
  <2> QED
      BY <1>1, <2>2 DEF Trusted, Carrying, Held
<1>5. CASE Becomes(r, [req[r].handler EXCEPT !.pc = req[r].next])
  <2>1. req'[r] = [req[r].handler EXCEPT !.pc = req[r].next]
      BY <1>5, OneRequest DEF Base
  <2>2. req'[r].pc \in {"revoke", "load"} /\ req'[r].token = req[r].handler.token
    <3>1. CASE req[r] \in RouteUpdate
        BY <2>1, <3>1 DEF RouteUpdate, SettingsLocal
    <3>2. CASE req[r] \in LanguageUpdate
        BY <2>1, <3>2 DEF LanguageUpdate, LanguageLocal
    <3> QED
        BY <1>2, <3>1, <3>2
  <2> QED
      BY <1>1, <2>2 DEF Trusted, Carrying, Held
<1> QED
    BY <1>3, <1>4, <1>5 DEF UpdateStep, Truncate, Write

LEMMA OuterMoves ==
    ASSUME Base, NEW r \in Requests,
           LoginStep(r) \/ PageStep(r) \/ DispatchStep(r) \/ Revoke(r)
    PROVE  req[r].pc \in Outside /\ req'[r].pc \in Outside \ {"revoke"}
<1>1. /\ \A pc : Goto(r, pc) => req'[r].pc = pc
      /\ Ends(r) => req'[r].pc = "idle"
      /\ \A local : Becomes(r, local) => req'[r] = local
    BY GoesTo, EndsIdle, OneRequest DEF Base
<1>2. IsLocal(req[r])
    BY DEF Base, Shapes
<1>3. CASE LoginStep(r) \/ Revoke(r)
    BY <1>1, <1>3
       DEF LoginStep, LoginCheck, LoginCompare, LoginFail, LoginReset, LoginCreate, Revoke, At, Outside
<1>4. CASE PageStep(r)
  <2>1. req[r].pc \in {"build", "finish", "show"} /\ req[r] \in PageLocal
      BY <1>2, <1>4, Kinds DEF PageStep, PageBuild, PageFinish, PageShow, At
  <2>2. \A pc, strings : [req[r] EXCEPT !.pc = pc, !.strings = strings].pc = pc
      BY <2>1 DEF PageLocal
  <2>3. \/ Ends(r)
        \/ \E strings : Becomes(r, [req[r] EXCEPT !.pc = "show", !.strings = strings])
        \/ \E strings : Becomes(r, [req[r] EXCEPT !.pc = "finish", !.strings = strings])
      BY <1>4 DEF PageStep, PageBuild, PageFinish, PageShow
  <2>4. ASSUME NEW pc \in {"show", "finish"}, NEW strings,
               Becomes(r, [req[r] EXCEPT !.pc = pc, !.strings = strings])
        PROVE  req'[r].pc = pc
    <3>1. req'[r] = [req[r] EXCEPT !.pc = pc, !.strings = strings]
        BY <1>1, <2>4
    <3> QED
        BY <2>2, <3>1
  <2>5. req'[r].pc \in {"idle", "show", "finish"}
      BY <1>1, <2>3, <2>4
  <2> QED
      BY <2>1, <2>5 DEF Outside
<1>5. CASE DispatchStep(r)
  <2>1. req[r].pc \in {"seed", "find", "encrypt", "store", "sent"} /\ IsDispatch(req[r])
      BY <1>2, <1>5, Kinds
         DEF DispatchStep, DispatchSeed, DispatchFind, DispatchEncrypt, DispatchStore, DispatchEnd, At
  <2>2. /\ \A text : Answer(r, text) => req'[r].pc = "encrypt"
        /\ \A for, text : Sends(r, for, text) => req'[r].pc = "sent"
    <3>1. /\ \A text : [req[r] EXCEPT !.pc = "encrypt", !.text = text].pc = "encrypt"
          /\ \A sent : [req[r] EXCEPT !.pc = "sent", !.sent = sent].pc = "sent"
        BY <2>1 DEF IsDispatch, DispatchLocal
    <3> QED
        BY <1>1, <3>1 DEF Answer, Sends
  <2>3. req'[r].pc \in {"idle", "find", "encrypt", "store", "sent"}
      BY <1>1, <1>5, <2>2
         DEF DispatchStep, DispatchSeed, DispatchFind, DispatchEncrypt, DispatchStore, DispatchEnd
  <2> QED
      BY <2>1, <2>3 DEF Outside
<1> QED
    BY <1>3, <1>4, <1>5

LEMMA ValidateMoves ==
    ASSUME Base, NEW r \in Requests, Validate(r)
    PROVE  /\ req[r].pc = "validate" /\ req[r].token \in Tokens
           /\ \/ sessions[req[r].token] = "live" /\ req'[r].pc \in {"read", "language"}
              \/ req'[r].pc = "idle"
           /\ req'[r].pc \in Carrying => Held(req'[r]) = Held(req[r])
<1>1. req[r].pc = "validate" /\ req[r] \in SettingsLocal \union LanguageLocal
    BY Kinds DEF Validate, At, Base, Shapes
<1>2. CASE Ends(r)
    BY <1>1, <1>2, EndsIdle DEF Carrying, SettingsLocal, LanguageLocal
<1>3. CASE Goto(r, req[r].next) /\ sessions[req[r].token] = "live"
  <2>1. req'[r] = [req[r] EXCEPT !.pc = req[r].next]
      BY <1>3, GotoBecomes, OneRequest DEF Base
  <2>2. CASE req[r] \in SettingsLocal
      BY <1>1, <1>3, <2>1, <2>2 DEF SettingsLocal, Held
  <2>3. CASE req[r] \in LanguageLocal
      BY <1>1, <1>3, <2>1, <2>3 DEF LanguageLocal, Held
  <2> QED
      BY <1>1, <2>2, <2>3
<1> QED
    BY <1>2, <1>3 DEF Validate

LEMMA AskMoves ==
    ASSUME Base, NEW r \in Requests, AskPanel(r)
    PROVE  /\ req[r].pc = "idle" /\ UNCHANGED sessions
           /\ req'[r].pc \in {"check", "revoke", "validate", "build"}
           /\ req'[r].pc \in {"revoke", "validate"} => sessions[req'[r].token] # "unused"
<1>1. ASSUME NEW cost, NEW local, Asks(r, cost, local)
      PROVE  req'[r] = local /\ req[r].pc = "idle" /\ UNCHANGED sessions
    BY <1>1, OneRequest, IdleLocal DEF Asks, Base, panelVars, loginVars
<1>2. CASE AskLogin(r)
  <2>1. PICK c \in Guesses : Asks(r, 1, [pc |-> "check", guess |-> c])
      BY <1>2 DEF AskLogin
  <2>2. req'[r] = [pc |-> "check", guess |-> c]
      BY <1>1, <2>1
  <2> QED
      BY <1>1, <2>1, <2>2
<1>3. ASSUME NEW t \in Tokens, AskLogout(r, t)
      PROVE  /\ req'[r].pc = "revoke" /\ req'[r].token = t /\ sessions[t] # "unused"
             /\ req[r].pc = "idle" /\ UNCHANGED sessions
  <2>1. req'[r] = [pc |-> "revoke", token |-> t] /\ req[r].pc = "idle" /\ UNCHANGED sessions
      BY <1>1, <1>3 DEF AskLogout
  <2> QED
      BY <1>3, <2>1 DEF AskLogout
<1>4. ASSUME NEW t \in Tokens, NEW change \in Changes, NEW old \in Passwords,
             AskSettings(r, t, change, old)
      PROVE  /\ req'[r].pc = "validate" /\ req'[r].token = t /\ sessions[t] # "unused"
             /\ req[r].pc = "idle" /\ UNCHANGED sessions
  <2>1. /\ req'[r] = [pc |-> "validate", token |-> t, next |-> "read", change |-> change,
                      old |-> old, seen |-> FirstCreds]
        /\ req[r].pc = "idle" /\ UNCHANGED sessions
      BY <1>1, <1>4 DEF AskSettings
  <2> QED
      BY <1>4, <2>1 DEF AskSettings
<1>5. ASSUME NEW t \in Tokens, NEW language \in Languages, AskSetLang(r, t, language)
      PROVE  /\ req'[r].pc = "validate" /\ req'[r].token = t /\ sessions[t] # "unused"
             /\ req[r].pc = "idle" /\ UNCHANGED sessions
  <2>1. /\ req'[r] = [pc |-> "validate", token |-> t, next |-> "language", language |-> language]
        /\ req[r].pc = "idle" /\ UNCHANGED sessions
      BY <1>1, <1>5 DEF AskSetLang
  <2> QED
      BY <1>5, <2>1 DEF AskSetLang
<1>6. CASE AskPage(r)
  <2>1. Asks(r, 1, [pc |-> "build", language |-> cfg.language, strings |-> {}])
      BY <1>6 DEF AskPage
  <2>2. req'[r] = [pc |-> "build", language |-> cfg.language, strings |-> {}]
      BY <1>1, <2>1
  <2> QED
      BY <1>1, <2>1, <2>2
<1> QED
    BY <1>2, <1>3, <1>4, <1>5, <1>6 DEF AskPanel

LEMMA KnownStep ==
    ASSUME Base, [Next]_vars, KnownOK
    PROVE  KnownOK'
<1>1. \A v \in Requests : req[v].pc \in Carrying => sessions'[Held(req[v])] # "unused"
    BY HeldTokens, TokensStay DEF KnownOK, Base, Shapes
<1>2. ASSUME NEW r \in Requests, \A v \in Requests : v # r => req'[v] = req[v],
             req'[r].pc \in Carrying => sessions'[Held(req'[r])] # "unused"
      PROVE  KnownOK'
    BY <1>1, <1>2 DEF KnownOK
<1>3. ASSUME NEW r \in Requests, AskPanel(r)
      PROVE  KnownOK'
  <2>1. req'[r].pc \in Carrying => sessions'[Held(req'[r])] # "unused"
      BY <1>3, AskMoves DEF Carrying, Held
  <2> QED
      BY <1>2, <1>3, <2>1, OthersStay
<1>4. ASSUME NEW r \in Requests, PanelStep(r) \/ DispatchStep(r) \/ UpdateStep(r)
      PROVE  KnownOK'
  <2>1. CASE Inner(r) \/ UpdateStep(r)
      BY <1>1, <1>2, <1>4, <2>1, InnerMoves, UpdateMoves, OthersStay
  <2>2. CASE Validate(r)
    <3>1. req[r].pc \in Carrying
        BY <2>2, ValidateMoves DEF Carrying
    <3> QED
        BY <1>1, <1>2, <1>4, <2>2, <3>1, ValidateMoves, OthersStay
  <2>3. CASE LoginStep(r) \/ PageStep(r) \/ DispatchStep(r) \/ Revoke(r)
    <3>1. req'[r].pc \notin Carrying
        BY <2>3, OuterMoves DEF Outside, Carrying
    <3> QED
        BY <1>2, <1>4, <3>1, OthersStay
  <2> QED
      BY <1>4, <2>1, <2>2, <2>3 DEF PanelStep, Inner, LoginStep, PageStep
<1>5. ASSUME NEW r \in Requests, NEW name \in RegionNames, NEW key \in KeyIds, AskRegion(r, name, key)
      PROVE  KnownOK'
  <2>1. req'[r].pc = "seed"
      BY <1>5, OneRequest DEF AskRegion, Base
  <2> QED
      BY <1>2, <1>5, <2>1, OthersStay DEF Carrying
<1>6. CASE UNCHANGED req
    BY <1>1, <1>6 DEF KnownOK
<1>7. CASE ReloadBegins
  <2>1. \A v \in Requests : /\ req'[v].pc = req[v].pc
                            /\ req[v].pc \notin {"seed", "find"} => req'[v] = req[v]
      BY <1>7, ReloadLocals DEF ReloadBegins
  <2>2. \A v \in Requests : req'[v].pc \in Carrying => req'[v] = req[v]
      BY <2>1 DEF Carrying
  <2> QED
      BY <1>1, <2>2 DEF KnownOK
<1>8. CASE Kill
    BY <1>8, IdleLocal DEF Kill, ConfigKill, KnownOK, Carrying
<1> QED
    BY <1>3, <1>4, <1>5, <1>6, <1>7, <1>8
       DEF Next, vars, TimePasses, LockRunsOut, SessionRunsOut, OperatorEdits, Edit, ReloadEnds,
           DispatchAfterReload, Start, ConfigStart

(* A request never carries a token that no login was answered with.         *)
THEOREM TokensAreGiven == Spec => [](Base /\ KnownOK)
<1>1. Init => Base /\ KnownOK
    BY InitBase, IdleLocal DEF Init, ConfigInit, KnownOK, Carrying
<1>2. Base /\ KnownOK /\ [Next]_vars => (Base /\ KnownOK)'
    BY NextBase, KnownStep
<1> QED
    BY <1>1, <1>2, PTL DEF Spec

-----------------------------------------------------------------------------
(* What a step does to those at the door and inside.                        *)
LEMMA OneVisit ==
    ASSUME NEW r \in Requests, \A v \in Requests : v # r => req'[v] = req[v]
    PROVE  /\ (r \in LetIn' <=> r \in LetIn) => LetIn' = LetIn
           /\ r \in LetIn' /\ r \notin LetIn => LetIn' = LetIn \union {r}
           /\ r \notin LetIn' /\ r \in LetIn => LetIn' = LetIn \ {r}
           /\ r \notin AtDoor' /\ r \notin AtDoor => Asking' = Asking
           /\ r \in AtDoor' /\ r \notin AtDoor => Asking' = Asking \union {<<r, req'[r].token>>}
           /\ r \notin AtDoor' /\ r \in AtDoor => Asking' = Asking \ {<<r, req[r].token>>}
<1>1. \A v \in Requests : v # r => (v \in LetIn' <=> v \in LetIn) /\ (v \in AtDoor' <=> v \in AtDoor)
    BY DEF LetIn, AtDoor, At
<1>2. LetIn \subseteq Requests /\ LetIn' \subseteq Requests
    BY DEF LetIn
<1>3. AtDoor \subseteq Requests /\ AtDoor' \subseteq Requests
    BY DEF AtDoor
<1>4. \A visit : visit \in Asking <=> \E v \in AtDoor : visit = <<v, req[v].token>>
    BY DEF Asking
<1>5. \A visit : visit \in Asking' <=> \E v \in AtDoor' : visit = <<v, req'[v].token>>
    BY DEF Asking
<1>6. /\ (r \in LetIn' <=> r \in LetIn) => LetIn' = LetIn
      /\ r \in LetIn' /\ r \notin LetIn => LetIn' = LetIn \union {r}
      /\ r \notin LetIn' /\ r \in LetIn => LetIn' = LetIn \ {r}
    BY <1>1, <1>2
<1>7. r \notin AtDoor' /\ r \notin AtDoor => Asking' = Asking
    BY <1>1, <1>3, <1>4, <1>5
<1>8. r \in AtDoor' /\ r \notin AtDoor => Asking' = Asking \union {<<r, req'[r].token>>}
    BY <1>1, <1>3, <1>4, <1>5
<1>9. r \notin AtDoor' /\ r \in AtDoor => Asking' = Asking \ {<<r, req[r].token>>}
    BY <1>1, <1>3, <1>4, <1>5
<1> QED
    BY <1>6, <1>7, <1>8, <1>9

Keys == <<TokensIn({"live", "over", "ended"}), TokensIn({"live"}), TokensIn({"over", "ended"})>>

LEMMA KeysStay ==
    ASSUME UNCHANGED sessions
    PROVE  UNCHANGED Keys
BY DEF Keys, TokensIn

(* A step of a request from inside: it stays there or leaves.               *)
LEMMA StayOrLeave ==
    ASSUME NEW r \in Requests, \A v \in Requests : v # r => req'[v] = req[v],
           r \in LetIn, req[r].pc # "validate", req'[r].pc # "validate", UNCHANGED Keys
    PROVE  Panel!Leave \/ UNCHANGED <<Keys, Asking, LetIn>>
<1>1. Asking' = Asking
  <2>1. r \notin AtDoor /\ r \notin AtDoor'
      BY DEF AtDoor, At
  <2> QED
      BY <2>1, OneVisit
<1>2. CASE r \in LetIn'
    BY <1>1, <1>2, OneVisit
<1>3. CASE r \notin LetIn'
  <2>1. LetIn' = LetIn \ {r}
      BY <1>3, OneVisit
  <2> QED
      BY <1>1, <2>1 DEF Panel!Leave, Panel!keys, Keys
<1> QED
    BY <1>2, <1>3

LEMMA StayOutside ==
    ASSUME NEW r \in Requests, \A v \in Requests : v # r => req'[v] = req[v],
           req[r].pc \in Outside, req'[r].pc \in Outside
    PROVE  UNCHANGED <<Asking, LetIn>>
<1>1. r \notin AtDoor /\ r \notin AtDoor' /\ r \notin LetIn /\ r \notin LetIn'
    BY DEF AtDoor, LetIn, At, Outside
<1> QED
    BY <1>1, OneVisit

LEMMA AskSessions ==
    ASSUME Base, Base', NEW r \in Requests, AskPanel(r)
    PROVE  Panel!Ask \/ UNCHANGED <<Keys, Asking, LetIn>>
<1>1. UNCHANGED Keys
    BY AskMoves, KeysStay
<1>2. \A v \in Requests : v # r => req'[v] = req[v]
    BY OthersStay
<1>3. CASE req'[r].pc # "validate"
  <2>1. req[r].pc \in Outside /\ req'[r].pc \in Outside
      BY <1>3, AskMoves DEF Outside
  <2> QED
      BY <1>1, <1>2, <2>1, StayOutside
<1>4. CASE req'[r].pc = "validate"
  <2> DEFINE visit == <<r, req'[r].token>>
  <2>1. r \notin AtDoor /\ r \in AtDoor' /\ r \notin LetIn /\ r \notin LetIn'
      BY <1>4, AskMoves DEF AtDoor, LetIn, At
  <2>2. Asking' = Asking \union {visit} /\ LetIn' = LetIn
      BY <1>2, <2>1, OneVisit
  <2>3. visit[2] \in TokensIn({"live", "over", "ended"})
    <3>1. IsLocal(req'[r])
        BY DEF Base, Shapes
    <3>2. req'[r].token \in Tokens
        BY <1>4, <3>1, Kinds DEF SettingsLocal, LanguageLocal
    <3>3. sessions[req'[r].token] \in {"live", "over", "ended"}
        BY <1>4, <3>2, AskMoves, PanelTypes
    <3> QED
        BY <3>2, <3>3 DEF TokensIn
  <2>4. visit[1] \in Requests \ (LetIn \union {other[1] : other \in Asking})
    <3>1. \A other \in Asking : other[1] \in AtDoor
        BY DEF Asking
    <3> QED
        BY <2>1, <3>1
  <2>5. visit \in Asking'
      BY <2>2
  <2> HIDE DEF visit
  <2> QED
      BY <1>1, <2>2, <2>3, <2>4, <2>5 DEF Panel!Ask, Panel!keys, Keys
<1> QED
    BY <1>3, <1>4

LEMMA ValidateSessions ==
    ASSUME Base, NEW r \in Requests, Validate(r)
    PROVE  Panel!Enter \/ Panel!Leave
<1> DEFINE visit == <<r, req[r].token>>
<1>1. \A v \in Requests : v # r => req'[v] = req[v]
    BY OthersStay DEF PanelStep
<1>2. UNCHANGED Keys
  <2>1. \A t \in Tokens : \/ sessions'[t] = sessions[t]
                          \/ sessions[t] = "over" /\ sessions'[t] = "ended"
      BY PanelTypes DEF Validate
  <2>2. \A state \in {{"live", "over", "ended"}, {"live"}, {"over", "ended"}} :
            \A t \in Tokens : sessions'[t] \in state <=> sessions[t] \in state
      BY <2>1
  <2>3. \A state \in {{"live", "over", "ended"}, {"live"}, {"over", "ended"}} :
            TokensIn(state)' = TokensIn(state)
      BY <2>2 DEF TokensIn
  <2> QED
      BY <2>3 DEF Keys
<1>3. r \in AtDoor /\ r \notin LetIn /\ visit \in Asking
    BY ValidateMoves DEF AtDoor, LetIn, Asking, At
<1>4. r \notin AtDoor' /\ Asking' = Asking \ {visit}
  <2>1. r \notin AtDoor'
      BY ValidateMoves DEF AtDoor, At
  <2> QED
      BY <1>1, <1>3, <2>1, OneVisit
<1>5. CASE sessions[req[r].token] = "live" /\ req'[r].pc \in {"read", "language"}
  <2>1. LetIn' = LetIn \union {r}
    <3>1. r \in LetIn'
        BY <1>5 DEF LetIn
    <3> QED
        BY <1>1, <1>3, <3>1, OneVisit
  <2>2. req[r].token \in TokensIn({"live"})
      BY <1>5, ValidateMoves DEF TokensIn
  <2> QED
      BY <1>2, <1>3, <1>4, <2>1, <2>2 DEF Panel!Enter, Panel!keys, Keys
<1>6. CASE req'[r].pc = "idle"
  <2>1. LetIn' = LetIn
    <3>1. r \notin LetIn'
        BY <1>6 DEF LetIn
    <3> QED
        BY <1>1, <1>3, <3>1, OneVisit
  <2> QED
      BY <1>2, <1>3, <1>4, <2>1 DEF Panel!Leave, Panel!keys, Keys
<1> QED
    BY <1>5, <1>6, ValidateMoves

LEMMA CreateSessions ==
    ASSUME Base, NEW r \in Requests, LoginCreate(r)
    PROVE  Panel!Issue \/ UNCHANGED <<Keys, Asking, LetIn>>
<1>1. UNCHANGED <<Asking, LetIn>>
  <2>1. req[r].pc \in Outside /\ req'[r].pc \in Outside
      BY OuterMoves DEF LoginStep
  <2> QED
      BY <2>1, OthersStay, StayOutside DEF PanelStep
<1>2. CASE UNCHANGED sessions
    BY <1>1, <1>2, KeysStay
<1>3. ASSUME NEW t \in Fresh, sessions' = [sessions EXCEPT ![t] = "live"]
      PROVE  Panel!Issue
  <2>1. t \in Tokens /\ sessions[t] = "unused" /\ sessions \in [Tokens -> {"unused", "live", "over", "ended"}]
      BY <1>3, PanelTypes DEF Fresh
  <2>2. /\ TokensIn({"live", "over", "ended"})' = TokensIn({"live", "over", "ended"}) \union {t}
        /\ TokensIn({"live"})' = (TokensIn({"live"}) \ {}) \union {t}
        /\ TokensIn({"over", "ended"})' = TokensIn({"over", "ended"}) \union {}
      BY <1>3, <2>1 DEF TokensIn
  <2>3. t \notin TokensIn({"live", "over", "ended"}) /\ t \notin TokensIn({"live"})
        /\ t \notin TokensIn({"over", "ended"})
      BY <2>1 DEF TokensIn
  <2>4. t \in (TokensIn({"live", "over", "ended"}) \union TokensIn({"live"}))'
              \ (TokensIn({"live", "over", "ended"}) \union TokensIn({"live"})
                 \union TokensIn({"over", "ended"}))
      BY <2>2, <2>3
  <2> QED
      BY <1>1, <2>2, <2>4 DEF Panel!Issue, Panel!visits
<1> QED
    BY <1>2, <1>3 DEF LoginCreate

(* A session that was given away ends, or runs out.                         *)
LEMMA SessionEnds ==
    ASSUME Base, NEW t \in Tokens, sessions[t] # "unused", NEW s \in {"over", "ended"},
           sessions' = [sessions EXCEPT ![t] = s], UNCHANGED <<Asking, LetIn>>
    PROVE  Panel!Lapse
<1>1. sessions \in [Tokens -> {"unused", "live", "over", "ended"}]
    BY PanelTypes
<1>2. TokensIn({"live"})' = TokensIn({"live"}) \ {t}
    BY <1>1 DEF TokensIn
<1>3. TokensIn({"over", "ended"})' = TokensIn({"over", "ended"}) \union {t}
    BY <1>1 DEF TokensIn
<1>4. TokensIn({"live", "over", "ended"})' = TokensIn({"live", "over", "ended"})
    BY <1>1 DEF TokensIn
<1>5. t \in TokensIn({"live"}) \/ t \in TokensIn({"over", "ended"})
    BY <1>1 DEF TokensIn
<1> QED
    BY <1>2, <1>3, <1>4, <1>5 DEF Panel!Lapse, Panel!visits

LEMMA RevokeSessions ==
    ASSUME Base, KnownOK, NEW r \in Requests, Revoke(r)
    PROVE  Panel!Lapse
<1>1. UNCHANGED <<Asking, LetIn>>
  <2>1. req[r].pc \in Outside /\ req'[r].pc \in Outside
      BY OuterMoves
  <2> QED
      BY <2>1, OthersStay, StayOutside DEF PanelStep
<1>2. req[r].pc = "revoke"
    BY DEF Revoke, At
<1>3. req[r].token \in Tokens /\ sessions[req[r].token] # "unused"
  <2>1. Held(req[r]) = req[r].token /\ req[r].pc \in Carrying
      BY <1>2 DEF Held, Carrying
  <2> QED
      BY <2>1, HeldTokens DEF KnownOK, Base, Shapes
<1> QED
    BY <1>1, <1>3, SessionEnds DEF Revoke

LEMMA KillSessions ==
    ASSUME Base, Kill
    PROVE  Panel!Clear
<1>1. sessions \in [Tokens -> {"unused", "live", "over", "ended"}]
    BY PanelTypes
<1>2. sessions' = [t \in Tokens |-> IF sessions[t] = "unused" THEN "unused" ELSE "ended"]
    BY DEF Kill, PanelKill
<1>3. \A r \in Requests : req'[r].pc = "idle"
    BY IdleLocal DEF Kill, ConfigKill
<1>4. /\ TokensIn({"live"})' = {}
      /\ TokensIn({"over", "ended"})' = TokensIn({"over", "ended"}) \union TokensIn({"live"})
      /\ TokensIn({"live", "over", "ended"})' = TokensIn({"live", "over", "ended"})
    BY <1>1, <1>2 DEF TokensIn
<1>5. Asking' = {} /\ LetIn' = {}
    BY <1>3 DEF Asking, AtDoor, LetIn, At
<1> QED
    BY <1>4, <1>5 DEF Panel!Clear

(* The panel keeps what Sessions promises of any number of requests and     *)
(* tokens, through logins, logouts, changes of the settings, sessions that  *)
(* run out and kills of the process (createAdminSession,                    *)
(* validateAdminSession, revokeAdminSession and their callers).             *)
THEOREM SessionsOfPanel == Spec => TokensAreSessions
<1> DEFINE Mapped == <<Keys, <<Asking, LetIn>>>>
<1>1. Init => Panel!SessionsInit
    BY IdleLocal
       DEF Init, ConfigInit, PanelInit, Panel!SessionsInit, TokensIn, Asking, AtDoor, LetIn, At
<1>2. Base /\ Base' /\ KnownOK /\ [Next]_vars => [Panel!SessionsNext]_Mapped
  <2> SUFFICES ASSUME Base, Base', KnownOK, [Next]_vars
               PROVE  Panel!SessionsNext \/ UNCHANGED <<Keys, Asking, LetIn>>
      OBVIOUS
  <2> USE DEF Panel!SessionsNext
  <2>1. ASSUME NEW r \in Requests, AskPanel(r)
        PROVE  Panel!SessionsNext \/ UNCHANGED <<Keys, Asking, LetIn>>
      BY <2>1, AskSessions
  <2>2. ASSUME NEW r \in Requests, PanelStep(r) \/ UpdateStep(r)
        PROVE  Panel!SessionsNext \/ UNCHANGED <<Keys, Asking, LetIn>>
    <3>1. \A v \in Requests : v # r => req'[v] = req[v]
        BY <2>2, OthersStay
    <3>2. CASE Inner(r) \/ UpdateStep(r)
      <4>1. req[r].pc \in Trusted /\ req'[r].pc # "validate"
          BY <3>2, InnerMoves, UpdateMoves
      <4>2. r \in LetIn /\ req[r].pc # "validate"
          BY <4>1 DEF LetIn, Trusted
      <4>3. UNCHANGED sessions
          BY <3>2
             DEF Inner, SettingsRead, SettingsChange, SettingsRoute, SetLanguage, LoadLang, SwapLang,
                 UpdateStep, PanelAfterUpdate, panelVars, loginVars
      <4> QED
          BY <3>1, <4>1, <4>2, <4>3, KeysStay, StayOrLeave
    <3>3. CASE Validate(r)
        BY <3>3, ValidateSessions
    <3>4. CASE LoginCreate(r)
        BY <3>4, CreateSessions
    <3>5. CASE Revoke(r)
        BY <3>5, RevokeSessions
    <3>6. ASSUME LoginStep(r) \/ PageStep(r) \/ DispatchStep(r), UNCHANGED sessions
          PROVE  UNCHANGED <<Keys, Asking, LetIn>>
      <4>1. req[r].pc \in Outside /\ req'[r].pc \in Outside
          BY <3>6, OuterMoves
      <4> QED
          BY <3>1, <3>6, <4>1, KeysStay, StayOutside
    <3>7. CASE LoginCheck(r) \/ LoginCompare(r) \/ LoginFail(r) \/ LoginReset(r)
        BY <3>6, <3>7 DEF LoginStep, LoginCheck, LoginCompare, LoginFail, LoginReset
    <3>8. CASE PageStep(r)
        BY <3>6, <3>8 DEF PageStep, PageBuild, PageFinish, PageShow, panelVars, loginVars
    <3> QED
        BY <2>2, <3>2, <3>3, <3>4, <3>5, <3>7, <3>8 DEF PanelStep, Inner, PageStep
  <2>3. ASSUME NEW r \in Requests, DispatchStep(r), UNCHANGED panelVars
        PROVE  UNCHANGED <<Keys, Asking, LetIn>>
    <3>1. req[r].pc \in Outside /\ req'[r].pc \in Outside
        BY <2>3, OuterMoves
    <3> QED
        BY <2>3, <3>1, OthersStay, KeysStay, StayOutside DEF panelVars, loginVars
  <2>4. ASSUME NEW r \in Requests, NEW name \in RegionNames, NEW key \in KeyIds,
               AskRegion(r, name, key), UNCHANGED panelVars
        PROVE  UNCHANGED <<Keys, Asking, LetIn>>
    <3>1. req[r].pc = "idle" /\ req'[r].pc = "seed"
        BY <2>4, OneRequest, IdleLocal DEF AskRegion, Base
    <3>2. req[r].pc \in Outside /\ req'[r].pc \in Outside
        BY <3>1 DEF Outside
    <3> QED
        BY <2>4, <3>2, OthersStay, KeysStay, StayOutside DEF panelVars, loginVars
  <2>5. ASSUME UNCHANGED req PROVE UNCHANGED <<Asking, LetIn>>
      BY <2>5 DEF Asking, AtDoor, LetIn, At
  <2>6. CASE TimePasses
    <3>1. UNCHANGED req
        BY <2>6 DEF TimePasses, LockRunsOut, SessionRunsOut
    <3>2. CASE UNCHANGED sessions
        BY <2>5, <3>1, <3>2, KeysStay
    <3>3. ASSUME NEW t \in Tokens, SessionRunsOut(t)
          PROVE  Panel!SessionsNext
        BY <2>5, <3>1, <3>3, SessionEnds DEF SessionRunsOut
    <3> QED
        BY <2>6, <3>2, <3>3 DEF TimePasses, LockRunsOut
  <2>7. CASE OperatorEdits \/ ReloadEnds \/ Start \/ UNCHANGED vars
    <3>1. UNCHANGED <<req, sessions>>
        BY <2>7
           DEF OperatorEdits, Edit, ReloadEnds, DispatchAfterReload, PanelAfterReload, Start,
               ConfigStart, PanelStart, vars, panelVars, loginVars
    <3> QED
        BY <2>5, <3>1, KeysStay
  <2>8. CASE ReloadBegins
    <3>1. UNCHANGED sessions
        BY <2>8 DEF ReloadBegins, panelVars, loginVars
    <3>2. \A v \in Requests : /\ req'[v].pc = req[v].pc
                              /\ req[v].pc \notin {"seed", "find"} => req'[v] = req[v]
        BY <2>8, ReloadLocals DEF ReloadBegins
    <3>3. AtDoor' = AtDoor /\ LetIn' = LetIn
        BY <3>2 DEF AtDoor, LetIn, At
    <3>4. \A v \in AtDoor : req'[v] = req[v]
        BY <3>2 DEF AtDoor, At
    <3>5. Asking' = Asking
        BY <3>3, <3>4 DEF Asking
    <3> QED
        BY <3>1, <3>3, <3>5, KeysStay
  <2>9. CASE Kill
      BY <2>9, KillSessions
  <2> QED
      BY <2>1, <2>2, <2>3, <2>4, <2>6, <2>7, <2>8, <2>9 DEF Next
<1> QED
    BY <1>1, <1>2, TokensAreGiven, PTL
       DEF Spec, TokensAreSessions, Panel!SessionsSpec, Panel!keys, Panel!visits, Keys
=============================================================================
