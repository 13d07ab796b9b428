-------------------------------- MODULE Server --------------------------------
(***************************************************************************)
(* The process as one program: requests to the panel and requests of       *)
(* clients share the configuration, which the operator edits and reloads,  *)
(* and all of them end when the process is killed.                         *)
(***************************************************************************)
EXTENDS AdminPanel, Dispatch

vars == <<configVars, spent, req, panelVars, regionRespCache>>

Init == ConfigInit /\ PanelInit /\ DispatchInit

AskPanel(r) ==
    \/ AskLogin(r)
    \/ \E t \in Tokens :
           \/ AskLogout(r, t)
           \/ \E change \in Changes, old \in Passwords : AskSettings(r, t, change, old)
           \/ \E language \in Languages : AskSetLang(r, t, language)
    \/ AskPage(r)

PanelStep(r) ==
    \/ Validate(r)
    \/ LoginCheck(r) \/ LoginCompare(r) \/ LoginFail(r) \/ LoginReset(r) \/ LoginCreate(r)
    \/ SettingsRead(r) \/ SettingsChange(r) \/ SettingsRoute(r) \/ Revoke(r)
    \/ SetLanguage(r) \/ LoadLang(r) \/ SwapLang(r)
    \/ PageBuild(r) \/ PageFinish(r) \/ PageShow(r)

DispatchStep(r) ==
    DispatchSeed(r) \/ DispatchFind(r) \/ DispatchEncrypt(r) \/ DispatchStore(r) \/ DispatchEnd(r)

(* The steps of updateConfig, for whichever handler called it.              *)
UpdateStep(r) == (Truncate(r) \/ Write(r)) /\ PanelAfterUpdate(r) /\ UNCHANGED regionRespCache

TimePasses == (LockRunsOut \/ \E t \in Tokens : SessionRunsOut(t)) /\ UNCHANGED regionRespCache

OperatorEdits == Edit /\ UNCHANGED <<panelVars, regionRespCache>>
ReloadBegins == ReloadBegin /\ DispatchAtReload /\ UNCHANGED panelVars
ReloadEnds == ReloadEnd /\ DispatchAfterReload /\ PanelAfterReload
Kill == ConfigKill /\ PanelKill /\ DispatchKill
Start == ConfigStart /\ PanelStart /\ UNCHANGED regionRespCache

Next ==
    \/ \E r \in Requests :
           \/ (AskPanel(r) \/ PanelStep(r)) /\ UNCHANGED regionRespCache
           \/ \E name \in RegionNames, key \in KeyIds : AskRegion(r, name, key) /\ UNCHANGED panelVars
           \/ DispatchStep(r) /\ UNCHANGED panelVars
           \/ UpdateStep(r)
    \/ TimePasses
    \/ OperatorEdits
    \/ ReloadBegins
    \/ ReloadEnds
    \/ Kill
    \/ Start

Spec == Init /\ [][Next]_vars

-----------------------------------------------------------------------------
(* The types of all parts, and: cfgMu is held by a request exactly while    *)
(* its updateConfig runs (config.go:92-101).                                *)
TypeOK ==
    /\ ConfigTypeOK /\ PanelTypeOK /\ DispatchTypeOK
    /\ \A r \in Requests : owner = r <=> req[r].pc \in {"truncate", "write"}

(* The sessions of the panel (database.go:470-495) implement Sessions: no   *)
(* handler goes on for a token that was not live at some moment since the   *)
(* request came, and a session that ran out, was revoked or was lost with   *)
(* the process is not live again, however the handlers and the kill of the  *)
(* process interleave.                                                     *)
AtDoor == {r \in Requests : At(r, "validate")}
Asking == {<<r, req[r].token>> : r \in AtDoor}
LetIn ==
    {r \in Requests : req[r].pc \in {"read", "change", "route", "language", "load", "swap",
                                     "truncate", "write"}}
TokensIn(state) == {t \in Tokens : sessions[t] \in state}
Panel ==
    INSTANCE Sessions WITH
        Visitors <- Requests, known <- TokensIn({"live", "over", "ended"}),
        live <- TokensIn({"live"}), ended <- TokensIn({"over", "ended"}),
        asking <- Asking, inside <- LetIn
TokensAreSessions == Panel!SessionsSpec
=============================================================================
