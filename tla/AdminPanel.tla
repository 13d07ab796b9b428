------------------------------ MODULE AdminPanel ------------------------------
(***************************************************************************)
(* The handlers of the panel that keep state of their own (server.go,      *)
(* database.go, admin.go, lang.go): the login with its lock, the sessions, *)
(* the change of the credentials and of the route, the change of the       *)
(* language, and the page, which is cached for one language.  Each handler *)
(* is a goroutine; between two steps any other may run.                    *)
(***************************************************************************)
EXTENDS Configuration, FiniteSets

CONSTANTS Names, Passwords,   \* of the administrator
          FirstCreds,         \* the credentials the database starts with
          Guesses,            \* the credentials a login may send
          Changes,            \* what the settings form may ask for
          Tokens,             \* of the sessions that are followed: bound
          AdminMaxFails       \* adminMaxFails of database.go

Creds == [name : Names, password : Passwords]
Change == [name : Names \union {None}, password : Passwords \union {None},
           route : Routes \union {None}]
Untranslated == "keys"        \* L of a map without entries: the key itself

ASSUME PanelAssumption ==
    /\ FirstCreds \in Creds /\ Guesses \subseteq Creds /\ Changes \subseteq Change
    /\ None \notin Names \union Passwords \union Routes
    /\ Untranslated \notin Languages
    /\ AdminMaxFails \in Nat \ {0}
    /\ IsFiniteSet(Requests)

VARIABLES
    creds,        \* the row of admin_config
    sessions,     \* adminSessions
    adminFails, adminLockout,   \* of the address the requests come from
    langStrings,  \* the language of the strings that L returns
    page,         \* the cached page: its key and the languages of its strings
    pageOwner,    \* who holds adminHTMLCacheMu
    guesses,      \* history: wrong passwords since the lock last ran out, or
                  \* since the last right one
    wanted,       \* history: the credentials last asked for, column by column
    overlapped,   \* history: a change of the credentials began in another
    blurred       \* history: see LanguageAgrees

loginVars == <<creds, sessions, adminFails, adminLockout, guesses, wanted, overlapped>>
langVars == <<langStrings, page, pageOwner, blurred>>
panelVars == <<loginVars, langVars>>

NoPage == [language |-> None, strings |-> {}]

PanelInit ==
    /\ creds = FirstCreds /\ wanted = FirstCreds
    /\ sessions = [t \in Tokens |-> "unused"]
    /\ adminFails = 0 /\ adminLockout = "none"
    /\ langStrings = Default.language
    /\ page = NoPage
    /\ pageOwner = Free
    /\ guesses = 0
    /\ overlapped = FALSE
    /\ blurred = FALSE

Asks(r, cost, local) ==
    /\ up
    /\ req[r] = Idle
    /\ Costs(cost)
    /\ Becomes(r, local)
    /\ UNCHANGED <<configVars, panelVars>>

-----------------------------------------------------------------------------
(* handleAdminLogin.                                                        *)
Fresh == {t \in Tokens : sessions[t] = "unused"}

AskLogin(r) == \E c \in Guesses : Asks(r, 1, [pc |-> "check", guess |-> c])

(* checkAdminLocked: a lock that has run out is removed, with the count.    *)
LoginCheck(r) ==
    /\ At(r, "check")
    /\ IF adminLockout = "on" THEN Ends(r) ELSE Goto(r, "compare")
    /\ IF adminLockout = "over"
       THEN adminLockout' = "none" /\ adminFails' = 0 /\ guesses' = 0
       ELSE UNCHANGED <<adminLockout, adminFails, guesses>>
    /\ UNCHANGED <<configVars, spent, langVars, creds, sessions, wanted, overlapped>>

(* getAdminCredentials and the comparison.                                  *)
LoginCompare(r) ==
    /\ At(r, "compare")
    /\ \/ Ends(r) /\ Fails /\ UNCHANGED guesses
       \/ /\ Succeeds
          /\ IF req[r].guess = creds
             THEN Goto(r, "reset") /\ UNCHANGED guesses
             ELSE Goto(r, "fail") /\ guesses' = guesses + 1
    /\ UNCHANGED <<configVars, langVars, creds, sessions, adminFails, adminLockout,
                   wanted, overlapped>>

(* Mutated LoginFail: the lock is set one failure late (> for >=).          *)
SlipLoginFail(r) ==
    /\ At(r, "fail")
    /\ Ends(r)
    /\ IF adminFails + 1 > AdminMaxFails
       THEN adminLockout' = "on" /\ adminFails' = 0
       ELSE adminFails' = adminFails + 1 /\ UNCHANGED adminLockout
    /\ UNCHANGED <<configVars, spent, langVars, creds, sessions, guesses, wanted, overlapped>>

(* recordAdminFail.                                                         *)
LoginFail(r) ==
    /\ At(r, "fail")
    /\ Ends(r)
    /\ IF adminFails + 1 >= AdminMaxFails
       THEN adminLockout' = "on" /\ adminFails' = 0
       ELSE adminFails' = adminFails + 1 /\ UNCHANGED adminLockout
    /\ UNCHANGED <<configVars, spent, langVars, creds, sessions, guesses, wanted,
                   overlapped>>

(* resetAdminFails: a lock that another request has set meanwhile stays.    *)
LoginReset(r) ==
    /\ At(r, "reset")
    /\ Goto(r, "create")
    /\ adminFails' = 0
    /\ guesses' = 0
    /\ UNCHANGED <<configVars, spent, langVars, creds, sessions, adminLockout, wanted,
                   overlapped>>

(* createAdminSession: 16 random bytes are a new token; no request uses the *)
(* sessions beyond those that are followed.                                 *)
LoginCreate(r) ==
    /\ At(r, "create")
    /\ Ends(r)
    /\ \/ \E t \in Fresh : sessions' = [sessions EXCEPT ![t] = "live"]
       \/ Fresh = {} /\ UNCHANGED sessions
    /\ UNCHANGED <<configVars, spent, langVars, creds, adminFails, adminLockout,
                   guesses, wanted, overlapped>>

(* Ten minutes, and 24 hours, pass.                                         *)
LockRunsOut ==
    /\ adminLockout = "on"
    /\ adminLockout' = "over"
    /\ UNCHANGED <<configVars, spent, req, langVars, creds, sessions, adminFails,
                   guesses, wanted, overlapped>>

SessionRunsOut(t) ==
    /\ sessions[t] = "live"
    /\ sessions' = [sessions EXCEPT ![t] = "over"]
    /\ UNCHANGED <<configVars, spent, req, langVars, creds, adminFails, adminLockout,
                   guesses, wanted, overlapped>>

(* Mutated Validate: the time a session lasts is not looked at.             *)
SlipValidate(r) ==
    /\ At(r, "validate")
    /\ IF sessions[req[r].token] \in {"live", "over"} THEN Goto(r, req[r].next) ELSE Ends(r)
    /\ UNCHANGED <<configVars, spent, langVars, loginVars>>

(* validateAdminSession, the first step of every handler but the login and  *)
(* the page; a session that has run out is removed.                         *)
Validate(r) ==
    /\ At(r, "validate")
    /\ IF sessions[req[r].token] = "live" THEN Goto(r, req[r].next) ELSE Ends(r)
    /\ sessions' = [sessions EXCEPT ![req[r].token] = IF @ = "over" THEN "ended" ELSE @]
    /\ UNCHANGED <<configVars, spent, langVars, creds, adminFails, adminLockout,
                   guesses, wanted, overlapped>>

(* handleAdminLogout, and the end of handleAdminSettings.                   *)
AskLogout(r, t) ==
    sessions[t] # "unused" /\ Asks(r, 2, [pc |-> "revoke", token |-> t])

Revoke(r) ==
    /\ At(r, "revoke")
    /\ Ends(r)
    /\ sessions' = [sessions EXCEPT ![req[r].token] = "ended"]
    /\ UNCHANGED <<configVars, spent, langVars, creds, adminFails, adminLockout,
                   guesses, wanted, overlapped>>

-----------------------------------------------------------------------------
(* handleAdminSettings.  None: a field of the form left empty.              *)
AskSettings(r, t, change, old) ==
    /\ sessions[t] # "unused"
    /\ Asks(r, 2, [pc |-> "validate", token |-> t, next |-> "read", change |-> change,
                old |-> old, seen |-> FirstCreds])

Changing(r) == At(r, "change")

(* getAdminCredentials and the check of the old password.                   *)
SettingsRead(r) ==
    /\ At(r, "read")
    /\ \/ Ends(r) /\ Fails /\ UNCHANGED overlapped
       \/ /\ Succeeds
          /\ IF req[r].old = creds.password
             THEN /\ Becomes(r, [req[r] EXCEPT !.pc = "change", !.seen = creds])
                  /\ overlapped' = (overlapped \/ \E other \in Requests : Changing(other))
             ELSE Ends(r) /\ UNCHANGED overlapped
    /\ UNCHANGED <<configVars, langVars, creds, sessions, adminFails, adminLockout,
                   guesses, wanted>>

Or(asked, kept) == IF asked = None THEN kept ELSE asked

(* Mutated Applied: a field left empty gets its value from credentials kept *)
(* since the start.                                                         *)
SlipApplied(change, c) == [name |-> Or(change.name, FirstCreds.name),
                           password |-> Or(change.password, FirstCreds.password)]

Applied(change, c) == [name |-> Or(change.name, c.name),
                       password |-> Or(change.password, c.password)]

(* updateAdminCredentials writes both columns, asked for or not.            *)
SettingsChange(r) ==
    /\ At(r, "change")
    /\ \/ Ends(r) /\ Fails /\ UNCHANGED <<creds, wanted>>
       \/ /\ Succeeds
          /\ creds' = Applied(req[r].change, req[r].seen)
          /\ wanted' = [name |-> Or(req[r].change.name, wanted.name),
                        password |-> Or(req[r].change.password, wanted.password)]
          /\ Goto(r, IF req[r].change.route = None THEN "revoke" ELSE "route")
    /\ UNCHANGED <<configVars, langVars, sessions, adminFails, adminLockout, guesses,
                   overlapped>>

(* updateAdminRoute; a failure leaves the credentials changed and the       *)
(* session alive.                                                           *)
SettingsRoute(r) ==
    /\ At(r, "route")
    /\ Update(r, "route", req[r].change.route, "revoke")
    /\ UNCHANGED <<spent, panelVars>>

-----------------------------------------------------------------------------
(* handleSetLang, and the requests that show the page.                      *)
Loading == {r \in Requests : \/ req[r].pc \in {"load", "swap"}
                             \/ req[r].pc \in {"truncate", "write"} /\ req[r].next = "load"}
Building == {r \in Requests : req[r].pc \in {"build", "finish"}}

AskSetLang(r, t, language) ==
    /\ sessions[t] # "unused"
    /\ Asks(r, 2, [pc |-> "validate", token |-> t, next |-> "language", language |-> language])

SetLanguage(r) ==
    /\ At(r, "language")
    /\ Update(r, "language", req[r].language, "load")
    /\ blurred' = (blurred \/ Loading \union Building # {})
    /\ UNCHANGED <<spent, loginVars, langStrings, page, pageOwner>>

(* loadLang: the language is read again, then its file, ...                 *)
LoadLang(r) ==
    /\ At(r, "load")
    /\ CanRead
    /\ Becomes(r, [pc |-> "swap", language |-> cfg.language])
    /\ UNCHANGED <<configVars, spent, panelVars>>

(* ... and the strings replaced; a file that does not parse leaves none.    *)
SwapLang(r) ==
    /\ At(r, "swap")
    /\ Ends(r)
    /\ \/ langStrings' = req[r].language /\ Succeeds /\ UNCHANGED blurred
       \/ langStrings' = Untranslated /\ Fails /\ blurred' = TRUE
    /\ UNCHANGED <<configVars, loginVars, page, pageOwner>>

(* buildAdminHTML: the language is read before the mutex is taken, ...      *)
AskPage(r) ==
    /\ CanRead
    /\ Asks(r, 1, [pc |-> "build", language |-> cfg.language, strings |-> {}])

(* Mutated Cached: the language of the cached page is not looked at.        *)
SlipCached(language) == page # NoPage

(* ... a page cached for it is answered, or one is made of the strings,     *)
(* which loadLang may replace meanwhile.                                    *)
Cached(language) == page # NoPage /\ page.language = language

(* Mutated PageBuild: the page is built without adminHTMLCacheMu.           *)
SlipPageBuild(r) ==
    /\ At(r, "build")
    /\ IF Cached(req[r].language)
       THEN /\ Becomes(r, [req[r] EXCEPT !.pc = "show", !.strings = page.strings])
            /\ UNCHANGED pageOwner
       ELSE /\ Becomes(r, [req[r] EXCEPT !.pc = "finish", !.strings = {langStrings}])
            /\ pageOwner' = r
    /\ UNCHANGED <<configVars, spent, loginVars, langStrings, page, blurred>>

PageBuild(r) ==
    /\ At(r, "build")
    /\ pageOwner = Free
    /\ IF Cached(req[r].language)
       THEN /\ Becomes(r, [req[r] EXCEPT !.pc = "show", !.strings = page.strings])
            /\ UNCHANGED pageOwner
       ELSE /\ Becomes(r, [req[r] EXCEPT !.pc = "finish", !.strings = {langStrings}])
            /\ pageOwner' = r
    /\ blurred' = (blurred \/ (~Cached(req[r].language) /\ Loading # {}))
    /\ UNCHANGED <<configVars, spent, loginVars, langStrings, page>>

PageFinish(r) ==
    /\ At(r, "finish")
    /\ LET strings == req[r].strings \union {langStrings}
       IN  /\ page' = [language |-> req[r].language, strings |-> strings]
           /\ Becomes(r, [req[r] EXCEPT !.pc = "show", !.strings = strings])
    /\ pageOwner' = Free
    /\ UNCHANGED <<configVars, spent, loginVars, langStrings, blurred>>

PageShow(r) ==
    /\ At(r, "show")
    /\ Ends(r)
    /\ UNCHANGED <<configVars, spent, panelVars>>

(* A failed updateConfig leaves the language changed and nothing loaded; a  *)
(* reload never loads the strings.                                          *)
PanelAfterUpdate(r) ==
    /\ blurred' = (blurred \/ (req[r].next = "load" /\ req'[r] = Idle))
    /\ UNCHANGED <<loginVars, langStrings, page, pageOwner>>
PanelAfterReload ==
    /\ blurred' = (blurred \/ cfg'.language # cfg.language)
    /\ UNCHANGED <<loginVars, langStrings, page, pageOwner>>

(* A kill loses the sessions, the lock, the strings and the page; the start *)
(* loads the strings of the configured language.                            *)
PanelKill ==
    /\ sessions' = [t \in Tokens |-> IF sessions[t] = "unused" THEN "unused" ELSE "ended"]
    /\ adminFails' = 0 /\ adminLockout' = "none" /\ guesses' = 0
    /\ page' = NoPage /\ pageOwner' = Free
    /\ UNCHANGED <<creds, wanted, overlapped, langStrings, blurred>>
PanelStart ==
    /\ langStrings' = cfg'.language
    /\ blurred' = FALSE
    /\ UNCHANGED <<loginVars, page, pageOwner>>

-----------------------------------------------------------------------------
PanelTypeOK ==
    /\ creds \in Creds /\ wanted \in Creds
    /\ sessions \in [Tokens -> {"unused", "live", "over", "ended"}]
    /\ adminFails \in 0 .. AdminMaxFails - 1
    /\ adminLockout \in {"none", "on", "over"}
    /\ langStrings \in Languages \union {Untranslated}
    /\ page = NoPage \/ page \in [language : Languages,
                                  strings : (SUBSET (Languages \union {Untranslated})) \ {{}}]
    /\ pageOwner \in Requests \union {Free}
    /\ \A r \in Requests : pageOwner = r <=> At(r, "finish")
    /\ guesses \in Nat
    /\ overlapped \in BOOLEAN /\ blurred \in BOOLEAN

(* However the logins interleave, fewer than AdminMaxFails passwords are    *)
(* compared in vain beyond one for each login in progress, from the moment  *)
(* a lock ran out, or a right password reset the count, to the next: the    *)
(* check (server.go:406), the comparison and recordAdminFail                *)
(* (database.go:531-543) are separate steps.                                *)
GuessesBounded == guesses <= AdminMaxFails - 1 + Cardinality(Requests)

(* A column of the credentials is what the last change that named it asked  *)
(* for, whoever was logged in and whatever failed, unless a change read the *)
(* row between the read (server.go:460) and the write (server.go:491) of    *)
(* another: that write puts back what it had read.                          *)
ChangesStick == ~overlapped => creds = wanted

(* Every page shown is in the language that was configured when its request *)
(* began, and between changes the strings are those of the configured       *)
(* language, unless since the start a reload changed the language, a file   *)
(* could not be written or parsed, or a change of the language met another  *)
(* one or a page (admin.go:20-25, server.go:1418-1424).                     *)
LanguageAgrees ==
    up /\ ~blurred =>
        /\ \A r \in Requests : At(r, "show") => req[r].strings = {req[r].language}
        /\ Loading = {} => langStrings = cfg.language
        /\ page # NoPage => page.strings = {page.language}
=============================================================================
