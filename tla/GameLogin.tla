------------------------------ MODULE GameLogin ------------------------------
(***************************************************************************)
(* The accounts table and the requests that read and write it: the game    *)
(* client's login, verify and combo login (handleLogin, handleVerify,      *)
(* handleGranterLogin), the admin's user operations, and createAccount     *)
(* with its mutex.  A handler is a sequence of SQL statements without a    *)
(* transaction; the pool has one connection, so a statement is atomic and  *)
(* other requests run between any two of them.                             *)
(*                                                                         *)
(* Columns no statement here reads back (password, email, token,           *)
(* login_token, device_id, last_login, banned, ban_reason) are left out.   *)
(***************************************************************************)
EXTENDS Integers, FiniteSets

CONSTANTS Names,       \* usernames
          Players,     \* who may serve requests of game clients
          Admins,      \* who may serve those of the panel that take several statements
          AdminOps,    \* the admin operations that may happen
          AdminUids,   \* uids the admin may assign
          BanEnds,     \* displayed ends the admin gives timed bans
          BaseUid,     \* the first uid, 10000001
          MaxUid,      \* the largest int, 2^63 - 1
          TokenTTL,    \* lifetime of a session key, 7 days
          Zone,        \* offset of time.Local from UTC, 8 hours
          MaxTime, MaxRequests, MaxAdminOps, MaxFailures   \* bounds

Requests == Players \union Admins
NoUid == 0
NoKey == 0       \* the empty text
OtherText == 1   \* any text that was never anybody's key
NoTime == 0
NoName == ""   \* a request for an empty username is refused at once

ASSUME ConstantsAssumption ==
    /\ "free" \notin Requests
    /\ AdminUids \subseteq Int \ {NoUid} /\ BanEnds \subseteq Nat
    /\ NoName \notin Names
    /\ BaseUid \in Nat \ {NoUid} /\ MaxUid \in Nat /\ BaseUid <= MaxUid
    /\ TokenTTL \in Nat \ {0} /\ Zone \in Nat
    /\ MaxTime \in Nat /\ MaxRequests \in Nat /\ MaxAdminOps \in Nat
    /\ MaxFailures \in Nat

VARIABLES
    accounts,  \* the table, a set of rows
    nextId,    \* AUTOINCREMENT
    nextKey,   \* generateToken never repeats itself: keys are numbered
    insertMu,  \* the request that holds insertMu, or "free"
    reqs,      \* the local variables of each request
    now,       \* the wall clock
    tickets,   \* [uid, key] pairs given to clients by login answers
    retired,   \* history: keys an account held once and no longer holds
    started, adminOps, failures   \* spent against the bounds

vars == <<accounts, nextId, nextKey, insertMu, reqs, now, tickets, retired,
          started, adminOps, failures>>
counters == <<started, adminOps, failures>>
table == <<accounts, nextId, nextKey, tickets, retired>>

(* A row: until is the displayed end of a timed ban.  A uid is a text that  *)
(* the admin may choose: a numeral is its number, whatever its length, and  *)
(* a negative number is a text that does not begin with a digit.  (One that *)
(* begins with digits and goes on counts like the numeral it begins with.)  *)
Row == [id : Nat, uid : Int, name : Names, key : Nat, expires : Nat,
        permanent : BOOLEAN, until : Nat]

(* A request: uid is the snapshot of the account, or NoUid for a nil one.   *)
(* From failed on, the fields are history: a statement of this request      *)
(* failed; the account it names was deleted, renamed or renumbered; its     *)
(* name was given up or taken by a renaming, or its uid by a renumbering;   *)
(* its key was retired before it began; the ids banned ever since it began; *)
(* the ids it admitted; it was refused for a ban whose displayed end had    *)
(* passed.                                                                 *)
IdleRequest ==
    [kind |-> "none", pc |-> "idle", name |-> NoName, to |-> NoName, uid |-> NoUid,
     key |-> NoKey, result |-> "none", failed |-> FALSE, removed |-> FALSE, moved |-> FALSE,
     stale |-> FALSE, banned |-> {}, admitted |-> {}, overdue |-> FALSE]

Init ==
    /\ accounts = {} /\ nextId = 1 /\ nextKey = OtherText + 1
    /\ insertMu = "free"
    /\ reqs = [p \in Requests |-> IdleRequest]
    /\ now = 0 /\ tickets = {} /\ retired = {}
    /\ started = 0 /\ adminOps = 0 /\ failures = 0

-----------------------------------------------------------------------------
ByName(n) == {r \in accounts : r.name = n}
ByUid(u) == {r \in accounts : r.uid = u}
UidOf(rows) == IF rows = {} THEN NoUid ELSE (CHOOSE r \in rows : TRUE).uid
KeysOf(rows) == {r.key : r \in rows} \ {NoKey}
IdsOf(rows) == {r.id : r \in rows}

(* effectiveBan and isTokenExpired.  Expiry texts are written on the local  *)
(* clock and parsed as UTC, which moves them by Zone; timed bans are typed  *)
(* in as local time and moved the same way.                                *)
EffectiveBan(r, t) == r.permanent \/ (r.until # NoTime /\ t < r.until + Zone)
SlipUnset(r) == r.expires # NoTime /\ now > r.expires   \* slip: no expiry is no end
TokenExpired(r) == r.expires = NoTime \/ now > r.expires
SlipExpiry == now - TokenTTL - Zone   \* slip: the lifetime is subtracted
Expiry == now + TokenTTL + Zone

(* getNextUID: MAX(CAST(uid AS INTEGER)) over the texts that begin with a   *)
(* digit, where CAST stops at the largest integer, and one more, at least   *)
(* BaseUid, in the arithmetic of int, which wraps around.                   *)
Counted ==
    {IF r.uid > MaxUid THEN MaxUid ELSE r.uid : r \in {s \in accounts : s.uid >= 0}}
Wrapped == -MaxUid - 1
UidAfter(m) == IF m < BaseUid THEN BaseUid ELSE IF m = MaxUid THEN Wrapped ELSE m + 1
IsNextUid(u) ==
    \E m \in {0} \union Counted : u = UidAfter(m) /\ \A n \in Counted : n <= m

BannedIds(rows, t) == IdsOf({r \in rows : EffectiveBan(r, t)})

(* Which accounts have been banned throughout each request. *)
Observe(rows, t) ==
    [p \in Requests |-> [reqs[p] EXCEPT !.banned = @ \intersect BannedIds(rows, t)]]

-----------------------------------------------------------------------------
Begin(p, kind, pc, n, m, u, k) ==
    /\ reqs[p].pc = "idle" /\ started < MaxRequests
    /\ started' = started + 1
    /\ reqs' = [reqs EXCEPT ![p] =
          [IdleRequest EXCEPT !.kind = kind, !.pc = pc, !.name = n, !.to = m,
                              !.uid = u, !.key = k, !.stale = k \in retired,
                              !.banned = BannedIds(accounts, now)]]
    /\ UNCHANGED <<table, insertMu, now, adminOps, failures>>

StartLogin(p, n) == Begin(p, "login", "loginFind", n, NoName, NoUid, NoKey)

(* Verify and combo login present a uid and a text: any key that a login    *)
(* answered with (others nobody can guess), the empty text or another one.  *)
StartTicket(p, kind, u, k) == Begin(p, kind, "ticketFind", NoName, NoName, u, k)

StartCreate(p, n) ==
    "create" \in AdminOps /\ Begin(p, "create", "adminFind", n, NoName, NoUid, NoKey)

StartRename(p, n, m) ==
    "rename" \in AdminOps /\ Begin(p, "rename", "renameFind", n, m, NoUid, NoKey)

(* One statement of request p: its next local state if it succeeds, or if   *)
(* it fails.                                                               *)
At(p, pc) == reqs[p].pc = pc
Becomes(p, q) == reqs' = [reqs EXCEPT ![p] = q] /\ UNCHANGED <<now, started, adminOps>>
Goto(p, pc) == [reqs[p] EXCEPT !.pc = pc]
Answer(p, result) == [reqs[p] EXCEPT !.pc = "answered", !.result = result]
Failed(q) == [q EXCEPT !.failed = TRUE]
Fails == failures < MaxFailures /\ failures' = failures + 1
Succeeds == UNCHANGED failures

Unlocked == insertMu' = "free"

(* Slip: the login assigns the new account to a shadowing variable. *)
SlipShadow(p, u) ==
    IF reqs[p].kind = "create" THEN Answer(p, "ok")
    ELSE [reqs[p] EXCEPT !.pc = "banCheck", !.uid = NoUid]

(* createAccount returned: the login goes on with the account it got, the   *)
(* admin is told ok without a look at the account.                         *)
Created(p, u) ==
    IF reqs[p].kind = "create" THEN Answer(p, "ok")
    ELSE [reqs[p] EXCEPT !.pc = "banCheck", !.uid = u]

LoginFind(p) ==
    /\ At(p, "loginFind")
    /\ \/ /\ Succeeds
          /\ Becomes(p, IF ByName(reqs[p].name) = {} THEN Goto(p, "createLock")
                        ELSE [reqs[p] EXCEPT !.pc = "banCheck",
                                             !.uid = UidOf(ByName(reqs[p].name))])
       \/ Fails /\ Becomes(p, Failed(Answer(p, "queryFail")))
    /\ UNCHANGED <<table, insertMu>>

(* handleAdminCreateUser's own lookup. *)
AdminFind(p) ==
    /\ At(p, "adminFind")
    /\ \/ /\ Succeeds
          /\ Becomes(p, IF ByName(reqs[p].name) = {} THEN Goto(p, "createLock")
                        ELSE Answer(p, "exists"))
       \/ Fails /\ Becomes(p, Failed(Answer(p, "queryFail")))
    /\ UNCHANGED <<table, insertMu>>

-----------------------------------------------------------------------------
(* createAccount, under insertMu from CreateLock to its return. *)

(* Slip: createAccount runs without taking insertMu. *)
SlipNoLock(p) ==
    /\ At(p, "createLock")
    /\ Becomes(p, Goto(p, "createFind"))
    /\ UNCHANGED <<table, insertMu, failures>>

CreateLock(p) ==
    /\ At(p, "createLock") /\ insertMu = "free"
    /\ insertMu' = p
    /\ Becomes(p, Goto(p, "createFind"))
    /\ UNCHANGED <<table, failures>>

(* Slip: a failed lookup returns without unlocking. *)
SlipKeepLock(p) ==
    /\ At(p, "createFind")
    /\ \/ /\ Succeeds
          /\ IF ByName(reqs[p].name) = {}
             THEN Becomes(p, Goto(p, "createUid")) /\ UNCHANGED insertMu
             ELSE Becomes(p, Created(p, UidOf(ByName(reqs[p].name)))) /\ Unlocked
       \/ Fails /\ UNCHANGED insertMu /\ Becomes(p, Failed(Answer(p, "createFail")))
    /\ UNCHANGED table

CreateFind(p) ==
    /\ At(p, "createFind")
    /\ \/ /\ Succeeds
          /\ IF ByName(reqs[p].name) = {}
             THEN Becomes(p, Goto(p, "createUid")) /\ UNCHANGED insertMu
             ELSE Becomes(p, Created(p, UidOf(ByName(reqs[p].name)))) /\ Unlocked
       \/ Fails /\ Unlocked /\ Becomes(p, Failed(Answer(p, "createFail")))
    /\ UNCHANGED table

CreateUid(p) ==
    /\ At(p, "createUid")
    /\ \/ /\ Succeeds
          /\ \E u \in {UidAfter(m) : m \in {0} \union Counted} :
                IsNextUid(u) /\ Becomes(p, [Goto(p, "createInsert") EXCEPT !.uid = u])
       \/ /\ Fails
          /\ Becomes(p, Failed([Goto(p, "createInsert") EXCEPT !.uid = BaseUid]))
    /\ UNCHANGED <<table, insertMu>>

CreateInsert(p) ==
    /\ At(p, "createInsert")
    /\ LET conflict == ByUid(reqs[p].uid) \union ByName(reqs[p].name)
           row == [id |-> nextId, uid |-> reqs[p].uid, name |-> reqs[p].name,
                   key |-> nextKey, expires |-> NoTime, permanent |-> FALSE,
                   until |-> NoTime]
       IN  \/ /\ conflict = {} /\ Succeeds
              /\ accounts' = accounts \union {row}
              /\ nextId' = nextId + 1
              /\ Becomes(p, Goto(p, "createReread")) /\ UNCHANGED insertMu
           \/ /\ conflict # {} /\ Succeeds
              /\ Becomes(p, Answer(p, "createFail")) /\ Unlocked
              /\ UNCHANGED <<accounts, nextId>>
           \/ /\ Fails
              /\ Becomes(p, Failed(Answer(p, "createFail"))) /\ Unlocked
              /\ UNCHANGED <<accounts, nextId>>
    /\ nextKey' = nextKey + 1
    /\ UNCHANGED <<tickets, retired>>

(* getAccountByUID(uid): the account may be gone, then createAccount        *)
(* returns nil without an error.                                           *)
CreateReread(p) ==
    /\ At(p, "createReread") /\ Unlocked
    /\ \/ Succeeds /\ Becomes(p, Created(p, UidOf(ByUid(reqs[p].uid))))
       \/ Fails /\ Becomes(p, Failed(Answer(p, "createFail")))
    /\ UNCHANGED table

-----------------------------------------------------------------------------
(* handleVerify and handleGranterLogin: find the account by the uid, compare *)
(* the key, then ask for the expiry by uid again.                           *)
TicketFind(p) ==
    /\ At(p, "ticketFind")
    /\ \/ /\ Succeeds
          /\ \/ \E r \in ByUid(reqs[p].uid) :
                   /\ r.key = reqs[p].key
                   /\ Becomes(p, [Goto(p, "ticketExpiry") EXCEPT !.name = r.name])
             \/ /\ \A r \in ByUid(reqs[p].uid) : r.key # reqs[p].key
                /\ Becomes(p, Answer(p, "invalid"))
       \/ Fails /\ Becomes(p, Failed(Answer(p, "invalid")))
    /\ UNCHANGED <<table, insertMu>>

TicketExpiry(p) ==
    /\ At(p, "ticketExpiry")
    /\ \/ /\ Succeeds
          /\ Becomes(p, IF \E r \in ByUid(reqs[p].uid) : ~TokenExpired(r)
                        THEN Goto(p, "banCheck") ELSE Answer(p, "expired"))
       \/ Fails /\ Becomes(p, Failed(Answer(p, "expired")))
    /\ UNCHANGED <<table, insertMu>>

(* isUserBannedInfo by username.  A missing row is a nil account, and       *)
(* effectiveBan(nil) panics; a failed query counts as not banned.  A login  *)
(* whose account is nil panics at account.UID.                             *)
PassBan(p) == IF reqs[p].uid = NoUid THEN Answer(p, "panic") ELSE Goto(p, "issue")

(* Slip: the ban is looked at only for logins. *)
SlipBanCheck(p) ==
    /\ At(p, "banCheck")
    /\ \/ /\ reqs[p].kind = "login" /\ \E r \in ByName(reqs[p].name) : EffectiveBan(r, now)
          /\ Becomes(p, Answer(p, "banned"))
       \/ /\ reqs[p].kind # "login" \/ \A r \in ByName(reqs[p].name) : ~EffectiveBan(r, now)
          /\ Becomes(p, PassBan(p))
    /\ UNCHANGED <<table, insertMu, failures>>

BanCheck(p) ==
    /\ At(p, "banCheck")
    /\ \/ /\ Succeeds
          /\ \/ \E r \in ByName(reqs[p].name) :
                   /\ EffectiveBan(r, now)
                   /\ Becomes(p, [Answer(p, "banned") EXCEPT !.overdue =
                                    ~r.permanent /\ now >= r.until])
             \/ /\ ByName(reqs[p].name) # {}
                /\ \A r \in ByName(reqs[p].name) : ~EffectiveBan(r, now)
                /\ Becomes(p, PassBan(p))
             \/ ByName(reqs[p].name) = {} /\ Becomes(p, Answer(p, "panic"))
       \/ Fails /\ Becomes(p, Failed(PassBan(p)))
    /\ UNCHANGED <<table, insertMu>>

(* updateSessionKey, extendTokenExpiry: an error is logged and the client   *)
(* gets its answer all the same.                                           *)
Admitted(p) == [Answer(p, "ok") EXCEPT !.admitted = IdsOf(ByUid(reqs[p].uid))]

IssueKey(p) ==
    /\ At(p, "issue") /\ reqs[p].kind = "login"
    /\ \/ /\ Succeeds /\ Becomes(p, Admitted(p))
          /\ accounts' = {IF r.uid = reqs[p].uid
                          THEN [r EXCEPT !.key = nextKey, !.expires = Expiry]
                          ELSE r : r \in accounts}
          /\ retired' = retired \union KeysOf(ByUid(reqs[p].uid))
       \/ /\ Fails /\ Becomes(p, Failed(Admitted(p)))
          /\ UNCHANGED <<accounts, retired>>
    /\ nextKey' = nextKey + 1
    /\ tickets' = tickets \union {[uid |-> reqs[p].uid, key |-> nextKey]}
    /\ UNCHANGED <<nextId, insertMu>>

(* handleGranterLogin only writes login_token, which is not modelled. *)
AcceptTicket(p) ==
    /\ At(p, "issue") /\ reqs[p].kind \in {"verify", "grant"}
    /\ \/ /\ Succeeds /\ Becomes(p, Admitted(p))
          /\ accounts' = {IF r.uid = reqs[p].uid /\ reqs[p].kind = "verify"
                          THEN [r EXCEPT !.expires = Expiry]
                          ELSE r : r \in accounts}
       \/ Fails /\ Becomes(p, Failed(Admitted(p))) /\ UNCHANGED accounts
    /\ UNCHANGED <<nextId, nextKey, insertMu, tickets, retired>>

(* The answer is written and the handler returns. *)
Return(p) ==
    /\ At(p, "answered")
    /\ Becomes(p, IdleRequest)
    /\ UNCHANGED <<table, insertMu, failures>>

-----------------------------------------------------------------------------
(* The admin panel.  A failed statement changes nothing and is reported.    *)

RenameFind(p) ==
    /\ At(p, "renameFind")
    /\ \/ /\ Succeeds
          /\ Becomes(p, IF ByName(reqs[p].to) = {} THEN Goto(p, "renameWrite")
                        ELSE Answer(p, "exists"))
       \/ Fails /\ Becomes(p, Failed(Answer(p, "queryFail")))
    /\ UNCHANGED <<table, insertMu>>

(* History: these rows are no longer what request q may have read of them,  *)
(* and took the name m, or the uid u.                                      *)
Lost(q, rows) == reqs[q].removed \/ \E r \in rows : r.name = reqs[q].name
Renamed(rows, m) ==
    [q \in Requests |-> [reqs[q] EXCEPT
        !.removed = Lost(q, rows), !.moved = @ \/ \E r \in rows : reqs[q].name \in {r.name, m}]]
Renumbered(rows, u) ==
    [q \in Requests |-> [reqs[q] EXCEPT
        !.removed = Lost(q, rows), !.moved = @ \/ (rows # {} /\ reqs[q].uid = u)]]

(* UNIQUE(username): the name may have been taken since RenameFind.  An     *)
(* UPDATE that finds no row succeeds.                                      *)
Conflict(rows, taken) == rows # {} /\ ~(taken \subseteq rows)

RenameWrite(p) ==
    /\ At(p, "renameWrite")
    /\ \/ /\ ~Conflict(ByName(reqs[p].name), ByName(reqs[p].to)) /\ Succeeds
          /\ accounts' = {IF r.name = reqs[p].name THEN [r EXCEPT !.name = reqs[p].to]
                          ELSE r : r \in accounts}
          /\ reqs' = [Renamed(ByName(reqs[p].name), reqs[p].to) EXCEPT ![p] = Answer(p, "ok")]
          /\ UNCHANGED <<now, started, adminOps>>
       \/ /\ Conflict(ByName(reqs[p].name), ByName(reqs[p].to)) /\ Succeeds
          /\ Becomes(p, Answer(p, "renameFail")) /\ UNCHANGED accounts
       \/ Fails /\ Becomes(p, Failed(Answer(p, "renameFail"))) /\ UNCHANGED accounts
    /\ UNCHANGED <<nextId, nextKey, insertMu, tickets, retired>>

AdminOp(op) ==
    /\ op \in AdminOps /\ adminOps < MaxAdminOps
    /\ adminOps' = adminOps + 1
    /\ UNCHANGED <<nextId, nextKey, insertMu, now, tickets, started, failures>>

(* Slip: banning does not clear the session key. *)
SlipBanKeepsKey(n, permanent, until) ==
    /\ AdminOp("ban")
    /\ accounts' = {IF r.name = n THEN [r EXCEPT !.permanent = permanent, !.until = until]
                    ELSE r : r \in accounts}
    /\ retired' = retired \union KeysOf(ByName(n))
    /\ reqs' = Observe(accounts', now)

BanUser(n, permanent, until) ==
    /\ AdminOp("ban")
    /\ accounts' = {IF r.name = n
                    THEN [r EXCEPT !.permanent = permanent, !.until = until, !.key = NoKey]
                    ELSE r : r \in accounts}
    /\ retired' = retired \union KeysOf(ByName(n))
    /\ reqs' = Observe(accounts', now)

UnbanUser(n) ==
    /\ AdminOp("unban")
    /\ accounts' = {IF r.name = n THEN [r EXCEPT !.permanent = FALSE, !.until = NoTime]
                    ELSE r : r \in accounts}
    /\ reqs' = Observe(accounts', now)
    /\ UNCHANGED retired

ResetUserToken(n) ==
    /\ AdminOp("reset")
    /\ accounts' = {IF r.name = n THEN [r EXCEPT !.key = NoKey] ELSE r : r \in accounts}
    /\ retired' = retired \union KeysOf(ByName(n))
    /\ UNCHANGED reqs

DeleteAccount(n) ==
    /\ AdminOp("delete")
    /\ accounts' = accounts \ ByName(n)
    /\ retired' = retired \union KeysOf(ByName(n))
    /\ reqs' = [p \in Requests |->
                  [reqs[p] EXCEPT !.banned = @ \ IdsOf(ByName(n)),
                                  !.removed = Lost(p, ByName(n))]]

(* UNIQUE(uid): assigning a uid another account has fails. *)
UpdateUID(n, u) ==
    /\ AdminOp("uid")
    /\ ~Conflict(ByName(n), ByUid(u))
    /\ accounts' = {IF r.name = n THEN [r EXCEPT !.uid = u] ELSE r : r \in accounts}
    /\ reqs' = Renumbered(ByName(n), u)
    /\ UNCHANGED retired

Tick ==
    /\ now < MaxTime /\ now' = now + 1
    /\ reqs' = Observe(accounts, now')
    /\ UNCHANGED <<table, insertMu, counters>>

-----------------------------------------------------------------------------
(* What clients were given, and may ask with. *)
Tickets == {"verify", "grant"}
Given == {t.key : t \in tickets}
Uids == {t.uid : t \in tickets} \union {r.uid : r \in accounts}

(* Whatever a request in progress does next, waiting for insertMu aside. *)
RequestStep(p) ==
    \/ LoginFind(p) \/ AdminFind(p)
    \/ CreateFind(p) \/ CreateUid(p) \/ CreateInsert(p) \/ CreateReread(p)
    \/ TicketFind(p) \/ TicketExpiry(p) \/ BanCheck(p) \/ IssueKey(p) \/ AcceptTicket(p)
    \/ RenameFind(p) \/ RenameWrite(p) \/ Return(p)

Start ==
    \/ \E p \in Players, n \in Names : StartLogin(p, n)
    \/ \E p \in Players, kind \in Tickets, u \in Uids, k \in Given \union {NoKey, OtherText} :
          StartTicket(p, kind, u, k)
    \/ \E p \in Admins, n \in Names : StartCreate(p, n)
    \/ \E p \in Admins, n, m \in Names : StartRename(p, n, m)

(* An UPDATE or DELETE that finds no row changes nothing, and is left out.   *)
AdminStep ==
    \E n \in {r.name : r \in accounts} :
        \/ \E until \in BanEnds : BanUser(n, FALSE, until)
        \/ BanUser(n, TRUE, NoTime)
        \/ UnbanUser(n) \/ ResetUserToken(n) \/ DeleteAccount(n)
        \/ \E u \in AdminUids : UpdateUID(n, u)

Next ==
    \/ Start \/ AdminStep \/ Tick
    \/ \E p \in Requests : RequestStep(p) \/ CreateLock(p)

Spec == Init /\ [][Next]_vars

(* Handlers are scheduled and statements return; sync.Mutex hands insertMu  *)
(* to a waiter that has starved for 1 ms, so every Lock gets through.       *)
Fairness ==
    \A p \in Requests : WF_vars(RequestStep(p)) /\ SF_vars(CreateLock(p))

FairSpec == Spec /\ Fairness

-----------------------------------------------------------------------------
Kinds == {"none", "login", "verify", "grant", "create", "rename"}
Pcs == {"idle", "loginFind", "adminFind", "createLock", "createFind", "createUid",
        "createInsert", "createReread", "ticketFind", "ticketExpiry", "banCheck",
        "issue", "renameFind", "renameWrite", "answered"}
Results == {"none", "ok", "exists", "queryFail", "createFail", "renameFail",
            "invalid", "expired", "banned", "panic"}
Locked == {"createFind", "createUid", "createInsert", "createReread"}

Request ==
    [kind : Kinds, pc : Pcs, name : Names \union {NoName},
     to : Names \union {NoName}, uid : Int, key : Nat, result : Results,
     failed : BOOLEAN, removed : BOOLEAN, moved : BOOLEAN, stale : BOOLEAN,
     banned : SUBSET Nat, admitted : SUBSET Nat, overdue : BOOLEAN]

(* Type invariant: rows, tickets and requests keep their shapes. *)
TypeOK ==
    /\ accounts \subseteq Row
    /\ nextId \in Nat /\ nextKey \in Nat /\ now \in Nat
    /\ insertMu \in Requests \union {"free"}
    /\ reqs \in [Requests -> Request]
    /\ tickets \subseteq [uid : Int, key : Nat]
    /\ retired \subseteq Nat
    /\ started \in Nat /\ adminOps \in Nat /\ failures \in Nat

(* An account that is banned from the moment a login, verify or combo login *)
(* begins until it is answered is not admitted by it, whatever other        *)
(* requests, bans, unbans and deletions happen between its statements,      *)
(* unless a statement of the request itself failed.  (database.go:249-251)  *)
BannedNeverAdmitted ==
    \A p \in Requests :
        reqs[p].result = "ok" /\ ~reqs[p].failed
            => reqs[p].admitted \intersect reqs[p].banned = {}

(* And with renamings and renumberings: such a login lets a banned account  *)
(* in only if during the request its name was given up or taken by a        *)
(* renaming, or the uid it admits by a renumbering (handleLogin looks up    *)
(* the ban by name and writes the session key by uid).                     *)
BannedUnlessMoved ==
    \A p \in Requests :
        reqs[p].result = "ok" /\ ~reqs[p].failed /\ ~reqs[p].moved
            => reqs[p].admitted \intersect reqs[p].banned = {}

(* Once an account's session key is replaced by a later login or cleared by *)
(* a ban, a token reset or a deletion, no verify or combo login that begins *)
(* afterwards accepts that key, wherever the uid it names has gone.  This    *)
(* is about keys: where a ban or a reset has left session_key = '', the      *)
(* empty text is accepted in place of one (server.go:1188, 1292).           *)
RevokedNeverAccepted ==
    \A p \in Requests :
        reqs[p].kind \in {"verify", "grant"} /\ reqs[p].result = "ok" => ~reqs[p].stale

(* Verify and combo login let nobody in to an account that no login has     *)
(* been answered for: whatever text is presented, the empty one included,   *)
(* and whatever fails, ends or is reset between the statements, the account  *)
(* let in has an expiry, which logins alone begin (isTokenExpired), unless  *)
(* the account was deleted, renamed or renumbered during the request.       *)
EntryNeedsLogin ==
    \A p \in Requests :
        reqs[p].kind \in Tickets /\ reqs[p].result = "ok" /\ ~reqs[p].removed
            => \A r \in accounts : r.id \in reqs[p].admitted => r.expires # NoTime

(* insertMu makes lookup, getNextUID and INSERT one step for other          *)
(* creations: logins for the same new name, or for different new names, end *)
(* in one account each and never in a constraint error, unless a renaming   *)
(* took the name, or a renumbering the uid, which insertMu does not cover,  *)
(* or an account has the largest int or more as its uid: from then on        *)
(* getNextUID wraps around, and gives every creation the same uid.          *)
CreateNeverConflicts ==
    \A p \in Requests :
        reqs[p].result = "createFail"
            => reqs[p].failed \/ reqs[p].moved \/ reqs[p].uid = Wrapped

(* A handler dereferences a nil account only when the account it names was  *)
(* deleted, renamed or renumbered between two of its statements.           *)
PanicsOnlyAfterRemoval ==
    \A p \in Requests : reqs[p].result = "panic" => reqs[p].removed

(* dispatch_test.go:72-75, PROGRESS.md:11: an expired timed ban counts as   *)
(* not banned: nobody is refused for a ban whose displayed end has passed.  *)
TimedBanEnds == \A p \in Requests : ~reqs[p].overdue

(* Verify and combo login (server.go:1170-1349) implement Sessions: each key *)
(* is issued once, one that a login, a ban, a reset or a deletion ended     *)
(* never comes back, and a request that presents any text but the empty one *)
(* and is not refused presented a key that was live at some moment between  *)
(* the question and the answer.  A request is inside once its key was found *)
(* to be the one of the row, until it is refused or returns.  Requests with  *)
(* the empty text are no visitors: it is no key, and lets in where a ban or  *)
(* a reset cleared the key and the expiry has not passed (server.go:1188).   *)
AtDoor == {p \in Requests : At(p, "ticketFind") /\ reqs[p].key # NoKey}
Asking == {<<p, reqs[p].key>> : p \in AtDoor}
LetIn ==
    {p \in Requests : /\ reqs[p].kind \in Tickets /\ reqs[p].key # NoKey
                      /\ \/ reqs[p].pc \in {"ticketExpiry", "banCheck", "issue"}
                         \/ reqs[p].pc = "answered" /\ reqs[p].result = "ok"}
SessionKeys ==
    INSTANCE Sessions WITH
        Visitors <- Requests, known <- Given, live <- KeysOf(accounts), ended <- retired,
        asking <- Asking, inside <- LetIn
KeysAreSessions == SessionKeys!SessionsSpec

(* Every request is answered: no order of requests, failing statements and  *)
(* admin operations leaves one waiting for insertMu forever.               *)
EveryRequestAnswered ==
    \A p \in Requests : reqs[p].pc # "idle" ~> reqs[p].pc = "idle"
=============================================================================
