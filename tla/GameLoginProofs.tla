--------------------------- MODULE GameLoginProofs ---------------------------
(***************************************************************************)
(* What TLAPS proves of GameLogin with every request kind and every admin  *)
(* operation, for every set of names, requests and uids and every bound:   *)
(* the shape and the uniqueness of the rows, who holds insertMu, and that  *)
(* retired session keys are never accepted.                                *)
(***************************************************************************)
EXTENDS GameLogin, TLAPS

-----------------------------------------------------------------------------
(* Local states. *)

Creating == {"loginFind", "adminFind", "createLock", "createFind", "createUid", "createInsert"}
Renaming == {"renameFind", "renameWrite"}

(* A request that will need a name of the table or for it has one. *)
Local ==
    {q \in Request : /\ q.pc \in Creating => q.name \in Names
                     /\ q.pc \in Renaming => q.to \in Names}

Types == TypeOK /\ reqs \in [Requests -> Local]

(* The program counters p may go to without another name. *)
Ahead(p) ==
    {pc \in Pcs : /\ pc \in Creating => reqs[p].pc \in Creating
                  /\ pc \in Renaming => reqs[p].pc \in Renaming}

LEMMA LocalStates ==
    ASSUME Types, NEW p \in Requests
    PROVE  /\ reqs[p] \in Local /\ IdleRequest \in Local
           /\ \A pc \in Ahead(p) : Goto(p, pc) \in Local
           /\ \A result \in Results : Answer(p, result) \in Local
           /\ \A q \in Local : Failed(q) \in Local
           /\ \A q \in Local, u \in Int : [q EXCEPT !.uid = u] \in Local
           /\ \A pc \in Ahead(p), u \in Int : [reqs[p] EXCEPT !.pc = pc, !.uid = u] \in Local
<1>1. reqs[p] \in Local
    BY DEF Types
<1>2. IdleRequest \in Local
    <2>1. IdleRequest \in Request
        BY DEF IdleRequest, Request, Kinds, Pcs, Results, NoUid, NoKey
    <2> QED
        BY <2>1 DEF IdleRequest, Local, Creating, Renaming
<1>3. \A pc \in Ahead(p) : Goto(p, pc) \in Local
    BY <1>1 DEF Ahead, Local, Request, Goto
<1>4. \A result \in Results : Answer(p, result) \in Local
    <2>1. "answered" \in Pcs \ (Creating \union Renaming)
        BY DEF Pcs, Creating, Renaming
    <2> QED
        BY <1>1, <2>1 DEF Local, Request, Answer
<1>5. \A q \in Local : Failed(q) \in Local
    BY DEF Local, Request, Failed
<1>6. \A q \in Local, u \in Int : [q EXCEPT !.uid = u] \in Local
    BY DEF Local, Request
<1>7. \A pc \in Ahead(p), u \in Int : [reqs[p] EXCEPT !.pc = pc, !.uid = u] \in Local
    BY <1>1 DEF Ahead, Local, Request
<1> QED
    BY <1>1, <1>2, <1>3, <1>4, <1>5, <1>6, <1>7

LEMMA BecomesType ==
    ASSUME Types, NEW p \in Requests, NEW q \in Local, Becomes(p, q)
    PROVE  /\ reqs' \in [Requests -> Local]
           /\ now' \in Nat /\ started' \in Nat /\ adminOps' \in Nat
BY DEF Types, TypeOK, Becomes

(* Types is about requests in Local only. *)
LEMMA TypesFrom ==
    ASSUME accounts' \subseteq Row, nextId' \in Nat, nextKey' \in Nat, now' \in Nat,
           insertMu' \in Requests \union {"free"}, reqs' \in [Requests -> Local],
           tickets' \subseteq [uid : Int, key : Nat], retired' \subseteq Nat,
           started' \in Nat, adminOps' \in Nat, failures' \in Nat
    PROVE  Types'
<1>1. reqs' \in [Requests -> Request]
    BY DEF Local
<1> QED
    BY <1>1 DEF Types, TypeOK

LEMMA BoundType ==
    ASSUME Types, Fails \/ Succeeds
    PROVE  failures' \in Nat
BY DEF Types, TypeOK, Fails, Succeeds

(* What the histories do to a request keeps it in Local. *)
LEMMA HistoryType ==
    ASSUME Types, NEW rows
    PROVE  /\ \A t : Observe(rows, t) \in [Requests -> Local]
           /\ \A m : Renamed(rows, m) \in [Requests -> Local]
           /\ \A u : Renumbered(rows, u) \in [Requests -> Local]
           /\ \A ids : \A p \in Requests :
                [reqs[p] EXCEPT !.banned = @ \ ids, !.removed = Lost(p, rows)] \in Local
<1>1. \A q \in Local : \A ids \in SUBSET Nat : [q EXCEPT !.banned = ids] \in Local
    BY DEF Local, Request
<1>2. \A q \in Local, b, c \in BOOLEAN : [q EXCEPT !.removed = b, !.moved = c] \in Local
    BY DEF Local, Request
<1>3. \A p \in Requests :
        /\ reqs[p] \in Local /\ Lost(p, rows) \in BOOLEAN
        /\ \A ids : /\ reqs[p].banned \intersect ids \in SUBSET Nat
                    /\ reqs[p].banned \ ids \in SUBSET Nat
    BY DEF Types, Local, Request, Lost
<1>4. \A t : Observe(rows, t) \in [Requests -> Local]
    BY <1>1, <1>3 DEF Observe
<1>5. ASSUME NEW m PROVE Renamed(rows, m) \in [Requests -> Local]
    <2>1. \A q \in Requests :
            (reqs[q].moved \/ \E r \in rows : reqs[q].name \in {r.name, m}) \in BOOLEAN
        OBVIOUS
    <2> QED
        BY <1>2, <1>3, <2>1 DEF Renamed
<1>6. ASSUME NEW u PROVE Renumbered(rows, u) \in [Requests -> Local]
    <2>1. \A q \in Requests : (reqs[q].moved \/ (rows # {} /\ reqs[q].uid = u)) \in BOOLEAN
        OBVIOUS
    <2> QED
        BY <1>2, <1>3, <2>1 DEF Renumbered
<1>7. ASSUME NEW ids, NEW p \in Requests
      PROVE  [reqs[p] EXCEPT !.banned = @ \ ids, !.removed = Lost(p, rows)] \in Local
    <2> DEFINE b == reqs[p].banned \ ids
               c == Lost(p, rows)
    <2>1. b \in SUBSET Nat /\ c \in BOOLEAN
        BY <1>3
    <2> HIDE DEF b, c
    <2>2. \A q \in Local : [q EXCEPT !.banned = b, !.removed = c] \in Local
        BY <2>1 DEF Local, Request
    <2> QED
        BY <1>3, <2>2 DEF b, c
<1> QED
    BY <1>4, <1>5, <1>6, <1>7

LEMMA RowSets ==
    ASSUME Types
    PROVE  /\ \A n : ByName(n) \subseteq Row
           /\ \A u : ByUid(u) \subseteq Row
           /\ \A rows \in SUBSET Row : UidOf(rows) \in Int /\ KeysOf(rows) \subseteq Nat
           /\ \A rows \in SUBSET Row : \A t : BannedIds(rows, t) \subseteq Nat
           /\ \A rows \in SUBSET Row : rows # {} => \E r \in rows : UidOf(rows) = r.uid
<1>1. \A n : ByName(n) \subseteq Row
    BY DEF Types, TypeOK, ByName
<1>2. \A u : ByUid(u) \subseteq Row
    BY DEF Types, TypeOK, ByUid
<1>3. ASSUME NEW rows \in SUBSET Row
      PROVE  rows # {} => \E r \in rows : UidOf(rows) = r.uid
    BY DEF UidOf
<1>4. ASSUME NEW rows \in SUBSET Row
      PROVE  UidOf(rows) \in Int
    <2>1. \A r \in rows : r.uid \in Int
        BY DEF Row
    <2> QED
        BY <1>3, <2>1 DEF UidOf, NoUid
<1>5. ASSUME NEW rows \in SUBSET Row
      PROVE  KeysOf(rows) \subseteq Nat
    BY DEF KeysOf, Row
<1>6. ASSUME NEW rows \in SUBSET Row, NEW t
      PROVE  BannedIds(rows, t) \subseteq Nat
    BY DEF BannedIds, IdsOf, Row
<1> QED
    BY <1>1, <1>2, <1>3, <1>4, <1>5, <1>6

(* What getNextUID looks at are the integers of a machine, from 0 on. *)
LEMMA CountedNat ==
    ASSUME Types
    PROVE  /\ \A m \in {0} \union Counted : m \in Nat /\ m <= MaxUid
           /\ BaseUid \in Nat /\ MaxUid \in Nat /\ BaseUid <= MaxUid /\ BaseUid # NoUid
<1>1. BaseUid \in Nat /\ MaxUid \in Nat /\ BaseUid <= MaxUid /\ BaseUid # NoUid
    BY ConstantsAssumption
<1>2. ASSUME NEW r \in accounts, r.uid >= 0
      PROVE  /\ (IF r.uid > MaxUid THEN MaxUid ELSE r.uid) \in Nat
             /\ (IF r.uid > MaxUid THEN MaxUid ELSE r.uid) <= MaxUid
    <2>1. r.uid \in Int
        BY DEF Types, TypeOK, Row
    <2> QED
        BY <1>1, <1>2, <2>1
<1> QED
    BY <1>1, <1>2 DEF Counted

LEMMA BeginType ==
    ASSUME Types, NEW p \in Requests, NEW kind \in Kinds, NEW pc \in Pcs,
           NEW n \in Names \union {NoName}, NEW m \in Names \union {NoName}, NEW u \in Int, NEW k \in Nat,
           pc \in Creating => n \in Names, pc \in Renaming => m \in Names,
           Begin(p, kind, pc, n, m, u, k)
    PROVE  Types'
<1> DEFINE ids == BannedIds(accounts, now)
           stale == k \in retired
           q == [IdleRequest EXCEPT !.kind = kind, !.pc = pc, !.name = n, !.to = m,
                                    !.uid = u, !.key = k, !.stale = stale, !.banned = ids]
<1>1. ids \subseteq Nat /\ stale \in BOOLEAN
    BY RowSets DEF Types, TypeOK
<1> HIDE DEF ids, stale
<1>2. q \in Local
    <2>1. IdleRequest \in Local
        BY LocalStates
    <2> QED
        BY <1>1, <2>1 DEF Local, Request
<1>3. reqs' \in [Requests -> Local]
    BY <1>2 DEF Begin, Types, ids, stale
<1>4. started' \in Nat
    BY DEF Begin, Types, TypeOK
<1> QED
    BY <1>3, <1>4, TypesFrom DEF Begin, Types, TypeOK, table

LEMMA StartType ==
    ASSUME Types, Start
    PROVE  Types'
<1> USE DEF Kinds, Pcs, NoUid, NoKey, Creating, Renaming
<1>1. ASSUME NEW p \in Players, NEW n \in Names, StartLogin(p, n)
      PROVE  Types'
    BY <1>1, BeginType DEF StartLogin, Requests
<1>2. ASSUME NEW p \in Players, NEW kind \in Tickets, NEW u \in Uids,
             NEW k \in Given \union {NoKey, OtherText}, StartTicket(p, kind, u, k)
      PROVE  Types'
    <2>1. u \in Int
        BY DEF Types, TypeOK, Row, Uids
    <2>2. k \in Nat
        BY DEF Types, TypeOK, Given, OtherText
    <2> QED
        BY <1>2, <2>1, <2>2, BeginType DEF StartTicket, Requests, Tickets
<1>3. ASSUME NEW p \in Admins, NEW n \in Names, StartCreate(p, n)
      PROVE  Types'
    <2>1. Begin(p, "create", "adminFind", n, NoName, NoUid, NoKey) /\ p \in Requests
        BY <1>3 DEF StartCreate, Requests
    <2>2. /\ "create" \in Kinds /\ "adminFind" \in Pcs \ Renaming
          /\ n \in Names \union {NoName} /\ NoUid \in Int /\ NoKey \in Nat
        OBVIOUS
    <2> HIDE DEF Kinds, Pcs, NoUid, NoKey, Creating, Renaming
    <2> QED
        BY <2>1, <2>2, BeginType
<1>4. ASSUME NEW p \in Admins, NEW n \in Names, NEW m \in Names, StartRename(p, n, m)
      PROVE  Types'
    BY <1>4, BeginType DEF StartRename, Requests
<1> QED
    BY <1>1, <1>2, <1>3, <1>4 DEF Start

(* The steps of requests that leave the table alone. *)
LookStep(p) ==
    \/ LoginFind(p) \/ AdminFind(p) \/ CreateLock(p) \/ CreateFind(p) \/ CreateUid(p)
    \/ CreateReread(p) \/ TicketFind(p) \/ TicketExpiry(p) \/ BanCheck(p)
    \/ RenameFind(p) \/ Return(p)

LEMMA LookFrame ==
    ASSUME NEW p \in Requests, LookStep(p)
    PROVE  /\ UNCHANGED table /\ (Fails \/ Succeeds)
           /\ insertMu' \in {p, insertMu, "free"}
BY DEF LookStep, LoginFind, AdminFind, CreateLock, CreateFind, CreateUid, CreateReread,
       TicketFind, TicketExpiry, BanCheck, RenameFind, Return, Unlocked, Succeeds

LEMMA LookType ==
    ASSUME Types, NEW p \in Requests, LookStep(p)
    PROVE  Types'
<1> USE DEF Ahead, Pcs, Creating, Renaming
<1>1. \E q \in Local : Becomes(p, q)
    <2>1. CASE LoginFind(p)
        <3>1. UidOf(ByName(reqs[p].name)) \in Int
            BY RowSets
        <3>2. Failed(Answer(p, "queryFail")) \in Local
            BY LocalStates DEF Results
        <3>3. [reqs[p] EXCEPT !.pc = "banCheck", !.uid = UidOf(ByName(reqs[p].name))] \in Local
            BY <3>1, LocalStates
        <3>4. reqs[p].pc = "loginFind" => Goto(p, "createLock") \in Local
            BY LocalStates
        <3> QED
            BY <2>1, <3>2, <3>3, <3>4 DEF LoginFind, At
    <2>2. CASE AdminFind(p)
        BY <2>2, LocalStates DEF AdminFind, At, Results
    <2>3. CASE CreateLock(p)
        BY <2>3, LocalStates DEF CreateLock, At
    <2>4. CASE CreateFind(p) \/ CreateReread(p)
        <3>1. \A u \in Int : Created(p, u) \in Local
            BY LocalStates DEF Created, Results
        <3>2. /\ Created(p, UidOf(ByName(reqs[p].name))) \in Local
              /\ Created(p, UidOf(ByUid(reqs[p].uid))) \in Local
            BY <3>1, RowSets
        <3>3. Failed(Answer(p, "createFail")) \in Local
            BY LocalStates DEF Results
        <3>4. reqs[p].pc = "createFind" => Goto(p, "createUid") \in Local
            BY LocalStates
        <3> QED
            BY <2>4, <3>2, <3>3, <3>4 DEF CreateFind, CreateReread, At
    <2>5. CASE CreateUid(p)
        <3>1. \A m \in {0} \union Counted : UidAfter(m) \in Int
            BY CountedNat DEF UidAfter, Wrapped
        <3>2. BaseUid \in Int
            BY ConstantsAssumption
        <3>3. \A u \in Int : /\ [Goto(p, "createInsert") EXCEPT !.uid = u] \in Local
                             /\ Failed([Goto(p, "createInsert") EXCEPT !.uid = u]) \in Local
            BY <2>5, LocalStates DEF CreateUid, At
        <3> QED
            BY <2>5, <3>1, <3>2, <3>3 DEF CreateUid
    <2>6. CASE TicketFind(p)
        <3>1. ASSUME NEW r \in ByUid(reqs[p].uid)
              PROVE  [Goto(p, "ticketExpiry") EXCEPT !.name = r.name] \in Local
            <4>1. r \in Row
                BY RowSets
            <4>2. r.name \in Names
                BY <4>1 DEF Row
            <4>3. Goto(p, "ticketExpiry") \in Local
                BY LocalStates
            <4> QED
                BY <4>2, <4>3 DEF Local, Request
        <3>2. Answer(p, "invalid") \in Local /\ Failed(Answer(p, "invalid")) \in Local
            BY LocalStates DEF Results
        <3> QED
            BY <2>6, <3>1, <3>2 DEF TicketFind
    <2>7. CASE TicketExpiry(p)
        BY <2>7, LocalStates DEF TicketExpiry, Results
    <2>8. CASE BanCheck(p)
        <3>1. PassBan(p) \in Local /\ Answer(p, "banned") \in Local /\ Answer(p, "panic") \in Local
            BY LocalStates DEF PassBan, Results
        <3>2. Failed(PassBan(p)) \in Local
            BY <3>1, LocalStates
        <3>3. \A b \in BOOLEAN : [Answer(p, "banned") EXCEPT !.overdue = b] \in Local
            BY <3>1 DEF Local, Request
        <3>4. \A r : (~r.permanent /\ now >= r.until) \in BOOLEAN
            OBVIOUS
        <3> QED
            BY <2>8, <3>1, <3>2, <3>3, <3>4 DEF BanCheck
    <2>9. CASE RenameFind(p)
        BY <2>9, LocalStates DEF RenameFind, At, Results
    <2>10. CASE Return(p)
        BY <2>10, LocalStates DEF Return
    <2> QED
        BY <2>1, <2>2, <2>3, <2>4, <2>5, <2>6, <2>7, <2>8, <2>9, <2>10 DEF LookStep
<1>2. insertMu' \in Requests \union {"free"} /\ failures' \in Nat /\ UNCHANGED table
    BY LookFrame, BoundType DEF Types, TypeOK
<1> QED
    BY <1>1, <1>2, BecomesType, TypesFrom DEF Types, TypeOK, table

(* The steps of requests that write the table. *)
LEMMA InsertType ==
    ASSUME Types, NEW p \in Requests, CreateInsert(p)
    PROVE  Types'
<1>1. failures' \in Nat
    BY BoundType DEF CreateInsert
<1>2. \E q \in Local : Becomes(p, q)
    BY LocalStates DEF CreateInsert, Ahead, Pcs, Creating, Renaming, Results
<1>3. nextId' \in Nat /\ nextKey' \in Nat
    <2>1. nextId + 1 \in Nat /\ nextKey + 1 \in Nat
        BY DEF Types, TypeOK
    <2> QED
        BY <2>1 DEF CreateInsert, Types, TypeOK
<1>4. insertMu' \in Requests \union {"free"} /\ UNCHANGED <<tickets, retired>>
    BY DEF CreateInsert, Types, TypeOK, Unlocked
<1>5. accounts' \subseteq Row
    <2>1. reqs[p].name \in Names /\ reqs[p].uid \in Int
        BY DEF CreateInsert, At, Types, Local, Request, Creating
    <2>2. [id |-> nextId, uid |-> reqs[p].uid, name |-> reqs[p].name, key |-> nextKey,
           expires |-> NoTime, permanent |-> FALSE, until |-> NoTime] \in Row
        BY <2>1 DEF Row, Types, TypeOK, NoTime
    <2> QED
        BY <2>2 DEF CreateInsert, Types, TypeOK
<1> QED
    BY <1>1, <1>2, <1>3, <1>4, <1>5, BecomesType, TypesFrom DEF Types, TypeOK

LEMMA IssueType ==
    ASSUME Types, NEW p \in Requests, IssueKey(p) \/ AcceptTicket(p)
    PROVE  Types'
<1>1. failures' \in Nat
    BY BoundType DEF IssueKey, AcceptTicket
<1>2. \E q \in Local : Becomes(p, q)
    <2>1. IdsOf(ByUid(reqs[p].uid)) \subseteq Nat
        <3>1. \A r \in ByUid(reqs[p].uid) : r \in Row
            BY RowSets
        <3> QED
            BY <3>1 DEF IdsOf, Row
    <2>2. Answer(p, "ok") \in Local
        BY LocalStates DEF Results
    <2>3. Admitted(p) \in Local
        BY <2>1, <2>2 DEF Admitted, Local, Request
    <2>4. Failed(Admitted(p)) \in Local
        BY <2>3, LocalStates
    <2> QED
        BY <2>3, <2>4 DEF IssueKey, AcceptTicket
<1>3. nextKey' \in Nat
    <2>1. nextKey + 1 \in Nat
        BY DEF Types, TypeOK
    <2> QED
        BY <2>1 DEF IssueKey, AcceptTicket, Types, TypeOK
<1>4. retired' \subseteq Nat
    <2>1. KeysOf(ByUid(reqs[p].uid)) \subseteq Nat
        BY RowSets
    <2> QED
        BY <2>1 DEF IssueKey, AcceptTicket, Types, TypeOK
<1>5. tickets' \subseteq [uid : Int, key : Nat]
    <2>1. reqs[p].uid \in Int /\ nextKey \in Nat
        BY DEF Types, TypeOK, Local, Request
    <2>2. [uid |-> reqs[p].uid, key |-> nextKey] \in [uid : Int, key : Nat]
        BY <2>1
    <2> QED
        BY <2>2 DEF IssueKey, AcceptTicket, Types, TypeOK
<1>6. accounts' \subseteq Row
    <2>1. Expiry \in Nat
        <3>1. now + TokenTTL + Zone \in Nat
            BY ConstantsAssumption DEF Types, TypeOK
        <3> QED
            BY <3>1 DEF Expiry
    <2>2. nextKey \in Nat
        BY DEF Types, TypeOK
    <2>3. \A r \in accounts : /\ r \in Row
                              /\ [r EXCEPT !.key = nextKey, !.expires = Expiry] \in Row
                              /\ [r EXCEPT !.expires = Expiry] \in Row
        BY <2>1, <2>2 DEF Types, TypeOK, Row
    <2>4. ASSUME NEW x \in accounts' PROVE x \in Row
        <3>1. CASE accounts' = accounts
            BY <2>3, <3>1
        <3>2. CASE accounts' = {IF r.uid = reqs[p].uid
                                THEN [r EXCEPT !.key = nextKey, !.expires = Expiry]
                                ELSE r : r \in accounts}
            BY <2>3, <3>2
        <3>3. CASE accounts' = {IF r.uid = reqs[p].uid /\ reqs[p].kind = "verify"
                                THEN [r EXCEPT !.expires = Expiry]
                                ELSE r : r \in accounts}
            BY <2>3, <3>3
        <3> QED
            BY <3>1, <3>2, <3>3 DEF IssueKey, AcceptTicket
    <2> QED
        BY <2>4
<1>7. UNCHANGED <<nextId, insertMu>>
    BY DEF IssueKey, AcceptTicket
<1> QED
    BY <1>1, <1>2, <1>3, <1>4, <1>5, <1>6, <1>7, BecomesType, TypesFrom DEF Types, TypeOK

LEMMA RenameType ==
    ASSUME Types, NEW p \in Requests, RenameWrite(p)
    PROVE  Types'
<1>1. failures' \in Nat
    BY BoundType DEF RenameWrite
<1>2. reqs' \in [Requests -> Local] /\ UNCHANGED <<now, started, adminOps>>
    <2>1. Answer(p, "ok") \in Local /\ Answer(p, "renameFail") \in Local
          /\ Failed(Answer(p, "renameFail")) \in Local
        BY LocalStates DEF Results
    <2>2. Renamed(ByName(reqs[p].name), reqs[p].to) \in [Requests -> Local]
        BY HistoryType
    <2>3. \A f \in [Requests -> Local], q \in Local : [f EXCEPT ![p] = q] \in [Requests -> Local]
        OBVIOUS
    <2> QED
        BY <2>1, <2>2, <2>3 DEF RenameWrite, Becomes, Types
<1>3. accounts' \subseteq Row
    <2>1. reqs[p].to \in Names
        BY DEF RenameWrite, At, Types, Local, Renaming
    <2>2. \A r \in accounts : r \in Row /\ [r EXCEPT !.name = reqs[p].to] \in Row
        BY <2>1 DEF Types, TypeOK, Row
    <2>3. CASE accounts' = {IF r.name = reqs[p].name THEN [r EXCEPT !.name = reqs[p].to]
                            ELSE r : r \in accounts}
        BY <2>2, <2>3
    <2>4. CASE accounts' = accounts
        BY <2>4 DEF Types, TypeOK
    <2> QED
        BY <2>3, <2>4 DEF RenameWrite
<1>4. UNCHANGED <<nextId, nextKey, insertMu, tickets, retired>>
    BY DEF RenameWrite
<1> QED
    BY <1>1, <1>2, <1>3, <1>4, TypesFrom DEF Types, TypeOK

(* The operations of the panel that are one statement, and the clock. *)
LEMMA AdminType ==
    ASSUME Types, AdminStep \/ Tick
    PROVE  Types'
<1>1. \A r \in accounts : r \in Row
    BY DEF Types, TypeOK
<1>2. \A n : KeysOf(ByName(n)) \subseteq Nat
    BY RowSets
<1>3. /\ nextId \in Nat /\ nextKey \in Nat /\ now \in Nat /\ insertMu \in Requests \union {"free"}
      /\ reqs \in [Requests -> Local] /\ tickets \subseteq [uid : Int, key : Nat]
      /\ retired \subseteq Nat /\ started \in Nat /\ adminOps \in Nat /\ failures \in Nat
      /\ adminOps + 1 \in Nat /\ now + 1 \in Nat
    BY DEF Types, TypeOK
<1>4. ASSUME NEW op, AdminOp(op), accounts' \subseteq Row, reqs' \in [Requests -> Local],
             retired' \subseteq Nat
      PROVE  Types'
    BY <1>3, <1>4, TypesFrom DEF AdminOp
<1>5. ASSUME NEW n \in Names, NEW permanent \in BOOLEAN, NEW until \in Nat, BanUser(n, permanent, until)
      PROVE  Types'
    <2>1. \A r \in accounts :
            [r EXCEPT !.permanent = permanent, !.until = until, !.key = NoKey] \in Row
        BY <1>1, <1>5 DEF Row, NoKey
    <2>2. accounts' \subseteq Row
        BY <1>1, <1>5, <2>1 DEF BanUser
    <2>3. reqs' \in [Requests -> Local] /\ retired' \subseteq Nat
        BY <1>2, <1>3, <1>5, HistoryType DEF BanUser
    <2> QED
        BY <1>4, <1>5, <2>2, <2>3 DEF BanUser
<1>6. ASSUME NEW n \in Names, UnbanUser(n)
      PROVE  Types'
    <2>1. \A r \in accounts : [r EXCEPT !.permanent = FALSE, !.until = NoTime] \in Row
        BY <1>1 DEF Row, NoTime
    <2>2. accounts' \subseteq Row
        BY <1>1, <1>6, <2>1 DEF UnbanUser
    <2>3. reqs' \in [Requests -> Local] /\ retired' \subseteq Nat
        BY <1>3, <1>6, HistoryType DEF UnbanUser
    <2> QED
        BY <1>4, <1>6, <2>2, <2>3 DEF UnbanUser
<1>7. ASSUME NEW n \in Names, ResetUserToken(n)
      PROVE  Types'
    <2>1. \A r \in accounts : [r EXCEPT !.key = NoKey] \in Row
        BY <1>1 DEF Row, NoKey
    <2>2. accounts' \subseteq Row
        BY <1>1, <1>7, <2>1 DEF ResetUserToken
    <2>3. reqs' \in [Requests -> Local] /\ retired' \subseteq Nat
        BY <1>2, <1>3, <1>7 DEF ResetUserToken
    <2> QED
        BY <1>4, <1>7, <2>2, <2>3 DEF ResetUserToken
<1>8. ASSUME NEW n \in Names, DeleteAccount(n)
      PROVE  Types'
    <2>1. accounts' \subseteq Row /\ retired' \subseteq Nat
        BY <1>1, <1>2, <1>3, <1>8 DEF DeleteAccount
    <2>2. reqs' \in [Requests -> Local]
        BY <1>8, HistoryType DEF DeleteAccount
    <2> QED
        BY <1>4, <1>8, <2>1, <2>2 DEF DeleteAccount
<1>9. ASSUME NEW n \in Names, NEW u \in AdminUids, UpdateUID(n, u)
      PROVE  Types'
    <2>1. \A r \in accounts : [r EXCEPT !.uid = u] \in Row
        BY <1>1, ConstantsAssumption DEF Row
    <2>2. accounts' \subseteq Row
        BY <1>1, <1>9, <2>1 DEF UpdateUID
    <2>3. reqs' \in [Requests -> Local] /\ retired' \subseteq Nat
        BY <1>3, <1>9, HistoryType DEF UpdateUID
    <2> QED
        BY <1>4, <1>9, <2>2, <2>3 DEF UpdateUID
<1>10. CASE AdminStep
    <2>1. NoTime \in Nat /\ BanEnds \subseteq Nat /\ {r.name : r \in accounts} \subseteq Names
        BY <1>1, ConstantsAssumption DEF NoTime, Row
    <2> QED
        BY <1>5, <1>6, <1>7, <1>8, <1>9, <1>10, <2>1 DEF AdminStep
<1>11. CASE Tick
    <2>1. reqs' \in [Requests -> Local]
        BY <1>11, HistoryType DEF Tick
    <2>2. now' \in Nat /\ accounts' \subseteq Row
        BY <1>1, <1>3, <1>11 DEF Tick, table
    <2> QED
        BY <1>3, <1>11, <2>1, <2>2, TypesFrom DEF Tick, table, counters
<1> QED
    BY <1>10, <1>11

(* The shapes of rows, tickets and requests, and that a request which creates *)
(* or renames an account has a name for it.                                *)
THEOREM TypesInvariance == Spec => []Types
<1>1. Init => Types
    <2>1. IdleRequest \in Local /\ IdleRequest \in Request
        BY DEF IdleRequest, Local, Request, Kinds, Pcs, Results, NoUid, NoKey, Creating, Renaming
    <2> QED
        BY <2>1 DEF Init, Types, TypeOK, OtherText
<1>2. Types /\ [Next]_vars => Types'
    <2> SUFFICES ASSUME Types, [Next]_vars PROVE Types'
        OBVIOUS
    <2>1. CASE UNCHANGED vars
        BY <2>1 DEF vars, Types, TypeOK
    <2>2. ASSUME NEW p \in Requests, RequestStep(p) \/ CreateLock(p)
          PROVE  Types'
        BY <2>2, LookType, InsertType, IssueType, RenameType DEF RequestStep, LookStep
    <2> QED
        BY <2>1, <2>2, StartType, AdminType DEF Next
<1> QED
    BY <1>1, <1>2, PTL DEF Spec

(* Rows, tickets and requests keep their shapes (createAccount and the       *)
(* handlers that update the table).                                        *)
THEOREM TypeCorrect == Spec => []TypeOK
<1>1. Types => TypeOK
    BY DEF Types
<1> QED
    BY <1>1, TypesInvariance, PTL

-----------------------------------------------------------------------------
(* The table: ids, uids, names and live keys are unique, and a retired key  *)
(* is in no row.                                                           *)
RowsUnique ==
    \A r, s \in accounts :
        \/ r.id = s.id \/ r.uid = s.uid \/ r.name = s.name
        \/ r.key = s.key /\ r.key # NoKey
        => r = s

Numbered ==
    /\ nextKey > 0
    /\ \A r \in accounts : r.id < nextId /\ r.key < nextKey
    /\ \A k \in retired : k < nextKey /\ k # NoKey

RetiredGone == \A r \in accounts : r.key \notin retired

Tables == RowsUnique /\ Numbered /\ RetiredGone

LEMMA LiveKeys ==
    \A rows : \A k : k \in KeysOf(rows) <=> k # NoKey /\ \E r \in rows : r.key = k
BY DEF KeysOf

LEMMA InsertTables ==
    ASSUME Types, Tables, NEW p \in Requests, CreateInsert(p)
    PROVE  Tables'
<1>1. /\ accounts \subseteq Row /\ nextId \in Nat /\ nextKey \in Nat /\ retired \subseteq Nat
      /\ nextKey' = nextKey + 1 /\ retired' = retired
    BY DEF Types, TypeOK, CreateInsert
<1>2. CASE accounts' = accounts /\ nextId' = nextId
    BY <1>1, <1>2 DEF Tables, RowsUnique, Numbered, RetiredGone, Row
<1>3. CASE accounts' # accounts \/ nextId' # nextId
    <2> DEFINE row == [id |-> nextId, uid |-> reqs[p].uid, name |-> reqs[p].name,
                       key |-> nextKey, expires |-> NoTime, permanent |-> FALSE,
                       until |-> NoTime]
    <2>1. /\ accounts' = accounts \union {row} /\ nextId' = nextId + 1
          /\ \A r \in accounts : r.uid # row.uid /\ r.name # row.name
        BY <1>3 DEF CreateInsert, ByUid, ByName
    <2>2. row.id = nextId /\ row.key = nextKey
        OBVIOUS
    <2> HIDE DEF row
    <2>3. \A r \in accounts : r.id < nextId /\ r.key < nextKey /\ r.id \in Nat /\ r.key \in Nat
        BY <1>1 DEF Tables, Numbered, Row
    <2>4. RowsUnique'
        BY <1>1, <2>1, <2>2, <2>3 DEF Tables, RowsUnique
    <2>5. Numbered'
        BY <1>1, <2>1, <2>2, <2>3 DEF Tables, Numbered
    <2>6. RetiredGone'
        BY <1>1, <2>1, <2>2 DEF Tables, Numbered, RetiredGone
    <2> QED
        BY <2>4, <2>5, <2>6 DEF Tables
<1> QED
    BY <1>2, <1>3

(* A statement that rewrites rows, each from one with the same id.  Those    *)
(* that carry the next key, or have lost theirs, need no other argument.    *)
LEMMA Rewritten ==
    ASSUME Types, Tables, nextId' = nextId, nextKey' \in Nat, nextKey <= nextKey',
           accounts' \subseteq Row,
           \A x \in accounts' : \E r \in accounts : x.id = r.id,
           RowsUnique',
           \A x \in accounts' : x.key < nextKey' /\ x.key \notin retired',
           \A k \in retired' : k < nextKey' /\ k # NoKey
    PROVE  Tables'
BY DEF Types, TypeOK, Tables, Numbered, RetiredGone, Row

(* A statement that fails. *)
LEMMA NothingWritten ==
    ASSUME Types, Tables, UNCHANGED <<accounts, nextId, retired>>, nextKey' \in {nextKey, nextKey + 1}
    PROVE  Tables'
<1>1. nextKey \in Nat /\ retired \subseteq Nat /\ accounts \subseteq Row
    BY DEF Types, TypeOK
<1>2. nextKey' > 0 /\ \A k \in Nat : k < nextKey => k < nextKey'
    BY <1>1 DEF Tables, Numbered
<1> QED
    BY <1>1, <1>2 DEF Tables, RowsUnique, Numbered, RetiredGone, Row

LEMMA IssueTables ==
    ASSUME Types, Types', Tables, NEW p \in Requests, IssueKey(p) \/ AcceptTicket(p)
    PROVE  Tables'
<1> DEFINE u == reqs[p].uid
           Renewed(r) == IF r.uid = u THEN [r EXCEPT !.key = nextKey, !.expires = Expiry] ELSE r
           Extended(r) == IF r.uid = u /\ reqs[p].kind = "verify"
                          THEN [r EXCEPT !.expires = Expiry] ELSE r
<1>1. /\ nextKey \in Nat /\ nextId' = nextId
      /\ accounts \subseteq Row /\ accounts' \subseteq Row
    BY DEF Types, TypeOK, IssueKey, AcceptTicket
<1>2. \A r \in accounts : r.key \in Nat /\ r.key < nextKey /\ r.id \in Nat
    BY <1>1 DEF Tables, Numbered, Row
<1>3. CASE /\ accounts' = {Renewed(r) : r \in accounts} /\ nextKey' = nextKey + 1
           /\ retired' = retired \union KeysOf(ByUid(u))
    <2>1. ASSUME NEW x \in accounts'
          PROVE  \E r \in accounts :
                   /\ x = Renewed(r) /\ x.id = r.id /\ x.uid = r.uid /\ x.name = r.name
                   /\ x.key = IF r.uid = u THEN nextKey ELSE r.key
        BY <1>1, <1>3 DEF Row
    <2> HIDE DEF Renewed
    <2>2. RowsUnique'
        <3> SUFFICES ASSUME NEW x \in accounts', NEW y \in accounts',
                            \/ x.id = y.id \/ x.uid = y.uid \/ x.name = y.name
                            \/ x.key = y.key /\ x.key # NoKey
                     PROVE  x = y
            BY DEF RowsUnique
        <3>1. PICK r \in accounts : /\ x = Renewed(r) /\ x.id = r.id /\ x.uid = r.uid /\ x.name = r.name
                                    /\ x.key = IF r.uid = u THEN nextKey ELSE r.key
            BY <2>1
        <3>2. PICK s \in accounts : /\ y = Renewed(s) /\ y.id = s.id /\ y.uid = s.uid /\ y.name = s.name
                                    /\ y.key = IF s.uid = u THEN nextKey ELSE s.key
            BY <2>1
        <3>3. r.key # nextKey /\ s.key # nextKey
            BY <1>1, <1>2
        <3>4. r = s
            BY <3>1, <3>2, <3>3 DEF Tables, RowsUnique
        <3> QED
            BY <3>1, <3>2, <3>4
    <2>3. \A k \in KeysOf(ByUid(u)) : k # NoKey /\ \E r \in accounts : r.uid = u /\ r.key = k
        BY LiveKeys DEF ByUid
    <2>4. \A k \in retired' : k \in Nat /\ k < nextKey /\ k # NoKey
        BY <1>2, <1>3, <2>3 DEF Tables, Numbered, Types, TypeOK
    <2>5. \A k \in retired' : k < nextKey' /\ k # NoKey
        BY <1>1, <1>3, <2>4
    <2>6. ASSUME NEW x \in accounts'
          PROVE  x.key < nextKey' /\ x.key \notin retired'
        <3>1. PICK r \in accounts : x.key = IF r.uid = u THEN nextKey ELSE r.key
            BY <2>1
        <3>2. CASE r.uid = u
            BY <1>1, <1>3, <2>4, <3>1, <3>2
        <3>3. CASE r.uid # u
            <4>1. x.key = r.key /\ r.key < nextKey + 1
                BY <1>1, <1>2, <3>1, <3>3
            <4>2. r.key \notin KeysOf(ByUid(u))
                BY <2>3, <3>3 DEF Tables, RowsUnique
            <4> QED
                BY <1>3, <4>1, <4>2 DEF Tables, RetiredGone
        <3> QED
            BY <3>2, <3>3
    <2>7. nextKey' \in Nat /\ nextKey <= nextKey'
        BY <1>1, <1>3
    <2> QED
        BY <1>1, <2>1, <2>2, <2>5, <2>6, <2>7, Rewritten
<1>4. CASE /\ accounts' = {Extended(r) : r \in accounts}
           /\ retired' = retired /\ nextKey' = nextKey
    <2>1. ASSUME NEW x \in accounts'
          PROVE  \E r \in accounts :
                   /\ x = Extended(r) /\ x.id = r.id /\ x.uid = r.uid /\ x.name = r.name
                   /\ x.key = r.key
        BY <1>1, <1>4 DEF Row
    <2> HIDE DEF Extended
    <2>2. RowsUnique'
        BY <2>1 DEF Tables, RowsUnique
    <2>3. \A x \in accounts' : x.key < nextKey' /\ x.key \notin retired'
        BY <1>2, <1>4, <2>1 DEF Tables, RetiredGone
    <2>4. \A k \in retired' : k < nextKey' /\ k # NoKey
        BY <1>4 DEF Tables, Numbered
    <2>5. nextKey' \in Nat /\ nextKey <= nextKey'
        BY <1>1, <1>4
    <2> QED
        BY <1>1, <2>1, <2>2, <2>3, <2>4, <2>5, Rewritten
<1>5. CASE UNCHANGED <<accounts, retired>>
    <2>1. nextKey' \in {nextKey, nextKey + 1}
        BY DEF IssueKey, AcceptTicket
    <2> QED
        BY <1>1, <1>5, <2>1, NothingWritten
<1> QED
    BY <1>3, <1>4, <1>5 DEF IssueKey, AcceptTicket

(* A statement that issues no key: the rows keep theirs, or lose it and have *)
(* it retired if the row is named n.                                       *)
LEMMA NoKeyIssued ==
    ASSUME Types, Types', Tables, UNCHANGED <<nextId, nextKey>>, NEW n,
           \/ retired' = retired
           \/ retired' = retired \union KeysOf(ByName(n))
                /\ \A x \in accounts', r \in accounts : x.id = r.id /\ r.name = n => x.key = NoKey,
           \A x \in accounts' : \E r \in accounts : x.id = r.id /\ x.key \in {r.key, NoKey},
           RowsUnique'
    PROVE  Tables'
<1>1. /\ nextKey \in Nat /\ accounts' \subseteq Row /\ NoKey < nextKey
      /\ \A r \in accounts : r.key \in Nat /\ r.key < nextKey
    BY DEF Types, TypeOK, Tables, Numbered, Row, NoKey
<1>2. \A k \in KeysOf(ByName(n)) : k # NoKey /\ \E r \in accounts : r.name = n /\ r.key = k
    BY LiveKeys DEF ByName
<1>3. \A k \in retired' : k < nextKey' /\ k # NoKey
    BY <1>1, <1>2 DEF Tables, Numbered
<1>4. ASSUME NEW x \in accounts'
      PROVE  x.key < nextKey' /\ x.key \notin retired'
    <2>1. PICK r \in accounts : x.id = r.id /\ x.key \in {r.key, NoKey}
        OBVIOUS
    <2>2. CASE x.key = NoKey
        BY <1>1, <1>3, <2>2
    <2>3. CASE x.key # NoKey
        <3>1. x.key = r.key /\ r.key \notin retired
            BY <2>1, <2>3 DEF Tables, RetiredGone
        <3>2. retired' # retired => r.key \notin KeysOf(ByName(n))
            BY <1>2, <2>1, <2>3, <3>1 DEF Tables, RowsUnique
        <3> QED
            BY <1>1, <3>1, <3>2
    <2> QED
        BY <2>2, <2>3
<1> QED
    BY <1>1, <1>3, <1>4, Rewritten

LEMMA RenameTables ==
    ASSUME Types, Types', Tables, NEW p \in Requests, RenameWrite(p)
    PROVE  Tables'
<1> DEFINE n == reqs[p].name
           m == reqs[p].to
           Moved(r) == IF r.name = n THEN [r EXCEPT !.name = m] ELSE r
<1>1. CASE ~Conflict(ByName(n), ByName(m)) /\ accounts' = {Moved(r) : r \in accounts}
    <2>1. (\E r \in accounts : r.name = n) => \A r \in accounts : r.name = m => r.name = n
        BY <1>1 DEF ByName, Conflict
    <2>2. ASSUME NEW x \in accounts'
          PROVE  \E r \in accounts : /\ x = Moved(r) /\ x.id = r.id /\ x.uid = r.uid /\ x.key = r.key
                                     /\ x.name = IF r.name = n THEN m ELSE r.name
        BY <1>1 DEF Types, TypeOK, Row
    <2> HIDE DEF Moved
    <2>3. RowsUnique'
        BY <2>1, <2>2 DEF Tables, RowsUnique
    <2> QED
        BY <2>2, <2>3, NoKeyIssued DEF RenameWrite
<1>2. CASE accounts' = accounts
    BY <1>2, NothingWritten DEF RenameWrite
<1> QED
    BY <1>1, <1>2 DEF RenameWrite, Becomes

LEMMA AdminTables ==
    ASSUME Types, Types', Tables, AdminStep
    PROVE  Tables'
<1>1. accounts \subseteq Row /\ {r.name : r \in accounts} \subseteq Names
    BY DEF Types, TypeOK, Row
<1>2. ASSUME NEW n \in Names, NEW permanent, NEW until, BanUser(n, permanent, until)
      PROVE  Tables'
    <2> DEFINE New(r) == IF r.name = n
                         THEN [r EXCEPT !.permanent = permanent, !.until = until, !.key = NoKey] ELSE r
    <2>1. accounts' = {New(r) : r \in accounts}
        BY <1>2 DEF BanUser
    <2>2. ASSUME NEW x \in accounts'
          PROVE  \E r \in accounts : /\ x = New(r) /\ x.id = r.id /\ x.uid = r.uid /\ x.name = r.name
                                     /\ x.key = IF r.name = n THEN NoKey ELSE r.key
        BY <1>1, <2>1 DEF Row
    <2> HIDE DEF New
    <2>3. RowsUnique'
        BY <2>2 DEF Tables, RowsUnique
    <2>4. \A x \in accounts', r \in accounts : x.id = r.id /\ r.name = n => x.key = NoKey
        BY <2>2 DEF Tables, RowsUnique
    <2> QED
        BY <1>2, <2>2, <2>3, <2>4, NoKeyIssued DEF BanUser, AdminOp
<1>3. ASSUME NEW n \in Names, UnbanUser(n)
      PROVE  Tables'
    <2> DEFINE New(r) == IF r.name = n THEN [r EXCEPT !.permanent = FALSE, !.until = NoTime] ELSE r
    <2>1. accounts' = {New(r) : r \in accounts}
        BY <1>3 DEF UnbanUser
    <2>2. ASSUME NEW x \in accounts'
          PROVE  \E r \in accounts : /\ x = New(r) /\ x.id = r.id /\ x.uid = r.uid /\ x.name = r.name
                                     /\ x.key = r.key
        BY <1>1, <2>1 DEF Row
    <2> HIDE DEF New
    <2>3. RowsUnique'
        BY <2>2 DEF Tables, RowsUnique
    <2> QED
        BY <1>3, <2>2, <2>3, NoKeyIssued DEF UnbanUser, AdminOp
<1>4. ASSUME NEW n \in Names, ResetUserToken(n)
      PROVE  Tables'
    <2> DEFINE New(r) == IF r.name = n THEN [r EXCEPT !.key = NoKey] ELSE r
    <2>1. accounts' = {New(r) : r \in accounts}
        BY <1>4 DEF ResetUserToken
    <2>2. ASSUME NEW x \in accounts'
          PROVE  \E r \in accounts : /\ x = New(r) /\ x.id = r.id /\ x.uid = r.uid /\ x.name = r.name
                                     /\ x.key = IF r.name = n THEN NoKey ELSE r.key
        BY <1>1, <2>1 DEF Row
    <2> HIDE DEF New
    <2>3. RowsUnique'
        BY <2>2 DEF Tables, RowsUnique
    <2>4. \A x \in accounts', r \in accounts : x.id = r.id /\ r.name = n => x.key = NoKey
        BY <2>2 DEF Tables, RowsUnique
    <2> QED
        BY <1>4, <2>2, <2>3, <2>4, NoKeyIssued DEF ResetUserToken, AdminOp
<1>5. ASSUME NEW n \in Names, DeleteAccount(n)
      PROVE  Tables'
    <2>1. \A x \in accounts' : x \in accounts /\ x.name # n
        BY <1>5 DEF DeleteAccount, ByName
    <2>2. RowsUnique'
        BY <2>1 DEF Tables, RowsUnique
    <2>3. \A x \in accounts', r \in accounts : x.id = r.id /\ r.name = n => x.key = NoKey
        BY <2>1 DEF Tables, RowsUnique
    <2> QED
        BY <1>5, <2>1, <2>2, <2>3, NoKeyIssued DEF DeleteAccount, AdminOp
<1>6. ASSUME NEW n \in {r.name : r \in accounts}, NEW u, UpdateUID(n, u)
      PROVE  Tables'
    <2> DEFINE New(r) == IF r.name = n THEN [r EXCEPT !.uid = u] ELSE r
    <2>1. accounts' = {New(r) : r \in accounts}
        BY <1>6 DEF UpdateUID
    <2>2. ASSUME NEW x \in accounts'
          PROVE  \E r \in accounts : /\ x = New(r) /\ x.id = r.id /\ x.name = r.name /\ x.key = r.key
                                     /\ x.uid = IF r.name = n THEN u ELSE r.uid
        BY <1>1, <2>1 DEF Row
    <2> HIDE DEF New
    <2>3. \A r \in accounts : r.uid = u => r.name = n
        BY <1>6 DEF UpdateUID, Conflict, ByUid, ByName
    <2>4. RowsUnique'
        BY <2>2, <2>3 DEF Tables, RowsUnique
    <2> QED
        BY <1>6, <2>2, <2>4, NoKeyIssued DEF UpdateUID, AdminOp
<1> QED
    BY <1>1, <1>2, <1>3, <1>4, <1>5, <1>6 DEF AdminStep

(* UNIQUE(uid), UNIQUE(username) and the session keys: the constraints of    *)
(* the table hold, and a key that was retired is never in a row again.      *)
THEOREM TablesInvariance == Spec => [](Types /\ Tables)
<1>1. Init => Tables
    BY DEF Init, Tables, RowsUnique, Numbered, RetiredGone, OtherText
<1>2. Types /\ Types' /\ Tables /\ [Next]_vars => Tables'
    <2> SUFFICES ASSUME Types, Types', Tables, [Next]_vars PROVE Tables'
        OBVIOUS
    <2>1. ASSUME UNCHANGED table PROVE Tables'
        BY <2>1, NothingWritten DEF table
    <2>2. ASSUME NEW p \in Requests, LookStep(p) PROVE Tables'
        BY <2>1, <2>2, LookFrame
    <2>3. ASSUME NEW p \in Requests, RequestStep(p) \/ CreateLock(p)
          PROVE  Tables'
        BY <2>2, <2>3, InsertTables, IssueTables, RenameTables DEF RequestStep, LookStep
    <2>4. CASE Start
        BY <2>1, <2>4 DEF Start, StartLogin, StartTicket, StartCreate, StartRename, Begin
    <2>5. CASE Tick \/ UNCHANGED vars
        BY <2>1, <2>5 DEF Tick, vars, table
    <2> QED
        BY <2>3, <2>4, <2>5, AdminTables DEF Next
<1> QED
    BY <1>1, <1>2, TypesInvariance, PTL DEF Spec

-----------------------------------------------------------------------------
(* A step of p leaves the other requests where they are, but for what the    *)
(* history says of a removed row.                                          *)
LEMMA Others ==
    ASSUME Types, NEW p \in Requests, RequestStep(p) \/ CreateLock(p), NEW r \in Requests, r # p
    PROVE  /\ reqs'[r].pc = reqs[r].pc /\ reqs'[r].kind = reqs[r].kind
           /\ reqs'[r].name = reqs[r].name /\ reqs'[r].uid = reqs[r].uid
           /\ reqs'[r].key = reqs[r].key /\ reqs'[r].result = reqs[r].result
           /\ reqs'[r].stale = reqs[r].stale /\ reqs'[r].failed = reqs[r].failed
           /\ reqs'[r].banned = reqs[r].banned /\ reqs'[r].admitted = reqs[r].admitted
           /\ reqs[r].removed => reqs'[r].removed
           /\ reqs[r].moved => reqs'[r].moved
<1>1. CASE \E q : Becomes(p, q)
    BY <1>1 DEF Becomes, Types, TypeOK
<1>2. CASE reqs' = [Renamed(ByName(reqs[p].name), reqs[p].to) EXCEPT ![p] = Answer(p, "ok")]
    <2>1. \E b, c \in BOOLEAN : /\ reqs'[r] = [reqs[r] EXCEPT !.removed = b, !.moved = c]
                                /\ reqs[r].removed => b
                                /\ reqs[r].moved => c
        BY <1>2 DEF Renamed, Lost
    <2>2. reqs[r] \in Request
        BY DEF Types, TypeOK
    <2> QED
        BY <2>1, <2>2 DEF Request
<1> QED
    BY <1>1, <1>2 DEF RequestStep, CreateLock, LoginFind, AdminFind, CreateFind, CreateUid,
       CreateInsert, CreateReread, TicketFind, TicketExpiry, BanCheck, IssueKey, AcceptTicket,
       RenameFind, RenameWrite, Return

(* What a request is made for stays until it is answered and returns. *)
LEMMA Own ==
    ASSUME Types, NEW p \in Requests, RequestStep(p) \/ CreateLock(p), ~Return(p)
    PROVE  /\ reqs'[p].kind = reqs[p].kind /\ reqs'[p].key = reqs[p].key
           /\ reqs'[p].stale = reqs[p].stale /\ reqs'[p].banned = reqs[p].banned
           /\ reqs'[p].removed = reqs[p].removed /\ reqs'[p].moved = reqs[p].moved
           /\ reqs[p].failed => reqs'[p].failed
<1> DEFINE Fine(q) == /\ q.kind = reqs[p].kind /\ q.key = reqs[p].key
                      /\ q.stale = reqs[p].stale /\ q.banned = reqs[p].banned
                      /\ q.removed = reqs[p].removed /\ q.moved = reqs[p].moved
                      /\ reqs[p].failed => q.failed
<1>1. reqs[p] \in Request
    BY DEF Types, TypeOK
<1>2. \A pc, result : Fine(Goto(p, pc)) /\ Fine(Answer(p, result))
    BY <1>1 DEF Request, Goto, Answer
<1>3. \A pc, u : /\ Fine([reqs[p] EXCEPT !.pc = pc, !.uid = u])
                 /\ Fine([Goto(p, pc) EXCEPT !.uid = u]) /\ Fine([Goto(p, pc) EXCEPT !.name = u])
                 /\ Fine([Answer(p, pc) EXCEPT !.overdue = u])
                 /\ Fine([Answer(p, pc) EXCEPT !.admitted = u])
    BY <1>1 DEF Request, Goto, Answer
<1>4. \A pc, u : /\ Fine(Failed(Goto(p, pc))) /\ Fine(Failed(Answer(p, pc)))
                 /\ Fine(Failed([Goto(p, pc) EXCEPT !.uid = u]))
                 /\ Fine(Failed([Answer(p, pc) EXCEPT !.admitted = u]))
    BY <1>1 DEF Request, Goto, Answer, Failed
<1> HIDE DEF Fine
<1>5. \A u : Fine(Created(p, u)) /\ Fine(PassBan(p)) /\ Fine(Failed(PassBan(p)))
             /\ Fine(Admitted(p)) /\ Fine(Failed(Admitted(p)))
    BY <1>2, <1>3, <1>4 DEF Created, PassBan, Admitted
<1>6. \E q : reqs'[p] = q /\ Fine(q)
    <2>1. ASSUME NEW q, Becomes(p, q), Fine(q)
          PROVE  reqs'[p] = q /\ Fine(q)
        BY <2>1 DEF Becomes, Types
    <2>2. CASE LoginFind(p) \/ AdminFind(p) \/ CreateLock(p) \/ RenameFind(p) \/ TicketExpiry(p)
        BY <1>2, <1>3, <1>4, <2>1, <2>2
           DEF LoginFind, AdminFind, CreateLock, RenameFind, TicketExpiry
    <2>3. CASE CreateFind(p) \/ CreateUid(p) \/ CreateReread(p)
        BY <1>2, <1>3, <1>4, <1>5, <2>1, <2>3 DEF CreateFind, CreateUid, CreateReread
    <2>4. CASE TicketFind(p) \/ BanCheck(p)
        BY <1>2, <1>3, <1>4, <1>5, <2>1, <2>4 DEF TicketFind, BanCheck
    <2>5. CASE CreateInsert(p) \/ IssueKey(p) \/ AcceptTicket(p)
        BY <1>2, <1>4, <1>5, <2>1, <2>5 DEF CreateInsert, IssueKey, AcceptTicket
    <2>6. CASE RenameWrite(p)
        <3>1. CASE reqs' = [Renamed(ByName(reqs[p].name), reqs[p].to) EXCEPT ![p] = Answer(p, "ok")]
            BY <1>2, <3>1 DEF Renamed
        <3> QED
            BY <1>2, <1>4, <2>1, <2>6, <3>1 DEF RenameWrite
    <2> QED
        BY <2>2, <2>3, <2>4, <2>5, <2>6 DEF RequestStep
<1> QED
    BY <1>6 DEF Fine

(* A request that begins, and the histories of the others.                  *)
LEMMA Begun ==
    ASSUME Types, Start
    PROVE  \E p \in Requests :
             /\ reqs[p].pc = "idle" /\ UNCHANGED <<table, insertMu, now>>
             /\ \A r \in Requests \ {p} : reqs'[r] = reqs[r]
             /\ reqs'[p].pc \in {"loginFind", "ticketFind", "adminFind", "renameFind"}
             /\ reqs'[p].kind \in {"verify", "grant"} <=> reqs'[p].pc = "ticketFind"
             /\ reqs'[p].pc = "renameFind" => "rename" \in AdminOps
             /\ reqs'[p].stale => reqs'[p].key \in retired
             /\ ~reqs'[p].removed /\ ~reqs'[p].moved /\ reqs'[p].result = "none" /\ reqs'[p].admitted = {}
             /\ reqs'[p].banned = BannedIds(accounts, now)
<1> DEFINE Fine(p) ==
             /\ reqs[p].pc = "idle" /\ UNCHANGED <<table, insertMu, now>>
             /\ \A r \in Requests \ {p} : reqs'[r] = reqs[r]
             /\ reqs'[p].pc \in {"loginFind", "ticketFind", "adminFind", "renameFind"}
             /\ reqs'[p].kind \in {"verify", "grant"} <=> reqs'[p].pc = "ticketFind"
             /\ reqs'[p].pc = "renameFind" => "rename" \in AdminOps
             /\ reqs'[p].stale => reqs'[p].key \in retired
             /\ ~reqs'[p].removed /\ ~reqs'[p].moved /\ reqs'[p].result = "none" /\ reqs'[p].admitted = {}
             /\ reqs'[p].banned = BannedIds(accounts, now)
<1>1. ASSUME NEW p \in Requests, NEW kind, NEW pc, NEW n, NEW m, NEW u, NEW k,
             Begin(p, kind, pc, n, m, u, k),
             pc \in {"loginFind", "ticketFind", "adminFind", "renameFind"},
             kind \in {"verify", "grant"} <=> pc = "ticketFind",
             pc = "renameFind" => "rename" \in AdminOps
      PROVE  Fine(p)
    <2> DEFINE ids == BannedIds(accounts, now)
               stale == k \in retired
               q == [IdleRequest EXCEPT !.kind = kind, !.pc = pc, !.name = n, !.to = m, !.uid = u,
                                        !.key = k, !.stale = stale, !.banned = ids]
    <2>1. reqs' = [reqs EXCEPT ![p] = q] /\ reqs[p].pc = "idle" /\ UNCHANGED <<table, insertMu, now>>
        BY <1>1 DEF Begin
    <2>2. reqs'[p] = q /\ \A r \in Requests \ {p} : reqs'[r] = reqs[r]
        BY <2>1 DEF Types
    <2> HIDE DEF ids, stale
    <2>3. /\ q.pc = pc /\ q.kind = kind /\ q.key = k /\ q.stale = stale /\ q.banned = ids
          /\ ~q.removed /\ ~q.moved /\ q.result = "none" /\ q.admitted = {}
        BY DEF IdleRequest
    <2> QED
        BY <1>1, <2>1, <2>2, <2>3 DEF ids, stale
<1> HIDE DEF Fine
<1>2. \E p \in Requests : Fine(p)
    BY <1>1 DEF Start, StartLogin, StartTicket, StartCreate, StartRename, Requests, Tickets
<1> QED
    BY <1>2 DEF Fine

(* The panel and the clock touch only the histories of requests. *)
LEMMA Watched ==
    ASSUME Types, AdminStep \/ Tick, NEW r \in Requests
    PROVE  /\ reqs'[r].pc = reqs[r].pc /\ reqs'[r].kind = reqs[r].kind
           /\ reqs'[r].name = reqs[r].name /\ reqs'[r].uid = reqs[r].uid
           /\ reqs'[r].key = reqs[r].key /\ reqs'[r].result = reqs[r].result
           /\ reqs'[r].stale = reqs[r].stale /\ reqs'[r].failed = reqs[r].failed
           /\ reqs'[r].admitted = reqs[r].admitted /\ reqs'[r].banned \subseteq reqs[r].banned
           /\ reqs[r].removed => reqs'[r].removed
           /\ reqs[r].moved => reqs'[r].moved
           /\ insertMu' = insertMu
<1> DEFINE Fine(q) ==
           /\ q.pc = reqs[r].pc /\ q.kind = reqs[r].kind
           /\ q.name = reqs[r].name /\ q.uid = reqs[r].uid
           /\ q.key = reqs[r].key /\ q.result = reqs[r].result
           /\ q.stale = reqs[r].stale /\ q.failed = reqs[r].failed
           /\ q.admitted = reqs[r].admitted /\ q.banned \subseteq reqs[r].banned
           /\ reqs[r].removed => q.removed
           /\ reqs[r].moved => q.moved
<1>1. reqs[r] \in Request
    BY DEF Types, TypeOK
<1>2. \A ids : \A b, c \in BOOLEAN : (reqs[r].removed => b) /\ (reqs[r].moved => c) =>
        /\ Fine([reqs[r] EXCEPT !.banned = @ \intersect ids])
        /\ Fine([reqs[r] EXCEPT !.removed = b, !.moved = c])
        /\ Fine(reqs[r])
    BY <1>1 DEF Request
<1> HIDE DEF Fine
<1>3. Fine(reqs'[r])
    <2>1. ASSUME NEW n \in Names, NEW permanent, NEW until, BanUser(n, permanent, until)
          PROVE  Fine(reqs'[r])
        BY <1>2, <2>1 DEF BanUser, Observe
    <2>2. ASSUME NEW n \in Names, UnbanUser(n) \/ ResetUserToken(n)
          PROVE  Fine(reqs'[r])
        BY <1>2, <2>2 DEF UnbanUser, ResetUserToken, Observe
    <2>3. ASSUME NEW n \in Names, DeleteAccount(n)
          PROVE  Fine(reqs'[r])
        <3> DEFINE b == Lost(r, ByName(n))
        <3>1. b \in BOOLEAN /\ (reqs[r].removed => b)
            BY DEF Lost
        <3>2. reqs'[r] = [reqs[r] EXCEPT !.banned = @ \ IdsOf(ByName(n)), !.removed = b]
            BY <2>3 DEF DeleteAccount
        <3> HIDE DEF b
        <3> QED
            BY <1>1, <3>1, <3>2 DEF Request, Fine
    <2>4. ASSUME NEW n \in Names, NEW u, UpdateUID(n, u)
          PROVE  Fine(reqs'[r])
        <3> DEFINE b == Lost(r, ByName(n))
                   c == reqs[r].moved \/ (ByName(n) # {} /\ reqs[r].uid = u)
        <3>1. b \in BOOLEAN /\ (reqs[r].removed => b) /\ c \in BOOLEAN /\ (reqs[r].moved => c)
            BY DEF Lost
        <3>2. reqs'[r] = [reqs[r] EXCEPT !.removed = b, !.moved = c]
            BY <2>4 DEF UpdateUID, Renumbered
        <3> HIDE DEF b, c
        <3> QED
            BY <1>2, <3>1, <3>2
    <2>5. CASE Tick
        BY <1>2, <2>5 DEF Tick, Observe
    <2>6. {s.name : s \in accounts} \subseteq Names
        BY DEF Types, TypeOK, Row
    <2> QED
        BY <2>1, <2>2, <2>3, <2>4, <2>5, <2>6 DEF AdminStep
<1>4. insertMu' = insertMu
    BY DEF AdminStep, BanUser, UnbanUser, ResetUserToken, DeleteAccount, UpdateUID, AdminOp, Tick
<1> QED
    BY <1>3, <1>4 DEF Fine

-----------------------------------------------------------------------------
(* insertMu is held by the request that is inside createAccount. *)
HolderInside == \A p \in Requests : reqs[p].pc \in Locked <=> insertMu = p

LEMMA HolderStep ==
    ASSUME Types, HolderInside, NEW p \in Requests, RequestStep(p) \/ CreateLock(p)
    PROVE  HolderInside'
<1> DEFINE Outside == reqs[p].pc \notin Locked /\ reqs'[p].pc \notin Locked /\ insertMu' = insertMu
           Inside == /\ reqs[p].pc \in Locked
                     /\ \/ reqs'[p].pc \in Locked /\ insertMu' = insertMu
                        \/ reqs'[p].pc \notin Locked /\ insertMu' = "free"
           Becoming(pcs) == \E q : Becomes(p, q) /\ q.pc \in pcs
<1>1. reqs[p] \in Request
    BY DEF Types, TypeOK
<1>2. \A q : Becomes(p, q) => reqs'[p] = q
    BY DEF Becomes, Types
<1>3. ASSUME NEW pcs, Becoming(pcs)
      PROVE  reqs'[p].pc \in pcs
    BY <1>2, <1>3
<1>4. \A pc, u : /\ Goto(p, pc).pc = pc /\ Answer(p, pc).pc = "answered"
                 /\ [reqs[p] EXCEPT !.pc = pc, !.uid = u].pc = pc
                 /\ [Goto(p, pc) EXCEPT !.uid = u].pc = pc
                 /\ [Goto(p, pc) EXCEPT !.name = u].pc = pc
                 /\ [Answer(p, pc) EXCEPT !.overdue = u].pc = "answered"
                 /\ [Answer(p, pc) EXCEPT !.admitted = u].pc = "answered"
                 /\ Failed(Answer(p, pc)).pc = "answered" /\ Failed(Goto(p, pc)).pc = pc
                 /\ Failed([Goto(p, pc) EXCEPT !.uid = u]).pc = pc
                 /\ Failed([Answer(p, pc) EXCEPT !.admitted = u]).pc = "answered"
    BY <1>1 DEF Request, Goto, Answer, Failed
<1>5. \A u : Created(p, u).pc \in {"banCheck", "answered"}
    BY <1>4 DEF Created
<1>6. PassBan(p).pc \in {"issue", "answered"} /\ Failed(PassBan(p)).pc \in {"issue", "answered"}
    BY <1>4 DEF PassBan
<1>7. Admitted(p).pc = "answered" /\ Failed(Admitted(p)).pc = "answered"
    BY <1>4 DEF Admitted
<1>8. IdleRequest.pc = "idle"
    BY DEF IdleRequest
<1> DEFINE Quiet == {"idle", "banCheck", "issue", "answered", "ticketExpiry", "createLock",
                     "renameWrite"}
<1>9. \A pc \in Quiet : pc \notin Locked
    BY DEF Locked
<1>10. CASE LoginFind(p) \/ AdminFind(p) \/ RenameFind(p) \/ TicketExpiry(p)
    <2>1. Outside
        <3>1. CASE LoginFind(p)
            <4>1. \A u : [reqs[p] EXCEPT !.pc = "banCheck", !.uid = u].pc = "banCheck"
                BY <1>1 DEF Request
            <4>2. \/ Becomes(p, Goto(p, "createLock"))
                  \/ \E u : Becomes(p, [reqs[p] EXCEPT !.pc = "banCheck", !.uid = u])
                  \/ Becomes(p, Failed(Answer(p, "queryFail")))
                BY <3>1 DEF LoginFind
            <4>3. reqs'[p].pc \in {"createLock", "banCheck", "answered"}
                <5>1. CASE \E u : Becomes(p, [reqs[p] EXCEPT !.pc = "banCheck", !.uid = u])
                    <6>1. PICK u : Becomes(p, [reqs[p] EXCEPT !.pc = "banCheck", !.uid = u])
                        BY <5>1
                    <6>2. reqs'[p] = [reqs[p] EXCEPT !.pc = "banCheck", !.uid = u]
                        BY <1>2, <6>1
                    <6> QED
                        BY <4>1, <6>2
                <5>2. CASE Becomes(p, Goto(p, "createLock"))
                    BY <1>2, <1>4, <5>2
                <5>3. CASE Becomes(p, Failed(Answer(p, "queryFail")))
                    BY <1>2, <1>4, <5>3
                <5> QED
                    BY <4>2, <5>1, <5>2, <5>3
            <4> QED
                BY <3>1, <4>3 DEF LoginFind, At, Locked
        <3>2. CASE AdminFind(p)
            BY <1>2, <1>4, <3>2 DEF AdminFind, At, Locked
        <3>3. CASE RenameFind(p)
            BY <1>2, <1>4, <3>3 DEF RenameFind, At, Locked
        <3>4. CASE TicketExpiry(p)
            BY <1>2, <1>4, <3>4 DEF TicketExpiry, At, Locked
        <3> QED
            BY <1>10, <3>1, <3>2, <3>3, <3>4
    <2> QED
        BY <2>1, Others, <1>10 DEF HolderInside, RequestStep
<1>11. CASE TicketFind(p)
    <2>1. Becoming(Quiet)
        <3>1. CASE \E r \in ByUid(reqs[p].uid) :
                      Becomes(p, [Goto(p, "ticketExpiry") EXCEPT !.name = r.name])
            <4>1. PICK r \in ByUid(reqs[p].uid) :
                      Becomes(p, [Goto(p, "ticketExpiry") EXCEPT !.name = r.name])
                BY <3>1
            <4>2. [Goto(p, "ticketExpiry") EXCEPT !.name = r.name].pc = "ticketExpiry"
                BY <1>1 DEF Request, Goto
            <4> QED
                BY <4>1, <4>2
        <3>2. CASE Becomes(p, Answer(p, "invalid")) \/ Becomes(p, Failed(Answer(p, "invalid")))
            BY <1>4, <3>2
        <3> HIDE DEF Becoming
        <3> QED
            BY <1>11, <3>1, <3>2 DEF TicketFind
    <2> HIDE DEF Becoming, Quiet
    <2>2. Outside
        BY <1>3, <1>9, <1>11, <2>1 DEF TicketFind, At, Locked
    <2> QED
        BY <2>2, Others, <1>11 DEF HolderInside, RequestStep
<1>12. CASE BanCheck(p)
    <2>1. Becoming(Quiet)
        <3>1. \A r : [Answer(p, "banned") EXCEPT !.overdue = ~r.permanent /\ now >= r.until].pc
                       = "answered"
            BY <1>1 DEF Request, Answer
        <3>2. CASE \E r \in ByName(reqs[p].name) :
                      Becomes(p, [Answer(p, "banned") EXCEPT !.overdue =
                                                   ~r.permanent /\ now >= r.until])
            BY <3>1, <3>2
        <3>3. CASE Becomes(p, PassBan(p)) \/ Becomes(p, Failed(PassBan(p)))
            BY <1>6, <3>3
        <3>4. CASE Becomes(p, Answer(p, "panic"))
            BY <1>4, <3>4
        <3> HIDE DEF Becoming
        <3> QED
            BY <1>12, <3>2, <3>3, <3>4 DEF BanCheck
    <2> HIDE DEF Becoming, Quiet
    <2>2. Outside
        BY <1>3, <1>9, <1>12, <2>1 DEF BanCheck, At, Locked
    <2> QED
        BY <2>2, Others, <1>12 DEF HolderInside, RequestStep
<1>13. CASE IssueKey(p) \/ AcceptTicket(p)
    <2>1. Becoming(Quiet)
        BY <1>7, <1>13 DEF IssueKey, AcceptTicket
    <2> HIDE DEF Becoming, Quiet
    <2>2. Outside
        BY <1>3, <1>9, <1>13, <2>1 DEF IssueKey, AcceptTicket, At, Locked
    <2> QED
        BY <2>2, Others, <1>13 DEF HolderInside, RequestStep
<1>14. CASE Return(p)
    <2>1. Outside
        BY <1>2, <1>8, <1>14 DEF Return, At, Locked
    <2> QED
        BY <2>1, Others, <1>14 DEF HolderInside, RequestStep
<1>15. CASE RenameWrite(p)
    <2>1. reqs'[p].pc = "answered"
        <3>1. CASE reqs' = [Renamed(ByName(reqs[p].name), reqs[p].to) EXCEPT ![p] = Answer(p, "ok")]
            BY <1>4, <3>1 DEF Renamed
        <3>2. CASE \E q : Becomes(p, q) /\ q.pc = "answered"
            BY <1>2, <3>2
        <3>3. \/ reqs' = [Renamed(ByName(reqs[p].name), reqs[p].to) EXCEPT ![p] = Answer(p, "ok")]
              \/ \E q : Becomes(p, q) /\ q.pc = "answered"
            BY <1>4, <1>15 DEF RenameWrite
        <3> QED
            BY <3>1, <3>2, <3>3
    <2>2. Outside
        BY <1>15, <2>1 DEF RenameWrite, At, Locked
    <2> QED
        BY <1>15, <2>2, Others DEF HolderInside, RequestStep
<1>16. CASE CreateLock(p)
    <2>1. insertMu = "free" /\ insertMu' = p /\ reqs'[p].pc \in Locked
        BY <1>2, <1>4, <1>16 DEF CreateLock, Locked
    <2>2. \A r \in Requests \ {p} : reqs[r].pc \notin Locked /\ reqs'[r].pc = reqs[r].pc
        BY <1>16, <2>1, Others, ConstantsAssumption DEF HolderInside
    <2> QED
        BY <2>1, <2>2 DEF HolderInside
<1>17. CASE CreateFind(p) \/ CreateUid(p) \/ CreateInsert(p) \/ CreateReread(p)
    <2>1. ASSUME CreateFind(p) PROVE Inside
        BY <1>2, <1>4, <1>5, <2>1 DEF CreateFind, At, Locked, Unlocked
    <2>2. ASSUME CreateUid(p) PROVE Inside
        <3>1. reqs[p].pc = "createUid" /\ insertMu' = insertMu
            BY <2>2 DEF CreateUid, At
        <3>2. CASE \E u : Becomes(p, [Goto(p, "createInsert") EXCEPT !.uid = u])
            <4>1. PICK u : Becomes(p, [Goto(p, "createInsert") EXCEPT !.uid = u])
                BY <3>2
            <4>2. [Goto(p, "createInsert") EXCEPT !.uid = u].pc = "createInsert"
                BY <1>1 DEF Request, Goto
            <4>3. reqs'[p].pc = "createInsert"
                BY <1>2, <4>1, <4>2
            <4> QED
                BY <3>1, <4>3 DEF Locked
        <3>3. CASE Becomes(p, Failed([Goto(p, "createInsert") EXCEPT !.uid = BaseUid]))
            BY <1>2, <1>4, <3>1, <3>3 DEF Locked
        <3> HIDE DEF Inside
        <3> QED
            BY <2>2, <3>2, <3>3 DEF CreateUid
    <2>3. ASSUME CreateInsert(p) PROVE Inside
        BY <1>2, <1>4, <2>3 DEF CreateInsert, At, Locked, Unlocked
    <2>4. ASSUME CreateReread(p) PROVE Inside
        BY <1>2, <1>4, <1>5, <2>4 DEF CreateReread, At, Locked, Unlocked
    <2>5. Inside
        BY <1>17, <2>1, <2>2, <2>3, <2>4
    <2>6. insertMu = p /\ p # "free"
        BY <2>5, ConstantsAssumption DEF HolderInside
    <2>7. \A r \in Requests \ {p} : reqs[r].pc \notin Locked /\ reqs'[r].pc = reqs[r].pc
        BY <1>17, <2>6, Others DEF HolderInside, RequestStep
    <2> QED
        BY <2>5, <2>6, <2>7, ConstantsAssumption DEF HolderInside
<1> QED
    BY <1>10, <1>11, <1>12, <1>13, <1>14, <1>15, <1>16, <1>17 DEF RequestStep

(* insertMu admits one request at a time to createAccount, from its Lock to  *)
(* whichever of its returns it takes, and nobody holds it who is not inside: *)
(* no failing statement leaves it taken (database.go:175-200).              *)
THEOREM MutualExclusion == Spec => [](Types /\ HolderInside)
<1>1. Init => HolderInside
    BY ConstantsAssumption DEF Init, HolderInside, IdleRequest, Locked
<1>2. Types /\ HolderInside /\ [Next]_vars => HolderInside'
    <2> SUFFICES ASSUME Types, HolderInside, [Next]_vars PROVE HolderInside'
        OBVIOUS
    <2>1. CASE Start
        BY <2>1, Begun DEF HolderInside, Locked
    <2>2. CASE AdminStep \/ Tick
        BY <2>2, Watched DEF HolderInside
    <2>3. CASE UNCHANGED vars
        BY <2>3 DEF vars, HolderInside
    <2> QED
        BY <2>1, <2>2, <2>3, HolderStep DEF Next
<1> QED
    BY <1>1, <1>2, TypesInvariance, PTL DEF Spec

-----------------------------------------------------------------------------
(* A request for a key that was retired before it began has one way only:    *)
(* TicketFind refuses it.                                                  *)
StaleRefused ==
    \A p \in Requests :
        reqs[p].stale =>
            /\ reqs[p].key \in retired
            /\ reqs[p].kind \in {"verify", "grant"} =>
                 reqs[p].pc \in {"ticketFind", "answered"} /\ reqs[p].result # "ok"

(* No statement takes a key out of the retired ones. *)
LEMMA RetiredGrows ==
    ASSUME [Next]_vars
    PROVE  retired \subseteq retired'
BY DEF Next, vars, Start, StartLogin, StartTicket, StartCreate, StartRename, Begin, AdminStep,
       BanUser, UnbanUser, ResetUserToken, DeleteAccount, UpdateUID, Tick, RequestStep, CreateLock,
       LoginFind, AdminFind, CreateFind, CreateUid, CreateInsert, CreateReread, TicketFind,
       TicketExpiry, BanCheck, IssueKey, AcceptTicket, RenameFind, RenameWrite, Return, table

LEMMA StaleStep ==
    ASSUME Types, Tables, StaleRefused, NEW p \in Requests, RequestStep(p) \/ CreateLock(p),
           retired \subseteq retired'
    PROVE  StaleRefused'
<1>1. ASSUME reqs'[p].stale
      PROVE  /\ reqs'[p].key \in retired'
             /\ reqs'[p].kind \in {"verify", "grant"} =>
                  reqs'[p].pc \in {"ticketFind", "answered"} /\ reqs'[p].result # "ok"
    <2>1. CASE Return(p)
        <3>1. reqs'[p] = IdleRequest
            BY <2>1 DEF Return, Becomes, Types
        <3> QED
            BY <1>1, <3>1 DEF IdleRequest
    <2>2. CASE ~Return(p)
        <3>1. reqs[p].stale /\ reqs'[p].key = reqs[p].key /\ reqs'[p].kind = reqs[p].kind
            BY <1>1, <2>2, Own
        <3>2. reqs'[p].key \in retired'
            BY <3>1 DEF StaleRefused
        <3>3. CASE reqs[p].kind \in {"verify", "grant"}
            <4>1. reqs[p].key \in retired /\ reqs[p].pc \in {"ticketFind", "answered"}
                BY <3>1, <3>3 DEF StaleRefused
            <4>2. TicketFind(p)
                BY <2>2, <4>1 DEF RequestStep, CreateLock, LoginFind, AdminFind, CreateFind, CreateUid,
                   CreateInsert, CreateReread, TicketExpiry, BanCheck, IssueKey, AcceptTicket,
                   RenameFind, RenameWrite, At
            <4>3. \A r \in ByUid(reqs[p].uid) : r.key # reqs[p].key
                BY <4>1 DEF ByUid, Tables, RetiredGone
            <4>4. reqs'[p] \in {Answer(p, "invalid"), Failed(Answer(p, "invalid"))}
                BY <4>2, <4>3 DEF TicketFind, Becomes, Types
            <4>5. reqs[p] \in Request
                BY DEF Types, TypeOK
            <4>6. reqs'[p].pc = "answered" /\ reqs'[p].result = "invalid"
                BY <4>4, <4>5 DEF Answer, Failed, Request
            <4> QED
                BY <3>2, <4>6
        <3> QED
            BY <3>1, <3>2, <3>3
    <2> QED
        BY <2>1, <2>2
<1> QED
    BY <1>1, Others DEF StaleRefused

(* A verify or combo login for a key that was retired before it began never  *)
(* gets past the comparison of the keys.                                   *)
THEOREM StaleInvariance == Spec => []StaleRefused
<1>1. Init => StaleRefused
    BY DEF Init, StaleRefused, IdleRequest
<1>2. Types /\ Tables /\ StaleRefused /\ [Next]_vars => StaleRefused'
    <2> SUFFICES ASSUME Types, Tables, StaleRefused, [Next]_vars PROVE StaleRefused'
        OBVIOUS
    <2>1. retired \subseteq retired'
        BY RetiredGrows
    <2>2. CASE Start
        BY <2>2, Begun DEF StaleRefused, table
    <2>3. CASE AdminStep \/ Tick
        BY <2>1, <2>3, Watched DEF StaleRefused
    <2>4. CASE UNCHANGED vars
        BY <2>4 DEF vars, StaleRefused
    <2> QED
        BY <2>1, <2>2, <2>3, <2>4, StaleStep DEF Next
<1> QED
    BY <1>1, <1>2, TablesInvariance, PTL DEF Spec

(* A session key that a login replaced or that a ban, a token reset or a     *)
(* deletion ended is never accepted again by handleVerify or               *)
(* handleGranterLogin, whatever uid and text anybody presents.  (The empty  *)
(* text they accept where the key was cleared is not a key.)               *)
THEOREM RevokedStayRevoked == Spec => []RevokedNeverAccepted
<1>1. StaleRefused => RevokedNeverAccepted
    BY DEF StaleRefused, RevokedNeverAccepted
<1> QED
    BY <1>1, StaleInvariance, PTL
=============================================================================
