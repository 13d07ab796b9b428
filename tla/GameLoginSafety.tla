---------------------------- MODULE GameLoginSafety ----------------------------
(***************************************************************************)
(* What TLAPS proves of the snapshots requests act on: between a lookup and *)
(* the statement that relies on it, other requests and the admin change the *)
(* table, and these are the proofs that a creation, a ban and a nil account *)
(* still end as they should.                                               *)
(***************************************************************************)
EXTENDS GameLoginProofs

-----------------------------------------------------------------------------
(* What a statement of p does to its local state: it goes on, or answers.   *)
Went(p, pc, name, uid) ==
    /\ reqs'[p].pc = pc /\ reqs'[p].name = name /\ reqs'[p].uid = uid
    /\ reqs'[p].result = reqs[p].result /\ reqs'[p].admitted = reqs[p].admitted

Answered(p, result) ==
    /\ reqs'[p].pc = "answered" /\ reqs'[p].result = result
    /\ reqs'[p].uid = reqs[p].uid /\ reqs'[p].admitted = reqs[p].admitted

WentOn(p, pc) == Went(p, pc, reqs[p].name, reqs[p].uid)

LEMMA Forms ==
    ASSUME Types, NEW p \in Requests
    PROVE  /\ \A pc : Becomes(p, Goto(p, pc)) => WentOn(p, pc)
           /\ \A result : Becomes(p, Answer(p, result)) => Answered(p, result)
           /\ \A result : Becomes(p, Failed(Answer(p, result))) =>
                            Answered(p, result) /\ reqs'[p].failed
           /\ \A pc, u : Becomes(p, [reqs[p] EXCEPT !.pc = pc, !.uid = u]) =>
                            Went(p, pc, reqs[p].name, u)
           /\ \A pc, u : Becomes(p, [Goto(p, pc) EXCEPT !.uid = u]) => Went(p, pc, reqs[p].name, u)
           /\ \A pc, u : Becomes(p, Failed([Goto(p, pc) EXCEPT !.uid = u])) =>
                            Went(p, pc, reqs[p].name, u) /\ reqs'[p].failed
           /\ \A pc, n : Becomes(p, [Goto(p, pc) EXCEPT !.name = n]) => Went(p, pc, n, reqs[p].uid)
           /\ \A result, b : Becomes(p, [Answer(p, result) EXCEPT !.overdue = b]) =>
                               Answered(p, result)
           /\ \A pc : Becomes(p, Failed(Goto(p, pc))) => WentOn(p, pc) /\ reqs'[p].failed
<1>1. \A q : Becomes(p, q) => reqs'[p] = q
    BY DEF Becomes, Types
<1>2. reqs[p] \in Request
    BY DEF Types, TypeOK
<1> USE DEF Goto, Answer, Failed, Went, Answered, WentOn, Request
<1>3. \A pc : Becomes(p, Goto(p, pc)) => WentOn(p, pc)
    BY <1>1, <1>2
<1>4. \A result : Becomes(p, Answer(p, result)) => Answered(p, result)
    BY <1>1, <1>2
<1>5. \A result : Becomes(p, Failed(Answer(p, result))) => Answered(p, result) /\ reqs'[p].failed
    BY <1>1, <1>2
<1>6. \A pc, u : Becomes(p, [reqs[p] EXCEPT !.pc = pc, !.uid = u]) => Went(p, pc, reqs[p].name, u)
    BY <1>1, <1>2
<1>7. \A pc, u : Becomes(p, [Goto(p, pc) EXCEPT !.uid = u]) => Went(p, pc, reqs[p].name, u)
    BY <1>1, <1>2
<1>8. \A pc, u : Becomes(p, Failed([Goto(p, pc) EXCEPT !.uid = u])) =>
                   Went(p, pc, reqs[p].name, u) /\ reqs'[p].failed
    BY <1>1, <1>2
<1>9. \A pc, n : Becomes(p, [Goto(p, pc) EXCEPT !.name = n]) => Went(p, pc, n, reqs[p].uid)
    BY <1>1, <1>2
<1>10. \A result, b : Becomes(p, [Answer(p, result) EXCEPT !.overdue = b]) => Answered(p, result)
    BY <1>1, <1>2
<1>11. \A pc : Becomes(p, Failed(Goto(p, pc))) => WentOn(p, pc) /\ reqs'[p].failed
    BY <1>1, <1>2
<1> QED
    BY <1>3, <1>4, <1>5, <1>6, <1>7, <1>8, <1>9, <1>10, <1>11

LEMMA Looked ==
    \A rows : rows # {} => \E r \in rows : UidOf(rows) = r.uid
BY DEF UidOf

(* createAccount, from its lookup to its return. *)
LEMMA CreateOutcomes ==
    ASSUME Types, NEW p \in Requests
    PROVE  /\ CreateFind(p) =>
                \/ ByName(reqs[p].name) = {} /\ WentOn(p, "createUid")
                \/ \E r \in ByName(reqs[p].name) : Went(p, "banCheck", reqs[p].name, r.uid)
                \/ Answered(p, "ok")
                \/ Answered(p, "createFail") /\ reqs'[p].failed
           /\ CreateUid(p) =>
                \E u : /\ Went(p, "createInsert", reqs[p].name, u)
                       /\ IsNextUid(u) \/ (u = BaseUid /\ reqs'[p].failed)
           /\ CreateInsert(p) =>
                \/ /\ WentOn(p, "createReread") /\ ByUid(reqs[p].uid) = {}
                   /\ \E x \in accounts' : x.uid = reqs[p].uid /\ x.name = reqs[p].name
                \/ /\ Answered(p, "createFail")
                   /\ reqs'[p].failed \/ ByUid(reqs[p].uid) \union ByName(reqs[p].name) # {}
           /\ CreateReread(p) =>
                \/ Went(p, "banCheck", reqs[p].name, UidOf(ByUid(reqs[p].uid)))
                \/ Answered(p, "ok")
                \/ Answered(p, "createFail") /\ reqs'[p].failed
<1>1. \A u : Becomes(p, Created(p, u)) => Answered(p, "ok") \/ Went(p, "banCheck", reqs[p].name, u)
    BY Forms DEF Created
<1>2. ASSUME CreateFind(p)
      PROVE  \/ ByName(reqs[p].name) = {} /\ WentOn(p, "createUid")
             \/ \E r \in ByName(reqs[p].name) : Went(p, "banCheck", reqs[p].name, r.uid)
             \/ Answered(p, "ok")
             \/ Answered(p, "createFail") /\ reqs'[p].failed
    <2>1. CASE ByName(reqs[p].name) = {} /\ Becomes(p, Goto(p, "createUid"))
        BY <2>1, Forms
    <2>2. CASE /\ ByName(reqs[p].name) # {}
               /\ Becomes(p, Created(p, UidOf(ByName(reqs[p].name))))
        BY <1>1, <2>2, Looked
    <2>3. CASE Becomes(p, Failed(Answer(p, "createFail")))
        BY <2>3, Forms
    <2> QED
        BY <1>2, <2>1, <2>2, <2>3 DEF CreateFind
<1>3. ASSUME CreateUid(p)
      PROVE  \E u : /\ Went(p, "createInsert", reqs[p].name, u)
                    /\ IsNextUid(u) \/ (u = BaseUid /\ reqs'[p].failed)
    <2>1. CASE \E u : IsNextUid(u) /\ Becomes(p, [Goto(p, "createInsert") EXCEPT !.uid = u])
        <3>1. PICK u : IsNextUid(u) /\ Becomes(p, [Goto(p, "createInsert") EXCEPT !.uid = u])
            BY <2>1
        <3>2. Went(p, "createInsert", reqs[p].name, u)
            BY <3>1, Forms
        <3> QED
            BY <3>1, <3>2
    <2>2. CASE Becomes(p, Failed([Goto(p, "createInsert") EXCEPT !.uid = BaseUid]))
        <3>1. Went(p, "createInsert", reqs[p].name, BaseUid) /\ reqs'[p].failed
            BY <2>2, Forms
        <3> QED
            BY <3>1
    <2> QED
        BY <1>3, <2>1, <2>2 DEF CreateUid
<1>4. ASSUME CreateInsert(p)
      PROVE  \/ /\ WentOn(p, "createReread") /\ ByUid(reqs[p].uid) = {}
                /\ \E x \in accounts' : x.uid = reqs[p].uid /\ x.name = reqs[p].name
             \/ /\ Answered(p, "createFail")
                /\ reqs'[p].failed \/ ByUid(reqs[p].uid) \union ByName(reqs[p].name) # {}
    <2> DEFINE row == [id |-> nextId, uid |-> reqs[p].uid, name |-> reqs[p].name,
                       key |-> nextKey, expires |-> NoTime, permanent |-> FALSE,
                       until |-> NoTime]
    <2>1. CASE /\ ByUid(reqs[p].uid) \union ByName(reqs[p].name) = {}
               /\ accounts' = accounts \union {row} /\ Becomes(p, Goto(p, "createReread"))
        <3>1. row \in accounts' /\ row.uid = reqs[p].uid /\ row.name = reqs[p].name
            BY <2>1
        <3>2. WentOn(p, "createReread") /\ ByUid(reqs[p].uid) = {}
            BY <2>1, Forms
        <3> HIDE DEF row
        <3> QED
            BY <3>1, <3>2
    <2>2. CASE /\ ByUid(reqs[p].uid) \union ByName(reqs[p].name) # {}
               /\ Becomes(p, Answer(p, "createFail"))
        BY <2>2, Forms
    <2>3. CASE Becomes(p, Failed(Answer(p, "createFail")))
        BY <2>3, Forms
    <2> QED
        BY <1>4, <2>1, <2>2, <2>3 DEF CreateInsert
<1>5. ASSUME CreateReread(p)
      PROVE  \/ Went(p, "banCheck", reqs[p].name, UidOf(ByUid(reqs[p].uid)))
             \/ Answered(p, "ok")
             \/ Answered(p, "createFail") /\ reqs'[p].failed
    BY <1>1, <1>5, Forms DEF CreateReread
<1> QED
    BY <1>2, <1>3, <1>4, <1>5

(* The other statements. *)
LEMMA LookOutcomes ==
    ASSUME Types, NEW p \in Requests
    PROVE  /\ LoginFind(p) =>
                \/ WentOn(p, "createLock")
                \/ \E r \in ByName(reqs[p].name) : Went(p, "banCheck", reqs[p].name, r.uid)
                \/ Answered(p, "queryFail")
           /\ AdminFind(p) =>
                WentOn(p, "createLock") \/ Answered(p, "exists") \/ Answered(p, "queryFail")
           /\ RenameFind(p) =>
                \/ WentOn(p, "renameWrite") /\ reqs[p].pc = "renameFind"
                \/ Answered(p, "exists") \/ Answered(p, "queryFail")
           /\ CreateLock(p) => WentOn(p, "createFind")
           /\ TicketFind(p) =>
                \/ \E r \in ByUid(reqs[p].uid) : Went(p, "ticketExpiry", r.name, reqs[p].uid)
                \/ Answered(p, "invalid")
           /\ TicketExpiry(p) =>
                \/ /\ WentOn(p, "banCheck") /\ reqs[p].pc = "ticketExpiry"
                   /\ \E r \in ByUid(reqs[p].uid) : r.expires # NoTime
                \/ Answered(p, "expired")
<1>1. ASSUME LoginFind(p)
      PROVE  \/ WentOn(p, "createLock")
             \/ \E r \in ByName(reqs[p].name) : Went(p, "banCheck", reqs[p].name, r.uid)
             \/ Answered(p, "queryFail")
    <2>1. CASE Becomes(p, Goto(p, "createLock")) \/ Becomes(p, Failed(Answer(p, "queryFail")))
        BY <2>1, Forms
    <2>2. CASE /\ ByName(reqs[p].name) # {}
               /\ Becomes(p, [reqs[p] EXCEPT !.pc = "banCheck", !.uid = UidOf(ByName(reqs[p].name))])
        <3>1. Went(p, "banCheck", reqs[p].name, UidOf(ByName(reqs[p].name)))
            BY <2>2, Forms
        <3> QED
            BY <2>2, <3>1, Looked
    <2> QED
        BY <1>1, <2>1, <2>2 DEF LoginFind
<1>2. AdminFind(p) => WentOn(p, "createLock") \/ Answered(p, "exists") \/ Answered(p, "queryFail")
    BY Forms DEF AdminFind
<1>3. RenameFind(p) =>
        \/ WentOn(p, "renameWrite") /\ reqs[p].pc = "renameFind"
        \/ Answered(p, "exists") \/ Answered(p, "queryFail")
    BY Forms DEF RenameFind, At
<1>4. CreateLock(p) => WentOn(p, "createFind")
    BY Forms DEF CreateLock
<1>5. TicketFind(p) =>
        \/ \E r \in ByUid(reqs[p].uid) : Went(p, "ticketExpiry", r.name, reqs[p].uid)
        \/ Answered(p, "invalid")
    BY Forms DEF TicketFind
<1>6. TicketExpiry(p) =>
        \/ /\ WentOn(p, "banCheck") /\ reqs[p].pc = "ticketExpiry"
           /\ \E r \in ByUid(reqs[p].uid) : r.expires # NoTime
        \/ Answered(p, "expired")
    BY Forms DEF TicketExpiry, TokenExpired, At
<1> QED
    BY <1>1, <1>2, <1>3, <1>4, <1>5, <1>6

LEMMA EndOutcomes ==
    ASSUME Types, NEW p \in Requests
    PROVE  /\ BanCheck(p) =>
                \/ Answered(p, "banned")
                \/ /\ WentOn(p, "issue") /\ reqs[p].pc = "banCheck"
                   /\ reqs'[p].failed \/ \A r \in ByName(reqs[p].name) : ~EffectiveBan(r, now)
                \/ /\ Answered(p, "panic") /\ reqs[p].pc = "banCheck"
                   /\ reqs[p].uid = NoUid \/ ByName(reqs[p].name) = {}
           /\ IssueKey(p) \/ AcceptTicket(p) =>
                /\ reqs[p].pc = "issue" /\ reqs'[p].pc = "answered" /\ reqs'[p].result = "ok"
                /\ reqs'[p].admitted = IdsOf(ByUid(reqs[p].uid))
           /\ RenameWrite(p) => Answered(p, "ok") \/ Answered(p, "renameFail")
           /\ Return(p) => reqs'[p] = IdleRequest
<1>1. /\ Becomes(p, PassBan(p)) => \/ WentOn(p, "issue")
                                   \/ reqs[p].uid = NoUid /\ Answered(p, "panic")
      /\ Becomes(p, Failed(PassBan(p))) =>
            \/ WentOn(p, "issue") /\ reqs'[p].failed
            \/ reqs[p].uid = NoUid /\ Answered(p, "panic")
    BY Forms DEF PassBan
<1>2. ASSUME BanCheck(p)
      PROVE  \/ Answered(p, "banned")
             \/ /\ WentOn(p, "issue") /\ reqs[p].pc = "banCheck"
                /\ reqs'[p].failed \/ \A r \in ByName(reqs[p].name) : ~EffectiveBan(r, now)
             \/ /\ Answered(p, "panic") /\ reqs[p].pc = "banCheck"
                /\ reqs[p].uid = NoUid \/ ByName(reqs[p].name) = {}
    <2>1. CASE \E r \in ByName(reqs[p].name) :
                  Becomes(p, [Answer(p, "banned") EXCEPT !.overdue = ~r.permanent /\ now >= r.until])
        <3>1. PICK r \in ByName(reqs[p].name) :
                  Becomes(p, [Answer(p, "banned") EXCEPT !.overdue = ~r.permanent /\ now >= r.until])
            BY <2>1
        <3>2. Answered(p, "banned")
            BY <3>1, Forms
        <3> QED
            BY <3>2
    <2> reqs[p].pc = "banCheck"
        BY <1>2 DEF BanCheck, At
    <2>2. CASE /\ \A r \in ByName(reqs[p].name) : ~EffectiveBan(r, now)
               /\ Becomes(p, PassBan(p))
        BY <1>1, <2>2
    <2>3. CASE ByName(reqs[p].name) = {} /\ Becomes(p, Answer(p, "panic"))
        BY <2>3, Forms
    <2>4. CASE Becomes(p, Failed(PassBan(p)))
        BY <1>1, <2>4
    <2> QED
        BY <1>2, <2>1, <2>2, <2>3, <2>4 DEF BanCheck
<1>3. \A q : Becomes(p, q) => reqs'[p] = q
    BY DEF Becomes, Types
<1>4. reqs[p] \in Request
    BY DEF Types, TypeOK
<1>5. ASSUME IssueKey(p) \/ AcceptTicket(p)
      PROVE  /\ reqs[p].pc = "issue" /\ reqs'[p].pc = "answered" /\ reqs'[p].result = "ok"
             /\ reqs'[p].admitted = IdsOf(ByUid(reqs[p].uid))
    <2>1. reqs'[p] = Admitted(p) \/ reqs'[p] = Failed(Admitted(p))
        BY <1>3, <1>5 DEF IssueKey, AcceptTicket
    <2>2. reqs[p].pc = "issue"
        BY <1>5 DEF IssueKey, AcceptTicket, At
    <2> DEFINE ids == IdsOf(ByUid(reqs[p].uid))
               q == [Answer(p, "ok") EXCEPT !.admitted = ids]
    <2>3. reqs'[p] \in {q, Failed(q)}
        BY <2>1 DEF Admitted
    <2> HIDE DEF ids
    <2>4. /\ q.pc = "answered" /\ q.result = "ok" /\ q.admitted = ids
          /\ Failed(q).pc = "answered" /\ Failed(q).result = "ok" /\ Failed(q).admitted = ids
        BY <1>4 DEF Answer, Failed, Request
    <2> QED
        BY <2>2, <2>3, <2>4 DEF ids
<1>6. ASSUME RenameWrite(p)
      PROVE  Answered(p, "ok") \/ Answered(p, "renameFail")
    <2>1. CASE reqs' = [Renamed(ByName(reqs[p].name), reqs[p].to) EXCEPT ![p] = Answer(p, "ok")]
        <3>1. reqs'[p] = Answer(p, "ok")
            BY <2>1 DEF Renamed
        <3> QED
            BY <1>4, <3>1 DEF Answered, Answer, Request
    <2> QED
        BY <1>6, <2>1, Forms DEF RenameWrite
<1>7. Return(p) => reqs'[p] = IdleRequest
    BY <1>3 DEF Return
<1> QED
    BY <1>2, <1>5, <1>6, <1>7

-----------------------------------------------------------------------------
(* What a statement does to the rows: each row of the table is still in it,  *)
(* with another key or a later expiry perhaps, and comes from it or was     *)
(* inserted.                                                               *)
Aged(x, r) == x.id = r.id /\ (r.expires # NoTime => x.expires # NoTime)
SameAccount(x, r) == Aged(x, r) /\ x.uid = r.uid /\ x.name = r.name
SameBan(x, r) == x.permanent = r.permanent /\ x.until = r.until

(* Request q is no nearer to the row by its uid than before, and as near by  *)
(* its name.                                                               *)
Alike(q, x, r) ==
    /\ x.id = r.id
    /\ x.uid = reqs[q].uid => r.uid = reqs[q].uid
    /\ x.name = reqs[q].name <=> r.name = reqs[q].name

(* What the accesses of a request to the rows of others come down to. *)
KeptFor(q) ==
    \A r \in accounts : r.name = reqs[q].name => \E x \in accounts' : SameAccount(x, r)
OldFor(q) == \A x \in accounts' : \E r \in accounts : Alike(q, x, r)

Inserted(p, x) ==
    /\ CreateInsert(p) /\ x.id = nextId /\ x.uid = reqs[p].uid /\ x.name = reqs[p].name
    /\ \A r \in accounts : r.uid # x.uid /\ r.name # x.name

LEMMA StatementRows ==
    ASSUME Types, NEW p \in Requests, RequestStep(p) \/ CreateLock(p), ~RenameWrite(p)
    PROVE  /\ \A r \in accounts : \E x \in accounts' : SameAccount(x, r) /\ SameBan(x, r)
           /\ \A x \in accounts' :
                \/ \E r \in accounts : SameAccount(x, r) /\ SameBan(x, r)
                \/ Inserted(p, x)
<1> USE DEF SameAccount, Aged, SameBan
<1>1. CASE accounts' = accounts
    BY <1>1
<1>2. CASE CreateInsert(p) /\ accounts' # accounts
    <2> DEFINE row == [id |-> nextId, uid |-> reqs[p].uid, name |-> reqs[p].name,
                       key |-> nextKey, expires |-> NoTime, permanent |-> FALSE,
                       until |-> NoTime]
    <2>1. /\ accounts' = accounts \union {row}
          /\ \A r \in accounts : r.uid # reqs[p].uid /\ r.name # reqs[p].name
        BY <1>2 DEF CreateInsert, ByUid, ByName
    <2>2. Inserted(p, row)
        BY <1>2, <2>1 DEF Inserted
    <2> HIDE DEF row
    <2> QED
        BY <2>1, <2>2
<1>3. CASE (IssueKey(p) \/ AcceptTicket(p)) /\ accounts' # accounts
    <2> Expiry # NoTime
        BY ConstantsAssumption DEF Types, TypeOK, Expiry, NoTime
    <2>1. \A r \in accounts :
            /\ r \in Row
            /\ LET x == [r EXCEPT !.key = nextKey, !.expires = Expiry]
               IN  SameAccount(x, r) /\ SameBan(x, r)
            /\ LET x == [r EXCEPT !.expires = Expiry] IN SameAccount(x, r) /\ SameBan(x, r)
        BY DEF Types, TypeOK, Row
    <2> HIDE DEF SameAccount, SameBan
    <2>2. \A r : SameAccount(r, r) /\ SameBan(r, r)
        BY DEF SameAccount, SameBan
    <2>3. CASE accounts' = {IF r.uid = reqs[p].uid
                            THEN [r EXCEPT !.key = nextKey, !.expires = Expiry]
                            ELSE r : r \in accounts}
        BY <2>1, <2>2, <2>3
    <2>4. CASE accounts' = {IF r.uid = reqs[p].uid /\ reqs[p].kind = "verify"
                            THEN [r EXCEPT !.expires = Expiry]
                            ELSE r : r \in accounts}
        BY <2>1, <2>2, <2>4
    <2> QED
        BY <1>3, <2>3, <2>4 DEF IssueKey, AcceptTicket
<1>4. ASSUME LookStep(p) PROVE accounts' = accounts
    BY <1>4, LookFrame DEF table
<1> QED
    BY <1>1, <1>2, <1>3, <1>4 DEF RequestStep, LookStep

(* A renaming marks the requests that have the old name or the new one. *)
LEMMA RenameRows ==
    ASSUME Types, NEW p \in Requests, RenameWrite(p)
    PROVE  /\ \A q \in Requests \ {p} : /\ reqs'[q].removed \/ KeptFor(q)
                                        /\ reqs'[q].moved \/ OldFor(q)
           /\ \A r \in accounts : \E x \in accounts' : x.id = r.id /\ SameBan(x, r)
<1> DEFINE Move(r) == [r EXCEPT !.name = reqs[p].to]
<1>1. \A r \in accounts : /\ Move(r).id = r.id /\ Move(r).uid = r.uid
                          /\ Move(r).name = reqs[p].to /\ SameBan(Move(r), r)
    BY DEF Types, TypeOK, Row, SameBan
<1>2. \A r : SameAccount(r, r) /\ SameBan(r, r) /\ \A q : Alike(q, r, r)
    BY DEF SameAccount, Aged, SameBan, Alike
<1>3. CASE accounts' = accounts
    BY <1>2, <1>3 DEF KeptFor, OldFor
<1>4. CASE /\ accounts' = {IF r.name = reqs[p].name THEN Move(r) ELSE r : r \in accounts}
           /\ reqs' = [Renamed(ByName(reqs[p].name), reqs[p].to) EXCEPT ![p] = Answer(p, "ok")]
    <2> HIDE DEF Move
    <2>1. \A r \in accounts : \E x \in accounts' : x.id = r.id /\ SameBan(x, r)
        BY <1>1, <1>2, <1>4
    <2>2. ASSUME NEW q \in Requests \ {p}
          PROVE  /\ reqs'[q].removed <=> Lost(q, ByName(reqs[p].name))
                 /\ reqs'[q].moved <=>
                      reqs[q].moved \/ \E r \in ByName(reqs[p].name) : reqs[q].name \in {r.name, reqs[p].to}
        <3> DEFINE b == Lost(q, ByName(reqs[p].name))
                   c == reqs[q].moved \/ \E r \in ByName(reqs[p].name) : reqs[q].name \in {r.name, reqs[p].to}
        <3>1. reqs'[q] = [reqs[q] EXCEPT !.removed = b, !.moved = c]
            BY <1>4 DEF Renamed
        <3>2. reqs[q] \in Request
            BY DEF Types, TypeOK
        <3> HIDE DEF b, c
        <3>3. reqs'[q].removed = b /\ reqs'[q].moved = c
            BY <3>1, <3>2 DEF Request
        <3> QED
            BY <3>3 DEF b, c
    <2>3. ASSUME NEW q \in Requests \ {p}
          PROVE  reqs'[q].removed \/ KeptFor(q)
        <3>1. CASE reqs[q].name = reqs[p].name
            BY <1>2, <2>2, <3>1 DEF Lost, ByName, KeptFor
        <3>2. CASE reqs[q].name # reqs[p].name
            BY <1>2, <1>4, <3>2 DEF KeptFor
        <3> QED
            BY <3>1, <3>2
    <2>4. ASSUME NEW q \in Requests \ {p}, ~reqs'[q].moved, NEW x \in accounts'
          PROVE  \E r \in accounts : Alike(q, x, r)
        <3>1. PICK r \in accounts : x = IF r.name = reqs[p].name THEN Move(r) ELSE r
            BY <1>4
        <3>2. CASE r.name = reqs[p].name
            <4>1. reqs[q].name \notin {r.name, reqs[p].to}
                BY <2>2, <2>4, <3>2 DEF ByName
            <4> QED
                BY <1>1, <3>1, <3>2, <4>1 DEF Alike
        <3> QED
            BY <1>2, <3>1, <3>2
    <2> QED
        BY <2>1, <2>3, <2>4 DEF OldFor
<1> QED
    BY <1>3, <1>4 DEF RenameWrite

(* A renumbering marks the requests that have the account's name or its new  *)
(* uid.                                                                    *)
LEMMA UidRows ==
    ASSUME Types, NEW n, NEW u, UpdateUID(n, u)
    PROVE  /\ \A q \in Requests : /\ reqs'[q].removed \/ KeptFor(q)
                                  /\ reqs'[q].moved \/ OldFor(q)
           /\ \A r \in accounts : \E x \in accounts' : x.id = r.id /\ SameBan(x, r)
<1> DEFINE Move(r) == [r EXCEPT !.uid = u]
<1>1. \A r \in accounts : /\ Move(r).id = r.id /\ Move(r).uid = u
                          /\ Move(r).name = r.name /\ SameBan(Move(r), r)
    BY DEF Types, TypeOK, Row, SameBan
<1>2. \A r : SameAccount(r, r) /\ SameBan(r, r) /\ \A q : Alike(q, r, r)
    BY DEF SameAccount, Aged, SameBan, Alike
<1>3. accounts' = {IF r.name = n THEN Move(r) ELSE r : r \in accounts}
    BY DEF UpdateUID
<1>4. ASSUME NEW q \in Requests
      PROVE  /\ reqs'[q].removed <=> Lost(q, ByName(n))
             /\ reqs'[q].moved <=> reqs[q].moved \/ (ByName(n) # {} /\ reqs[q].uid = u)
    <2> DEFINE b == Lost(q, ByName(n))
               c == reqs[q].moved \/ (ByName(n) # {} /\ reqs[q].uid = u)
    <2>1. reqs'[q] = [reqs[q] EXCEPT !.removed = b, !.moved = c]
        BY DEF UpdateUID, Renumbered
    <2>2. reqs[q] \in Request
        BY DEF Types, TypeOK
    <2> HIDE DEF b, c
    <2>3. reqs'[q].removed = b /\ reqs'[q].moved = c
        BY <2>1, <2>2 DEF Request
    <2> QED
        BY <2>3 DEF b, c
<1> HIDE DEF Move
<1>5. \A r \in accounts : \E x \in accounts' : x.id = r.id /\ SameBan(x, r)
    BY <1>1, <1>2, <1>3
<1>6. ASSUME NEW q \in Requests
      PROVE  reqs'[q].removed \/ KeptFor(q)
    <2>1. CASE reqs[q].name = n
        BY <1>2, <1>4, <2>1 DEF Lost, ByName, KeptFor
    <2>2. CASE reqs[q].name # n
        BY <1>2, <1>3, <2>2 DEF KeptFor
    <2> QED
        BY <2>1, <2>2
<1>7. ASSUME NEW q \in Requests, ~reqs'[q].moved, NEW x \in accounts'
      PROVE  \E r \in accounts : Alike(q, x, r)
    <2>1. PICK r \in accounts : x = IF r.name = n THEN Move(r) ELSE r
        BY <1>3
    <2>2. CASE r.name = n
        <3>1. reqs[q].uid # u
            BY <1>4, <1>7, <2>2 DEF ByName
        <3> QED
            BY <1>1, <2>1, <2>2, <3>1 DEF Alike
    <2> QED
        BY <1>2, <2>1, <2>2
<1> QED
    BY <1>5, <1>6, <1>7 DEF OldFor

LEMMA AdminRows ==
    ASSUME Types, AdminStep \/ Tick
    PROVE  /\ \A q \in Requests : /\ reqs'[q].removed \/ KeptFor(q)
                                  /\ reqs'[q].moved \/ OldFor(q)
           /\ \/ \E n \in Names, u \in AdminUids : UpdateUID(n, u)
              \/ \A x \in accounts' : \E r \in accounts : SameAccount(x, r)
<1> DEFINE Kept == \A r \in accounts : \E x \in accounts' : SameAccount(x, r)
           Old == \A x \in accounts' : \E r \in accounts : SameAccount(x, r)
           Good == \A q \in Requests : /\ reqs'[q].removed \/ KeptFor(q)
                                       /\ reqs'[q].moved \/ OldFor(q)
<1>1. /\ \A r \in accounts : r \in Row
      /\ {r.name : r \in accounts} \subseteq Names
    BY DEF Types, TypeOK, Row
<1>2. \A r : SameAccount(r, r)
    BY DEF SameAccount, Aged
<1>3. Kept => \A q \in Requests : KeptFor(q)
    BY DEF KeptFor
<1>4. Old => \A q \in Requests : OldFor(q)
    BY DEF OldFor, Alike, SameAccount, Aged
<1>5. ASSUME NEW n \in Names, NEW permanent, NEW until, BanUser(n, permanent, until)
      PROVE  Kept /\ Old
    <2>1. \A r \in accounts :
            SameAccount([r EXCEPT !.permanent = permanent, !.until = until, !.key = NoKey], r)
        BY <1>1 DEF Row, SameAccount, Aged
    <2>2. accounts' = {IF r.name = n
                       THEN [r EXCEPT !.permanent = permanent, !.until = until, !.key = NoKey]
                       ELSE r : r \in accounts}
        BY <1>5 DEF BanUser
    <2> QED
        BY <1>2, <2>1, <2>2
<1>6. ASSUME NEW n \in Names, UnbanUser(n)
      PROVE  Kept /\ Old
    <2>1. \A r \in accounts : SameAccount([r EXCEPT !.permanent = FALSE, !.until = NoTime], r)
        BY <1>1 DEF Row, SameAccount, Aged
    <2>2. accounts' = {IF r.name = n THEN [r EXCEPT !.permanent = FALSE, !.until = NoTime]
                       ELSE r : r \in accounts}
        BY <1>6 DEF UnbanUser
    <2> QED
        BY <1>2, <2>1, <2>2
<1>7. ASSUME NEW n \in Names, ResetUserToken(n)
      PROVE  Kept /\ Old
    <2>1. \A r \in accounts : SameAccount([r EXCEPT !.key = NoKey], r)
        BY <1>1 DEF Row, SameAccount, Aged
    <2>2. accounts' = {IF r.name = n THEN [r EXCEPT !.key = NoKey] ELSE r : r \in accounts}
        BY <1>7 DEF ResetUserToken
    <2> QED
        BY <1>2, <2>1, <2>2
<1>8. ASSUME NEW n \in Names, DeleteAccount(n)
      PROVE  Old /\ \A q \in Requests : reqs'[q].removed \/ KeptFor(q)
    <2>1. accounts' = accounts \ ByName(n)
        BY <1>8 DEF DeleteAccount
    <2>2. ASSUME NEW q \in Requests
          PROVE  reqs'[q].removed \/ KeptFor(q)
        <3>1. reqs'[q].removed = Lost(q, ByName(n))
            <4>1. reqs[q] \in Request
                BY DEF Types, TypeOK
            <4> QED
                BY <1>8, <4>1 DEF DeleteAccount, Request
        <3>2. CASE reqs[q].name = n
            BY <1>2, <2>1, <3>1, <3>2 DEF Lost, ByName, KeptFor
        <3>3. CASE reqs[q].name # n
            BY <1>2, <2>1, <3>3 DEF ByName, KeptFor
        <3> QED
            BY <3>2, <3>3
    <2> QED
        BY <1>2, <2>1, <2>2
<1>9. ASSUME Tick PROVE Kept /\ Old
    BY <1>2, <1>9 DEF Tick, table
<1> HIDE DEF Kept, Old
<1>10. ASSUME NEW n \in Names, NEW u, UpdateUID(n, u) PROVE Good
    BY <1>10, UidRows
<1>11. ASSUME Kept, Old PROVE Good
    BY <1>3, <1>4, <1>11
<1>12. ASSUME NEW n \in Names, DeleteAccount(n) PROVE Good
    BY <1>4, <1>8, <1>12
<1> HIDE DEF Good
<1>13. ASSUME AdminStep
       PROVE  Good /\ (Old \/ \E n \in Names, u \in AdminUids : UpdateUID(n, u))
    BY <1>1, <1>5, <1>6, <1>7, <1>8, <1>10, <1>11, <1>12, <1>13 DEF AdminStep
<1> QED
    BY <1>9, <1>11, <1>13 DEF Old, Good

-----------------------------------------------------------------------------
(* Which statement brings a request where it relies on what it read, or      *)
(* gives an answer a property is about.                                    *)
LEMMA Arrivals ==
    ASSUME Types, NEW p \in Requests, RequestStep(p) \/ CreateLock(p)
    PROVE  /\ reqs'[p].pc = "createUid" => CreateFind(p)
           /\ reqs'[p].pc = "createInsert" => CreateUid(p)
           /\ reqs'[p].pc = "createReread" => CreateInsert(p)
           /\ reqs'[p].pc = "ticketExpiry" => TicketFind(p)
           /\ reqs'[p].pc = "banCheck" =>
                LoginFind(p) \/ CreateFind(p) \/ CreateReread(p) \/ TicketExpiry(p)
           /\ reqs'[p].pc = "issue" => BanCheck(p)
           /\ reqs'[p].pc \in Renaming => RenameFind(p)
           /\ reqs'[p].result = "panic" => reqs[p].result = "panic" \/ BanCheck(p)
           /\ reqs'[p].result = "createFail" =>
                \/ reqs[p].result = "createFail"
                \/ CreateFind(p) \/ CreateInsert(p) \/ CreateReread(p)
           /\ reqs'[p].admitted \in {reqs[p].admitted, {}} \/ IssueKey(p) \/ AcceptTicket(p)
<1> USE DEF Went, WentOn, Answered, Renaming
<1>1. CASE LoginFind(p) \/ AdminFind(p) \/ RenameFind(p) \/ CreateLock(p)
    BY <1>1, LookOutcomes
<1>2. CASE TicketFind(p) \/ TicketExpiry(p)
    BY <1>2, LookOutcomes
<1>3. CASE CreateFind(p) \/ CreateUid(p)
    BY <1>3, CreateOutcomes
<1>4. CASE CreateInsert(p) \/ CreateReread(p)
    BY <1>4, CreateOutcomes
<1>5. CASE BanCheck(p) \/ IssueKey(p) \/ AcceptTicket(p) \/ RenameWrite(p)
    BY <1>5, EndOutcomes
<1>6. CASE Return(p)
    BY <1>6, EndOutcomes DEF IdleRequest
<1> QED
    BY <1>1, <1>2, <1>3, <1>4, <1>5, <1>6 DEF RequestStep

-----------------------------------------------------------------------------
(* Where a request relies on having found an account, by uid and by name. *)
Relying == {"createReread", "ticketExpiry", "banCheck"}

(* 0 stands for a nil account and is nobody's uid. *)
UidsGiven ==
    /\ \A r \in accounts : r.uid # NoUid
    /\ \A p \in Requests : reqs[p].pc = "createInsert" => reqs[p].uid # NoUid

Met(p) == \E r \in accounts : r.uid = reqs[p].uid /\ r.name = reqs[p].name

(* While no account of that name was removed, the account is still there. *)
Found ==
    \A p \in Requests :
        ~reqs[p].removed => (reqs[p].pc \in Relying => Met(p)) /\ reqs[p].result # "panic"

LEMMA UidsStep ==
    ASSUME Types, UidsGiven, [Next]_vars
    PROVE  UidsGiven'
<1>1. BaseUid # NoUid /\ \A u : IsNextUid(u) => u # NoUid
    BY CountedNat DEF IsNextUid, UidAfter, Wrapped, NoUid
<1>2. ASSUME NEW p \in Requests, RequestStep(p) \/ CreateLock(p)
      PROVE  UidsGiven'
    <2>1. \A r \in accounts' : r.uid # NoUid
        <3>1. CASE RenameWrite(p)
            <4>1. \A r \in accounts : r.uid # NoUid /\ [r EXCEPT !.name = reqs[p].to].uid # NoUid
                BY DEF UidsGiven, Types, TypeOK, Row
            <4>2. CASE accounts' = accounts
                BY <4>1, <4>2
            <4>3. CASE accounts' = {IF r.name = reqs[p].name THEN [r EXCEPT !.name = reqs[p].to]
                                    ELSE r : r \in accounts}
                BY <4>1, <4>3
            <4> QED
                BY <3>1, <4>2, <4>3 DEF RenameWrite
        <3>2. CASE ~RenameWrite(p)
            BY <1>2, <3>2, StatementRows
               DEF UidsGiven, SameAccount, Inserted, CreateInsert, At
        <3> QED
            BY <3>1, <3>2
    <2>2. reqs'[p].pc = "createInsert" => reqs'[p].uid # NoUid
        <3>1. CASE CreateUid(p)
            <4>1. PICK u : /\ Went(p, "createInsert", reqs[p].name, u)
                           /\ IsNextUid(u) \/ (u = BaseUid /\ reqs'[p].failed)
                BY <3>1, CreateOutcomes
            <4> QED
                BY <1>1, <4>1 DEF Went
        <3> QED
            BY <1>2, <3>1, Arrivals
    <2>3. \A q \in Requests \ {p} : reqs'[q].pc = "createInsert" => reqs'[q].uid # NoUid
        BY <1>2, Others DEF UidsGiven
    <2> QED
        BY <2>1, <2>2, <2>3 DEF UidsGiven
<1>3. CASE AdminStep \/ Tick
    <2>1. \A r \in accounts' : r.uid # NoUid
        <3>1. ASSUME NEW n \in Names, NEW u \in AdminUids, UpdateUID(n, u)
              PROVE  \A r \in accounts' : r.uid # NoUid
            <4>1. \A r \in accounts : r.uid # NoUid /\ [r EXCEPT !.uid = u].uid # NoUid
                <5>1. u # NoUid
                    BY ConstantsAssumption
                <5>2. \A r \in accounts : r \in Row /\ r.uid # NoUid
                    BY DEF UidsGiven, Types, TypeOK
                <5> QED
                    BY <5>1, <5>2 DEF Row
            <4> QED
                BY <3>1, <4>1 DEF UpdateUID
        <3> QED
            BY <1>3, <3>1, AdminRows DEF UidsGiven, SameAccount
    <2> QED
        BY <1>3, <2>1, Watched DEF UidsGiven
<1>4. CASE Start
    BY <1>4, Begun DEF UidsGiven, table
<1>5. CASE UNCHANGED vars
    BY <1>5 DEF UidsGiven, vars
<1> QED
    BY <1>2, <1>3, <1>4, <1>5 DEF Next

(* The request that takes the step. *)
LEMMA FoundOwn ==
    ASSUME Types, UidsGiven, Found, NEW p \in Requests, RequestStep(p) \/ CreateLock(p),
           ~reqs'[p].removed, ~Return(p)
    PROVE  (reqs'[p].pc \in Relying => Met(p)') /\ reqs'[p].result # "panic"
<1>1. ~reqs[p].removed
    BY Own
<1>2. ASSUME ~RenameWrite(p), NEW r \in accounts,
             r.uid = reqs'[p].uid, r.name = reqs'[p].name
      PROVE  Met(p)'
    BY <1>2, StatementRows DEF Met, SameAccount
<1>3. ASSUME reqs'[p].pc = "createReread" PROVE Met(p)'
    <2>1. CreateInsert(p)
        BY <1>3, Arrivals
    <2>2. /\ WentOn(p, "createReread")
          /\ \E x \in accounts' : x.uid = reqs[p].uid /\ x.name = reqs[p].name
        BY <1>3, <2>1, CreateOutcomes DEF Answered
    <2> QED
        BY <2>2 DEF WentOn, Went, Met
<1>4. ASSUME reqs'[p].pc = "ticketExpiry" PROVE Met(p)'
    <2>1. TicketFind(p)
        BY <1>4, Arrivals
    <2>2. PICK r \in ByUid(reqs[p].uid) : Went(p, "ticketExpiry", r.name, reqs[p].uid)
        BY <1>4, <2>1, LookOutcomes DEF Answered
    <2>3. r \in accounts /\ r.uid = reqs'[p].uid /\ r.name = reqs'[p].name
        BY <2>2 DEF ByUid, Went
    <2>4. ~RenameWrite(p)
        BY <2>1 DEF TicketFind, RenameWrite, At
    <2> QED
        BY <1>2, <2>3, <2>4
<1>5. ASSUME reqs'[p].pc = "banCheck" PROVE Met(p)'
    <2>1. ~RenameWrite(p)
        BY <1>5, Arrivals DEF RenameWrite, LoginFind, CreateFind, CreateReread, TicketExpiry, At
    <2>2. CASE LoginFind(p) \/ CreateFind(p)
        <3>1. PICK r \in ByName(reqs[p].name) : Went(p, "banCheck", reqs[p].name, r.uid)
            BY <1>5, <2>2, LookOutcomes, CreateOutcomes DEF WentOn, Went, Answered
        <3> QED
            BY <1>2, <2>1, <3>1 DEF ByName, Went
    <2>3. CASE CreateReread(p)
        <3>1. PICK r \in accounts : r.uid = reqs[p].uid /\ r.name = reqs[p].name
            BY <1>1, <2>3 DEF Found, Relying, Met, CreateReread, At
        <3>2. PICK s \in ByUid(reqs[p].uid) : UidOf(ByUid(reqs[p].uid)) = s.uid
            BY <3>1, Looked DEF ByUid
        <3>3. Went(p, "banCheck", reqs[p].name, UidOf(ByUid(reqs[p].uid)))
            BY <1>5, <2>3, CreateOutcomes DEF Answered
        <3> QED
            BY <1>2, <2>1, <3>1, <3>2, <3>3 DEF ByUid, Went
    <2>4. CASE TicketExpiry(p)
        <3>1. PICK r \in accounts : r.uid = reqs[p].uid /\ r.name = reqs[p].name
            BY <1>1, <2>4 DEF Found, Relying, Met, TicketExpiry, At
        <3>2. WentOn(p, "banCheck")
            BY <1>5, <2>4, LookOutcomes DEF Answered
        <3> QED
            BY <1>2, <2>1, <3>1, <3>2 DEF WentOn, Went
    <2> QED
        BY <1>5, <2>2, <2>3, <2>4, Arrivals
<1>6. reqs'[p].result # "panic"
    <2>1. SUFFICES ASSUME reqs'[p].result = "panic" PROVE FALSE
        OBVIOUS
    <2>2. BanCheck(p) /\ reqs[p].result # "panic"
        BY <1>1, <2>1, Arrivals DEF Found
    <2>3. reqs[p].pc = "banCheck" /\ (reqs[p].uid = NoUid \/ ByName(reqs[p].name) = {})
        BY <2>1, <2>2, EndOutcomes DEF WentOn, Went, Answered
    <2>4. Met(p)
        BY <1>1, <2>3 DEF Found, Relying
    <2> QED
        BY <2>3, <2>4 DEF Met, ByName, UidsGiven
<1> QED
    BY <1>3, <1>4, <1>5, <1>6 DEF Relying

LEMMA FoundStep ==
    ASSUME Types, UidsGiven, Found, [Next]_vars
    PROVE  Found'
<1> SUFFICES ASSUME NEW q \in Requests, ~reqs'[q].removed
             PROVE  (reqs'[q].pc \in Relying => Met(q)') /\ reqs'[q].result # "panic"
    BY DEF Found, Met
<1> DEFINE Still == /\ ~reqs[q].removed /\ reqs'[q].pc = reqs[q].pc
                    /\ reqs'[q].name = reqs[q].name /\ reqs'[q].uid = reqs[q].uid
                    /\ reqs'[q].result = reqs[q].result
<1>1. ASSUME Still, KeptFor(q)
      PROVE  (reqs'[q].pc \in Relying => Met(q)') /\ reqs'[q].result # "panic"
    BY <1>1 DEF Found, Met, SameAccount, KeptFor
<1>2. accounts' = accounts => KeptFor(q)
    BY DEF SameAccount, Aged, KeptFor
<1>3. ASSUME NEW p \in Requests, RequestStep(p) \/ CreateLock(p), p # q
      PROVE  (reqs'[q].pc \in Relying => Met(q)') /\ reqs'[q].result # "panic"
    <2>1. Still
        BY <1>3, Others
    <2>2. CASE RenameWrite(p)
        <3>1. KeptFor(q)
            BY <1>3, <2>2, RenameRows
        <3> QED
            BY <1>1, <2>1, <3>1
    <2>3. CASE ~RenameWrite(p)
        <3>1. KeptFor(q)
            BY <1>3, <2>3, StatementRows DEF KeptFor
        <3> QED
            BY <1>1, <2>1, <3>1
    <2> QED
        BY <2>2, <2>3
<1>4. CASE RequestStep(q) \/ CreateLock(q)
    <2>1. CASE Return(q)
        BY <2>1, EndOutcomes DEF IdleRequest, Relying
    <2> QED
        BY <1>4, <2>1, FoundOwn
<1>5. CASE AdminStep \/ Tick
    <2>1. Still
        BY <1>5, Watched
    <2>2. KeptFor(q)
        BY <1>5, AdminRows
    <2> QED
        BY <1>1, <2>1, <2>2
<1>6. CASE Start
    <2>1. PICK p \in Requests :
            /\ \A r \in Requests \ {p} : reqs'[r] = reqs[r]
            /\ UNCHANGED table
            /\ reqs'[p].pc \in {"loginFind", "ticketFind", "adminFind", "renameFind"}
            /\ reqs'[p].result = "none"
        BY <1>6, Begun
    <2>2. CASE q = p
        BY <2>1, <2>2 DEF Relying
    <2>3. CASE q # p
        <3>1. Still /\ accounts' = accounts
            BY <2>1, <2>3 DEF table
        <3> QED
            BY <1>1, <1>2, <3>1
    <2> QED
        BY <2>2, <2>3
<1>7. CASE UNCHANGED vars
    <2>1. Still /\ accounts' = accounts
        BY <1>7 DEF vars
    <2> QED
        BY <1>1, <1>2, <2>1
<1> QED
    BY <1>3, <1>4, <1>5, <1>6, <1>7 DEF Next

(* An account that was found by uid and name is still there, unless one of    *)
(* that name was deleted, renamed or renumbered since the request began.    *)
THEOREM FoundInvariance == Spec => [](Types /\ UidsGiven /\ Found)
<1>1. Init => UidsGiven /\ Found
    BY DEF Init, UidsGiven, Found, IdleRequest, Relying
<1>2. Types /\ UidsGiven /\ Found /\ [Next]_vars => UidsGiven' /\ Found'
    BY UidsStep, FoundStep
<1> QED
    BY <1>1, <1>2, TypesInvariance, PTL DEF Spec

(* Only a deletion, a renaming or a renumbering of the account a handler      *)
(* names, between two of its statements, can make it dereference a nil       *)
(* account (effectiveBan(nil) in isUserBannedInfo, account.UID after        *)
(* createAccount).                                                         *)
THEOREM PanicsNeedRemoval == Spec => []PanicsOnlyAfterRemoval
<1>1. Found => PanicsOnlyAfterRemoval
    BY DEF Found, PanicsOnlyAfterRemoval
<1> QED
    BY <1>1, FoundInvariance, PTL

-----------------------------------------------------------------------------
(* The table a step leaves, for a request that did not take the step and that *)
(* no renaming or renumbering concerned: rows of the old table and new ones. *)
LEMMA OldRows ==
    ASSUME Types, [Next]_vars, NEW q \in Requests, ~RenameWrite(q), ~reqs'[q].moved
    PROVE  \A x \in accounts' :
             (\E r \in accounts : Alike(q, x, r)) \/ \E p \in Requests : Inserted(p, x)
<1>1. \A x, r : SameAccount(x, r) => Alike(q, x, r)
    BY DEF SameAccount, Aged, Alike
<1>2. ASSUME NEW p \in Requests, RequestStep(p) \/ CreateLock(p)
      PROVE  \A x \in accounts' : (\E r \in accounts : Alike(q, x, r)) \/ Inserted(p, x)
    <2>1. CASE RenameWrite(p)
        BY <2>1, RenameRows DEF OldFor
    <2>2. CASE ~RenameWrite(p)
        BY <1>1, <1>2, <2>2, StatementRows
    <2> QED
        BY <2>1, <2>2
<1>3. ASSUME AdminStep \/ Tick
      PROVE  \A x \in accounts' : \E r \in accounts : Alike(q, x, r)
    BY <1>3, AdminRows DEF OldFor
<1>4. ASSUME Start \/ UNCHANGED vars
      PROVE  accounts' = accounts
    BY <1>4, Begun DEF vars, table
<1> QED
    BY <1>2, <1>3, <1>4 DEF Next, Alike

-----------------------------------------------------------------------------
(* What createAccount looked up under insertMu: the name is free until the   *)
(* insert, and so is the uid it chose, unless getNextUID failed or wrapped  *)
(* around, or a renaming or renumbering took the one or the other.         *)
NameFree(p) == \A r \in accounts : r.name # reqs[p].name
UidFree(p) == reqs[p].uid = Wrapped \/ \A r \in accounts : r.uid # reqs[p].uid

Free ==
    \A p \in Requests :
        ~reqs[p].moved =>
            /\ reqs[p].pc = "createUid" => NameFree(p)
            /\ reqs[p].pc = "createInsert" /\ ~reqs[p].failed => NameFree(p) /\ UidFree(p)
            /\ reqs[p].result = "createFail" =>
                 reqs[p].pc = "answered" /\ (reqs[p].failed \/ reqs[p].uid = Wrapped)

(* One more than the largest of the uids that count, or the first one, is     *)
(* nobody's.                                                               *)
LEMMA NextUidFree ==
    ASSUME Types, NEW u, IsNextUid(u), u # Wrapped, NEW r \in accounts
    PROVE  r.uid # u
<1>1. PICK m \in {0} \union Counted : u = UidAfter(m) /\ \A n \in Counted : n <= m
    BY DEF IsNextUid
<1>2. m \in Nat /\ m <= MaxUid /\ BaseUid \in Nat /\ MaxUid \in Nat /\ BaseUid <= MaxUid
    BY CountedNat
<1>3. u \in Nat /\ m < u /\ u <= MaxUid
    BY <1>1, <1>2 DEF UidAfter
<1>4. SUFFICES ASSUME r.uid = u PROVE FALSE
    OBVIOUS
<1>5. u \in Counted
    <2>1. r.uid >= 0 /\ ~(r.uid > MaxUid)
        BY <1>2, <1>3, <1>4
    <2>2. (IF r.uid > MaxUid THEN MaxUid ELSE r.uid) = u
        BY <1>4, <2>1
    <2> QED
        BY <2>1, <2>2 DEF Counted
<1> QED
    BY <1>1, <1>2, <1>3, <1>5

LEMMA FreeOwn ==
    ASSUME Types, Free, NEW p \in Requests, RequestStep(p) \/ CreateLock(p), ~Return(p),
           ~reqs'[p].moved
    PROVE  /\ reqs'[p].pc = "createUid" => NameFree(p)'
           /\ reqs'[p].pc = "createInsert" /\ ~reqs'[p].failed =>
                NameFree(p)' /\ UidFree(p)'
           /\ reqs'[p].result = "createFail" =>
                reqs'[p].pc = "answered" /\ (reqs'[p].failed \/ reqs'[p].uid = Wrapped)
<1> ~reqs[p].moved
    BY Own
<1>1. ASSUME reqs'[p].pc = "createUid"
      PROVE  NameFree(p)'
    <2>1. CreateFind(p)
        BY <1>1, Arrivals
    <2>2. ByName(reqs[p].name) = {} /\ reqs'[p].name = reqs[p].name
        BY <1>1, <2>1, CreateOutcomes DEF WentOn, Went, Answered
    <2> QED
        BY <2>1, <2>2 DEF CreateFind, table, ByName, NameFree
<1>2. ASSUME reqs'[p].pc = "createInsert", ~reqs'[p].failed
      PROVE  NameFree(p)' /\ UidFree(p)'
    <2>1. CreateUid(p)
        BY <1>2, Arrivals
    <2>2. PICK u : Went(p, "createInsert", reqs[p].name, u) /\ IsNextUid(u)
        BY <1>2, <2>1, CreateOutcomes
    <2>3. NameFree(p) /\ accounts' = accounts
        BY <2>1 DEF Free, CreateUid, At, table
    <2>5. u = Wrapped \/ \A r \in accounts : r.uid # u
        BY <2>2, NextUidFree
    <2>6. reqs'[p].uid = u /\ reqs'[p].name = reqs[p].name
        BY <2>2 DEF Went
    <2> QED
        BY <2>3, <2>5, <2>6 DEF NameFree, UidFree
<1>3. ASSUME reqs'[p].result = "createFail"
      PROVE  reqs'[p].pc = "answered" /\ (reqs'[p].failed \/ reqs'[p].uid = Wrapped)
    <2>1. reqs[p].result # "createFail"
        <3>1. SUFFICES ASSUME reqs[p].result = "createFail" PROVE FALSE
            OBVIOUS
        <3>2. reqs[p].pc = "answered"
            BY <3>1 DEF Free
        <3> QED
            BY <3>2 DEF RequestStep, CreateLock, LoginFind, AdminFind, CreateFind, CreateUid,
               CreateInsert, CreateReread, TicketFind, TicketExpiry, BanCheck, IssueKey,
               AcceptTicket, RenameFind, RenameWrite, At
    <2>2. CASE CreateInsert(p)
        <3>1. /\ Answered(p, "createFail")
              /\ reqs'[p].failed \/ ByUid(reqs[p].uid) \union ByName(reqs[p].name) # {}
            BY <1>3, <2>1, <2>2, CreateOutcomes DEF WentOn, Went
        <3>2. reqs[p].pc = "createInsert"
            BY <2>2 DEF CreateInsert, At
        <3>3. reqs'[p].pc = "answered" /\ reqs'[p].uid = reqs[p].uid
            BY <3>1 DEF Answered
        <3>4. reqs[p].failed => reqs'[p].failed
            BY Own
        <3> QED
            BY <3>1, <3>2, <3>3, <3>4 DEF Free, NameFree, UidFree, ByName, ByUid
    <2>3. CASE CreateFind(p) \/ CreateReread(p)
        BY <1>3, <2>1, <2>3, CreateOutcomes DEF WentOn, Went, Answered
    <2> QED
        BY <1>3, <2>1, <2>2, <2>3, Arrivals
<1> QED
    BY <1>1, <1>2, <1>3

LEMMA FreeStep ==
    ASSUME Types, HolderInside, Free, [Next]_vars
    PROVE  Free'
<1> DEFINE Good(q) ==
             ~reqs[q].moved =>
               /\ reqs[q].pc = "createUid" => NameFree(q)
               /\ reqs[q].pc = "createInsert" /\ ~reqs[q].failed => NameFree(q) /\ UidFree(q)
               /\ reqs[q].result = "createFail" =>
                    reqs[q].pc = "answered" /\ (reqs[q].failed \/ reqs[q].uid = Wrapped)
           Still(q) == /\ reqs'[q].pc = reqs[q].pc /\ reqs'[q].name = reqs[q].name
                       /\ reqs'[q].uid = reqs[q].uid /\ reqs'[q].result = reqs[q].result
                       /\ reqs'[q].failed = reqs[q].failed /\ (reqs[q].moved => reqs'[q].moved)
<1>1. ASSUME NEW q \in Requests, Still(q),
             reqs[q].pc \in Locked /\ ~reqs'[q].moved => OldFor(q)
      PROVE  Good(q)'
    BY <1>1 DEF Free, Locked, OldFor, Alike, NameFree, UidFree
<1>2. ASSUME NEW q \in Requests
      PROVE  Good(q)'
    <2>1. ASSUME NEW p \in Requests, RequestStep(p) \/ CreateLock(p), p # q
          PROVE  Good(q)'
        <3>1. Still(q)
            BY <2>1, Others
        <3>2. ASSUME reqs[q].pc \in Locked, ~reqs'[q].moved
              PROVE  OldFor(q)
            <4>1. ~CreateInsert(p)
                BY <2>1, <3>2 DEF HolderInside, CreateInsert, At, Locked
            <4>2. CASE RenameWrite(p)
                BY <2>1, <3>2, <4>2, RenameRows
            <4>3. CASE ~RenameWrite(p)
                BY <2>1, <4>1, <4>3, StatementRows DEF Inserted, SameAccount, Aged, OldFor, Alike
            <4> QED
                BY <4>2, <4>3
        <3> QED
            BY <1>1, <3>1, <3>2
    <2>2. CASE RequestStep(q) \/ CreateLock(q)
        <3>1. CASE Return(q)
            <4>1. reqs'[q].pc = "idle" /\ reqs'[q].result = "none"
                BY <3>1, EndOutcomes DEF IdleRequest
            <4> QED
                BY <4>1
        <3> QED
            BY <2>2, <3>1, FreeOwn
    <2>3. CASE AdminStep \/ Tick
        <3>1. Still(q)
            BY <2>3, Watched
        <3>2. ~reqs'[q].moved => OldFor(q)
            BY <2>3, AdminRows
        <3> QED
            BY <1>1, <3>1, <3>2
    <2>4. CASE Start
        <3>1. PICK p \in Requests :
                /\ \A r \in Requests \ {p} : reqs'[r] = reqs[r]
                /\ UNCHANGED table
                /\ reqs'[p].pc \in {"loginFind", "ticketFind", "adminFind", "renameFind"}
                /\ reqs'[p].result = "none"
            BY <2>4, Begun
        <3>2. CASE q = p
            BY <3>1, <3>2
        <3>3. CASE q # p
            <4>1. Still(q) /\ accounts' = accounts
                BY <3>1, <3>3 DEF table
            <4> QED
                BY <1>1, <4>1 DEF OldFor, Alike
        <3> QED
            BY <3>2, <3>3
    <2>5. CASE UNCHANGED vars
        <3>1. Still(q) /\ accounts' = accounts
            BY <2>5 DEF vars
        <3> QED
            BY <1>1, <3>1 DEF OldFor, Alike
    <2> QED
        BY <2>1, <2>2, <2>3, <2>4, <2>5 DEF Next
<1> QED
    BY <1>2 DEF Free

(* What createAccount found free is free when it inserts, unless a renaming   *)
(* took the name or a renumbering the uid.                                 *)
THEOREM FreeInvariance == Spec => []Free
<1>1. Init => Free
    BY DEF Init, Free, IdleRequest
<1>2. Types /\ HolderInside /\ Free /\ [Next]_vars => Free'
    BY FreeStep
<1> QED
    BY <1>1, <1>2, MutualExclusion, PTL DEF Spec

(* insertMu makes lookup, getNextUID and INSERT one step for other creations:  *)
(* createAccount never ends in a constraint error unless one of its own      *)
(* statements failed, a renaming took the name or a renumbering the uid, or  *)
(* getNextUID had gone past the largest integer.                            *)
THEOREM CreationsNeverConflict == Spec => []CreateNeverConflicts
<1>1. Free => CreateNeverConflicts
    BY DEF Free, CreateNeverConflicts
<1> QED
    BY <1>1, FreeInvariance, PTL

-----------------------------------------------------------------------------
(* The history of bans: what a request has down as banned is banned now. *)
Observed == \A p \in Requests : reqs[p].banned \subseteq BannedIds(accounts, now)

LEMMA BannedRow ==
    \A rows : \A t : \A i : i \in BannedIds(rows, t) <=> \E r \in rows : r.id = i /\ EffectiveBan(r, t)
BY DEF BannedIds, IdsOf

LEMMA SameBanned ==
    ASSUME \A r \in accounts : \E x \in accounts' : x.id = r.id /\ SameBan(x, r)
    PROVE  BannedIds(accounts, now) \subseteq BannedIds(accounts', now)
<1>1. \A x, r : SameBan(x, r) => (EffectiveBan(x, now) <=> EffectiveBan(r, now))
    BY DEF SameBan, EffectiveBan
<1> QED
    BY <1>1, BannedRow

LEMMA NamesOfRows ==
    ASSUME Types
    PROVE  {r.name : r \in accounts} \subseteq Names
BY DEF Types, TypeOK, Row

LEMMA ObservedStep ==
    ASSUME Types, Observed, [Next]_vars
    PROVE  Observed'
<1>1. ASSUME now' = now, \A q \in Requests : reqs'[q].banned \in {reqs[q].banned, {}},
             BannedIds(accounts, now) \subseteq BannedIds(accounts', now)
      PROVE  Observed'
    BY <1>1 DEF Observed
<1>2. ASSUME NEW p \in Requests, RequestStep(p) \/ CreateLock(p)
      PROVE  Observed'
    <2>1. \A r \in accounts : \E x \in accounts' : x.id = r.id /\ SameBan(x, r)
        BY <1>2, StatementRows, RenameRows DEF SameAccount, Aged
    <2>2. BannedIds(accounts, now) \subseteq BannedIds(accounts', now)
        BY <2>1, SameBanned
    <2>3. reqs'[p].banned \in {reqs[p].banned, {}}
        BY <1>2, Own, EndOutcomes DEF IdleRequest
    <2>4. now' = now
        BY <1>2 DEF RequestStep, CreateLock, LoginFind, AdminFind, CreateFind, CreateUid,
           CreateInsert, CreateReread, TicketFind, TicketExpiry, BanCheck, IssueKey, AcceptTicket,
           RenameFind, RenameWrite, Return, Becomes
    <2> QED
        BY <1>1, <1>2, <2>2, <2>3, <2>4, Others
<1>3. ASSUME NEW rows, NEW t, reqs' = Observe(rows, t), accounts' = rows, now' = t
      PROVE  Observed'
    <2>1. ASSUME NEW p \in Requests
          PROVE  reqs'[p].banned \subseteq BannedIds(accounts', now')
        <3>1. reqs[p] \in Request
            BY DEF Types, TypeOK
        <3> QED
            BY <1>3, <3>1 DEF Observe, Request
    <2> QED
        BY <2>1 DEF Observed
<1>4. ASSUME NEW n \in Names, ResetUserToken(n)
      PROVE  Observed'
    <2>1. \A r \in accounts : LET x == [r EXCEPT !.key = NoKey] IN SameAccount(x, r) /\ SameBan(x, r)
        BY DEF Types, TypeOK, Row, SameAccount, Aged, SameBan
    <2>2. \A r : SameAccount(r, r) /\ SameBan(r, r)
        BY DEF SameAccount, Aged, SameBan
    <2>3. accounts' = {IF r.name = n THEN [r EXCEPT !.key = NoKey] ELSE r : r \in accounts}
        BY <1>4 DEF ResetUserToken
    <2>4. BannedIds(accounts, now) \subseteq BannedIds(accounts', now)
        BY <2>1, <2>2, <2>3, SameBanned DEF SameAccount, Aged
    <2> QED
        BY <1>1, <1>4, <2>4 DEF ResetUserToken, AdminOp
<1>5. ASSUME NEW n \in Names, DeleteAccount(n)
      PROVE  Observed'
    <2>1. ASSUME NEW p \in Requests
          PROVE  reqs'[p].banned \subseteq BannedIds(accounts', now')
        <3>1. reqs[p] \in Request
            BY DEF Types, TypeOK
        <3>2. reqs'[p].banned = reqs[p].banned \ IdsOf(ByName(n))
            BY <1>5, <3>1 DEF DeleteAccount, Request
        <3>3. now' = now /\ accounts' = accounts \ ByName(n)
            BY <1>5 DEF DeleteAccount, AdminOp
        <3>4. ASSUME NEW i \in reqs'[p].banned
              PROVE  \E r \in accounts' : r.id = i /\ EffectiveBan(r, now)
            <4>1. PICK r \in accounts : r.id = i /\ EffectiveBan(r, now)
                BY <3>2, BannedRow DEF Observed
            <4>2. r \notin ByName(n)
                BY <3>2, <4>1 DEF IdsOf
            <4> QED
                BY <3>3, <4>1, <4>2
        <3> QED
            BY <3>3, <3>4, BannedRow
    <2> QED
        BY <2>1 DEF Observed
<1>6. CASE AdminStep \/ Tick
    <2>1. ASSUME NEW n \in Names, NEW permanent, NEW until, BanUser(n, permanent, until)
          PROVE  Observed'
        BY <1>3, <2>1 DEF BanUser, AdminOp
    <2>2. ASSUME NEW n \in Names, UnbanUser(n)
          PROVE  Observed'
        BY <1>3, <2>2 DEF UnbanUser, AdminOp
    <2>3. CASE Tick
        BY <1>3, <2>3 DEF Tick, table
    <2>4. ASSUME NEW n \in Names, NEW u, UpdateUID(n, u)
          PROVE  Observed'
        <3>1. \A q \in Requests : reqs'[q].banned = reqs[q].banned
            <4>1. \A q \in Requests : reqs[q] \in Request
                BY DEF Types, TypeOK
            <4> QED
                BY <2>4, <4>1 DEF UpdateUID, Renumbered, Request
        <3>2. BannedIds(accounts, now) \subseteq BannedIds(accounts', now)
            BY <2>4, UidRows, SameBanned
        <3> QED
            BY <1>1, <2>4, <3>1, <3>2 DEF UpdateUID, AdminOp
    <2> QED
        BY <1>4, <1>5, <1>6, <2>1, <2>2, <2>3, <2>4, NamesOfRows DEF AdminStep
<1>7. CASE Start
    BY <1>7, Begun DEF Observed, table
<1>8. CASE UNCHANGED vars
    BY <1>8 DEF vars, Observed
<1> QED
    BY <1>2, <1>6, <1>7, <1>8 DEF Next

-----------------------------------------------------------------------------
(* The uid a request will admit and the name it checks for a ban are those   *)
(* of one account, as far as accounts are concerned that have been banned  *)
(* since it began; after the check none of them has the uid.               *)
Paired(p) ==
    \A r \in accounts :
        r.uid = reqs[p].uid /\ r.id \in reqs[p].banned => r.name = reqs[p].name

Cleared(p) == \A r \in accounts : r.uid = reqs[p].uid => r.id \notin reqs[p].banned

Judged ==
    \A p \in Requests :
        ~reqs[p].failed /\ ~reqs[p].moved =>
            /\ reqs[p].pc \in Relying => Paired(p)
            /\ reqs[p].pc = "issue" => Cleared(p)
            /\ reqs[p].admitted \intersect reqs[p].banned = {}

(* Rows that are inserted are new to every request. *)
LEMMA NewIds ==
    ASSUME Types, Tables, Observed, NEW p \in Requests
    PROVE  nextId \notin reqs[p].banned
<1>1. \A r \in accounts : r.id # nextId
    BY DEF Types, TypeOK, Row, Tables, Numbered
<1> QED
    BY <1>1, BannedRow DEF Observed

(* The request that takes the step: where it relies on what it found. *)
LEMMA PairedOwn ==
    ASSUME Types, Tables, UidsGiven, Judged, NEW p \in Requests,
           RequestStep(p) \/ CreateLock(p), ~Return(p), ~reqs'[p].failed, ~reqs'[p].moved,
           reqs'[p].pc \in Relying
    PROVE  Paired(p)'
<1>1. ~reqs[p].failed /\ ~reqs[p].moved /\ reqs'[p].banned = reqs[p].banned
    BY Own
<1>2. ~RenameWrite(p)
    BY EndOutcomes DEF Answered, Relying
<1>3. \A x \in accounts' : (\E r \in accounts : SameAccount(x, r)) \/ Inserted(p, x)
    BY <1>2, StatementRows
<1>4. ASSUME ~CreateInsert(p),
             \A r \in accounts : r.uid = reqs'[p].uid /\ r.id \in reqs[p].banned => r.name = reqs'[p].name
      PROVE  Paired(p)'
    BY <1>1, <1>3, <1>4 DEF Paired, SameAccount, Aged, Inserted
<1>5. ASSUME ~CreateInsert(p), NEW r \in accounts, r.uid = reqs'[p].uid, r.name = reqs'[p].name
      PROVE  Paired(p)'
    <2>1. \A s \in accounts : s.uid = reqs'[p].uid => s.name = reqs'[p].name
        BY <1>5 DEF Tables, RowsUnique
    <2> QED
        BY <1>4, <1>5, <2>1
<1>6. ASSUME reqs'[p].pc = "createReread" PROVE Paired(p)'
    <2>1. CreateInsert(p)
        BY <1>6, Arrivals
    <2>2. WentOn(p, "createReread") /\ ByUid(reqs[p].uid) = {}
        BY <1>6, <2>1, CreateOutcomes DEF Answered
    <2>3. reqs'[p].uid = reqs[p].uid /\ reqs'[p].name = reqs[p].name
        BY <2>2 DEF WentOn, Went
    <2> QED
        BY <1>3, <2>2, <2>3 DEF Paired, SameAccount, Aged, Inserted, ByUid
<1>7. ASSUME reqs'[p].pc = "ticketExpiry" PROVE Paired(p)'
    <2>1. TicketFind(p)
        BY <1>7, Arrivals
    <2>2. PICK r \in ByUid(reqs[p].uid) : Went(p, "ticketExpiry", r.name, reqs[p].uid)
        BY <1>7, <2>1, LookOutcomes DEF Answered
    <2>3. r \in accounts /\ r.uid = reqs'[p].uid /\ r.name = reqs'[p].name
        BY <2>2 DEF ByUid, Went
    <2>4. ~CreateInsert(p)
        BY <2>1 DEF TicketFind, CreateInsert, At
    <2> QED
        BY <1>5, <2>3, <2>4
<1>8. ASSUME reqs'[p].pc = "banCheck" PROVE Paired(p)'
    <2>1. ~CreateInsert(p)
        BY <1>8, Arrivals DEF CreateInsert, LoginFind, CreateFind, CreateReread, TicketExpiry, At
    <2>2. CASE LoginFind(p) \/ CreateFind(p)
        <3>1. PICK r \in ByName(reqs[p].name) : Went(p, "banCheck", reqs[p].name, r.uid)
            BY <1>8, <2>2, LookOutcomes, CreateOutcomes DEF WentOn, Went, Answered
        <3> QED
            BY <1>5, <2>1, <3>1 DEF ByName, Went
    <2>3. CASE CreateReread(p)
        <3>1. Paired(p)
            BY <1>1, <2>3 DEF Judged, Relying, CreateReread, At
        <3>2. Went(p, "banCheck", reqs[p].name, UidOf(ByUid(reqs[p].uid)))
            BY <1>8, <2>3, CreateOutcomes DEF Answered
        <3>3. CASE ByUid(reqs[p].uid) = {}
            <4>1. reqs'[p].uid = NoUid
                BY <3>2, <3>3 DEF Went, UidOf
            <4> QED
                BY <1>4, <2>1, <4>1 DEF UidsGiven
        <3>4. CASE ByUid(reqs[p].uid) # {}
            <4>1. reqs'[p].uid = reqs[p].uid /\ reqs'[p].name = reqs[p].name
                BY <3>2, <3>4, Looked DEF Went, ByUid
            <4> QED
                BY <1>4, <2>1, <3>1, <4>1 DEF Paired
        <3> QED
            BY <3>3, <3>4
    <2>4. CASE TicketExpiry(p)
        <3>1. Paired(p)
            BY <1>1, <2>4 DEF Judged, Relying, TicketExpiry, At
        <3>2. WentOn(p, "banCheck")
            BY <1>8, <2>4, LookOutcomes DEF Answered
        <3> QED
            BY <1>4, <2>1, <3>1, <3>2 DEF WentOn, Went, Paired
    <2> QED
        BY <1>8, <2>2, <2>3, <2>4, Arrivals
<1> QED
    BY <1>6, <1>7, <1>8 DEF Relying

(* The request that takes the step: past the check, and admitting. *)
LEMMA AdmitOwn ==
    ASSUME Types, Tables, Observed, Judged, NEW p \in Requests,
           RequestStep(p) \/ CreateLock(p), ~Return(p), ~reqs'[p].failed, ~reqs'[p].moved
    PROVE  /\ reqs'[p].pc = "issue" => Cleared(p)'
           /\ reqs'[p].admitted \intersect reqs'[p].banned = {}
<1>1. ~reqs[p].failed /\ ~reqs[p].moved /\ reqs'[p].banned = reqs[p].banned
    BY Own
<1>2. ASSUME reqs'[p].pc = "issue" PROVE Cleared(p)'
    <2>1. BanCheck(p)
        BY <1>2, Arrivals
    <2>2. /\ WentOn(p, "issue") /\ reqs[p].pc = "banCheck"
          /\ \A r \in ByName(reqs[p].name) : ~EffectiveBan(r, now)
        BY <1>2, <2>1, EndOutcomes DEF Answered
    <2>3. Paired(p)
        BY <1>1, <2>2 DEF Judged, Relying
    <2>4. accounts' = accounts
        BY <2>1 DEF BanCheck, table
    <2>5. ASSUME NEW r \in accounts, r.uid = reqs[p].uid, r.id \in reqs[p].banned
          PROVE  FALSE
        <3>1. ~EffectiveBan(r, now)
            BY <2>2, <2>3, <2>5 DEF Paired, ByName
        <3>2. PICK s \in accounts : s.id = r.id /\ EffectiveBan(s, now)
            BY <2>5, BannedRow DEF Observed
        <3>3. s = r
            BY <3>2 DEF Tables, RowsUnique
        <3> QED
            BY <3>1, <3>2, <3>3
    <2> QED
        BY <1>1, <2>2, <2>4, <2>5 DEF Cleared, WentOn, Went
<1>3. CASE IssueKey(p) \/ AcceptTicket(p)
    <2>1. reqs[p].pc = "issue" /\ reqs'[p].admitted = IdsOf(ByUid(reqs[p].uid))
        BY <1>3, EndOutcomes
    <2>2. Cleared(p)
        BY <1>1, <2>1 DEF Judged
    <2>3. \A i \in IdsOf(ByUid(reqs[p].uid)) : i \notin reqs[p].banned
        BY <2>2 DEF Cleared, IdsOf, ByUid
    <2> QED
        BY <1>1, <1>2, <2>1, <2>3
<1>4. CASE reqs'[p].admitted \in {reqs[p].admitted, {}}
    BY <1>1, <1>2, <1>4 DEF Judged
<1> QED
    BY <1>3, <1>4, Arrivals

LEMMA JudgedStep ==
    ASSUME Types, Tables, UidsGiven, Observed, Judged, [Next]_vars
    PROVE  Judged'
<1> DEFINE Good(q) ==
              ~reqs[q].failed /\ ~reqs[q].moved =>
                /\ reqs[q].pc \in Relying => Paired(q)
                /\ reqs[q].pc = "issue" => Cleared(q)
                /\ reqs[q].admitted \intersect reqs[q].banned = {}
           Still(q) == /\ reqs'[q].pc = reqs[q].pc /\ reqs'[q].name = reqs[q].name
                       /\ reqs'[q].uid = reqs[q].uid /\ reqs'[q].failed = reqs[q].failed
                       /\ reqs'[q].admitted = reqs[q].admitted
                       /\ reqs'[q].banned \subseteq reqs[q].banned
                       /\ reqs[q].moved => reqs'[q].moved
<1>1. ASSUME NEW q \in Requests, Still(q)
      PROVE  Good(q)'
    <2> SUFFICES ASSUME ~reqs'[q].moved PROVE Good(q)'
        OBVIOUS
    <2> ~RenameWrite(q)
        BY <1>1, EndOutcomes DEF RenameWrite, At, Answered
    <2>1. ASSUME NEW x \in accounts', x.id \in reqs'[q].banned
          PROVE  \E r \in accounts : Alike(q, x, r)
        <3>1. x.id # nextId
            BY <1>1, <2>1, NewIds
        <3> QED
            BY <3>1, OldRows DEF Inserted
    <2>2. Paired(q) => Paired(q)'
        BY <1>1, <2>1 DEF Paired, Alike
    <2>3. Cleared(q) => Cleared(q)'
        BY <1>1, <2>1 DEF Cleared, Alike
    <2>4. reqs[q].admitted \intersect reqs[q].banned = {} =>
            reqs'[q].admitted \intersect reqs'[q].banned = {}
        BY <1>1
    <2> QED
        BY <1>1, <2>2, <2>3, <2>4 DEF Judged
<1>2. ASSUME NEW q \in Requests
      PROVE  Good(q)'
    <2>1. ASSUME NEW p \in Requests, RequestStep(p) \/ CreateLock(p), p # q
          PROVE  Good(q)'
        <3>1. Still(q)
            BY <2>1, Others
        <3> HIDE DEF Good, Still
        <3> QED
            BY <1>1, <3>1
    <2>2. CASE RequestStep(q) \/ CreateLock(q)
        <3>1. CASE Return(q)
            <4>1. reqs'[q].pc = "idle" /\ reqs'[q].admitted = {}
                BY <3>1, EndOutcomes DEF IdleRequest
            <4> QED
                BY <4>1 DEF Relying
        <3> QED
            BY <2>2, <3>1, PairedOwn, AdmitOwn
    <2>3. CASE AdminStep \/ Tick
        <3>1. Still(q)
            BY <2>3, Watched
        <3> HIDE DEF Good, Still
        <3> QED
            BY <1>1, <3>1
    <2>4. CASE Start
        <3>1. PICK p \in Requests :
                /\ \A r \in Requests \ {p} : reqs'[r] = reqs[r]
                /\ reqs'[p].pc \in {"loginFind", "ticketFind", "adminFind", "renameFind"}
                /\ reqs'[p].admitted = {}
            BY <2>4, Begun
        <3>2. CASE q = p
            BY <3>1, <3>2 DEF Relying
        <3>3. CASE q # p
            <4>1. Still(q)
                BY <3>1, <3>3
            <4> HIDE DEF Good, Still
            <4> QED
                BY <1>1, <4>1
        <3> QED
            BY <3>2, <3>3
    <2>5. CASE UNCHANGED vars
        <3>1. Still(q)
            BY <2>5 DEF vars
        <3> HIDE DEF Good, Still
        <3> QED
            BY <1>1, <3>1
    <2> HIDE DEF Good
    <2> QED
        BY <2>1, <2>2, <2>3, <2>4, <2>5 DEF Next
<1> QED
    BY <1>2 DEF Judged

(* A request checks the ban of the account it admits, or of none that was     *)
(* banned since it began, unless a renaming or renumbering came between.    *)
THEOREM JudgedInvariance == Spec => [](Observed /\ Judged)
<1>1. Init => Observed /\ Judged
    BY DEF Init, Observed, Judged, IdleRequest, Relying
<1>2. Types /\ Tables /\ UidsGiven /\ Observed /\ Judged /\ [Next]_vars => Observed' /\ Judged'
    BY ObservedStep, JudgedStep
<1> QED
    BY <1>1, <1>2, TablesInvariance, FoundInvariance, PTL DEF Spec

(* An account that is banned from the moment a login, verify or combo login   *)
(* begins until it is answered is not admitted by it, unless one of its      *)
(* statements failed, or its name was given up or taken by a renaming, or    *)
(* the uid it admits by a renumbering, during the request.                   *)
THEOREM BannedOnlyMovedIn == Spec => []BannedUnlessMoved
<1>1. Judged => BannedUnlessMoved
    BY DEF Judged, BannedUnlessMoved
<1> QED
    BY <1>1, JudgedInvariance, PTL

-----------------------------------------------------------------------------
(* A panel that neither renames nor renumbers accounts: with either,         *)
(* MCGameLoginRename.cfg shows how a banned account gets in.               *)
FixedNames == {"rename", "uid"} \intersect AdminOps = {}

NoneMoved == \A p \in Requests : reqs[p].pc \notin Renaming /\ ~reqs[p].moved

LEMMA NoneMovedStep ==
    ASSUME FixedNames, Types, NoneMoved, [Next]_vars
    PROVE  NoneMoved'
<1>1. ASSUME NEW p \in Requests, RequestStep(p) \/ CreateLock(p)
      PROVE  NoneMoved'
    <2>1. ~RenameFind(p) /\ ~RenameWrite(p)
        BY DEF NoneMoved, Renaming, RenameFind, RenameWrite, At
    <2>2. \E q : Becomes(p, q)
        BY <1>1, <2>1 DEF RequestStep, CreateLock, LoginFind, AdminFind, CreateFind, CreateUid,
           CreateInsert, CreateReread, TicketFind, TicketExpiry, BanCheck, IssueKey, AcceptTicket,
           Return
    <2>3. \A r \in Requests \ {p} : reqs'[r] = reqs[r]
        BY <2>2 DEF Becomes, Types
    <2>4. reqs'[p].pc \notin Renaming /\ ~reqs'[p].moved
        BY <1>1, <2>1, Arrivals, Own, EndOutcomes DEF NoneMoved, IdleRequest
    <2> QED
        BY <2>3, <2>4 DEF NoneMoved
<1>2. CASE AdminStep \/ Tick
    <2>1. \A n, u : ~UpdateUID(n, u)
        BY DEF FixedNames, UpdateUID, AdminOp
    <2>2. \A q \in Requests : reqs[q] \in Request
        BY DEF Types, TypeOK
    <2>3. \A q \in Requests : reqs'[q].moved = reqs[q].moved
        <3>1. ASSUME NEW n PROVE /\ \A permanent, until : BanUser(n, permanent, until) =>
                                       reqs' = Observe(accounts', now)
                                 /\ UnbanUser(n) => reqs' = Observe(accounts', now)
                                 /\ ResetUserToken(n) => reqs' = reqs
            BY DEF BanUser, UnbanUser, ResetUserToken
        <3>2. ASSUME NEW n, DeleteAccount(n), NEW q \in Requests PROVE reqs'[q].moved = reqs[q].moved
            BY <2>2, <3>2 DEF DeleteAccount, Request
        <3>3. ASSUME NEW rows, NEW t, reqs' = Observe(rows, t), NEW q \in Requests
              PROVE  reqs'[q].moved = reqs[q].moved
            BY <2>2, <3>3 DEF Observe, Request
        <3>4. Tick => reqs' = Observe(accounts, now')
            BY DEF Tick
        <3>5. \/ \E rows, t : reqs' = Observe(rows, t)
              \/ reqs' = reqs
              \/ \E n : DeleteAccount(n)
            BY <1>2, <2>1, <3>1, <3>4 DEF AdminStep
        <3> QED
            BY <3>2, <3>3, <3>5
    <2> QED
        BY <1>2, <2>3, Watched DEF NoneMoved
<1>3. CASE Start
    BY <1>3, Begun DEF NoneMoved, Renaming, FixedNames
<1>4. CASE UNCHANGED vars
    BY <1>4 DEF vars, NoneMoved
<1> QED
    BY <1>1, <1>2, <1>3, <1>4 DEF Next

(* If accounts are neither renamed nor renumbered, an account that is banned  *)
(* from the moment a login, verify or combo login begins until it is       *)
(* answered is not admitted by it, unless one of its statements failed.    *)
THEOREM BannedStayOut ==
    ASSUME FixedNames
    PROVE  Spec => []BannedNeverAdmitted
<1>1. Init => NoneMoved
    BY DEF Init, NoneMoved, IdleRequest, Renaming
<1>2. Types /\ NoneMoved /\ [Next]_vars => NoneMoved'
    BY NoneMovedStep
<1>3. NoneMoved /\ BannedUnlessMoved => BannedNeverAdmitted
    BY DEF NoneMoved, BannedUnlessMoved, BannedNeverAdmitted
<1> QED
    BY <1>1, <1>2, <1>3, TypesInvariance, BannedOnlyMovedIn, PTL DEF Spec

-----------------------------------------------------------------------------
(* Verify and combo login: only they look for a key, and the keys that login *)
(* answers carry are those that were issued.                               *)
TicketStates == {"ticketFind", "ticketExpiry", "banCheck", "issue", "answered"}

TicketsOK ==
    /\ \A t \in tickets : t.key # NoKey /\ t.key < nextKey
    /\ \A p \in Requests :
        /\ reqs[p].kind \in Tickets => reqs[p].pc \in TicketStates
        /\ reqs[p].pc \in {"ticketFind", "ticketExpiry"} => reqs[p].kind \in Tickets

(* What Asking and LetIn depend on. *)
SameVisit(r) ==
    /\ reqs'[r].pc = reqs[r].pc /\ reqs'[r].kind = reqs[r].kind
    /\ reqs'[r].key = reqs[r].key /\ reqs'[r].result = reqs[r].result

LEMMA SameVisits ==
    ASSUME \A r \in Requests : SameVisit(r)
    PROVE  UNCHANGED <<Asking, LetIn>>
<1>1. UNCHANGED AtDoor
    BY DEF SameVisit, AtDoor, At
<1>2. UNCHANGED Asking
    BY <1>1 DEF SameVisit, Asking, AtDoor
<1>3. UNCHANGED LetIn
    BY DEF SameVisit, LetIn
<1> QED
    BY <1>2, <1>3

(* One request moves. *)
LEMMA OneVisit ==
    ASSUME NEW p \in Requests, \A r \in Requests \ {p} : SameVisit(r)
    PROVE  /\ (p \in LetIn' <=> p \in LetIn) => LetIn' = LetIn
           /\ p \in LetIn' /\ p \notin LetIn => LetIn' = LetIn \union {p}
           /\ p \notin LetIn' /\ p \in LetIn => LetIn' = LetIn \ {p}
           /\ p \notin AtDoor' /\ p \notin AtDoor => Asking' = Asking
           /\ p \in AtDoor' /\ p \notin AtDoor => Asking' = Asking \union {<<p, reqs'[p].key>>}
           /\ p \notin AtDoor' /\ p \in AtDoor => Asking' = Asking \ {<<p, reqs[p].key>>}
<1>1. \A r \in Requests \ {p} : (r \in LetIn' <=> r \in LetIn) /\ (r \in AtDoor' <=> r \in AtDoor)
    BY DEF SameVisit, LetIn, AtDoor, At
<1>2. LetIn \subseteq Requests /\ LetIn' \subseteq Requests
    BY DEF LetIn
<1>3. AtDoor \subseteq Requests /\ AtDoor' \subseteq Requests
    BY DEF AtDoor
<1>4. \A v : v \in Asking <=> \E r \in AtDoor : v = <<r, reqs[r].key>>
    BY DEF Asking
<1>5. \A v : v \in Asking' <=> \E r \in AtDoor' : v = <<r, reqs'[r].key>>
    BY DEF Asking
<1>6. \A r \in Requests \ {p} : reqs'[r].key = reqs[r].key
    BY DEF SameVisit
<1>7. /\ (p \in LetIn' <=> p \in LetIn) => LetIn' = LetIn
      /\ p \in LetIn' /\ p \notin LetIn => LetIn' = LetIn \union {p}
      /\ p \notin LetIn' /\ p \in LetIn => LetIn' = LetIn \ {p}
    BY <1>1, <1>2
<1>8. p \notin AtDoor' /\ p \notin AtDoor => Asking' = Asking
    BY <1>1, <1>3, <1>4, <1>5, <1>6
<1>9. p \in AtDoor' /\ p \notin AtDoor => Asking' = Asking \union {<<p, reqs'[p].key>>}
    BY <1>1, <1>3, <1>4, <1>5, <1>6
<1>10. p \notin AtDoor' /\ p \in AtDoor => Asking' = Asking \ {<<p, reqs[p].key>>}
    BY <1>1, <1>3, <1>4, <1>5, <1>6
<1> QED
    BY <1>7, <1>8, <1>9, <1>10

LEMMA KeysStay ==
    ASSUME UNCHANGED table
    PROVE  UNCHANGED <<Given, KeysOf(accounts), retired>>
BY DEF table, Given, KeysOf

LEMMA TicketMoves ==
    ASSUME Types, Tables, TicketsOK, NEW p \in Requests, TicketFind(p) \/ TicketExpiry(p)
    PROVE  SessionKeys!Enter \/ SessionKeys!Leave \/ UNCHANGED <<Given, KeysOf(accounts), retired, Asking, LetIn>>
<1>1. UNCHANGED <<Given, KeysOf(accounts), retired>>
    BY LookFrame, KeysStay DEF LookStep
<1>2. /\ \A r \in Requests \ {p} : SameVisit(r)
      /\ reqs'[p].kind = reqs[p].kind /\ reqs'[p].key = reqs[p].key
    <2>1. ~Return(p)
        BY DEF TicketFind, TicketExpiry, Return, At
    <2> QED
        BY <2>1, Own, Others DEF RequestStep, SameVisit
<1>3. reqs[p].kind \in Tickets
    BY DEF TicketsOK, TicketFind, TicketExpiry, At
<1>6. CASE reqs[p].key = NoKey
    <2>1. p \notin LetIn /\ p \notin LetIn' /\ p \notin AtDoor /\ p \notin AtDoor'
        BY <1>2, <1>6 DEF LetIn, AtDoor
    <2> QED
        BY <1>1, <1>2, <2>1, OneVisit
<1>4. CASE TicketFind(p) /\ reqs[p].key # NoKey
    <2>1. p \in AtDoor /\ p \notin LetIn
        BY <1>4 DEF TicketFind, AtDoor, LetIn, At
    <2>2. \/ /\ \E r \in ByUid(reqs[p].uid) : r.key = reqs[p].key
             /\ reqs'[p].pc = "ticketExpiry"
          \/ Answered(p, "invalid")
        <3>1. CASE \E r \in ByUid(reqs[p].uid) :
                      /\ r.key = reqs[p].key
                      /\ Becomes(p, [Goto(p, "ticketExpiry") EXCEPT !.name = r.name])
            <4>1. PICK r \in ByUid(reqs[p].uid) :
                      /\ r.key = reqs[p].key
                      /\ Becomes(p, [Goto(p, "ticketExpiry") EXCEPT !.name = r.name])
                BY <3>1
            <4>2. Went(p, "ticketExpiry", r.name, reqs[p].uid)
                BY <4>1, Forms
            <4> QED
                BY <4>1, <4>2 DEF Went
        <3>2. Becomes(p, Answer(p, "invalid")) => Answered(p, "invalid")
            BY Forms
        <3>3. Becomes(p, Failed(Answer(p, "invalid"))) => Answered(p, "invalid")
            BY Forms
        <3> QED
            BY <1>4, <3>1, <3>2, <3>3 DEF TicketFind
    <2>3. p \notin AtDoor'
        BY <2>2 DEF AtDoor, At, Answered
    <2>4. Asking' = Asking \ {<<p, reqs[p].key>>} /\ <<p, reqs[p].key>> \in Asking
        BY <1>2, <2>1, <2>3, OneVisit DEF Asking
    <2>5. CASE Answered(p, "invalid")
        <3>1. p \notin LetIn'
            BY <2>5 DEF Answered, LetIn
        <3>2. LetIn' = LetIn
            BY <1>2, <2>1, <3>1, OneVisit
        <3> QED
            BY <1>1, <2>4, <3>2 DEF SessionKeys!Leave, SessionKeys!keys
    <2>6. CASE /\ \E r \in ByUid(reqs[p].uid) : r.key = reqs[p].key
               /\ reqs'[p].pc = "ticketExpiry"
        <3>1. p \in LetIn'
            BY <1>2, <1>3, <1>4, <2>6 DEF LetIn
        <3>2. LetIn' = LetIn \union {p}
            BY <1>2, <2>1, <3>1, OneVisit
        <3>3. reqs[p].key # NoKey
            BY <1>4
        <3>4. reqs[p].key \in KeysOf(accounts)
            BY <2>6, <3>3, LiveKeys DEF ByUid
        <3> QED
            BY <1>1, <2>4, <3>2, <3>4 DEF SessionKeys!Enter, SessionKeys!keys
    <2> QED
        BY <2>2, <2>5, <2>6
<1>5. CASE TicketExpiry(p) /\ reqs[p].key # NoKey
    <2>1. p \notin AtDoor /\ p \in LetIn
        BY <1>3, <1>5 DEF TicketExpiry, AtDoor, LetIn, At
    <2>2. reqs'[p].pc = "banCheck" \/ Answered(p, "expired")
        BY <1>5, LookOutcomes DEF WentOn, Went
    <2>3. p \notin AtDoor'
        BY <2>2 DEF AtDoor, At, Answered
    <2>4. Asking' = Asking
        BY <1>2, <2>1, <2>3, OneVisit
    <2>5. CASE reqs'[p].pc = "banCheck"
        <3>1. p \in LetIn'
            BY <1>2, <1>3, <1>5, <2>5 DEF LetIn
        <3> QED
            BY <1>1, <1>2, <2>1, <2>4, <3>1, OneVisit
    <2>6. CASE Answered(p, "expired")
        <3>1. p \notin LetIn'
            BY <2>6 DEF LetIn, Answered
        <3>2. LetIn' = LetIn \ {p}
            BY <1>2, <2>1, <3>1, OneVisit
        <3> QED
            BY <1>1, <2>1, <2>4, <3>2 DEF SessionKeys!Leave, SessionKeys!keys
    <2> QED
        BY <2>2, <2>5, <2>6
<1> QED
    BY <1>4, <1>5, <1>6

LEMMA EndMoves ==
    ASSUME Types, TicketsOK, NEW p \in Requests, BanCheck(p) \/ Return(p)
    PROVE  SessionKeys!Leave \/ UNCHANGED <<Given, KeysOf(accounts), retired, Asking, LetIn>>
<1>1. UNCHANGED <<Given, KeysOf(accounts), retired>>
    BY LookFrame, KeysStay DEF LookStep
<1>2. \A r \in Requests \ {p} : SameVisit(r)
    BY Others DEF RequestStep, SameVisit
<1>3. p \notin AtDoor
    BY DEF BanCheck, Return, AtDoor, At
<1>4. /\ p \notin AtDoor'
      /\ p \in LetIn' => p \in LetIn
    <2>1. CASE BanCheck(p)
        <3>1. /\ reqs'[p].kind = reqs[p].kind /\ reqs'[p].key = reqs[p].key
              /\ reqs[p].pc = "banCheck"
            BY <2>1, Own DEF BanCheck, Return, RequestStep, At
        <3>2. reqs'[p].pc \in {"issue", "answered"}
            BY <2>1, EndOutcomes DEF WentOn, Went, Answered
        <3> QED
            BY <3>1, <3>2 DEF AtDoor, LetIn, At
    <2>2. CASE Return(p)
        <3>1. reqs'[p] = IdleRequest
            BY <2>2, EndOutcomes
        <3> QED
            BY <3>1 DEF AtDoor, LetIn, At, IdleRequest
    <2> QED
        BY <2>1, <2>2
<1>5. Asking' = Asking
    BY <1>2, <1>3, <1>4, OneVisit
<1>6. CASE p \in LetIn /\ p \notin LetIn'
    <2>1. LetIn' = LetIn \ {p}
        BY <1>2, <1>6, OneVisit
    <2> QED
        BY <1>1, <1>5, <1>6, <2>1 DEF SessionKeys!Leave, SessionKeys!keys
<1>7. CASE p \in LetIn <=> p \in LetIn'
    BY <1>1, <1>2, <1>5, <1>7, OneVisit
<1> QED
    BY <1>4, <1>6, <1>7

(* Every other statement of a request leaves the visitors where they are.   *)
LEMMA NoMove ==
    ASSUME Types, TicketsOK, NEW p \in Requests, RequestStep(p) \/ CreateLock(p),
           ~TicketFind(p), ~TicketExpiry(p), ~BanCheck(p), ~Return(p)
    PROVE  UNCHANGED <<Asking, LetIn>>
<1>1. \A r \in Requests \ {p} : SameVisit(r)
    BY Others DEF SameVisit
<1>2. reqs'[p].kind = reqs[p].kind /\ reqs'[p].key = reqs[p].key
    BY Own
<1>3. CASE AcceptTicket(p)
    <2>1. /\ reqs[p].pc = "issue" /\ reqs[p].kind \in Tickets
          /\ reqs'[p].pc = "answered" /\ reqs'[p].result = "ok"
        BY <1>3, EndOutcomes DEF AcceptTicket, Tickets
    <2>2. (p \in LetIn <=> p \in LetIn') /\ p \notin AtDoor /\ p \notin AtDoor'
        BY <1>2, <2>1 DEF LetIn, AtDoor, At
    <2> QED
        BY <1>1, <2>2, OneVisit
<1>4. ASSUME reqs[p].kind \notin Tickets, reqs[p].pc # "ticketFind", reqs'[p].pc # "ticketFind"
      PROVE  UNCHANGED <<Asking, LetIn>>
    <2>1. p \notin LetIn /\ p \notin LetIn' /\ p \notin AtDoor /\ p \notin AtDoor'
        BY <1>2, <1>4 DEF LetIn, AtDoor, At
    <2> QED
        BY <1>1, <2>1, OneVisit
<1>5. CASE IssueKey(p)
    <2>1. reqs[p].kind \notin Tickets
        BY <1>5 DEF IssueKey, Tickets
    <2>2. reqs[p].pc = "issue" /\ reqs'[p].pc = "answered"
        BY <1>5, EndOutcomes
    <2> QED
        BY <1>4, <2>1, <2>2
<1>6. CASE LoginFind(p) \/ AdminFind(p) \/ RenameFind(p) \/ CreateLock(p)
    <2>1. reqs[p].pc \in {"loginFind", "adminFind", "renameFind", "createLock"}
        BY <1>6 DEF LoginFind, AdminFind, RenameFind, CreateLock, At
    <2>2. reqs'[p].pc # "ticketFind"
        BY <1>6, LookOutcomes DEF WentOn, Went, Answered
    <2> QED
        BY <1>4, <2>1, <2>2 DEF TicketsOK, TicketStates
<1>7. CASE CreateFind(p) \/ CreateUid(p) \/ CreateInsert(p) \/ CreateReread(p)
    <2>1. reqs[p].pc \in Locked
        BY <1>7 DEF CreateFind, CreateUid, CreateInsert, CreateReread, At, Locked
    <2>2. reqs'[p].pc # "ticketFind"
        BY <1>7, CreateOutcomes DEF WentOn, Went, Answered
    <2> QED
        BY <1>4, <2>1, <2>2 DEF TicketsOK, TicketStates, Locked
<1>8. CASE RenameWrite(p)
    <2>1. reqs[p].pc = "renameWrite" /\ reqs'[p].pc # "ticketFind"
        BY <1>8, EndOutcomes DEF RenameWrite, At, Answered
    <2> QED
        BY <1>4, <2>1 DEF TicketsOK, TicketStates
<1> QED
    BY <1>3, <1>5, <1>6, <1>7, <1>8 DEF RequestStep

LEMMA TicketsOwn ==
    ASSUME Types, TicketsOK, NEW p \in Requests, RequestStep(p) \/ CreateLock(p)
    PROVE  /\ reqs'[p].kind \in Tickets => reqs'[p].pc \in TicketStates
           /\ reqs'[p].pc \in {"ticketFind", "ticketExpiry"} => reqs'[p].kind \in Tickets
<1>1. CASE Return(p)
    <2>1. reqs'[p] = IdleRequest
        BY <1>1, EndOutcomes
    <2> QED
        BY <2>1 DEF IdleRequest, Tickets
<1>2. CASE ~Return(p)
    <2>1. reqs'[p].kind = reqs[p].kind
        BY <1>2, Own
    <2>2. CASE TicketFind(p)
        <3>1. reqs[p].kind \in Tickets
            BY <2>2 DEF TicketsOK, TicketFind, At
        <3>2. reqs'[p].pc \in {"ticketExpiry", "answered"}
            BY <2>2, LookOutcomes DEF Went, Answered
        <3> QED
            BY <2>1, <3>1, <3>2 DEF TicketStates
    <2>3. CASE TicketExpiry(p) \/ BanCheck(p) \/ IssueKey(p) \/ AcceptTicket(p)
        <3>1. CASE TicketExpiry(p)
            BY <3>1, LookOutcomes DEF WentOn, Went, Answered, TicketStates
        <3>2. CASE BanCheck(p) \/ IssueKey(p) \/ AcceptTicket(p)
            BY <3>2, EndOutcomes DEF WentOn, Went, Answered, TicketStates
        <3> QED
            BY <2>3, <3>1, <3>2
    <2>4. ASSUME reqs[p].pc \notin TicketStates, reqs'[p].pc # "ticketFind", ~TicketFind(p)
          PROVE  /\ reqs'[p].kind \notin Tickets
                 /\ reqs'[p].pc \notin {"ticketFind", "ticketExpiry"}
        BY <2>1, <2>4, Arrivals DEF TicketsOK
    <2>5. CASE LoginFind(p) \/ AdminFind(p) \/ RenameFind(p) \/ CreateLock(p)
        <3>1. reqs[p].pc \in {"loginFind", "adminFind", "renameFind", "createLock"} /\ ~TicketFind(p)
            BY <2>5 DEF LoginFind, AdminFind, RenameFind, CreateLock, TicketFind, At
        <3>2. reqs'[p].pc # "ticketFind"
            BY <2>5, LookOutcomes DEF WentOn, Went, Answered
        <3> QED
            BY <2>4, <3>1, <3>2 DEF TicketStates
    <2>6. CASE CreateFind(p) \/ CreateUid(p) \/ CreateInsert(p) \/ CreateReread(p)
        <3>1. reqs[p].pc \in Locked /\ ~TicketFind(p)
            BY <2>6 DEF CreateFind, CreateUid, CreateInsert, CreateReread, TicketFind, At, Locked
        <3>2. reqs'[p].pc # "ticketFind"
            BY <2>6, CreateOutcomes DEF WentOn, Went, Answered
        <3> QED
            BY <2>4, <3>1, <3>2 DEF TicketStates, Locked
    <2>7. CASE RenameWrite(p)
        <3>1. /\ reqs[p].pc = "renameWrite" /\ ~TicketFind(p)
              /\ reqs'[p].pc # "ticketFind"
            BY <2>7, EndOutcomes DEF RenameWrite, TicketFind, At, Answered
        <3> QED
            BY <2>4, <3>1 DEF TicketStates
    <2> QED
        BY <1>2, <2>2, <2>3, <2>5, <2>6, <2>7 DEF RequestStep
<1> QED
    BY <1>1, <1>2

(* A ticket is made of the next key. *)
LEMMA TicketsGrow ==
    ASSUME Types, [Next]_vars
    PROVE  /\ nextKey' \in {nextKey, nextKey + 1}
           /\ \/ tickets' = tickets
              \/ /\ \E p \in Requests : IssueKey(p)
                 /\ nextKey' = nextKey + 1
                 /\ \A t \in tickets' : t \in tickets \/ t.key = nextKey
<1>1. CASE UNCHANGED table
    BY <1>1 DEF table
<1>2. ASSUME NEW p \in Requests, RequestStep(p) \/ CreateLock(p), ~IssueKey(p)
      PROVE  nextKey' \in {nextKey, nextKey + 1} /\ tickets' = tickets
    <2>1. CASE LookStep(p)
        BY <2>1, LookFrame DEF table
    <2>2. CASE CreateInsert(p) \/ AcceptTicket(p) \/ RenameWrite(p)
        BY <2>2 DEF CreateInsert, AcceptTicket, RenameWrite
    <2> QED
        BY <1>2, <2>1, <2>2 DEF RequestStep, LookStep
<1>3. ASSUME NEW p \in Requests, IssueKey(p)
      PROVE  /\ nextKey' = nextKey + 1
             /\ \A t \in tickets' : t \in tickets \/ t.key = nextKey
    <2> DEFINE t == [uid |-> reqs[p].uid, key |-> nextKey]
    <2>1. nextKey' = nextKey + 1 /\ tickets' = tickets \union {t}
        BY <1>3 DEF IssueKey
    <2>2. t.key = nextKey
        OBVIOUS
    <2> HIDE DEF t
    <2> QED
        BY <2>1, <2>2
<1>4. CASE AdminStep
    BY <1>4 DEF AdminStep, BanUser, UnbanUser, ResetUserToken, DeleteAccount, UpdateUID, AdminOp
<1>5. CASE Start \/ Tick \/ UNCHANGED vars
    BY <1>1, <1>5 DEF Start, StartLogin, StartTicket, StartCreate, StartRename, Begin, Tick, vars, table
<1> QED
    BY <1>2, <1>3, <1>4, <1>5 DEF Next

(* Only verify and combo login look for a key, and no key is issued twice.  *)
THEOREM TicketsInvariance == Spec => [](Types /\ Tables /\ TicketsOK)
<1>1. Init => TicketsOK
    BY DEF Init, TicketsOK, IdleRequest, Tickets
<1>2. Types /\ Tables /\ TicketsOK /\ [Next]_vars => TicketsOK'
    <2> SUFFICES ASSUME Types, Tables, TicketsOK, [Next]_vars PROVE TicketsOK'
        OBVIOUS
    <2>1. \A t \in tickets' : t.key # NoKey /\ t.key < nextKey'
        <3>1. nextKey \in Nat /\ nextKey > 0 /\ \A t \in tickets : t.key \in Nat
            BY DEF Types, TypeOK, Tables, Numbered
        <3>2. \A t \in tickets : t.key # NoKey /\ t.key < nextKey
            BY DEF TicketsOK
        <3> QED
            BY <3>1, <3>2, TicketsGrow DEF NoKey
    <2> DEFINE Fine(p) == /\ reqs'[p].kind \in Tickets => reqs'[p].pc \in TicketStates
                          /\ reqs'[p].pc \in {"ticketFind", "ticketExpiry"} => reqs'[p].kind \in Tickets
    <2>2. ASSUME NEW p \in Requests, SameVisit(p) PROVE Fine(p)
        BY <2>2 DEF SameVisit, TicketsOK
    <2>3. CASE Start
        <3>1. PICK p \in Requests :
                 /\ \A r \in Requests \ {p} : reqs'[r] = reqs[r]
                 /\ reqs'[p].pc \in {"loginFind", "ticketFind", "adminFind", "renameFind"}
                 /\ reqs'[p].kind \in {"verify", "grant"} <=> reqs'[p].pc = "ticketFind"
            BY <2>3, Begun
        <3>2. Fine(p)
            BY <3>1 DEF TicketsOK, Tickets, TicketStates
        <3>3. \A r \in Requests \ {p} : SameVisit(r)
            BY <3>1 DEF SameVisit
        <3> HIDE DEF Fine
        <3>4. \A r \in Requests : Fine(r)
            BY <2>2, <3>2, <3>3
        <3> QED
            BY <2>1, <3>4 DEF TicketsOK, Fine
    <2>4. CASE AdminStep \/ Tick
        BY <2>1, <2>2, <2>4, Watched DEF SameVisit, TicketsOK
    <2>5. CASE UNCHANGED vars
        BY <2>5 DEF vars, TicketsOK
    <2>6. ASSUME NEW p \in Requests, RequestStep(p) \/ CreateLock(p) PROVE TicketsOK'
        <3>1. \A r \in Requests \ {p} : SameVisit(r)
            BY <2>6, Others DEF SameVisit
        <3>2. Fine(p)
            BY <2>6, TicketsOwn
        <3> HIDE DEF Fine
        <3>3. \A r \in Requests : Fine(r)
            BY <2>2, <3>1, <3>2
        <3> QED
            BY <2>1, <3>3 DEF TicketsOK, Fine
    <2> QED
        BY <2>3, <2>4, <2>5, <2>6 DEF Next
<1> QED
    BY <1>1, <1>2, TablesInvariance, PTL DEF Spec

-----------------------------------------------------------------------------
(* Whom a verify or combo login lets in has an expiry, which begins with a    *)
(* login and never ends but with the account.                              *)
LEMMA ExpiriesStay ==
    ASSUME Types, [Next]_vars
    PROVE  \A x \in accounts' : (\E r \in accounts : Aged(x, r)) \/ x.id = nextId
<1>1. \A r : Aged(r, r)
    BY DEF Aged
<1>2. \A r \in accounts : r \in Row
    BY DEF Types, TypeOK
<1>3. ASSUME NEW p \in Requests, RenameWrite(p)
      PROVE  \A x \in accounts' : \E r \in accounts : Aged(x, r)
    <2>1. \A r \in accounts : Aged([r EXCEPT !.name = reqs[p].to], r)
        BY <1>2 DEF Row, Aged
    <2>2. CASE accounts' = {IF r.name = reqs[p].name THEN [r EXCEPT !.name = reqs[p].to]
                            ELSE r : r \in accounts}
        BY <1>1, <2>1, <2>2
    <2>3. CASE accounts' = accounts
        BY <1>1, <2>3
    <2> QED
        BY <1>3, <2>2, <2>3 DEF RenameWrite
<1>4. ASSUME NEW n, NEW u, UpdateUID(n, u)
      PROVE  \A x \in accounts' : \E r \in accounts : Aged(x, r)
    <2>1. \A r \in accounts : Aged([r EXCEPT !.uid = u], r)
        BY <1>2 DEF Row, Aged
    <2>2. accounts' = {IF r.name = n THEN [r EXCEPT !.uid = u] ELSE r : r \in accounts}
        BY <1>4 DEF UpdateUID
    <2> QED
        BY <1>1, <2>1, <2>2
<1>5. ASSUME NEW p \in Requests, RequestStep(p) \/ CreateLock(p), ~RenameWrite(p)
      PROVE  \A x \in accounts' : (\E r \in accounts : Aged(x, r)) \/ x.id = nextId
    BY <1>5, StatementRows DEF SameAccount, Inserted
<1>6. CASE AdminStep \/ Tick
    BY <1>4, <1>6, AdminRows DEF SameAccount
<1>7. CASE Start \/ UNCHANGED vars
    BY <1>1, <1>7, Begun DEF vars, table
<1> QED
    BY <1>3, <1>5, <1>6, <1>7 DEF Next

LEMMA IdsGrow ==
    ASSUME Types, [Next]_vars
    PROVE  nextId' \in {nextId, nextId + 1}
<1>1. CASE UNCHANGED table
    BY <1>1 DEF table
<1>2. ASSUME NEW p \in Requests, RequestStep(p) \/ CreateLock(p)
      PROVE  nextId' \in {nextId, nextId + 1}
    <2>1. CASE LookStep(p)
        BY <2>1, LookFrame DEF table
    <2>2. CASE CreateInsert(p) \/ IssueKey(p) \/ AcceptTicket(p) \/ RenameWrite(p)
        BY <2>2 DEF CreateInsert, IssueKey, AcceptTicket, RenameWrite
    <2> QED
        BY <1>2, <2>1, <2>2 DEF RequestStep, LookStep
<1>3. CASE AdminStep
    BY <1>3 DEF AdminStep, BanUser, UnbanUser, ResetUserToken, DeleteAccount, UpdateUID, AdminOp
<1>4. CASE Start \/ Tick \/ UNCHANGED vars
    BY <1>1, <1>4 DEF Start, StartLogin, StartTicket, StartCreate, StartRename, Begin, Tick, vars, table
<1> QED
    BY <1>2, <1>3, <1>4 DEF Next

Entitled(p) ==
    \E r \in accounts : r.uid = reqs[p].uid /\ r.name = reqs[p].name /\ r.expires # NoTime

Admittable(p) == \A r \in accounts : r.id \in reqs[p].admitted => r.expires # NoTime

(* Past the look at the expiry, and let in. *)
Entered ==
    \A p \in Requests :
        /\ \A i \in reqs[p].admitted : i < nextId
        /\ reqs[p].kind \in Tickets /\ ~reqs[p].removed =>
             /\ reqs[p].pc \in {"banCheck", "issue"} => Entitled(p)
             /\ reqs[p].result = "ok" => reqs[p].pc = "answered" /\ Admittable(p)

(* The request that takes the step. *)
LEMMA EnteredOwn ==
    ASSUME Types, Tables, TicketsOK, Found, Entered, NEW p \in Requests,
           RequestStep(p) \/ CreateLock(p), ~Return(p), ~reqs'[p].removed, reqs'[p].kind \in Tickets
    PROVE  /\ reqs'[p].pc \in {"banCheck", "issue"} => Entitled(p)'
           /\ reqs'[p].result = "ok" => reqs'[p].pc = "answered" /\ Admittable(p)'
<1>1. ~reqs[p].removed /\ reqs[p].kind \in Tickets /\ reqs[p].pc \in TicketStates
    BY Own DEF TicketsOK
<1>2. TicketFind(p) \/ TicketExpiry(p) \/ BanCheck(p) \/ AcceptTicket(p)
    BY <1>1 DEF RequestStep, CreateLock, LoginFind, AdminFind, CreateFind, CreateUid, CreateInsert,
       CreateReread, IssueKey, RenameFind, RenameWrite, Return, At, TicketStates, Tickets
<1>3. reqs[p].result = "ok" => FALSE
    BY <1>1, <1>2 DEF Entered, TicketFind, TicketExpiry, BanCheck, AcceptTicket, At
<1>4. CASE TicketFind(p)
    BY <1>3, <1>4, LookOutcomes DEF Went, Answered
<1>5. CASE TicketExpiry(p)
    <2>1. CASE Answered(p, "expired")
        BY <2>1 DEF Answered
    <2>2. CASE ~Answered(p, "expired")
        <3>1. /\ WentOn(p, "banCheck") /\ reqs[p].pc = "ticketExpiry"
              /\ \E r \in ByUid(reqs[p].uid) : r.expires # NoTime
            BY <1>5, <2>2, LookOutcomes
        <3>2. PICK r \in accounts : r.uid = reqs[p].uid /\ r.expires # NoTime
            BY <3>1 DEF ByUid
        <3>3. PICK s \in accounts : s.uid = reqs[p].uid /\ s.name = reqs[p].name
            BY <1>1, <3>1 DEF Found, Relying, Met
        <3>4. r = s
            BY <3>2, <3>3 DEF Tables, RowsUnique
        <3>5. accounts' = accounts
            BY <1>5 DEF TicketExpiry, table
        <3> QED
            BY <1>3, <3>1, <3>2, <3>3, <3>4, <3>5 DEF WentOn, Went, Entitled
    <2> QED
        BY <2>1, <2>2
<1>6. CASE BanCheck(p)
    <2>1. reqs[p].pc = "banCheck" /\ accounts' = accounts
        BY <1>6 DEF BanCheck, At, table
    <2>2. Entitled(p)
        BY <1>1, <2>1 DEF Entered
    <2>3. WentOn(p, "issue") \/ Answered(p, "banned") \/ Answered(p, "panic")
        BY <1>6, EndOutcomes
    <2> QED
        BY <1>3, <2>1, <2>2, <2>3 DEF WentOn, Went, Answered, Entitled
<1>7. CASE AcceptTicket(p)
    <2>1. /\ reqs[p].pc = "issue" /\ reqs'[p].pc = "answered"
          /\ reqs'[p].admitted = IdsOf(ByUid(reqs[p].uid))
        BY <1>7, EndOutcomes
    <2>2. PICK e \in accounts : e.uid = reqs[p].uid /\ e.expires # NoTime
        BY <1>1, <2>1 DEF Entered, Entitled
    <2>3. ASSUME NEW x \in accounts', x.id \in reqs'[p].admitted
          PROVE  x.expires # NoTime
        <3>1. PICK s \in accounts : s.uid = reqs[p].uid /\ s.id = x.id
            BY <2>1, <2>3 DEF IdsOf, ByUid
        <3>2. s = e
            BY <2>2, <3>1 DEF Tables, RowsUnique
        <3>3. ~CreateInsert(p) /\ ~RenameWrite(p)
            BY <1>7 DEF AcceptTicket, CreateInsert, RenameWrite, At
        <3>4. PICK r \in accounts : Aged(x, r)
            BY <1>7, <3>3, StatementRows DEF RequestStep, SameAccount, Inserted
        <3>5. r = e
            BY <3>1, <3>2, <3>4 DEF Tables, RowsUnique, Aged
        <3> QED
            BY <2>2, <3>4, <3>5 DEF Aged
    <2> QED
        BY <2>1, <2>3 DEF Admittable
<1> QED
    BY <1>2, <1>4, <1>5, <1>6, <1>7

LEMMA EnteredStep ==
    ASSUME Types, Tables, TicketsOK, Found, Entered, [Next]_vars
    PROVE  Entered'
<1>1. nextId \in Nat /\ nextId' \in {nextId, nextId + 1}
    BY IdsGrow DEF Types, TypeOK
<1>2. \A i \in Nat : i < nextId => i < nextId'
    BY <1>1
<1>3. \A r \in Requests : reqs[r].admitted \subseteq Nat
    BY DEF Types, TypeOK, Request
<1> DEFINE Good(q) ==
             /\ \A i \in reqs[q].admitted : i < nextId
             /\ reqs[q].kind \in Tickets /\ ~reqs[q].removed =>
                  /\ reqs[q].pc \in {"banCheck", "issue"} => Entitled(q)
                  /\ reqs[q].result = "ok" => reqs[q].pc = "answered" /\ Admittable(q)
           Still(q) == /\ reqs'[q].pc = reqs[q].pc /\ reqs'[q].name = reqs[q].name
                       /\ reqs'[q].uid = reqs[q].uid /\ reqs'[q].kind = reqs[q].kind
                       /\ reqs'[q].result = reqs[q].result /\ reqs'[q].admitted = reqs[q].admitted
                       /\ reqs[q].removed => reqs'[q].removed
<1>4. ASSUME NEW q \in Requests, Still(q), reqs'[q].removed \/ KeptFor(q)
      PROVE  Good(q)'
    <2>1. \A i \in reqs'[q].admitted : i < nextId'
        BY <1>2, <1>3, <1>4 DEF Entered
    <2>2. ASSUME Admittable(q) PROVE Admittable(q)'
        <3>1. ASSUME NEW x \in accounts', x.id \in reqs'[q].admitted
              PROVE  x.expires # NoTime
            <4>1. x.id < nextId /\ x.id \in Nat
                BY <1>3, <1>4, <3>1 DEF Entered
            <4>2. PICK r \in accounts : Aged(x, r)
                BY <1>1, <4>1, ExpiriesStay
            <4> QED
                BY <1>4, <2>2, <3>1, <4>2 DEF Admittable, Aged
        <3> QED
            BY <3>1 DEF Admittable
    <2>3. ASSUME Entitled(q), ~reqs'[q].removed PROVE Entitled(q)'
        BY <1>4, <2>3 DEF Entitled, KeptFor, SameAccount, Aged
    <2> QED
        BY <1>4, <2>1, <2>2, <2>3 DEF Entered
<1>5. ASSUME accounts' = accounts, NEW q PROVE KeptFor(q)
    BY <1>5 DEF KeptFor, SameAccount, Aged
<1>6. ASSUME NEW q \in Requests
      PROVE  Good(q)'
    <2>1. ASSUME NEW p \in Requests, RequestStep(p) \/ CreateLock(p), p # q
          PROVE  Good(q)'
        <3>1. Still(q)
            BY <2>1, Others
        <3>2. reqs'[q].removed \/ KeptFor(q)
            BY <2>1, StatementRows, RenameRows DEF KeptFor
        <3> HIDE DEF Good, Still
        <3> QED
            BY <1>4, <3>1, <3>2
    <2>2. CASE RequestStep(q) \/ CreateLock(q)
        <3>1. CASE Return(q)
            <4>1. reqs'[q].kind = "none" /\ reqs'[q].admitted = {}
                BY <3>1, EndOutcomes DEF IdleRequest
            <4> QED
                BY <4>1 DEF Tickets
        <3>2. CASE ~Return(q)
            <4>1. ASSUME NEW i \in reqs'[q].admitted PROVE i < nextId'
                <5>1. CASE reqs'[q].admitted \in {reqs[q].admitted, {}}
                    BY <1>2, <1>3, <4>1, <5>1 DEF Entered
                <5>2. CASE IssueKey(q) \/ AcceptTicket(q)
                    <6>1. PICK r \in accounts : r.id = i
                        BY <4>1, <5>2, EndOutcomes DEF IdsOf, ByUid
                    <6>2. i \in Nat /\ i < nextId
                        BY <6>1 DEF Types, TypeOK, Row, Tables, Numbered
                    <6> QED
                        BY <1>2, <6>2
                <5> QED
                    BY <2>2, <5>1, <5>2, Arrivals
            <4> QED
                BY <2>2, <3>2, <4>1, EnteredOwn
        <3> QED
            BY <3>1, <3>2
    <2>3. CASE AdminStep \/ Tick
        <3>1. Still(q)
            BY <2>3, Watched
        <3>2. reqs'[q].removed \/ KeptFor(q)
            BY <2>3, AdminRows
        <3> HIDE DEF Good, Still
        <3> QED
            BY <1>4, <3>1, <3>2
    <2>4. CASE Start
        <3>1. PICK p \in Requests :
                /\ \A r \in Requests \ {p} : reqs'[r] = reqs[r]
                /\ UNCHANGED table
                /\ reqs'[p].pc \in {"loginFind", "ticketFind", "adminFind", "renameFind"}
                /\ reqs'[p].result = "none" /\ reqs'[p].admitted = {}
            BY <2>4, Begun
        <3>2. CASE q = p
            BY <3>1, <3>2
        <3>3. CASE q # p
            <4>1. Still(q) /\ KeptFor(q)
                BY <1>5, <3>1, <3>3 DEF table
            <4> HIDE DEF Good, Still
            <4> QED
                BY <1>4, <4>1
        <3> QED
            BY <3>2, <3>3
    <2>5. CASE UNCHANGED vars
        <3>1. Still(q) /\ KeptFor(q)
            BY <1>5, <2>5 DEF vars
        <3> HIDE DEF Good, Still
        <3> QED
            BY <1>4, <3>1
    <2> HIDE DEF Good
    <2> QED
        BY <2>1, <2>2, <2>3, <2>4, <2>5 DEF Next
<1> QED
    BY <1>6 DEF Entered

(* Whatever uid and text a client presents, verify and combo login let       *)
(* nobody in to an account that no login has been answered for: the account  *)
(* has an expiry still, unless it was deleted, renamed or renumbered during  *)
(* the request (isTokenExpired, and token_expires_at, which neither a ban    *)
(* nor a reset clears).                                                    *)
THEOREM EntriesNeedLogin == Spec => []EntryNeedsLogin
<1>1. Init => Entered
    BY DEF Init, Entered, IdleRequest, Tickets
<1>2. Types /\ Tables /\ TicketsOK /\ Found /\ Entered /\ [Next]_vars => Entered'
    BY EnteredStep
<1>3. Entered => EntryNeedsLogin
    BY DEF Entered, EntryNeedsLogin, Admittable
<1> QED
    BY <1>1, <1>2, <1>3, TicketsInvariance, FoundInvariance, PTL DEF Spec

-----------------------------------------------------------------------------
(* The sessions of the accounts implement Sessions. *)

(* Rows that keep their keys. *)
LEMMA SameKeys ==
    ASSUME \A x \in accounts' : \E r \in accounts : x.key = r.key,
           \A r \in accounts : \E x \in accounts' : x.key = r.key
    PROVE  KeysOf(accounts)' = KeysOf(accounts)
<1>1. \A k : k \in KeysOf(accounts) <=> k # NoKey /\ \E r \in accounts : r.key = k
    BY LiveKeys
<1>2. \A k : k \in KeysOf(accounts)' <=> k # NoKey /\ \E x \in accounts' : x.key = k
    BY DEF KeysOf
<1>3. \A k : k \in KeysOf(accounts)' <=> k \in KeysOf(accounts)
    BY <1>1, <1>2
<1> QED
    BY <1>3

(* Statements that end the sessions of the rows with a name. *)
LEMMA KeysEnd ==
    ASSUME Tables, NEW n, UNCHANGED <<tickets, Asking, LetIn>>,
           retired' = retired \union KeysOf(ByName(n)),
           \A x \in accounts' : x.key = NoKey \/ \E r \in accounts : r.name # n /\ x.key = r.key,
           \A r \in accounts : r.name # n => \E x \in accounts' : x.key = r.key
    PROVE  SessionKeys!Lapse
<1>1. \A k : k \in KeysOf(accounts) <=> k # NoKey /\ \E r \in accounts : r.key = k
    BY LiveKeys
<1>2. \A k : k \in KeysOf(accounts)' <=> k # NoKey /\ \E x \in accounts' : x.key = k
    BY DEF KeysOf
<1>3. \A k : k \in KeysOf(ByName(n)) <=> k # NoKey /\ \E r \in accounts : r.name = n /\ r.key = k
    BY LiveKeys DEF ByName
<1>4. \A r, s \in accounts : r.key = s.key /\ r.key # NoKey => r = s
    BY DEF Tables, RowsUnique
<1>5. KeysOf(accounts)' \subseteq KeysOf(accounts)
    BY <1>1, <1>2
<1>6. KeysOf(ByName(n)) = KeysOf(accounts) \ KeysOf(accounts)'
    BY <1>1, <1>2, <1>3, <1>4
<1>7. UNCHANGED Given
    BY DEF Given
<1> QED
    BY <1>5, <1>6, <1>7 DEF SessionKeys!Lapse, SessionKeys!visits

LEMMA AdminSessions ==
    ASSUME Types, Tables, AdminStep
    PROVE  SessionKeys!Lapse \/ UNCHANGED <<Given, KeysOf(accounts), retired, Asking, LetIn>>
<1>1. UNCHANGED <<Asking, LetIn>>
    BY Watched, SameVisits DEF SameVisit
<1>2. \A r \in accounts : r \in Row
    BY DEF Types, TypeOK
<1>3. UNCHANGED tickets /\ UNCHANGED Given
    BY DEF AdminStep, BanUser, UnbanUser, ResetUserToken, DeleteAccount, UpdateUID, AdminOp, Given
<1>4. ASSUME NEW n \in Names, NEW permanent, NEW until, BanUser(n, permanent, until)
      PROVE  SessionKeys!Lapse
    <2> DEFINE New(r) == IF r.name = n
                         THEN [r EXCEPT !.permanent = permanent, !.until = until, !.key = NoKey] ELSE r
    <2>1. /\ accounts' = {New(r) : r \in accounts}
          /\ retired' = retired \union KeysOf(ByName(n))
        BY <1>4 DEF BanUser
    <2>2. \A r \in accounts : New(r).key = IF r.name = n THEN NoKey ELSE r.key
        BY <1>2 DEF Row
    <2> HIDE DEF New
    <2>3. \A x \in accounts' : x.key = NoKey \/ \E r \in accounts : r.name # n /\ x.key = r.key
        BY <2>1, <2>2
    <2>4. \A r \in accounts : r.name # n => \E x \in accounts' : x.key = r.key
        BY <2>1, <2>2
    <2> QED
        BY <1>1, <1>3, <2>1, <2>3, <2>4, KeysEnd
<1>5. ASSUME NEW n \in Names, ResetUserToken(n)
      PROVE  SessionKeys!Lapse
    <2> DEFINE New(r) == IF r.name = n THEN [r EXCEPT !.key = NoKey] ELSE r
    <2>1. /\ accounts' = {New(r) : r \in accounts}
          /\ retired' = retired \union KeysOf(ByName(n))
        BY <1>5 DEF ResetUserToken
    <2>2. \A r \in accounts : New(r).key = IF r.name = n THEN NoKey ELSE r.key
        BY <1>2 DEF Row
    <2> HIDE DEF New
    <2>3. \A x \in accounts' : x.key = NoKey \/ \E r \in accounts : r.name # n /\ x.key = r.key
        BY <2>1, <2>2
    <2>4. \A r \in accounts : r.name # n => \E x \in accounts' : x.key = r.key
        BY <2>1, <2>2
    <2> QED
        BY <1>1, <1>3, <2>1, <2>3, <2>4, KeysEnd
<1>6. ASSUME NEW n \in Names, DeleteAccount(n)
      PROVE  SessionKeys!Lapse
    <2>1. /\ \A x : x \in accounts' <=> x \in accounts /\ x.name # n
          /\ retired' = retired \union KeysOf(ByName(n))
        BY <1>6 DEF DeleteAccount, ByName
    <2> QED
        BY <1>1, <1>3, <2>1, KeysEnd
<1>7. ASSUME NEW n \in Names, UnbanUser(n)
      PROVE  UNCHANGED <<KeysOf(accounts), retired>>
    <2> DEFINE New(r) == IF r.name = n THEN [r EXCEPT !.permanent = FALSE, !.until = NoTime] ELSE r
    <2>1. accounts' = {New(r) : r \in accounts} /\ retired' = retired
        BY <1>7 DEF UnbanUser
    <2>2. \A r \in accounts : New(r).key = r.key
        BY <1>2 DEF Row
    <2> HIDE DEF New
    <2> QED
        BY <2>1, <2>2, SameKeys
<1>8. ASSUME NEW n \in Names, NEW u, UpdateUID(n, u)
      PROVE  UNCHANGED <<KeysOf(accounts), retired>>
    <2> DEFINE New(r) == IF r.name = n THEN [r EXCEPT !.uid = u] ELSE r
    <2>1. accounts' = {New(r) : r \in accounts} /\ retired' = retired
        BY <1>8 DEF UpdateUID
    <2>2. \A r \in accounts : New(r).key = r.key
        BY <1>2 DEF Row
    <2> HIDE DEF New
    <2> QED
        BY <2>1, <2>2, SameKeys
<1>9. \/ SessionKeys!Lapse
      \/ UNCHANGED <<KeysOf(accounts), retired>>
    BY <1>4, <1>5, <1>6, <1>7, <1>8, NamesOfRows DEF AdminStep
<1> QED
    BY <1>1, <1>3, <1>9

(* The statements that issue a key, and those that only touch rows. *)
LEMMA WriteSessions ==
    ASSUME Types, Tables, TicketsOK, NEW p \in Requests,
           CreateInsert(p) \/ IssueKey(p) \/ AcceptTicket(p) \/ RenameWrite(p)
    PROVE  SessionKeys!Issue \/ UNCHANGED <<Given, KeysOf(accounts), retired, Asking, LetIn>>
<1> DEFINE k == nextKey
<1>1. UNCHANGED <<Asking, LetIn>>
    <2>1. ~TicketFind(p) /\ ~TicketExpiry(p) /\ ~BanCheck(p) /\ ~Return(p)
        BY DEF CreateInsert, IssueKey, AcceptTicket, RenameWrite, TicketFind, TicketExpiry, BanCheck,
               Return, At
    <2> QED
        BY <2>1, NoMove DEF RequestStep
<1>2. \A r \in accounts : r \in Row
    BY DEF Types, TypeOK
<1>3. \A j : j \in KeysOf(accounts) <=> j # NoKey /\ \E r \in accounts : r.key = j
    BY LiveKeys
<1>4. \A j : j \in KeysOf(accounts)' <=> j # NoKey /\ \E x \in accounts' : x.key = j
    BY DEF KeysOf
<1>5. /\ k \in Nat /\ k # NoKey
      /\ k \notin Given /\ k \notin KeysOf(accounts) /\ k \notin retired
    <2>1. k \in Nat /\ k # NoKey
        BY DEF Types, TypeOK, Tables, Numbered, NoKey
    <2>2. \A t \in tickets : t.key # k
        BY <2>1 DEF TicketsOK
    <2>3. \A r \in accounts : r.key # k
        BY <2>1 DEF Tables, Numbered
    <2>4. k \notin retired
        BY <2>1 DEF Tables, Numbered
    <2> QED
        BY <1>3, <2>1, <2>2, <2>3, <2>4 DEF Given
<1>6. ASSUME CreateInsert(p), accounts' # accounts
      PROVE  SessionKeys!Issue
    <2> DEFINE row == [id |-> nextId, uid |-> reqs[p].uid, name |-> reqs[p].name,
                       key |-> nextKey, expires |-> NoTime, permanent |-> FALSE,
                       until |-> NoTime]
    <2>1. accounts' = accounts \union {row} /\ UNCHANGED <<tickets, retired>>
        BY <1>6 DEF CreateInsert
    <2>2. row.key = k
        OBVIOUS
    <2> HIDE DEF row
    <2>3. KeysOf(accounts)' = (KeysOf(accounts) \ {}) \union {k}
        BY <1>3, <1>4, <1>5, <2>1, <2>2
    <2>4. Given' = Given /\ retired' = retired \union {}
        BY <2>1 DEF Given
    <2>5. k \in (Given \union KeysOf(accounts))' \ (Given \union KeysOf(accounts) \union retired)
        BY <1>5, <2>3, <2>4
    <2> QED
        BY <1>1, <2>1, <2>3, <2>4, <2>5 DEF SessionKeys!Issue, SessionKeys!visits
<1>7. ASSUME IssueKey(p)
      PROVE  SessionKeys!Issue
    <2> DEFINE t == [uid |-> reqs[p].uid, key |-> nextKey]
               u == reqs[p].uid
               ended == KeysOf(ByUid(u))
               New(r) == IF r.uid = u THEN [r EXCEPT !.key = nextKey, !.expires = Expiry] ELSE r
    <2>1. Given' = Given \union {k}
        <3>1. tickets' = tickets \union {t}
            BY <1>7 DEF IssueKey
        <3>2. t.key = k
            OBVIOUS
        <3> HIDE DEF t
        <3> QED
            BY <3>1, <3>2 DEF Given
    <2>2. k \in (Given \union KeysOf(accounts))' \ (Given \union KeysOf(accounts) \union retired)
        BY <1>5, <2>1
    <2>3. CASE UNCHANGED <<accounts, retired>>
        <3>1. KeysOf(accounts)' = KeysOf(accounts) \ {} /\ retired' = retired \union {}
            BY <2>3 DEF KeysOf
        <3> QED
            BY <1>1, <2>1, <2>2, <3>1 DEF SessionKeys!Issue, SessionKeys!visits
    <2>4. CASE accounts' = {New(r) : r \in accounts} /\ retired' = retired \union ended
        <3>1. \A r \in accounts : New(r).key = IF r.uid = u THEN k ELSE r.key
            BY <1>2 DEF Row
        <3> HIDE DEF New
        <3>2. \A j : j \in ended <=> j # NoKey /\ \E r \in accounts : r.uid = u /\ r.key = j
            BY LiveKeys DEF ByUid
        <3>3. \A r, s \in accounts : r.uid = s.uid \/ (r.key = s.key /\ r.key # NoKey) => r = s
            BY DEF Tables, RowsUnique
        <3>4. ended \in {{}} \union {{j} : j \in KeysOf(accounts)}
            <4>1. CASE ended # {}
                <5>1. PICK j : j \in ended
                    BY <4>1
                <5>2. ended = {j} /\ j \in KeysOf(accounts)
                    BY <1>3, <3>2, <3>3, <5>1
                <5> QED
                    BY <5>2
            <4> QED
                BY <4>1
        <3>5. \A j : j \in KeysOf(accounts)' <=>
                        \/ j = k /\ \E r \in accounts : r.uid = u
                        \/ j # NoKey /\ \E r \in accounts : r.uid # u /\ r.key = j
            BY <1>4, <1>5, <2>4, <3>1
        <3>6. KeysOf(accounts)' \in {KeysOf(accounts) \ ended, (KeysOf(accounts) \ ended) \union {k}}
            <4>1. \A j : j \in KeysOf(accounts) \ ended <=>
                            j # NoKey /\ \E r \in accounts : r.uid # u /\ r.key = j
                BY <1>3, <3>2, <3>3
            <4> QED
                BY <3>5, <4>1
        <3> HIDE DEF ended
        <3> QED
            BY <1>1, <2>1, <2>2, <2>4, <3>4, <3>6 DEF SessionKeys!Issue, SessionKeys!visits
    <2> QED
        BY <1>7, <2>3, <2>4 DEF IssueKey
<1>8. ASSUME AcceptTicket(p)
      PROVE  UNCHANGED <<Given, KeysOf(accounts), retired>>
    <2> DEFINE New(r) == IF r.uid = reqs[p].uid /\ reqs[p].kind = "verify"
                         THEN [r EXCEPT !.expires = Expiry] ELSE r
    <2>1. UNCHANGED <<Given, retired>> /\ accounts' \in {accounts, {New(r) : r \in accounts}}
        BY <1>8 DEF AcceptTicket, Given
    <2>2. \A r \in accounts : New(r).key = r.key
        BY <1>2 DEF Row
    <2> HIDE DEF New
    <2> QED
        BY <2>1, <2>2, SameKeys
<1>9. ASSUME RenameWrite(p)
      PROVE  UNCHANGED <<Given, KeysOf(accounts), retired>>
    <2> DEFINE New(r) == IF r.name = reqs[p].name THEN [r EXCEPT !.name = reqs[p].to] ELSE r
    <2>1. UNCHANGED <<Given, retired>> /\ accounts' \in {accounts, {New(r) : r \in accounts}}
        BY <1>9 DEF RenameWrite, Given
    <2>2. \A r \in accounts : New(r).key = r.key
        BY <1>2 DEF Row
    <2> HIDE DEF New
    <2> QED
        BY <2>1, <2>2, SameKeys
<1>10. ASSUME CreateInsert(p), accounts' = accounts
       PROVE  UNCHANGED <<Given, KeysOf(accounts), retired>>
    BY <1>10 DEF CreateInsert, Given, KeysOf
<1> QED
    BY <1>1, <1>6, <1>7, <1>8, <1>9, <1>10

LEMMA BeginSessions ==
    ASSUME Types, TicketsOK, Start
    PROVE  SessionKeys!Ask \/ UNCHANGED <<Given, KeysOf(accounts), retired, Asking, LetIn>>
<1>1. PICK p \in Requests :
         /\ reqs[p].pc = "idle" /\ UNCHANGED table
         /\ \A r \in Requests \ {p} : reqs'[r] = reqs[r]
         /\ reqs'[p].pc \in {"loginFind", "ticketFind", "adminFind", "renameFind"}
    BY Begun
<1>2. UNCHANGED <<Given, KeysOf(accounts), retired>>
    BY <1>1, KeysStay
<1>3. \A r \in Requests \ {p} : SameVisit(r)
    BY <1>1 DEF SameVisit
<1>4. p \notin AtDoor /\ p \notin LetIn /\ p \notin LetIn'
    BY <1>1 DEF AtDoor, LetIn, At
<1>5. LetIn' = LetIn
    BY <1>3, <1>4, OneVisit
<1>6. CASE p \notin AtDoor'
    BY <1>2, <1>3, <1>4, <1>5, <1>6, OneVisit
<1>7. CASE p \in AtDoor'
    <2> DEFINE visit == <<p, reqs'[p].key>>
    <2>2. Asking' = Asking \union {visit}
        BY <1>3, <1>4, <1>7, OneVisit
    <2>4. visit[1] \in Requests \ (LetIn \union {other[1] : other \in Asking})
        <3>1. \A other \in Asking : other[1] \in AtDoor
            BY DEF Asking
        <3> QED
            BY <1>4, <3>1
    <2>5. visit \in Asking'
        BY <2>2
    <2> HIDE DEF visit
    <2> QED
        BY <1>2, <1>5, <2>2, <2>4, <2>5 DEF SessionKeys!Ask, SessionKeys!keys
<1> QED
    BY <1>6, <1>7

(* The logins of the game keep what Sessions promises of any number of       *)
(* accounts, clients and keys, whatever uids and texts clients present: a    *)
(* verify or combo login with a text that is not empty and is not refused    *)
(* presented a key that an account held while the request was in progress,   *)
(* and a key that a login, a ban, a reset or a deletion ended is never live  *)
(* again (handleLogin, handleVerify, handleGranterLogin and the tables of    *)
(* accounts).  The empty text is outside: it is accepted where a ban or a    *)
(* reset cleared the key, and EntriesNeedLogin says what holds of it.        *)
THEOREM SessionsOfAccounts == Spec => KeysAreSessions
<1> DEFINE Mapped == <<<<Given, KeysOf(accounts), retired>>, <<Asking, LetIn>>>>
<1>1. Init => SessionKeys!SessionsInit
    BY DEF Init, SessionKeys!SessionsInit, Given, KeysOf, Asking, AtDoor, LetIn, At, IdleRequest, Tickets
<1>2. Types /\ Tables /\ TicketsOK /\ [Next]_vars => [SessionKeys!SessionsNext]_Mapped
    <2> SUFFICES ASSUME Types, Tables, TicketsOK, [Next]_vars
                 PROVE  SessionKeys!SessionsNext \/ UNCHANGED <<Given, KeysOf(accounts), retired, Asking, LetIn>>
        OBVIOUS
    <2> USE DEF SessionKeys!SessionsNext
    <2>1. CASE Start
        BY <2>1, BeginSessions
    <2>2. CASE AdminStep
        BY <2>2, AdminSessions
    <2>3. CASE Tick \/ UNCHANGED vars
        <3>1. UNCHANGED table
            BY <2>3 DEF Tick, vars, table
        <3>2. \A r \in Requests : SameVisit(r)
            BY <2>3, Watched DEF SameVisit, vars
        <3> QED
            BY <3>1, <3>2, KeysStay, SameVisits
    <2>4. ASSUME NEW p \in Requests, RequestStep(p) \/ CreateLock(p)
          PROVE  \/ SessionKeys!SessionsNext
                 \/ UNCHANGED <<Given, KeysOf(accounts), retired, Asking, LetIn>>
        <3>1. CASE TicketFind(p) \/ TicketExpiry(p)
            BY <3>1, TicketMoves
        <3>2. CASE BanCheck(p) \/ Return(p)
            BY <3>2, EndMoves
        <3>3. CASE CreateInsert(p) \/ IssueKey(p) \/ AcceptTicket(p) \/ RenameWrite(p)
            BY <3>3, WriteSessions
        <3>4. ASSUME LookStep(p), ~TicketFind(p), ~TicketExpiry(p), ~BanCheck(p), ~Return(p)
              PROVE  UNCHANGED <<Given, KeysOf(accounts), retired, Asking, LetIn>>
            BY <2>4, <3>4, NoMove, LookFrame, KeysStay
        <3> QED
            BY <2>4, <3>1, <3>2, <3>3, <3>4 DEF RequestStep, LookStep
    <2> QED
        BY <2>1, <2>2, <2>3, <2>4 DEF Next
<1> QED
    BY <1>1, <1>2, TicketsInvariance, PTL
       DEF Spec, KeysAreSessions, SessionKeys!SessionsSpec, SessionKeys!keys, SessionKeys!visits
=============================================================================
