------------------------------- MODULE Dispatch -------------------------------
(***************************************************************************)
(* handleCurRegion of server.go, the request by which a client learns the  *)
(* game server of a region, and the cache of encrypted answers (crypto.go) *)
(* it ends in.  The handler copies the configuration once; the copy shares *)
(* the array of the regions with every reload.  The seed check and the     *)
(* hotfix files have modules of their own: here they decide either way.    *)
(***************************************************************************)
EXTENDS Configuration

CONSTANTS StopWindows,   \* Rests whose stopServer gives a window
          KeyIds,        \* the key_id a client may send
          EncryptionKeys \* those with a public key

ASSUME DispatchAssumption ==
    StopWindows \subseteq Rests /\ EncryptionKeys \subseteq KeyIds

VARIABLE regionRespCache   \* encrypted answers, by key id and hash of the text

DispatchInit == regionRespCache = {}

(* incrementHotUpdateCount and getConfig.  array: what the shared array     *)
(* held then.  raced: a reload has written to it since.                     *)
AskRegion(r, name, key) ==
    /\ up
    /\ CanRead
    /\ req[r] = Idle
    /\ Costs(2)
    /\ Becomes(r, [pc |-> "seed", name |-> name, key |-> key, copy |-> cfg, array |-> slots,
                   raced |-> FALSE, text |-> None, sent |-> None])
    /\ UNCHANGED <<configVars, regionRespCache>>

Answer(r, text) == Becomes(r, [req[r] EXCEPT !.pc = "encrypt", !.text = text])

(* seedReject comes first: isProbePath reads the regions of a copy of its   *)
(* own.  A rejected request is not counted.                                 *)
DispatchSeed(r) ==
    /\ At(r, "seed")
    /\ CanRead
    /\ Goto(r, "find") \/ Answer(r, <<1, None>>)
    /\ UNCHANGED <<configVars, spent, regionRespCache>>

(* The array as findRegion may see it: an element that a reload is writing  *)
(* can have the name and the address of either side of the write, and the   *)
(* address can be neither, since a string is two words.                     *)
Garbled == "garbled"
Seen(i) ==
    IF owner = Reload
    THEN LET after == Decoded(slots, decoding)[i]
             sides == {slots[i], after}
         IN  IF slots[i] = after THEN sides
             ELSE [name : {e.name : e \in sides},
                   address : {e.address : e \in sides} \union {Garbled}]
    ELSE {slots[i]}

(* findRegion: the first element of that name among those the copy has; the *)
(* default address if there is none, or if it has none.                     *)
FoundIn(table, count, name, rest) ==
    LET named == {i \in 1 .. count : table[i].name = name}
        address == table[CHOOSE i \in named : \A j \in named : i <= j].address
    IN  IF named = {} \/ address = Blank THEN rest ELSE address

Tables(count) == {table \in [1 .. count -> UNION {Seen(i) : i \in 1 .. count}] :
                      \A i \in 1 .. count : table[i] \in Seen(i)}

(* The retcode with the field that depends on the configuration: no version *)
(* in the request, maintenance, a hotfix for the version, or none.          *)
Texts(name, table, copy) ==
    {<<1, None>>, <<0, FoundIn(table, copy.count, name, copy.rest)>>, <<20, copy.rest>>}
    \union IF copy.rest \in StopWindows THEN {<<11, copy.rest>>} ELSE {}

(* Mutated DispatchFind: the configuration is read a second time for all    *)
(* but the regions.                                                         *)
SlipDispatchFind(r) ==
    /\ At(r, "find")
    /\ CanRead
    /\ \E table \in Tables(req[r].copy.count) :
           \E text \in Texts(req[r].name, table, [cfg EXCEPT !.count = req[r].copy.count]) :
               Answer(r, text)
    /\ UNCHANGED <<configVars, spent, regionRespCache>>

DispatchFind(r) ==
    /\ At(r, "find")
    /\ \E table \in Tables(req[r].copy.count) :
           \E text \in Texts(req[r].name, table, req[r].copy) : Answer(r, text)
    /\ UNCHANGED <<configVars, spent, regionRespCache>>

(* encryptAndSignRegionData: without a public key the text goes out as it   *)
(* is; an answer in the cache under the key id and the hash of the text is  *)
(* taken, else one is made, ...                                             *)
(* Mutated CacheKey: the key id is left out.                                *)
SlipCacheKey(r) == <<None, req[r].text>>

CacheKey(r) == <<req[r].key, req[r].text>>
Hits(r) == {entry \in regionRespCache : entry.under = CacheKey(r)}
Sends(r, for, text) ==
    Becomes(r, [req[r] EXCEPT !.pc = "sent", !.sent = [for |-> for, text |-> text]])

DispatchEncrypt(r) ==
    /\ At(r, "encrypt")
    /\ \/ req[r].key \notin EncryptionKeys /\ Sends(r, None, req[r].text)
       \/ req[r].key \in EncryptionKeys /\ Hits(r) = {} /\ Goto(r, "store")
       \/ /\ req[r].key \in EncryptionKeys
          /\ \E entry \in Hits(r) : Sends(r, entry.for, entry.text)
    /\ UNCHANGED <<configVars, spent, regionRespCache>>

(* ... and stored.  If the encryption fails the text goes out as it is; if   *)
(* the signing fails, what was encrypted goes out unsigned.                 *)
DispatchStore(r) ==
    /\ At(r, "store")
    /\ \/ /\ Succeeds
          /\ regionRespCache' = (regionRespCache \ Hits(r)) \union
                 {[under |-> CacheKey(r), for |-> req[r].key, text |-> req[r].text]}
          /\ Sends(r, req[r].key, req[r].text)
       \/ /\ Fails
          /\ Sends(r, None, req[r].text) \/ Sends(r, req[r].key, req[r].text)
          /\ UNCHANGED regionRespCache
    /\ UNCHANGED configVars

DispatchEnd(r) ==
    /\ At(r, "sent")
    /\ Ends(r)
    /\ UNCHANGED <<configVars, spent, regionRespCache>>

(* A reload begins to write the array if its document has regions, and      *)
(* clears the cache when all of the document was decoded.                   *)
DispatchAtReload ==
    /\ req' = [r \in Requests |->
                  IF req[r].pc \in {"seed", "find"} /\ Given(file, "regions")
                  THEN [req[r] EXCEPT !.raced = TRUE] ELSE req[r]]
    /\ UNCHANGED regionRespCache
DispatchAfterReload ==
    /\ regionRespCache' = IF \E f \in DOMAIN decoding : decoding[f] = Bad
                          THEN regionRespCache ELSE {}
    /\ UNCHANGED req
DispatchKill == regionRespCache' = {}

-----------------------------------------------------------------------------
DispatchTypeOK ==
    \A entry \in regionRespCache :
        entry.under[1] \in EncryptionKeys /\ entry.for \in EncryptionKeys

(* An answer is made of one configuration, the one that was live when the   *)
(* request began (server.go:797): the address of its own region or the      *)
(* default, and the texts of the same document; unless a reload             *)
(* (config.go:188) has written to the array of the regions in between.      *)
AnswerFromOneConfig ==
    \A r \in Requests :
        req[r].pc \in {"encrypt", "store"} /\ ~req[r].raced =>
            req[r].text \in Texts(req[r].name, req[r].array, req[r].copy)

(* What is sent is the text of this request, for the key of this request or *)
(* in the clear, whichever request the encrypted form was made for          *)
(* (crypto.go:129-169), across reloads that clear the cache.                *)
EncryptedForAsker ==
    \A r \in Requests : At(r, "sent") =>
        /\ req[r].sent.text = req[r].text
        /\ req[r].sent.for \in {req[r].key, None}
=============================================================================
