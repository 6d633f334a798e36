--------------------------- MODULE CacheStaleness ---------------------------
(***************************************************************************)
(* Why an entry of RedisCache can disagree with the table: cache.go takes  *)
(* no lock across the storage and Redis, so the SET of a Save or of a Get  *)
(* and the DEL of a Delete reach Redis in any order, late, or not at all.  *)
(* Two histories are added to every step; they only observe.               *)
(***************************************************************************)
EXTENDS RedisCache

VARIABLES
    stray,     \* the calls whose SET was still ahead when the row of their alias went
    cleared    \* the Deletes whose DEL Redis has acknowledged

staleVars == <<vars, stray, cleared>>

(* The URL the call c stores in Redis, if it gets that far. *)
SetsURL(c) == IF req[c].m = "Save" THEN req[c].url ELSE val[c]

SetPCs == {"Save.available", "Save.set", "Get.fillAvailable", "Get.fill"}

(* c has the URL of a row in hand, or Redis still holds a copy of its SET. *)
SetAhead(c) ==
    \/ pc[c] \in SetPCs
    \/ \E w \in redisLate : w.by = c /\ w.url # None

(* This step is the DEL of d, and it does not fail. *)
DelAnswered(d) ==
    /\ pc[d] = "Delete.del"
    /\ pc'[d] = "done"
    /\ ~CtxDone(d)
    /\ redisFaults' = redisFaults \/ breaker' # "open"

Observe ==
    /\ stray' = stray \cup {c \in Calls : /\ SetAhead(c)
                                          /\ db[req[c].alias] # None
                                          /\ db'[req[c].alias] = None}
    /\ cleared' = cleared \cup {d \in Calls : DelAnswered(d)}

StaleInit ==
    /\ Init
    /\ stray = {}
    /\ cleared = {}

StaleNext == Next /\ Observe

StaleSpec == StaleInit /\ [][StaleNext]_staleVars

(***************************************************************************)
(* An entry that is not the row of its alias has one of two causes: a      *)
(* Delete that removed the row, or may have, and whose DEL has not been    *)
(* acknowledged (not reached yet, skipped by the breaker, or failed); or a *)
(* Save or a Get of that very URL that read or wrote the row before it was *)
(* removed and whose SET Redis executed after that.  So a Delete whose DEL *)
(* is acknowledged leaves nothing behind but what overlapped it.           *)
(***************************************************************************)
StaleExplained ==
    \A a \in Aliases : redis[a] \notin {None, db[a]} =>
        \/ MayHaveDeleted(a) \ cleared # {}
        \/ \E c \in stray : req[c].alias = a /\ SetsURL(c) = redis[a]
-----------------------------------------------------------------------------
(* The inductive strengthening the proof uses *)

(* What c is about to store is the row of its alias, unless c is a stray. *)
InHandInv ==
    \A c \in Calls :
        pc[c] \in SetPCs => SetsURL(c) = db[req[c].alias] \/ c \in stray

(* A SET that Redis still holds is its call's, and is the row unless that is a stray. *)
HeldInv ==
    \A w \in redisLate : w.url # None =>
        /\ w.alias = req[w.by].alias
        /\ w.url = SetsURL(w.by)
        /\ pc[w.by] \in {"Get.return", "done"}
        /\ w.url = db[w.alias] \/ w.by \in stray

(* A stray has had its URL for good, and a cleared Delete has returned without error. *)
ObservedInv ==
    /\ \A c \in stray : /\ c \in Calls
                        /\ req[c].m \in {"Save", "Get"}
                        /\ pc[c] \in SetPCs \cup {"Get.return", "done"}
    /\ \A d \in cleared : d \in Calls /\ pc[d] = "done" /\ req[d].m = "Delete" /\ err[d] = "nil"
    /\ \A st \in dbLate : err[st.by] # "nil"

StaleInv == StaleExplained /\ InHandInv /\ HeldInv /\ ObservedInv
=============================================================================
