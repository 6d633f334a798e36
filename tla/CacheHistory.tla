---------------------------- MODULE CacheHistory ----------------------------
(***************************************************************************)
(* The cache of RedisCache as an implementation of LinkStore.  The two     *)
(* histories of LinkStore are added to every step; they only observe.      *)
(***************************************************************************)
EXTENDS RedisCache

VARIABLES former, missed

(* A Save or a Delete is settled once its statement is answered; what a    *)
(* call has in hand is nobody's before it returns.                         *)
PhaseOf(c) ==
    CASE pc[c] \in {"idle", "done"} -> pc[c]
      [] pc[c] \in {"Save.available", "Save.set", "Delete.available", "Delete.del"} -> "settled"
      [] OTHER -> "running"

Phases  == [c \in Calls |-> PhaseOf(c)]
Results == [c \in Calls |-> IF pc[c] = "done" THEN val[c] ELSE None]
Reports == [c \in Calls |-> IF pc[c] = "done" THEN err[c] ELSE "nil"]

Store == INSTANCE LinkStore
            WITH rows <- db, limbo <- dbLate, phase <- Phases, val <- Results, err <- Reports

histVars == <<vars, former, missed>>

HistInit ==
    /\ Init
    /\ former = [a \in Aliases |-> {}]
    /\ missed = {}

HistNext == Next /\ Store!Remember

HistSpec == HistInit /\ [][HistNext]_histVars

(***************************************************************************)
(* Cache promises what LinkStore says: Redis, the breaker, the late writes *)
(* and the flights of singleflight never make a Save or a Delete anything  *)
(* but atomic, never invent an answer, and never turn a row that was there *)
(* all along, for every Get answered with it, into ErrURLNotFound.         *)
(***************************************************************************)
ImplementsLinkStore == Store!Spec

(***************************************************************************)
(* The inductive invariant of the refinement: every URL on its way to a    *)
(* caller is or was a row of its alias, and a Get that read no row, or     *)
(* that is in progress while there is none, has missed it.                 *)
(***************************************************************************)
WasRow(a, u) == u \in {None, db[a]} \cup former[a]

AnswerInv ==
    /\ former \in [Aliases -> SUBSET URLs]
    /\ \A a \in Aliases : WasRow(a, redis[a])
    /\ \A w \in redisLate : WasRow(w.alias, w.url)
    /\ \A c \in Calls : val[c] # None => WasRow(req[c].alias, val[c])
    /\ \A c \in Calls :
        pc[c] \in {"Save.available", "Save.set"} => WasRow(req[c].alias, req[c].url)

MissInv ==
    /\ missed \subseteq {c \in Calls : pc[c] \in GetPCs}
    /\ \A c \in Calls : pc[c] \in GetPCs =>
        /\ db[req[c].alias] = None \/ err[c] = "ErrURLNotFound" => c \in missed
        /\ err[c] # "ErrURLExist"
=============================================================================
