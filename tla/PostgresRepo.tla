---------------------------- MODULE PostgresRepo ----------------------------
(***************************************************************************)
(* The storage of short links: internal/storage/postgres/repository.go.    *)
(*                                                                         *)
(* One table, one row per alias (the constraint url_alias_key), so the     *)
(* table is a function from aliases to URLs.  A query is one statement and *)
(* the server executes it atomically.  The client runs it under a context  *)
(* with a 5 s timeout: it can give up (timeout, lost connection, context   *)
(* cancelled) on a statement it has already sent, and the server may then  *)
(* execute that statement at any later time, or never.                     *)
(***************************************************************************)
EXTENDS Naturals

CONSTANTS
    Aliases,      \* the aliases in play
    URLs,         \* the target URLs in play
    None,         \* "no row", "no URL"
    Calls,        \* the calls of the storage interface: each is one invocation
    MaxDBFaults   \* bound: how many queries fail for a reason of their own

ASSUME PgAssumption ==
    /\ None \notin URLs
    /\ None \notin Aliases
    /\ MaxDBFaults \in Nat

VARIABLES
    db,           \* [Aliases -> URLs or None]: the table url
    dbLate,       \* statements whose client gave up and that the server still holds
    dbFaults      \* how many queries have failed so far

pgVars == <<db, dbLate, dbFaults>>

(***************************************************************************)
(* What errors.Is can tell apart in the error of a call: no error, the two *)
(* domain errors, the caller's context being done, anything else.          *)
(***************************************************************************)
Errors == {"nil", "ErrURLExist", "ErrURLNotFound", "context", "storage"}

Statements == [by : Calls, alias : Aliases, url : URLs \cup {None}]

(* insertURLQuery, and deleteURLQuery, which puts "no row" in the row's place. *)
Insert(c, url, alias) == [by |-> c, alias |-> alias, url |-> url]
DeleteRow(c, alias)   == [by |-> c, alias |-> alias, url |-> None]

(* Mutant: INSERT ... ON CONFLICT DO UPDATE, which overwrites a taken alias. *)
UpsertAffects(st) == st.url # None \/ db[st.alias] # None

(* RowsAffected() = 1: an INSERT needs the alias free, a DELETE needs its row. *)
Affects(st) == (st.url = None) <=> (db[st.alias] # None)

TableAfter(st) == IF Affects(st) THEN [db EXCEPT ![st.alias] = st.url] ELSE db

PgInit ==
    /\ db = [a \in Aliases |-> None]
    /\ dbLate = {}
    /\ dbFaults = 0

(***************************************************************************)
(* The query ends without an answer of the server: ctxDone is what the     *)
(* caller's context says, e the error the caller sees.                     *)
(***************************************************************************)
QueryFails(ctxDone, e) ==
    \/ /\ ctxDone
       /\ e = "context"
       /\ UNCHANGED dbFaults
    \/ /\ ~ctxDone
       /\ e = "storage"
       /\ dbFaults < MaxDBFaults
       /\ dbFaults' = dbFaults + 1

(* A statement that changes the table may have reached the server first. *)
WriteAbandoned(st, ctxDone, e) ==
    /\ QueryFails(ctxDone, e)
    /\ dbLate' \in {dbLate, dbLate \cup {st}}
    /\ UNCHANGED db

(***************************************************************************)
(* Save: a violation of url_alias_key is ErrURLExist, every other failure  *)
(* is passed on.  A done context never yields an answer: a query that      *)
(* succeeds although the context is cancelled meanwhile is one that was    *)
(* answered before the cancellation.                                       *)
(***************************************************************************)
PgSave(c, ctxDone, url, alias, e) ==
    LET st == Insert(c, url, alias)
    IN  \/ /\ ~ctxDone
           /\ e = IF Affects(st) THEN "nil" ELSE "ErrURLExist"
           /\ db' = TableAfter(st)
           /\ UNCHANGED <<dbLate, dbFaults>>
        \/ WriteAbandoned(st, ctxDone, e)

(* Mutant: an empty result is not told apart from a row. *)
NoRowsIgnored(row) == "nil"

(* pgx.ErrNoRows is ErrURLNotFound. *)
ScanError(row) == IF row = None THEN "ErrURLNotFound" ELSE "nil"

(* Get: v is the URL read, None on an error. *)
PgGet(ctxDone, alias, v, e) ==
    \/ /\ ~ctxDone
       /\ v = db[alias]
       /\ e = ScanError(db[alias])
       /\ UNCHANGED pgVars
    \/ /\ v = None
       /\ QueryFails(ctxDone, e)
       /\ UNCHANGED <<db, dbLate>>

(* Delete: no row affected is ErrURLNotFound. *)
PgDelete(c, ctxDone, alias, e) ==
    LET st == DeleteRow(c, alias)
    IN  \/ /\ ~ctxDone
           /\ e = IF Affects(st) THEN "nil" ELSE "ErrURLNotFound"
           /\ db' = TableAfter(st)
           /\ UNCHANGED <<dbLate, dbFaults>>
        \/ WriteAbandoned(st, ctxDone, e)

(* The server executes a statement nobody waits for any more. *)
LateStatement(st) ==
    /\ st \in dbLate
    /\ db' = TableAfter(st)
    /\ dbLate' = dbLate \ {st}
    /\ UNCHANGED dbFaults

PgTypeOK ==
    /\ db \in [Aliases -> URLs \cup {None}]
    /\ dbLate \subseteq Statements
    /\ dbFaults \in 0 .. MaxDBFaults
=============================================================================
