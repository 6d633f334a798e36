----------------------------- MODULE LinkStore -----------------------------
(***************************************************************************)
(* What a storage of short links promises its callers, whatever stands in  *)
(* front of the table: the interface Storage of cache.go, as the URL       *)
(* service relies on it.                                                   *)
(*                                                                         *)
(* A Save or a Delete takes effect at one moment between its invocation    *)
(* and its return, a Save only on a free alias and a Delete only on a      *)
(* taken one.  One that fails for another reason may take effect later, at *)
(* most once.  A Get promises less than the current row: it may answer     *)
(* with a URL that was deleted from that alias, Gets on one alias may be   *)
(* answered together, and ErrURLNotFound only means that the row was       *)
(* missing at some moment of one of the Gets answered.                     *)
(***************************************************************************)
CONSTANTS Aliases, URLs, None, Calls

VARIABLES
    rows,      \* [Aliases -> URLs or None]
    former,    \* [Aliases -> SUBSET URLs]: the URLs deleted from each alias
    limbo,     \* the statements of failed calls that may still be executed
    phase,     \* [Calls -> "idle", "running", "settled" or "done"]
    req,       \* [Calls -> what was called]
    val,       \* [Calls -> the URL a Get returned]
    err,       \* [Calls -> the error returned]
    missed     \* the Gets in progress whose row was missing at some moment of theirs

storeVars == <<rows, former, limbo, phase, req, val, err, missed>>

Requests == [m : {"Save"}, alias : Aliases, url : URLs]
               \cup [m : {"Get", "Delete"}, alias : Aliases, url : {None}]

Init ==
    /\ rows = [a \in Aliases |-> None]
    /\ former = [a \in Aliases |-> {}]
    /\ limbo = {}
    /\ phase = [c \in Calls |-> "idle"]
    /\ req = [c \in Calls |-> [m |-> "none", alias |-> None, url |-> None]]
    /\ val = [c \in Calls |-> None]
    /\ err = [c \in Calls |-> "nil"]
    /\ missed = {}

Looking(c) == phase[c] = "running" /\ req[c].m = "Get"
Writing(c) == phase[c] = "running" /\ req[c].m # "Get"

(* What the row of its alias becomes if the call c takes effect. *)
Statement(c) == [by |-> c, alias |-> req[c].alias, url |-> req[c].url]

Fits(st) == (st.url = None) <=> (rows[st.alias] # None)

Execute(st) == rows' = IF Fits(st) THEN [rows EXCEPT ![st.alias] = st.url] ELSE rows

Refusal(c) == IF req[c].m = "Save" THEN "ErrURLExist" ELSE "ErrURLNotFound"

Invoke(c, r) ==
    /\ phase[c] = "idle"
    /\ phase' = [phase EXCEPT ![c] = "running"]
    /\ req' = [req EXCEPT ![c] = r]
    /\ UNCHANGED <<rows, limbo, val, err>>

TakeEffect(c) ==
    /\ Writing(c)
    /\ Fits(Statement(c))
    /\ Execute(Statement(c))
    /\ phase' = [phase EXCEPT ![c] = "settled"]
    /\ UNCHANGED <<limbo, req, val, err>>

Refuse(c) ==
    /\ Writing(c)
    /\ ~Fits(Statement(c))
    /\ phase' = [phase EXCEPT ![c] = "done"]
    /\ err' = [err EXCEPT ![c] = Refusal(c)]
    /\ UNCHANGED <<rows, limbo, req, val>>

Fail(c, e) ==
    /\ Writing(c)
    /\ phase' = [phase EXCEPT ![c] = "done"]
    /\ err' = [err EXCEPT ![c] = e]
    /\ limbo' \in {limbo, limbo \cup {Statement(c)}}
    /\ UNCHANGED <<rows, req, val>>

Finish(c) ==
    /\ phase[c] = "settled"
    /\ phase' = [phase EXCEPT ![c] = "done"]
    /\ UNCHANGED <<rows, limbo, req, val, err>>

Late(st) ==
    /\ st \in limbo
    /\ Execute(st)
    /\ limbo' = limbo \ {st}
    /\ UNCHANGED <<phase, req, val, err>>

(* The Gets in progress on a. *)
Lookups(a) == {c \in Calls : Looking(c) /\ req[c].alias = a}

(* The URLs a Get on a may answer with. *)
Answers(a) == ({rows[a]} \cup former[a]) \ {None}

(* Some of the Gets on the alias a, the calls in D, return u and e. *)
Answer(a, D, u, e) ==
    /\ D # {}
    /\ \/ u \in Answers(a) /\ e = "nil"
       \/ u = None /\ e = "ErrURLNotFound" /\ D \cap missed # {}
       \/ u = None /\ e \in {"context", "storage"}
    /\ phase' = [c \in Calls |-> IF c \in D THEN "done" ELSE phase[c]]
    /\ val' = [c \in Calls |-> IF c \in D THEN u ELSE val[c]]
    /\ err' = [c \in Calls |-> IF c \in D THEN e ELSE err[c]]
    /\ UNCHANGED <<rows, limbo, req>>

(* What every step adds to the two histories. *)
Remember ==
    /\ former' = [a \in Aliases |-> former[a] \cup ({rows[a]} \ {rows'[a], None})]
    /\ missed' = {c \in Calls : /\ Looking(c)'
                                /\ c \in missed \/ rows'[req'[c].alias] = None}

Operation ==
    \/ \E c \in Calls, r \in Requests : Invoke(c, r)
    \/ \E c \in Calls : TakeEffect(c) \/ Refuse(c) \/ Finish(c)
    \/ \E c \in Calls, e \in {"context", "storage"} : Fail(c, e)
    \/ \E st \in limbo : Late(st)
    \/ \E a \in Aliases : \E D \in SUBSET Lookups(a) :
        \E u \in URLs \cup {None}, e \in {"nil", "ErrURLNotFound", "context", "storage"} :
            Answer(a, D, u, e)

Next == Operation /\ Remember

Spec == Init /\ [][Next]_storeVars
=============================================================================
