-------------------------- MODULE SessionLifecycle --------------------------
(***************************************************************************)
(* What the session store promises to its callers, without caches, stores  *)
(* or awaits: the life of a session goes forward only, and the answer to a *)
(* call is a status the session has really had.  An answer may be old: an  *)
(* "active" says that the session was active once, a "closed" is final.    *)
(* SessionManager is shown to implement it.                                *)
(***************************************************************************)
CONSTANTS
    SessionIds,
    Calls,
    NoAnswer        \* the answer of a call that is not about one session

VARIABLES
    life,           \* life[s]: the life of session s
    answer          \* answer[c]: session and status told by call c, if any

vars == <<life, answer>>

Lives == {"unissued", "active", "closed", "gone"}

Init ==
    /\ life = [s \in SessionIds |-> "unissued"]
    /\ answer = [c \in Calls |-> NoAnswer]

(* The statuses session s may be said to have. *)
Truthful(s) ==
    CASE life[s] = "unissued"            -> {"none"}
      [] life[s] = "active"              -> {"none", "active"}
      [] life[s] \in {"closed", "gone"}  -> {"none", "active", "closed"}

Issue(s) ==
    /\ life[s] = "unissued"
    /\ life' \in {[life EXCEPT ![s] = "active"], [life EXCEPT ![s] = "gone"]}
    /\ UNCHANGED answer

Shut(S) ==
    /\ \A s \in S : life[s] = "active"
    /\ life' = [s \in SessionIds |-> IF s \in S THEN "closed" ELSE life[s]]
    /\ UNCHANGED answer

Purge(S) ==
    /\ \A s \in S : life[s] \in {"active", "closed"}
    /\ life' = [s \in SessionIds |-> IF s \in S THEN "gone" ELSE life[s]]
    /\ UNCHANGED answer

Answer(c, s) ==
    /\ answer[c] = NoAnswer
    /\ \E v \in Truthful(s) : answer' = [answer EXCEPT ![c] = <<s, v>>]
    /\ UNCHANGED life

Forget(C) ==
    /\ answer' = [c \in Calls |-> IF c \in C THEN NoAnswer ELSE answer[c]]
    /\ UNCHANGED life

Next ==
    \/ \E s \in SessionIds : Issue(s)
    \/ \E S \in SUBSET SessionIds : Shut(S) \/ Purge(S)
    \/ \E c \in Calls, s \in SessionIds : Answer(c, s)
    \/ \E C \in SUBSET Calls : Forget(C)

Spec == Init /\ [][Next]_vars
=============================================================================
