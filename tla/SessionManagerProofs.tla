------------------------ MODULE SessionManagerProofs ------------------------
(* Theorems about SessionManager, for every set of sessions and of calls. *)
EXTENDS SessionManager, TLAPS

(* Every variable keeps its type, and a call that is suspended in a method *)
(* of one session is about a session.                                      *)
LEMMA InitTypeOK == Init => TypeOK
  BY DEF Init, TypeOK, Copy, Ages, Labels, OnSession

(* A step of createSession keeps every variable in its type. *)
LEMMA CreateTypeOK ==
  ASSUME TypeOK, NEW c \in Calls,
         \/ \E s \in SessionIds : CreateInsert(c, s) \/ CreateRejected(c, s)
         \/ CreateStep(c)
  PROVE  TypeOK'
<1> USE NoSessionAssumption DEF TypeOK, Copy, Ages, Labels, OnSession, Begin, Suspend
<1>1. ASSUME NEW s \in SessionIds, CreateInsert(c, s)
      PROVE  TypeOK'
  BY <1>1 DEF CreateInsert
<1>2. ASSUME NEW s \in SessionIds, CreateRejected(c, s)
      PROVE  TypeOK'
  BY <1>2 DEF CreateRejected
<1>3. CASE CreateCache(c)
  BY <1>3 DEF CreateCache
<1>4. CASE CreateUncached(c)
  BY <1>4 DEF CreateUncached
<1>5. CASE CreateDone(c)
  BY <1>5 DEF CreateDone
<1>6. QED
  BY <1>1, <1>2, <1>3, <1>4, <1>5 DEF CreateStep

(* A step of getSession keeps every variable in its type. *)
LEMMA GetTypeOK ==
  ASSUME TypeOK, NEW c \in Calls,
         \/ \E s \in SessionIds : GetHit(c, s) \/ GetMiss(c, s)
         \/ GetStep(c)
  PROVE  TypeOK'
<1> USE NoSessionAssumption DEF TypeOK, Copy, Ages, Labels, OnSession, Begin, Suspend
<1>1. ASSUME NEW s \in SessionIds, GetHit(c, s)
      PROVE  TypeOK'
  BY <1>1 DEF GetHit
<1>2. ASSUME NEW s \in SessionIds, GetMiss(c, s)
      PROVE  TypeOK'
  BY <1>2 DEF GetMiss
<1>3. CASE GetRedisHit(c)
  BY <1>3 DEF GetRedisHit
<1>4. CASE GetRedisMiss(c)
  BY <1>4 DEF GetRedisMiss
<1>5. CASE GetSelect(c)
  BY <1>5 DEF GetSelect, LiveRow
<1>6. CASE GetNoRow(c)
  BY <1>6 DEF GetNoRow
<1>7. CASE GetRow(c)
  BY <1>7 DEF GetRow
<1>8. CASE GetFill(c)
  BY <1>8 DEF GetFill
<1>9. CASE GetRejected(c)
  BY <1>9 DEF GetRejected
<1>10. QED
  BY <1>1, <1>2, <1>3, <1>4, <1>5, <1>6, <1>7, <1>8, <1>9 DEF GetStep

(* A step of closeSession keeps every variable in its type. *)
LEMMA CloseTypeOK ==
  ASSUME TypeOK, NEW c \in Calls,
         (\E s \in SessionIds : Close(c, s)) \/ CloseStep(c)
  PROVE  TypeOK'
<1> USE NoSessionAssumption
        DEF TypeOK, Copy, Ages, Labels, OnSession, Begin, Suspend, CloseRow, Carried, EvictReady
<1>1. ASSUME NEW s \in SessionIds, Close(c, s)
      PROVE  TypeOK'
  BY <1>1 DEF Close
<1>2. CASE CloseUpdate(c)
  BY <1>2 DEF CloseUpdate
<1>3. CASE CloseRejected(c)
  BY <1>3 DEF CloseRejected
<1>4. CASE CloseMark(c)
  BY <1>4 DEF CloseMark
<1>5. CASE CloseEvict(c)
  BY <1>5 DEF CloseEvict
<1>6. CASE CloseEvictRejected(c)
  BY <1>6 DEF CloseEvictRejected
<1>7. CASE CloseDone(c)
  BY <1>7 DEF CloseDone
<1>8. QED
  BY <1>1, <1>2, <1>3, <1>4, <1>5, <1>6, <1>7 DEF CloseStep

(* A step of one of the clean-ups keeps every variable in its type. *)
LEMMA SweepTypeOK ==
  ASSUME TypeOK, NEW c \in Calls,
         \/ ExpireDelete(c)
         \/ \E spared \in SUBSET SessionIds : Stale(c, spared)
         \/ SweepStep(c)
  PROVE  TypeOK'
<1> USE NoSessionAssumption
        DEF TypeOK, Copy, Ages, Labels, OnSession, SweepWith, Carried, ExpiredRows, StaleRows
<1>1. CASE ExpireDelete(c)
  BY <1>1 DEF ExpireDelete
<1>2. ASSUME NEW spared \in SUBSET SessionIds, Stale(c, spared)
      PROVE  TypeOK'
  BY <1>2 DEF Stale
<1>3. CASE StaleSelect(c)
  BY <1>3 DEF StaleSelect
<1>4. CASE StaleUpdate(c)
  BY <1>4 DEF StaleUpdate
<1>5. CASE SweepRejected(c)
  BY <1>5 DEF SweepRejected
<1>6. CASE SweepDone(c)
  BY <1>6 DEF SweepDone
<1>7. ASSUME NEW s \in SessionIds, SweepEvict(c, s)
      PROVE  TypeOK'
  BY <1>7 DEF SweepEvict
<1>8. QED
  BY <1>1, <1>2, <1>3, <1>4, <1>5, <1>6, <1>7 DEF SweepStep

(* So do the passing of time, the lapse of a Redis key and a restart. *)
LEMMA OtherTypeOK ==
  ASSUME TypeOK,
         Environment \/ (\E c \in Calls : Return(c)) \/ UNCHANGED vars
  PROVE  TypeOK'
<1> USE NoSessionAssumption DEF TypeOK, Copy, Ages, Labels, OnSession
<1>1. CASE Restart
  BY <1>1 DEF Restart, Removed
<1>2. ASSUME NEW s \in SessionIds, Tick(s)
      PROVE  TypeOK'
  BY <1>2 DEF Tick
<1>3. ASSUME NEW s \in SessionIds, RedisLapse(s)
      PROVE  TypeOK'
  BY <1>3 DEF RedisLapse
<1>4. ASSUME NEW c \in Calls, Return(c)
      PROVE  TypeOK'
  BY <1>4 DEF Return
<1>5. CASE UNCHANGED vars
  BY <1>5 DEF vars
<1>6. QED
  BY <1>1, <1>2, <1>3, <1>4, <1>5 DEF Environment

(* So does every step of the store: the type invariant is inductive. *)
LEMMA NextTypeOK == TypeOK /\ [Next]_vars => TypeOK'
<1> SUFFICES ASSUME TypeOK, [Next]_vars
             PROVE  TypeOK'
  OBVIOUS
<1>1. CASE Environment \/ UNCHANGED vars
  BY <1>1, OtherTypeOK
<1>2. ASSUME NEW c \in Calls, Begins(c)
      PROVE  TypeOK'
  BY <1>2, CreateTypeOK, GetTypeOK, CloseTypeOK, SweepTypeOK DEF Begins
<1>3. ASSUME NEW c \in Calls, Progress(c)
      PROVE  TypeOK'
  BY <1>3, CreateTypeOK, GetTypeOK, CloseTypeOK, SweepTypeOK DEF Progress
<1>4. QED
  BY <1>1, <1>2, <1>3, OtherTypeOK DEF Next

(* The type invariant of SessionManager holds for any number of sessions,  *)
(* concurrent calls and store failures.                                    *)
THEOREM TypeCorrect == Spec => []TypeOK
  BY InitTypeOK, NextTypeOK, PTL DEF Spec
-----------------------------------------------------------------------------
(* Copies on their way to a cache are as good as the cached ones: the       *)
(* strengthening of ClosedCopiesAreTrue.                                    *)
Reads == {"get.redis", "get.row", "get.fill"}

Holds(c) == at[c] \in {"create.row", "create.redis"} \/ (at[c] \in Reads /\ seen[c] # "none")

TruthInv ==
    /\ ClosedCopiesAreTrue
    /\ \A c \in Calls : at[c] \in Reads /\ seen[c] = "closed" => rows[arg[c]] # "active"
    /\ \A c \in Calls : at[c] = "close.row" => rows[arg[c]] # "active"
    /\ \A c \in Calls : Holds(c) => age[arg[c]] # "unissued"
    /\ \A s \in SessionIds :
          age[s] = "unissued" => rows[s] = "none" /\ mem[s] = "none" /\ redis[s] = "none"

(* A copy carried to a cache is active only while the row is, unless the    *)
(* session is tainted: the strengthening of CoherentUnlessTainted.          *)
CoherenceInv ==
    /\ CoherentUnlessTainted
    /\ \A c \in Calls, s \in SessionIds \ tainted : Carries(c, s) => rows[s] = "active"
    /\ \A c \in Calls : at[c] \in {"create.row", "create.redis"} => seen[c] = "active"

-----------------------------------------------------------------------------
(* No step of the store makes a cached "closed" wrong (TruthInv).      *)
LEMMA NextTruthInv == TypeOK /\ TruthInv /\ [Next]_vars => TruthInv'
<1> SUFFICES ASSUME TypeOK, TruthInv, [Next]_vars
             PROVE  TruthInv'
  OBVIOUS
<1> USE NoSessionAssumption DEF TypeOK, TruthInv, ClosedCopiesAreTrue, Reads, Holds, OnSession,
           Copy, Ages, Begin, Suspend, SweepWith
<1>1. CASE Restart
  BY <1>1 DEF Restart
<1>2. ASSUME NEW s \in SessionIds, Tick(s)
      PROVE  TruthInv'
  BY <1>2 DEF Tick
<1>3. ASSUME NEW s \in SessionIds, RedisLapse(s)
      PROVE  TruthInv'
  BY <1>3 DEF RedisLapse
<1>4. ASSUME NEW c \in Calls, CreateCache(c)
      PROVE  TruthInv'
  BY <1>4 DEF CreateCache
<1>5. ASSUME NEW c \in Calls, CreateUncached(c)
      PROVE  TruthInv'
  BY <1>5 DEF CreateUncached
<1>6. ASSUME NEW c \in Calls, CreateDone(c)
      PROVE  TruthInv'
  BY <1>6 DEF CreateDone
<1>7. ASSUME NEW c \in Calls, GetRedisHit(c)
      PROVE  TruthInv'
  BY <1>7 DEF GetRedisHit
<1>8. ASSUME NEW c \in Calls, GetRedisMiss(c)
      PROVE  TruthInv'
  BY <1>8 DEF GetRedisMiss
<1>9. ASSUME NEW c \in Calls, GetSelect(c)
      PROVE  TruthInv'
  BY <1>9 DEF GetSelect, LiveRow
<1>10. ASSUME NEW c \in Calls, GetNoRow(c)
      PROVE  TruthInv'
  BY <1>10 DEF GetNoRow
<1>11. ASSUME NEW c \in Calls, GetRow(c)
      PROVE  TruthInv'
  BY <1>11 DEF GetRow
<1>12. ASSUME NEW c \in Calls, GetFill(c)
      PROVE  TruthInv'
  BY <1>12 DEF GetFill
<1>13. ASSUME NEW c \in Calls, GetRejected(c)
      PROVE  TruthInv'
  BY <1>13 DEF GetRejected
<1>14. ASSUME NEW c \in Calls, CloseUpdate(c)
      PROVE  TruthInv'
  BY <1>14 DEF CloseUpdate, CloseRow
<1>15. ASSUME NEW c \in Calls, CloseRejected(c)
      PROVE  TruthInv'
  BY <1>15 DEF CloseRejected, CloseRow
<1>16. ASSUME NEW c \in Calls, CloseMark(c)
      PROVE  TruthInv'
  BY <1>16 DEF CloseMark
<1>17. ASSUME NEW c \in Calls, CloseEvict(c)
      PROVE  TruthInv'
  BY <1>17 DEF CloseEvict, EvictReady
<1>18. ASSUME NEW c \in Calls, CloseEvictRejected(c)
      PROVE  TruthInv'
  BY <1>18 DEF CloseEvictRejected, EvictReady
<1>19. ASSUME NEW c \in Calls, CloseDone(c)
      PROVE  TruthInv'
  BY <1>19 DEF CloseDone
<1>20. ASSUME NEW c \in Calls, StaleSelect(c)
      PROVE  TruthInv'
  BY <1>20 DEF StaleSelect
<1>21. ASSUME NEW c \in Calls, StaleUpdate(c)
      PROVE  TruthInv'
  BY <1>21 DEF StaleUpdate, StaleRows
<1>22. ASSUME NEW c \in Calls, SweepRejected(c)
      PROVE  TruthInv'
  BY <1>22 DEF SweepRejected
<1>23. ASSUME NEW c \in Calls, SweepDone(c)
      PROVE  TruthInv'
  BY <1>23 DEF SweepDone
<1>24. ASSUME NEW c \in Calls, Return(c)
      PROVE  TruthInv'
  BY <1>24 DEF Return
<1>25. ASSUME NEW c \in Calls, ExpireDelete(c)
      PROVE  TruthInv'
  BY <1>25 DEF ExpireDelete, ExpiredRows
<1>26. ASSUME NEW c \in Calls, NEW spared \in SUBSET SessionIds, Stale(c, spared)
      PROVE  TruthInv'
  BY <1>26 DEF Stale
<1>27. ASSUME NEW c \in Calls, NEW s \in SessionIds, CreateInsert(c, s)
      PROVE  TruthInv'
  BY <1>27 DEF CreateInsert, Fresh
<1>28. ASSUME NEW c \in Calls, NEW s \in SessionIds, CreateRejected(c, s)
      PROVE  TruthInv'
  BY <1>28 DEF CreateRejected, Fresh
<1>29. ASSUME NEW c \in Calls, NEW s \in SessionIds, GetHit(c, s)
      PROVE  TruthInv'
  BY <1>29 DEF GetHit
<1>30. ASSUME NEW c \in Calls, NEW s \in SessionIds, GetMiss(c, s)
      PROVE  TruthInv'
  BY <1>30 DEF GetMiss
<1>31. ASSUME NEW c \in Calls, NEW s \in SessionIds, Close(c, s)
      PROVE  TruthInv'
  BY <1>31 DEF Close
<1>32. ASSUME NEW c \in Calls, NEW s \in SessionIds, SweepEvict(c, s)
      PROVE  TruthInv'
  BY <1>32 DEF SweepEvict
<1>33. CASE UNCHANGED vars
  BY <1>33 DEF vars
<1>34. QED
  BY <1>1, <1>2, <1>3, <1>4, <1>5, <1>6, <1>7, <1>8, <1>9, <1>10, <1>11, <1>12, <1>13, <1>14, <1>15, <1>16, <1>17, <1>18, <1>19, <1>20, <1>21, <1>22, <1>23, <1>24, <1>25, <1>26, <1>27, <1>28, <1>29, <1>30, <1>31, <1>32, <1>33
     DEF Next, Environment, Begins, Progress, CreateStep, GetStep, CloseStep, SweepStep

(* No step lets a stale "active" copy appear without its cause on record. *)
LEMMA NextCoherenceInv == TypeOK /\ CoherenceInv /\ [Next]_vars => CoherenceInv'
<1> SUFFICES ASSUME TypeOK, CoherenceInv, [Next]_vars
             PROVE  CoherenceInv'
  OBVIOUS
<1> USE NoSessionAssumption DEF TypeOK, CoherenceInv, CoherentUnlessTainted, Coherent,
           Carries, Removes, Carried, Removed, OnSession, Copy, Ages, Begin, Suspend, SweepWith
<1>1. CASE Restart
  BY <1>1 DEF Restart
<1>2. ASSUME NEW s \in SessionIds, Tick(s)
      PROVE  CoherenceInv'
  BY <1>2 DEF Tick
<1>3. ASSUME NEW s \in SessionIds, RedisLapse(s)
      PROVE  CoherenceInv'
  BY <1>3 DEF RedisLapse
<1>4. ASSUME NEW c \in Calls, CreateCache(c)
      PROVE  CoherenceInv'
  BY <1>4 DEF CreateCache
<1>5. ASSUME NEW c \in Calls, CreateUncached(c)
      PROVE  CoherenceInv'
  BY <1>5 DEF CreateUncached
<1>6. ASSUME NEW c \in Calls, CreateDone(c)
      PROVE  CoherenceInv'
  BY <1>6 DEF CreateDone
<1>7. ASSUME NEW c \in Calls, GetRedisHit(c)
      PROVE  CoherenceInv'
  BY <1>7 DEF GetRedisHit
<1>8. ASSUME NEW c \in Calls, GetRedisMiss(c)
      PROVE  CoherenceInv'
  BY <1>8 DEF GetRedisMiss
<1>9. ASSUME NEW c \in Calls, GetSelect(c)
      PROVE  CoherenceInv'
  BY <1>9 DEF GetSelect, LiveRow
<1>10. ASSUME NEW c \in Calls, GetNoRow(c)
      PROVE  CoherenceInv'
  BY <1>10 DEF GetNoRow
<1>11. ASSUME NEW c \in Calls, GetRow(c)
      PROVE  CoherenceInv'
  BY <1>11 DEF GetRow
<1>12. ASSUME NEW c \in Calls, GetFill(c)
      PROVE  CoherenceInv'
  BY <1>12 DEF GetFill
<1>13. ASSUME NEW c \in Calls, GetRejected(c)
      PROVE  CoherenceInv'
  BY <1>13 DEF GetRejected
<1>14. ASSUME NEW c \in Calls, CloseUpdate(c)
      PROVE  CoherenceInv'
  BY <1>14 DEF CloseUpdate, CloseRow
<1>15. ASSUME NEW c \in Calls, CloseRejected(c)
      PROVE  CoherenceInv'
  BY <1>15 DEF CloseRejected, CloseRow
<1>16. ASSUME NEW c \in Calls, CloseMark(c)
      PROVE  CoherenceInv'
  BY <1>16 DEF CloseMark
<1>17. ASSUME NEW c \in Calls, CloseEvict(c)
      PROVE  CoherenceInv'
  BY <1>17 DEF CloseEvict, EvictReady
<1>18. ASSUME NEW c \in Calls, CloseEvictRejected(c)
      PROVE  CoherenceInv'
  BY <1>18 DEF CloseEvictRejected, EvictReady
<1>19. ASSUME NEW c \in Calls, CloseDone(c)
      PROVE  CoherenceInv'
  BY <1>19 DEF CloseDone
<1>20. ASSUME NEW c \in Calls, StaleSelect(c)
      PROVE  CoherenceInv'
  BY <1>20 DEF StaleSelect
<1>21. ASSUME NEW c \in Calls, StaleUpdate(c)
      PROVE  CoherenceInv'
  BY <1>21 DEF StaleUpdate, StaleRows
<1>22. ASSUME NEW c \in Calls, SweepRejected(c)
      PROVE  CoherenceInv'
  BY <1>22 DEF SweepRejected
<1>23. ASSUME NEW c \in Calls, SweepDone(c)
      PROVE  CoherenceInv'
  BY <1>23 DEF SweepDone
<1>24. ASSUME NEW c \in Calls, Return(c)
      PROVE  CoherenceInv'
  BY <1>24 DEF Return
<1>25. ASSUME NEW c \in Calls, ExpireDelete(c)
      PROVE  CoherenceInv'
  BY <1>25 DEF ExpireDelete, ExpiredRows
<1>26. ASSUME NEW c \in Calls, NEW spared \in SUBSET SessionIds, Stale(c, spared)
      PROVE  CoherenceInv'
  BY <1>26 DEF Stale
<1>27. ASSUME NEW c \in Calls, NEW s \in SessionIds, CreateInsert(c, s)
      PROVE  CoherenceInv'
  BY <1>27 DEF CreateInsert, Fresh
<1>28. ASSUME NEW c \in Calls, NEW s \in SessionIds, CreateRejected(c, s)
      PROVE  CoherenceInv'
  BY <1>28 DEF CreateRejected, Fresh
<1>29. ASSUME NEW c \in Calls, NEW s \in SessionIds, GetHit(c, s)
      PROVE  CoherenceInv'
  BY <1>29 DEF GetHit
<1>30. ASSUME NEW c \in Calls, NEW s \in SessionIds, GetMiss(c, s)
      PROVE  CoherenceInv'
  BY <1>30 DEF GetMiss
<1>31. ASSUME NEW c \in Calls, NEW s \in SessionIds, Close(c, s)
      PROVE  CoherenceInv'
  BY <1>31 DEF Close
<1>32. ASSUME NEW c \in Calls, NEW s \in SessionIds, SweepEvict(c, s)
      PROVE  CoherenceInv'
  BY <1>32 DEF SweepEvict
<1>33. CASE UNCHANGED vars
  BY <1>33 DEF vars
<1>34. QED
  BY <1>1, <1>2, <1>3, <1>4, <1>5, <1>6, <1>7, <1>8, <1>9, <1>10, <1>11, <1>12, <1>13, <1>14, <1>15, <1>16, <1>17, <1>18, <1>19, <1>20, <1>21, <1>22, <1>23, <1>24, <1>25, <1>26, <1>27, <1>28, <1>29, <1>30, <1>31, <1>32, <1>33
     DEF Next, Environment, Begins, Progress, CreateStep, GetStep, CloseStep, SweepStep


(* Both strengthened invariants hold when the store is empty. *)
LEMMA InitInv == Init => TruthInv /\ CoherenceInv
  BY DEF Init, TruthInv, ClosedCopiesAreTrue, Holds, Reads, CoherenceInv,
         CoherentUnlessTainted, Coherent, Carries

(* However reads, closings and sweeps interleave, and whichever commands   *)
(* are rejected, a copy in memory or in Redis that says "closed" is right: *)
(* updateSessionStatus writes the row before the copies.                   *)
THEOREM ClosedCopies == Spec => []ClosedCopiesAreTrue
<1>1. TruthInv => ClosedCopiesAreTrue
  BY DEF TruthInv
<1>2. QED
  BY <1>1, InitTypeOK, NextTypeOK, InitInv, NextTruthInv, PTL DEF Spec

(* A cached "active" copy of a session that is closed or deleted is always *)
(* one that a close or a sweep is about to drop, or one of a tainted       *)
(* session: the races and failures listed at `tainted' are the only ways   *)
(* by which the caches of getSession can go stale.                         *)
THEOREM Coherence == Spec => []CoherentUnlessTainted
<1>1. CoherenceInv => CoherentUnlessTainted
  BY DEF CoherenceInv
<1>2. QED
  BY <1>1, InitTypeOK, NextTypeOK, InitInv, NextCoherenceInv, PTL DEF Spec

(* No session that was closed or deleted becomes active again. *)
THEOREM SessionsStayClosed == Spec => NeverReopened
<1>1. ASSUME TypeOK, [Next]_vars, NEW s \in SessionIds, rows'[s] = "active"
      PROVE  rows[s] = "active" \/ age[s] = "unissued"
  <2> USE <1>1 DEF TypeOK, Copy
  <2>1. ASSUME NEW c \in Calls, NEW z \in SessionIds,
               CreateInsert(c, z) \/ CreateRejected(c, z)
        PROVE  rows[s] = "active" \/ age[s] = "unissued"
    BY <2>1 DEF CreateInsert, CreateRejected, Fresh
  <2>2. ASSUME NEW c \in Calls, CloseStep(c) \/ SweepStep(c) \/ ExpireDelete(c)
        PROVE  rows[s] = "active"
    BY <2>2 DEF CloseStep, CloseUpdate, CloseRejected, CloseRow, CloseMark, CloseEvict,
                CloseEvictRejected, CloseDone, SweepStep, StaleSelect, StaleUpdate,
                SweepRejected, SweepDone, SweepEvict, ExpireDelete
  <2>3. CASE UNCHANGED rows
    BY <2>3
  <2>4. ASSUME NEW c \in Calls, CreateStep(c) \/ GetStep(c) \/ Return(c)
        PROVE  UNCHANGED rows
    BY <2>4 DEF CreateStep, CreateCache, CreateUncached, CreateDone, GetStep, GetRedisHit,
                GetRedisMiss, GetSelect, GetNoRow, GetRow, GetFill, GetRejected, Return
  <2>5. ASSUME NEW c \in Calls, Begins(c)
        PROVE  \/ UNCHANGED rows
               \/ ExpireDelete(c)
               \/ \E z \in SessionIds : CreateInsert(c, z) \/ CreateRejected(c, z)
    BY <2>5 DEF Begins, Stale, GetHit, GetMiss, Close
  <2>6. Environment \/ UNCHANGED vars => UNCHANGED rows
    BY DEF Environment, Restart, Tick, RedisLapse, vars
  <2>7. QED
    BY <2>1, <2>2, <2>3, <2>4, <2>5, <2>6 DEF Next, Progress
<1>2. TypeOK /\ [Next]_vars =>
        [\A s \in SessionIds :
           rows'[s] = "active" => rows[s] = "active" \/ age[s] = "unissued"]_vars
  BY <1>1
<1>3. QED
  BY <1>2, TypeCorrect, PTL DEF Spec, NeverReopened

-----------------------------------------------------------------------------
(* The refinement of SessionLifecycle.  Each step of the store is a step   *)
(* of the session's life, an answer, or nothing that a caller can tell.    *)

(* A call that is not about one session has none on record, so that the    *)
(* end of a sweep tells nothing about a session.                           *)
Unconcerned ==
    \A c \in Calls : at[c] \notin OnSession \cup {"done", "failed"} => arg[c] = NoSession

(* No call starts, goes on or ends with the session of another. *)
LEMMA NextUnconcerned == TypeOK /\ Unconcerned /\ [Next]_vars => Unconcerned'
<1> SUFFICES ASSUME TypeOK, Unconcerned, [Next]_vars
             PROVE  Unconcerned'
  OBVIOUS
<1> USE DEF TypeOK, Unconcerned, OnSession, Begin, Suspend, SweepWith
<1>1. ASSUME NEW c \in Calls, Begins(c)
      PROVE  Unconcerned'
  BY <1>1 DEF Begins, ExpireDelete, Stale, CreateInsert, CreateRejected, GetHit, GetMiss, Close
<1>2. ASSUME NEW c \in Calls, CreateStep(c) \/ GetStep(c)
      PROVE  Unconcerned'
  BY <1>2 DEF CreateStep, CreateCache, CreateUncached, CreateDone, GetStep, GetRedisHit,
              GetRedisMiss, GetSelect, GetNoRow, GetRow, GetFill, GetRejected
<1>3. ASSUME NEW c \in Calls, CloseStep(c)
      PROVE  Unconcerned'
  BY <1>3 DEF CloseStep, CloseUpdate, CloseRejected, CloseMark, CloseEvict,
              CloseEvictRejected, CloseDone, EvictReady
<1>4. ASSUME NEW c \in Calls, SweepStep(c)
      PROVE  Unconcerned'
  BY <1>4 DEF SweepStep, StaleSelect, StaleUpdate, SweepRejected, SweepDone, SweepEvict
<1>5. ASSUME NEW c \in Calls, Return(c)
      PROVE  Unconcerned'
  BY <1>5 DEF Return
<1>6. CASE Environment \/ UNCHANGED vars
  BY <1>6 DEF Environment, Restart, Tick, RedisLapse, vars
<1>7. QED
  BY <1>1, <1>2, <1>3, <1>4, <1>5, <1>6 DEF Next, Progress

(* What the refinement knows of a state of the store. *)
RefinementInv == TypeOK /\ TruthInv /\ Unconcerned

(* Nothing is told when a call goes from one await to another, or fails.   *)
LEMMA Untold ==
  ASSUME NEW c \in Calls, RefinementInv, at[c] # "done" \/ arg[c] = NoSession,
         at' = [at EXCEPT ![c] = at'[c]], arg' = [arg EXCEPT ![c] = arg'[c]],
         seen' = [seen EXCEPT ![c] = seen'[c]], at'[c] # "done" \/ arg'[c] = NoSession
  PROVE  AnswerOf' = AnswerOf
BY DEF RefinementInv, TypeOK, AnswerOf

(* A call that ends with a copy answers with the status in the copy. *)
LEMMA Told ==
  ASSUME NEW c \in Calls, RefinementInv, at[c] # "done",
         NEW s \in SessionIds, NEW v \in Copy,
         at' = [at EXCEPT ![c] = "done"], arg' = [arg EXCEPT ![c] = s],
         seen' = [seen EXCEPT ![c] = v],
         UNCHANGED <<rows, age>>,
         v = "active" => age[s] # "unissued",
         v = "closed" => age[s] # "unissued" /\ rows[s] # "active"
  PROVE  Lifecycle!Answer(c, s)
<1>1. v \in Lifecycle!Truthful(s)
  BY DEF RefinementInv, TypeOK, Copy, Lifecycle!Truthful, LifeOf
<1>2. AnswerOf[c] = NoSession
  BY DEF AnswerOf
<1>3. AnswerOf' = [AnswerOf EXCEPT ![c] = <<s, v>>]
  BY NoSessionAssumption DEF RefinementInv, TypeOK, AnswerOf
<1>4. UNCHANGED LifeOf
  BY DEF LifeOf
<1> QED  BY <1>1, <1>2, <1>3, <1>4 DEF Lifecycle!Answer

(* Rows that were active and are closed now shut their sessions. *)
LEMMA Shuts ==
  ASSUME RefinementInv, NEW S \in SUBSET SessionIds,
         \A s \in S : rows[s] = "active",
         rows' = [s \in SessionIds |-> IF s \in S THEN "closed" ELSE rows[s]],
         UNCHANGED age, UNCHANGED AnswerOf
  PROVE  Lifecycle!Shut(S)
<1>1. \A s \in S : LifeOf[s] = "active"
  BY DEF RefinementInv, TruthInv, LifeOf
<1>2. \A s \in SessionIds : LifeOf'[s] = IF s \in S THEN "closed" ELSE LifeOf[s]
  BY DEF RefinementInv, TruthInv, LifeOf
<1>3. LifeOf' = [s \in SessionIds |-> IF s \in S THEN "closed" ELSE LifeOf[s]]
  BY <1>2 DEF LifeOf
<1> QED  BY <1>1, <1>3 DEF Lifecycle!Shut

(* closeSession closes an active row, or none. *)
LEMMA CloseShuts ==
  ASSUME RefinementInv, NEW s \in SessionIds, rows' = CloseRow(rows, s),
         UNCHANGED age, UNCHANGED AnswerOf
  PROVE  Lifecycle!Shut({s}) \/ UNCHANGED <<LifeOf, AnswerOf>>
<1>1. CASE rows[s] = "active"
  <2>1. rows' = [z \in SessionIds |-> IF z \in {s} THEN "closed" ELSE rows[z]]
    BY <1>1 DEF RefinementInv, TypeOK, CloseRow
  <2> QED  BY <1>1, <2>1, Shuts
<1>2. CASE rows[s] # "active"
  <2>1. rows' = rows
    BY <1>2 DEF RefinementInv, TypeOK, Copy, CloseRow
  <2> QED  BY <2>1 DEF LifeOf
<1> QED  BY <1>1, <1>2

(* An INSERT that was executed, or rejected, issues the session. *)
LEMMA CreateIssues ==
  ASSUME RefinementInv, NEW c \in Calls, NEW s \in SessionIds,
         CreateInsert(c, s) \/ CreateRejected(c, s)
  PROVE  Lifecycle!Issue(s)
<1> USE DEF RefinementInv, TypeOK, TruthInv, CreateInsert, CreateRejected, Fresh, Begin
<1>1. LifeOf[s] = "unissued"
  BY DEF LifeOf
<1>2. UNCHANGED AnswerOf
  BY DEF AnswerOf
<1>3. LifeOf' = [LifeOf EXCEPT ![s] = IF rows'[s] = "none" THEN "gone" ELSE "active"]
  BY DEF LifeOf
<1> QED  BY <1>1, <1>2, <1>3 DEF Lifecycle!Issue

(* The expiry sweep purges what was open or closed. *)
LEMMA ExpirePurges ==
  ASSUME RefinementInv, NEW c \in Calls, ExpireDelete(c)
  PROVE  Lifecycle!Purge(ExpiredRows)
<1> USE DEF RefinementInv, TypeOK, ExpireDelete, SweepWith, ExpiredRows
<1>1. \A s \in ExpiredRows : LifeOf[s] \in {"active", "closed"}
  BY DEF LifeOf, Copy
<1>2. LifeOf' = [s \in SessionIds |-> IF s \in ExpiredRows THEN "gone" ELSE LifeOf[s]]
  BY DEF LifeOf
<1>3. UNCHANGED AnswerOf
  BY Untold DEF Unconcerned, OnSession
<1> QED  BY <1>1, <1>2, <1>3 DEF Lifecycle!Purge

(* A step of createSession after the INSERT. *)
LEMMA CreateRefines ==
  ASSUME RefinementInv, NEW c \in Calls, CreateStep(c)
  PROVE  Lifecycle!Answer(c, arg[c]) \/ UNCHANGED <<LifeOf, AnswerOf>>
<1> USE DEF RefinementInv, Suspend
<1>1. CASE CreateCache(c) \/ CreateUncached(c)
  <2>1. UNCHANGED AnswerOf
    BY <1>1, Untold DEF CreateCache, CreateUncached, TypeOK
  <2> QED  BY <1>1, <2>1 DEF CreateCache, CreateUncached, LifeOf
<1>2. CASE CreateDone(c)
  <2>1. arg[c] \in SessionIds /\ age[arg[c]] # "unissued"
    BY <1>2 DEF CreateDone, TypeOK, OnSession, TruthInv, Holds
  <2> QED  BY <1>2, <2>1, Told DEF CreateDone, TypeOK, Copy
<1> QED  BY <1>1, <1>2 DEF CreateStep

(* A step of getSession after its first look into the map. *)
LEMMA GetRefines ==
  ASSUME RefinementInv, NEW c \in Calls, GetStep(c)
  PROVE  Lifecycle!Answer(c, arg[c]) \/ UNCHANGED <<LifeOf, AnswerOf>>
<1> USE DEF RefinementInv, Suspend
<1>1. CASE GetRedisMiss(c) \/ GetSelect(c) \/ GetRow(c)
  <2>1. UNCHANGED AnswerOf
    BY <1>1, Untold DEF GetRedisMiss, GetSelect, GetRow, TypeOK
  <2> QED  BY <1>1, <2>1 DEF GetRedisMiss, GetSelect, GetRow, LifeOf
<1>2. CASE GetRedisHit(c) \/ GetFill(c)
  <2>1. at[c] \in {"get.redis", "get.fill"}
    BY <1>2 DEF GetRedisHit, GetFill
  <2>2. arg[c] \in SessionIds /\ seen[c] \in Copy
    BY <2>1 DEF TypeOK, OnSession
  <2>3. seen[c] # "none" => age[arg[c]] # "unissued"
    BY <2>1 DEF TruthInv, Holds, Reads
  <2>4. seen[c] = "closed" => rows[arg[c]] # "active"
    BY <2>1 DEF TruthInv, Reads
  <2> QED  BY <1>2, <2>1, <2>2, <2>3, <2>4, Told DEF GetRedisHit, GetFill, TypeOK
<1>3. CASE GetNoRow(c) \/ GetRejected(c)
  <2>1. arg[c] \in SessionIds
    BY <1>3 DEF GetNoRow, GetRejected, TypeOK, OnSession
  <2> QED  BY <1>3, <2>1, Told DEF GetNoRow, GetRejected, TypeOK, Copy
<1> QED  BY <1>1, <1>2, <1>3 DEF GetStep

(* A step of closeSession. *)
LEMMA CloseRefines ==
  ASSUME RefinementInv, NEW c \in Calls, CloseStep(c)
  PROVE  Lifecycle!Answer(c, arg[c]) \/ Lifecycle!Shut({arg[c]}) \/ UNCHANGED <<LifeOf, AnswerOf>>
<1> USE DEF RefinementInv, Suspend
<1>1. CASE CloseUpdate(c) \/ CloseRejected(c)
  <2>1. UNCHANGED AnswerOf
    BY <1>1, Untold DEF CloseUpdate, CloseRejected, TypeOK
  <2>2. arg[c] \in SessionIds
    BY <1>1 DEF CloseUpdate, CloseRejected, TypeOK, OnSession
  <2>3. CASE rows' = CloseRow(rows, arg[c])
    BY <1>1, <2>1, <2>2, <2>3, CloseShuts DEF CloseUpdate, CloseRejected
  <2>4. CASE UNCHANGED rows
    BY <1>1, <2>1, <2>4 DEF CloseUpdate, CloseRejected, LifeOf
  <2> QED  BY <1>1, <2>3, <2>4 DEF CloseUpdate, CloseRejected
<1>2. CASE CloseMark(c) \/ CloseEvict(c) \/ CloseEvictRejected(c)
  <2>1. UNCHANGED AnswerOf
    BY <1>2, Untold DEF CloseMark, CloseEvict, CloseEvictRejected, EvictReady, TypeOK
  <2> QED  BY <1>2, <2>1 DEF CloseMark, CloseEvict, CloseEvictRejected, LifeOf
<1>3. CASE CloseDone(c)
  <2>1. arg[c] \in SessionIds
    BY <1>3 DEF CloseDone, TypeOK, OnSession
  <2> QED  BY <1>3, <2>1, Told DEF CloseDone, TypeOK, Copy
<1> QED  BY <1>1, <1>2, <1>3 DEF CloseStep

(* A step of a sweep tells nobody anything. *)
LEMMA SweepRefines ==
  ASSUME RefinementInv, NEW c \in Calls, SweepStep(c)
  PROVE  Lifecycle!Shut(StaleRows(c)) \/ UNCHANGED <<LifeOf, AnswerOf>>
<1> USE DEF RefinementInv, SweepWith
<1>1. UNCHANGED AnswerOf
  BY Untold DEF SweepStep, StaleSelect, StaleUpdate, SweepRejected, SweepDone, SweepEvict,
                TypeOK, Unconcerned, OnSession
<1>2. CASE StaleUpdate(c)
  <2>1. StaleRows(c) \in SUBSET SessionIds /\ \A s \in StaleRows(c) : rows[s] = "active"
    BY DEF TypeOK, StaleRows
  <2> QED  BY <1>1, <1>2, <2>1, Shuts DEF StaleUpdate
<1>3. CASE StaleSelect(c) \/ SweepRejected(c) \/ SweepDone(c) \/ \E s \in SessionIds : SweepEvict(c, s)
  BY <1>1, <1>3 DEF StaleSelect, SweepRejected, SweepDone, SweepEvict, LifeOf
<1> QED  BY <1>2, <1>3 DEF SweepStep

(* The beginning of a call. *)
LEMMA BeginRefines ==
  ASSUME RefinementInv, NEW c \in Calls, Begins(c)
  PROVE  \/ \E s \in SessionIds : Lifecycle!Issue(s) \/ Lifecycle!Answer(c, s)
         \/ Lifecycle!Purge(ExpiredRows)
         \/ UNCHANGED <<LifeOf, AnswerOf>>
<1> USE DEF RefinementInv
<1>1. ASSUME NEW s \in SessionIds, GetHit(c, s)
      PROVE  Lifecycle!Answer(c, s)
  <2>1. mem[s] \in Copy /\ age[s] # "unissued" /\ (mem[s] = "closed" => rows[s] # "active")
    BY <1>1 DEF GetHit, TypeOK, TruthInv, ClosedCopiesAreTrue
  <2> QED  BY <1>1, <2>1, Told DEF GetHit, Begin, TypeOK
<1>2. ASSUME NEW s \in SessionIds, GetMiss(c, s) \/ Close(c, s)
      PROVE  UNCHANGED <<LifeOf, AnswerOf>>
  <2>1. UNCHANGED AnswerOf
    BY <1>2, Untold DEF GetMiss, Close, Begin, TypeOK
  <2> QED  BY <1>2, <2>1 DEF GetMiss, Close, LifeOf
<1>3. ASSUME NEW spared \in SUBSET SessionIds, Stale(c, spared)
      PROVE  UNCHANGED <<LifeOf, AnswerOf>>
  <2>1. UNCHANGED AnswerOf
    BY <1>3, Untold DEF Stale, SweepWith, TypeOK
  <2> QED  BY <1>3, <2>1 DEF Stale, LifeOf
<1> QED  BY <1>1, <1>2, <1>3, CreateIssues, ExpirePurges DEF Begins

(* Answers that have been taken, or die with the process, are forgotten. *)
LEMMA OtherRefines ==
  ASSUME RefinementInv, Environment \/ (\E c \in Calls : Return(c)) \/ UNCHANGED vars
  PROVE  (\E C \in SUBSET Calls : Lifecycle!Forget(C)) \/ UNCHANGED <<LifeOf, AnswerOf>>
<1> USE DEF RefinementInv
<1>1. CASE Restart
  <2>1. Lifecycle!Forget(Calls)
    BY <1>1 DEF Restart, LifeOf, AnswerOf, Lifecycle!Forget
  <2> QED  BY <2>1
<1>2. ASSUME NEW c \in Calls, Return(c)
      PROVE  Lifecycle!Forget({c})
  <2>1. UNCHANGED LifeOf
    BY <1>2 DEF Return, LifeOf
  <2>2. AnswerOf' = [d \in Calls |-> IF d \in {c} THEN NoSession ELSE AnswerOf[d]]
    BY <1>2 DEF Return, AnswerOf, TypeOK
  <2> QED  BY <2>1, <2>2 DEF Lifecycle!Forget
<1>3. ASSUME NEW s \in SessionIds, Tick(s) \/ RedisLapse(s)
      PROVE  UNCHANGED <<LifeOf, AnswerOf>>
  <2>1. UNCHANGED AnswerOf
    BY <1>3 DEF Tick, RedisLapse, AnswerOf
  <2> QED  BY <1>3, <2>1 DEF Tick, RedisLapse, LifeOf, TypeOK
<1>4. CASE UNCHANGED vars
  BY <1>4 DEF vars, LifeOf, AnswerOf
<1> QED  BY <1>1, <1>2, <1>3, <1>4 DEF Environment

(* Every step of the store is one of the life cycle, or unseen. *)
LEMMA StepRefines ==
  RefinementInv /\ [Next]_vars => [Lifecycle!Next]_(Lifecycle!vars)
<1> SUFFICES ASSUME RefinementInv, [Next]_vars
             PROVE  [Lifecycle!Next]_(Lifecycle!vars)
  OBVIOUS
<1>1. ASSUME NEW c \in Calls, Begins(c)
      PROVE  Lifecycle!Next \/ UNCHANGED <<LifeOf, AnswerOf>>
  <2>1. ExpiredRows \in SUBSET SessionIds
    BY DEF ExpiredRows
  <2> QED  BY <1>1, <2>1, BeginRefines DEF Lifecycle!Next
<1>2. ASSUME NEW c \in Calls, CreateStep(c) \/ GetStep(c) \/ CloseStep(c)
      PROVE  Lifecycle!Next \/ UNCHANGED <<LifeOf, AnswerOf>>
  <2>1. arg[c] \in SessionIds
    BY <1>2 DEF RefinementInv, TypeOK, OnSession, CreateStep, CreateCache, CreateUncached,
                CreateDone, GetStep, GetRedisHit, GetRedisMiss, GetSelect, GetNoRow, GetRow,
                GetFill, GetRejected, CloseStep, CloseUpdate, CloseRejected, CloseMark,
                CloseEvict, CloseEvictRejected, CloseDone, EvictReady
  <2>2. {arg[c]} \in SUBSET SessionIds
    BY <2>1
  <2> QED  BY <1>2, <2>1, <2>2, CreateRefines, GetRefines, CloseRefines DEF Lifecycle!Next
<1>3. ASSUME NEW c \in Calls, SweepStep(c)
      PROVE  Lifecycle!Next \/ UNCHANGED <<LifeOf, AnswerOf>>
  <2>1. StaleRows(c) \in SUBSET SessionIds
    BY DEF RefinementInv, TypeOK, StaleRows
  <2> QED  BY <1>3, <2>1, SweepRefines DEF Lifecycle!Next
<1>4. CASE Environment \/ (\E c \in Calls : Return(c)) \/ UNCHANGED vars
  BY <1>4, OtherRefines DEF Lifecycle!Next, Lifecycle!vars
<1> QED  BY <1>1, <1>2, <1>3, <1>4 DEF Next, Progress, Lifecycle!vars

(* The three tiers implement the life cycle: with every race of readers,   *)
(* closers and sweeps, every rejected command and every restart, no caller *)
(* of getSession is told a status that the session has not had, none is    *)
(* told "closed" of an open session, and no session comes to life twice.   *)
THEOREM StoreImplementsLifecycle == Spec => ImplementsLifecycle
<1>1. Init => Lifecycle!Init
  BY DEF Init, Lifecycle!Init, LifeOf, AnswerOf
<1>2. Init => Unconcerned
  BY DEF Init, Unconcerned
<1>3. Spec => []RefinementInv
  BY <1>2, InitTypeOK, NextTypeOK, InitInv, NextTruthInv, NextUnconcerned, PTL
     DEF Spec, RefinementInv
<1> QED  BY <1>1, <1>3, StepRefines, PTL DEF Spec, ImplementsLifecycle, Lifecycle!Spec
=============================================================================
