--------------------------- MODULE ServerLockProofs ---------------------------
(***************************************************************************)
(* Type correctness, mutual exclusion, safe release, all or nothing and    *)
(* refinement of ServerLock, for any workers, hosts, TTL, limit, bounds.   *)
(*                                                                         *)
(* Mutual exclusion is not inductive.  It follows from: while Redis has    *)
(* always answered, a held token is the one stored in Redis (Owned), and   *)
(* the lease outlasts what is left of the holder's run time (Leased); two  *)
(* tasks never hold one token (OneOwner), because a token is unused when   *)
(* it is made (Fresh).                                                     *)
(***************************************************************************)
EXTENDS ServerLock, TLAPS

NeverAway ==
  outages = 0 => redisUp /\ \A w \in Worker : client[w] # "failed"

IdleHoldsNothing ==
  \A w \in Worker : pc[w] = "idle" => \A h \in Host : ~Holds(w, h)

OneOwner ==
  \A v, w \in Worker, g, h \in Host :
    Holds(v, g) /\ held[v][g] = held[w][h] => v = w /\ g = h

Owned ==
  outages = 0 => \A w \in Worker, h \in Host : Holds(w, h) => key[h] = held[w][h]

Leased ==
  outages = 0 => \A w \in Worker, h \in Host :
                   Holds(w, h) /\ ~direct[w] => lease[h] >= RunLimit - ran[w]

IInv ==
  /\ TypeOK
  /\ NeverAway
  /\ IdleHoldsNothing
  /\ OneOwner
  /\ Owned
  /\ Leased
------------------------------------------------------------------------------
LEMMA TypeInit == Init => TypeOK
BY BoundAssumption, TtlAssumption DEF Init, TypeOK, MaybeToken, Phase

LEMMA NewTokenIsToken ==
  ASSUME NEW t, t \in Token
  PROVE  t # NoToken /\ t \in MaybeToken
BY TokenAssumption DEF MaybeToken

LEMMA CellType ==
  ASSUME NEW f \in [Worker -> [Host -> MaybeToken]], NEW w \in Worker, NEW h \in Host,
         NEW t \in MaybeToken
  PROVE  [f EXCEPT ![w][h] = t] \in [Worker -> [Host -> MaybeToken]]
OBVIOUS

LEMMA RowType ==
  ASSUME NEW f \in [Worker -> [Host -> MaybeToken]], NEW w \in Worker
  PROVE  [f EXCEPT ![w] = [h \in Host |-> NoToken]] \in [Worker -> [Host -> MaybeToken]]
BY DEF MaybeToken

LEMMA ContactType ==
  ASSUME TypeOK, NEW w \in Worker, Contact(w)
  PROVE  client' \in [Worker -> {"unset", "redis", "failed"}]
BY DEF TypeOK, Contact

LEMMA TaskOverType ==
  ASSUME TypeOK, NEW w \in Worker, TaskOver(w)
  PROVE  /\ pc' \in [Worker -> Phase]
         /\ want' \in [Worker -> SUBSET Host]
         /\ direct' \in [Worker -> BOOLEAN]
         /\ ran' \in [Worker -> 0 .. RunLimit]
BY TtlAssumption DEF TypeOK, TaskOver, Phase

LEMMA DieType ==
  ASSUME TypeOK, NEW w \in Worker, Die(w)
  PROVE  /\ held' \in [Worker -> [Host -> MaybeToken]]
         /\ local' \in [Worker -> [Host -> MaybeToken]]
         /\ client' \in [Worker -> {"unset", "redis", "failed"}]
         /\ UNCHANGED <<redisVars, redisUp, outages>>
         /\ TaskOver(w)
BY RowType DEF TypeOK, Die

\* A new token of a task: the type of what Got writes.
LEMMA GotType ==
  ASSUME TypeOK, NEW w \in Worker, NEW h \in Host, NEW t \in Token, Got(w, h, t)
  PROVE  /\ held' \in [Worker -> [Host -> MaybeToken]]
         /\ client' \in [Worker -> {"unset", "redis", "failed"}]
         /\ pc' \in [Worker -> Phase]
<1>1. held' \in [Worker -> [Host -> MaybeToken]]
  BY CellType, NewTokenIsToken DEF TypeOK, Got
<1>2. client' \in [Worker -> {"unset", "redis", "failed"}]
  BY ContactType DEF Got
<1>3. pc' \in [Worker -> Phase]
  BY DEF TypeOK, Got, Phase
<1> QED BY <1>1, <1>2, <1>3

LEMMA TypeStep == TypeOK /\ [Next]_vars => TypeOK'
<1> SUFFICES ASSUME TypeOK, [Next]_vars PROVE TypeOK'
  OBVIOUS
<1> USE TtlAssumption, BoundAssumption
<1>1. ASSUME NEW w \in Worker, StartAny(w) PROVE TypeOK'
  BY <1>1 DEF TypeOK, StartAny, Start, redisVars, envVars, Phase
<1>2. ASSUME NEW w \in Worker, NEW h \in Host, NEW t, AcquireRedis(w, h, t)
      PROVE TypeOK'
  <2>1. t \in Token /\ Got(w, h, t) /\ t \in MaybeToken
    BY <1>2, NewTokenIsToken DEF AcquireRedis
  <2>2. key' \in [Host -> MaybeToken] /\ lease' \in [Host -> 0 .. Ttl]
    BY <1>2, <2>1 DEF TypeOK, AcquireRedis
  <2> QED BY <1>2, <2>1, <2>2, GotType DEF TypeOK, AcquireRedis, envVars
<1>3. ASSUME NEW w \in Worker, NEW h \in Host, NEW t, AcquireLocal(w, h, t)
      PROVE TypeOK'
  <2>1. t \in Token /\ Got(w, h, t) /\ t \in MaybeToken
    BY <1>3, NewTokenIsToken DEF AcquireLocal
  <2>2. local' \in [Worker -> [Host -> MaybeToken]]
    BY <1>3, <2>1, CellType DEF TypeOK, AcquireLocal
  <2> QED BY <1>3, <2>1, <2>2, GotType DEF TypeOK, AcquireLocal, redisVars, envVars
<1>4. ASSUME NEW w \in Worker, NEW h \in Host, Busy(w, h) PROVE TypeOK'
  <2>1. client' \in [Worker -> {"unset", "redis", "failed"}]
        /\ UNCHANGED <<redisVars, envVars, local>>
    BY <1>4, ContactType DEF Busy
  <2>2. CASE AfterBusy(w) = "idle"
    <3>1. TaskOver(w) /\ held' \in [Worker -> [Host -> MaybeToken]]
      BY <1>4, <2>2, RowType DEF TypeOK, Busy
    <3> QED BY <2>1, <3>1, TaskOverType DEF TypeOK, redisVars, envVars
  <2>3. CASE AfterBusy(w) # "idle"
    <3>1. pc' \in [Worker -> Phase] /\ UNCHANGED <<held, want, direct, ran>>
      BY <1>4, <2>3 DEF TypeOK, Busy, AfterBusy, Phase
    <3> QED BY <2>1, <3>1 DEF TypeOK, redisVars, envVars
  <2> QED BY <2>2, <2>3
<1>5. ASSUME NEW w \in Worker, Finish(w) PROVE TypeOK'
  BY <1>5 DEF TypeOK, Finish, redisVars, envVars, Phase
<1>6. ASSUME NEW w \in Worker, NEW h \in Host, Release(w, h) PROVE TypeOK'
  <2>1. CompareAndDelete(held[w][h], key[h]) \in MaybeToken
        /\ CompareAndDelete(held[w][h], local[w][h]) \in MaybeToken
    BY DEF TypeOK, CompareAndDelete, MaybeToken
  <2>2. key' \in [Host -> MaybeToken] /\ lease' \in [Host -> 0 .. Ttl]
    <3>1. CASE ViaRedis(w)
      <4>1. key' = [key EXCEPT ![h] = CompareAndDelete(held[w][h], key[h])]
            /\ lease' = [lease EXCEPT ![h] = IF key'[h] = NoToken THEN 0 ELSE lease[h]]
        BY <1>6, <3>1 DEF Release
      <4>2. key' \in [Host -> MaybeToken]
        BY <4>1, <2>1 DEF TypeOK
      <4>3. (IF key'[h] = NoToken THEN 0 ELSE lease[h]) \in 0 .. Ttl
        BY DEF TypeOK
      <4> QED BY <4>1, <4>2, <4>3 DEF TypeOK
    <3>2. CASE ~ViaRedis(w)
      BY <1>6, <3>2 DEF TypeOK, Release, redisVars
    <3> QED BY <3>1, <3>2
  <2>3. local' \in [Worker -> [Host -> MaybeToken]]
    <3>1. CASE ViaRedis(w)
      BY <1>6, <3>1 DEF TypeOK, Release
    <3>2. CASE ~ViaRedis(w)
      <4>1. local' = [local EXCEPT ![w][h] = CompareAndDelete(held[w][h], local[w][h])]
        BY <1>6, <3>2 DEF Release
      <4> QED BY <4>1, <2>1, CellType DEF TypeOK
    <3> QED BY <3>1, <3>2
  <2>4. held' \in [Worker -> [Host -> MaybeToken]]
        /\ client' \in [Worker -> {"unset", "redis", "failed"}]
    BY <1>6, CellType, ContactType DEF TypeOK, Release, MaybeToken
  <2>5. /\ pc' \in [Worker -> Phase]
        /\ want' \in [Worker -> SUBSET Host]
        /\ direct' \in [Worker -> BOOLEAN]
        /\ ran' \in [Worker -> 0 .. RunLimit]
    <3>1. UNCHANGED taskVars \/ TaskOver(w)
      BY <1>6 DEF Release
    <3> QED BY <3>1, TaskOverType DEF TypeOK, taskVars
  <2> QED BY <1>6, <2>2, <2>3, <2>4, <2>5 DEF TypeOK, Release, envVars
<1>7. ASSUME NEW w \in Worker, NEW h \in Host, Refresh(w, h) PROVE TypeOK'
  BY <1>7 DEF TypeOK, Refresh, envVars, taskVars
<1>8. ASSUME NEW w \in Worker, Crash(w) PROVE TypeOK'
  <2>1. kills' \in 0 .. MaxKills /\ Die(w)
    BY <1>8 DEF TypeOK, Crash
  <2> QED BY <2>1, DieType, TaskOverType DEF TypeOK, redisVars
<1>9. ASSUME NEW w \in Worker, TimeLimit(w) PROVE TypeOK'
  <2>1. kills' = kills /\ Die(w)
    BY <1>9 DEF TimeLimit
  <2> QED BY <2>1, DieType, TaskOverType DEF TypeOK, redisVars
<1>10. ASSUME NEW w \in Worker, NEW h \in Host, ExpireLocal(w, h) PROVE TypeOK'
  <2>1. local' \in [Worker -> [Host -> MaybeToken]]
    BY <1>10, CellType DEF TypeOK, ExpireLocal, MaybeToken
  <2> QED BY <1>10, <2>1 DEF TypeOK, ExpireLocal, redisVars, envVars, taskVars
<1>11. ASSUME Tick PROVE TypeOK'
  <2>1. \A w \in Worker : Working(w) => ran[w] + 1 \in 0 .. RunLimit
    <3>1. \A w \in Worker : Working(w) => ran[w] # RunLimit
      BY <1>11, Zenon DEF Tick, AtLimit
    <3>2. \A w \in Worker : ran[w] \in 0 .. RunLimit
      BY DEF TypeOK
    <3> QED BY <3>1, <3>2
  <2>2. ran' \in [Worker -> 0 .. RunLimit]
    <3>1. ran' = [w \in Worker |-> IF Working(w) THEN ran[w] + 1 ELSE ran[w]]
      BY <1>11 DEF Tick
    <3>2. \A w \in Worker :
            (IF Working(w) THEN ran[w] + 1 ELSE ran[w]) \in 0 .. RunLimit
      BY <2>1 DEF TypeOK
    <3> QED BY <3>1, <3>2
  <2>3. key' \in [Host -> MaybeToken] /\ lease' \in [Host -> 0 .. Ttl]
    BY <1>11 DEF TypeOK, Tick, MaybeToken
  <2> QED BY <1>11, <2>2, <2>3 DEF TypeOK, Tick, envVars
<1>12. ASSUME RedisDown \/ RedisBack PROVE TypeOK'
  <2>1. redisUp' \in BOOLEAN
    BY <1>12, Zenon DEF RedisDown, RedisBack
  <2>3. outages' \in 0 .. MaxOutages
    <3>1. outages' = outages \/ (outages < MaxOutages /\ outages' = outages + 1)
      BY <1>12, Zenon DEF RedisDown, RedisBack
    <3> QED BY <3>1 DEF TypeOK
  <2>2. UNCHANGED <<key, lease, client, local, held, pc, want, direct, ran, kills>>
    BY <1>12 DEF RedisDown, RedisBack, redisVars, taskVars
  <2> QED BY <2>1, <2>2, <2>3 DEF TypeOK
<1>13. CASE UNCHANGED vars
  BY <1>13 DEF TypeOK, vars
<1> QED
  BY <1>1, <1>2, <1>3, <1>4, <1>5, <1>6, <1>7, <1>8, <1>9, <1>10, <1>11, <1>12, <1>13
  DEF Next, TryLock, ReleaseAny, RefreshAny

THEOREM TypeCorrect == Spec => []TypeOK
<1>1. Init => TypeOK
  BY TypeInit
<1>2. TypeOK /\ [Next]_vars => TypeOK'
  BY TypeStep
<1> QED BY <1>1, <1>2, PTL DEF Spec
------------------------------------------------------------------------------
(***************************************************************************)
(* Tokens only ever appear in one way, by an acquire that got a fresh one; *)
(* every other step keeps or drops them.                                   *)
(***************************************************************************)
Keeps == \A w \in Worker, h \in Host :
           held'[w][h] = held[w][h] \/ held'[w][h] = NoToken

Acquires(w, h, t) == AcquireRedis(w, h, t) \/ AcquireLocal(w, h, t)

\* Every step is an acquire of a fresh token, or keeps or drops tokens.
LEMMA TokenSteps ==
  ASSUME TypeOK, [Next]_vars
  PROVE  \/ Keeps
         \/ \E w \in Worker, h \in Host, t \in Token : Acquires(w, h, t)
<1>1. ASSUME UNCHANGED held PROVE Keeps
  BY <1>1 DEF Keeps
<1>2. ASSUME NEW w \in Worker, NEW h \in Host,
             held' = [held EXCEPT ![w][h] = NoToken] PROVE Keeps
  BY <1>2 DEF Keeps, TypeOK
<1>3. ASSUME NEW w \in Worker,
             held' = [held EXCEPT ![w] = [h \in Host |-> NoToken]] PROVE Keeps
  BY <1>3 DEF Keeps, TypeOK
<1>4. ASSUME NEW w \in Worker, StartAny(w) \/ Finish(w) \/ RefreshAny(w) PROVE Keeps
  BY <1>1, <1>4 DEF StartAny, Start, Finish, RefreshAny, Refresh
<1>5. ASSUME NEW w \in Worker, NEW h \in Host, Busy(w, h) PROVE Keeps
  BY <1>1, <1>3, <1>5 DEF Busy
<1>6. ASSUME NEW w \in Worker, NEW h \in Host, NEW t, Acquires(w, h, t)
      PROVE  t \in Token
  BY <1>6 DEF Acquires, AcquireRedis, AcquireLocal
<1>7. ASSUME NEW w \in Worker, NEW h \in Host, Release(w, h) PROVE Keeps
  BY <1>2, <1>7 DEF Release
<1>8. ASSUME NEW w \in Worker, Crash(w) \/ TimeLimit(w) PROVE Keeps
  BY <1>3, <1>8 DEF Crash, TimeLimit, Die
<1>9. ASSUME \/ \E w \in Worker, h \in Host : ExpireLocal(w, h)
             \/ Tick \/ RedisDown \/ RedisBack \/ UNCHANGED vars
      PROVE  Keeps
  BY <1>1, <1>9 DEF ExpireLocal, Tick, RedisDown, RedisBack, vars
<1> QED BY <1>4, <1>5, <1>6, <1>7, <1>8, <1>9
  DEF Next, TryLock, ReleaseAny, Acquires

\* What an acquire does to the tokens.
LEMMA AcquireHeld ==
  ASSUME TypeOK, NEW w \in Worker, NEW h \in Host, NEW t \in Token, Acquires(w, h, t)
  PROVE  /\ held' = [held EXCEPT ![w][h] = t]
         /\ held'[w][h] = t
         /\ \A v \in Worker, g \in Host :
              v # w \/ g # h => held'[v][g] = held[v][g]
         /\ t # NoToken
         /\ ~Holds(w, h)
         /\ Fresh(t)
BY NewTokenIsToken DEF Acquires, AcquireRedis, AcquireLocal, Got, TypeOK, NextHost, Holds

LEMMA OneOwnerInit == Init => OneOwner
BY DEF Init, OneOwner, Holds

LEMMA OneOwnerStep ==
  ASSUME TypeOK, OneOwner, [Next]_vars
  PROVE  OneOwner'
<1>1. CASE Keeps
  BY <1>1 DEF OneOwner, Keeps, Holds
<1>2. ASSUME NEW w \in Worker, NEW h \in Host, NEW t \in Token, Acquires(w, h, t)
      PROVE  OneOwner'
  <2>1. \A v \in Worker, g \in Host : held[v][g] # t
    BY <1>2, AcquireHeld DEF Fresh
  <2> QED BY <1>2, <2>1, AcquireHeld DEF OneOwner, Holds
<1> QED BY <1>1, <1>2, TokenSteps
------------------------------------------------------------------------------
LEMMA NeverAwayInit == Init => NeverAway
BY Zenon DEF Init, NeverAway

\* A process only latches its local locks when a ping failed: in an outage.
LEMMA NeverAwayStep ==
  ASSUME TypeOK, NeverAway, [Next]_vars
  PROVE  NeverAway'
<1>1. ASSUME UNCHANGED envVars, \/ UNCHANGED client \/ \E w \in Worker : Contact(w)
      PROVE  NeverAway'
  <2> SUFFICES ASSUME outages = 0 PROVE redisUp /\ \A w \in Worker : client'[w] # "failed"
    BY <1>1 DEF NeverAway, envVars
  <2>1. redisUp /\ \A w \in Worker : client[w] # "failed"
    BY DEF NeverAway
  <2> QED BY <1>1, <2>1 DEF Contact, TypeOK
<1>2. ASSUME NEW w \in Worker, Crash(w) \/ TimeLimit(w) PROVE NeverAway'
  <2>1. client' = [client EXCEPT ![w] = "unset"] /\ UNCHANGED <<redisUp, outages>>
    BY <1>2 DEF Crash, TimeLimit, Die
  <2>2. \A v \in Worker : client'[v] = client[v] \/ client'[v] # "failed"
    BY <2>1 DEF TypeOK
  <2> QED BY <2>1, <2>2 DEF NeverAway
<1>3. ASSUME RedisDown PROVE NeverAway'
  <2>1. outages' # 0
    BY <1>3 DEF RedisDown, TypeOK
  <2> QED BY <2>1 DEF NeverAway
<1>4. ASSUME RedisBack PROVE NeverAway'
  BY <1>4, Zenon DEF RedisBack, NeverAway
<1>5. ASSUME NEW w \in Worker,
             StartAny(w) \/ Finish(w) \/ RefreshAny(w) \/ ReleaseAny(w) \/ TryLock(w)
      PROVE  UNCHANGED envVars /\ (UNCHANGED client \/ Contact(w))
  BY <1>5 DEF StartAny, Start, Finish, RefreshAny, Refresh, ReleaseAny, Release,
              TryLock, AcquireRedis, AcquireLocal, Got, Busy
<1>6. ASSUME \/ \E w \in Worker, h \in Host : ExpireLocal(w, h)
             \/ Tick \/ UNCHANGED vars
      PROVE  UNCHANGED envVars /\ UNCHANGED client
  BY <1>6 DEF ExpireLocal, Tick, vars, envVars
<1> QED BY <1>1, <1>2, <1>3, <1>4, <1>5, <1>6 DEF Next

LEMMA IdleInit == Init => IdleHoldsNothing
BY DEF Init, IdleHoldsNothing, Holds

LEMMA IdleStep ==
  ASSUME TypeOK, IdleHoldsNothing, [Next]_vars
  PROVE  IdleHoldsNothing'
<1>1. ASSUME UNCHANGED <<held, pc>> PROVE IdleHoldsNothing'
  BY <1>1 DEF IdleHoldsNothing, Holds
<1>2. ASSUME NEW w \in Worker, TaskOver(w),
             held' = [held EXCEPT ![w] = [h \in Host |-> NoToken]]
      PROVE  IdleHoldsNothing'
  BY <1>2 DEF IdleHoldsNothing, Holds, TaskOver, TypeOK
<1>3. ASSUME NEW w \in Worker, StartAny(w) \/ Finish(w) PROVE IdleHoldsNothing'
  <2>1. UNCHANGED held /\ \E p \in {"acquire", "release"} : pc' = [pc EXCEPT ![w] = p]
    BY <1>3 DEF StartAny, Start, Finish
  <2>2. \A v \in Worker : pc'[v] = "idle" => pc[v] = "idle"
    BY <2>1 DEF TypeOK
  <2> QED BY <2>1, <2>2 DEF IdleHoldsNothing, Holds
<1>4. ASSUME NEW w \in Worker, NEW h \in Host, NEW t \in Token, Acquires(w, h, t)
      PROVE  IdleHoldsNothing'
  <2>1. pc'[w] # "idle" /\ \A v \in Worker : v # w => pc'[v] = pc[v]
    <3>1. Got(w, h, t)
      BY <1>4 DEF Acquires, AcquireRedis, AcquireLocal
    <3>2. PICK p \in {"run", "acquire"} : pc' = [pc EXCEPT ![w] = p]
      BY <3>1 DEF Got
    <3> QED BY <3>2 DEF TypeOK
  <2>2. \A v \in Worker, g \in Host : v # w => held'[v][g] = held[v][g]
    BY <1>4, AcquireHeld
  <2> QED BY <2>1, <2>2 DEF IdleHoldsNothing, Holds
<1>5. ASSUME NEW w \in Worker, NEW h \in Host, Busy(w, h) PROVE IdleHoldsNothing'
  <2>1. CASE AfterBusy(w) = "idle"
    BY <1>2, <1>5, <2>1 DEF Busy
  <2>2. CASE AfterBusy(w) # "idle"
    <3>1. UNCHANGED held /\ pc' = [pc EXCEPT ![w] = AfterBusy(w)]
      BY <1>5, <2>2 DEF Busy
    <3>2. \A v \in Worker : pc'[v] = "idle" => pc[v] = "idle"
      BY <2>2, <3>1 DEF TypeOK
    <3> QED BY <3>1, <3>2 DEF IdleHoldsNothing, Holds
  <2> QED BY <2>1, <2>2
<1>6. ASSUME NEW w \in Worker, NEW h \in Host, Release(w, h) PROVE IdleHoldsNothing'
  <2>1. held' = [held EXCEPT ![w][h] = NoToken]
    BY <1>6 DEF Release
  <2>2. CASE \E g \in Host \ {h} : Holds(w, g)
    BY <1>6, <2>1, <2>2 DEF Release, taskVars, IdleHoldsNothing, Holds, TypeOK
  <2>3. CASE ~\E g \in Host \ {h} : Holds(w, g)
    BY <1>6, <2>1, <2>3 DEF Release, TaskOver, IdleHoldsNothing, Holds, TypeOK
  <2> QED BY <2>2, <2>3
<1>7. ASSUME NEW w \in Worker, Crash(w) \/ TimeLimit(w) PROVE IdleHoldsNothing'
  BY <1>2, <1>7 DEF Crash, TimeLimit, Die
<1>8. ASSUME \/ \E w \in Worker : RefreshAny(w)
             \/ \E w \in Worker, h \in Host : ExpireLocal(w, h)
             \/ Tick \/ RedisDown \/ RedisBack \/ UNCHANGED vars
      PROVE  UNCHANGED <<held, pc>>
  BY <1>8 DEF RefreshAny, Refresh, ExpireLocal, Tick, RedisDown, RedisBack, vars, taskVars
<1>9. \A w \in Worker, h \in Host : \A t :
        AcquireRedis(w, h, t) \/ AcquireLocal(w, h, t) => t \in Token /\ Acquires(w, h, t)
  BY DEF Acquires, AcquireRedis, AcquireLocal
<1> QED BY <1>1, <1>3, <1>4, <1>5, <1>6, <1>7, <1>8, <1>9
  DEF Next, TryLock, ReleaseAny
------------------------------------------------------------------------------
LEMMA OwnedInit == Init => Owned /\ Leased
BY DEF Init, Owned, Leased, Holds

\* While Redis has always answered, no lock is taken from the process map.
LEMMA NoLocalAcquire ==
  ASSUME NeverAway, outages = 0, NEW w \in Worker
  PROVE  ViaRedis(w)
BY DEF NeverAway, ViaRedis

LEMMA OwnedStep ==
  ASSUME IInv, [Next]_vars, outages' = 0
  PROVE  \A w \in Worker, h \in Host : held'[w][h] # NoToken =>
           /\ key'[h] = held'[w][h]
           /\ ~direct'[w] => lease'[h] >= RunLimit - ran'[w]
<1> DEFINE Goal == \A w \in Worker, h \in Host : held'[w][h] # NoToken =>
                     /\ key'[h] = held'[w][h]
                     /\ ~direct'[w] => lease'[h] >= RunLimit - ran'[w]
<1> USE TtlAssumption
<1>0. outages = 0
  <2>1. outages' = outages \/ outages' = outages + 1
    BY DEF Next, vars, envVars, StartAny, Start, TryLock, AcquireRedis, AcquireLocal,
           Busy, Finish, ReleaseAny, Release, RefreshAny, Refresh, Crash, TimeLimit,
           Die, ExpireLocal, Tick, RedisDown, RedisBack
  <2> QED BY <2>1 DEF IInv, TypeOK
<1>a. \A w \in Worker, h \in Host : held[w][h] # NoToken =>
        /\ key[h] = held[w][h]
        /\ ~direct[w] => lease[h] >= RunLimit - ran[w]
  BY <1>0 DEF IInv, Owned, Leased, Holds
<1>b. /\ \A w \in Worker : ran[w] \in 0 .. RunLimit
      /\ \A h \in Host : lease[h] \in 0 .. Ttl
  BY DEF IInv, TypeOK
\* The holder of a token after the step held it before, and nothing it rests on moved.
<1>1. ASSUME Keeps, UNCHANGED <<key, lease>>,
             \A v \in Worker : \/ \A h \in Host : held'[v][h] = NoToken
                               \/ direct'[v] = direct[v] /\ ran'[v] = ran[v]
      PROVE  Goal
  BY <1>1, <1>a DEF Keeps
<1>2. ASSUME NEW w \in Worker, TaskOver(w)
      PROVE  \A v \in Worker : v # w => direct'[v] = direct[v] /\ ran'[v] = ran[v]
  BY <1>2 DEF TaskOver, IInv, TypeOK
<1>3. ASSUME NEW w \in Worker, StartAny(w) PROVE Goal
  <2>1. UNCHANGED <<held, key, lease, ran>> /\ pc[w] = "idle"
        /\ \E d \in BOOLEAN : direct' = [direct EXCEPT ![w] = d]
    BY <1>3 DEF StartAny, Start, redisVars
  <2>2. \A h \in Host : held[w][h] = NoToken
    BY <2>1 DEF IInv, IdleHoldsNothing, Holds
  <2>3. \A v \in Worker : v # w => direct'[v] = direct[v]
    BY <2>1 DEF IInv, TypeOK
  <2> QED BY <2>1, <2>2, <2>3, <1>1 DEF Keeps
<1>4. ASSUME NEW w \in Worker, NEW h \in Host, NEW t, AcquireRedis(w, h, t) PROVE Goal
  <2>1. /\ t \in Token /\ key[h] = NoToken
        /\ key' = [key EXCEPT ![h] = t]
        /\ lease' = [lease EXCEPT ![h] = Ttl]
        /\ UNCHANGED <<direct, ran>>
    BY <1>4 DEF AcquireRedis, Free
  <2>2. /\ held'[w][h] = t
        /\ \A v \in Worker, g \in Host :
             v # w \/ g # h => held'[v][g] = held[v][g]
    BY <1>4, <2>1, AcquireHeld DEF Acquires, IInv
  <2>3. \A v \in Worker : held[v][h] = NoToken
    BY <1>a, <2>1
  <2>4. key'[h] = t /\ lease'[h] = Ttl
        /\ \A g \in Host : g # h => key'[g] = key[g] /\ lease'[g] = lease[g]
    BY <2>1 DEF IInv, TypeOK
  <2>5. Ttl >= RunLimit - ran[w]
    BY <1>b
  <2> QED BY <2>1, <2>2, <2>3, <2>4, <2>5, <1>a
<1>5. ASSUME NEW w \in Worker, NEW h \in Host, NEW t, AcquireLocal(w, h, t) PROVE Goal
  BY <1>0, <1>5, NoLocalAcquire DEF AcquireLocal, IInv
<1>6. ASSUME NEW w \in Worker, NEW h \in Host, Busy(w, h) PROVE Goal
  <2>1. UNCHANGED <<key, lease>>
    BY <1>6 DEF Busy, redisVars
  <2>2. CASE AfterBusy(w) = "idle"
    <3>1. TaskOver(w) /\ held' = [held EXCEPT ![w] = [g \in Host |-> NoToken]]
      BY <1>6, <2>2 DEF Busy
    <3>2. Keeps /\ \A g \in Host : held'[w][g] = NoToken
      BY <3>1 DEF Keeps, IInv, TypeOK
    <3> QED BY <2>1, <3>1, <3>2, <1>1, <1>2
  <2>3. CASE AfterBusy(w) # "idle"
    <3>1. UNCHANGED <<held, direct, ran>>
      BY <1>6, <2>3 DEF Busy
    <3> QED BY <2>1, <3>1, <1>1 DEF Keeps
  <2> QED BY <2>2, <2>3
<1>7. ASSUME NEW w \in Worker, Finish(w) PROVE Goal
  BY <1>1, <1>7 DEF Finish, redisVars, Keeps
<1>8. ASSUME NEW w \in Worker, NEW h \in Host, Release(w, h) PROVE Goal
  <2>1. ViaRedis(w)
    BY <1>0, NoLocalAcquire DEF IInv
  <2>2. /\ held' = [held EXCEPT ![w][h] = NoToken]
        /\ key' = [key EXCEPT ![h] = CompareAndDelete(held[w][h], key[h])]
        /\ lease' = [lease EXCEPT ![h] = IF key'[h] = NoToken THEN 0 ELSE lease[h]]
        /\ Holds(w, h)
        /\ IF \E g \in Host \ {h} : Holds(w, g) THEN UNCHANGED taskVars ELSE TaskOver(w)
    BY <1>8, <2>1 DEF Release
  <2>3. /\ \A g \in Host : g # h => key'[g] = key[g] /\ lease'[g] = lease[g]
        /\ held'[w][h] = NoToken
        /\ \A v \in Worker, g \in Host : v # w \/ g # h => held'[v][g] = held[v][g]
    BY <2>2 DEF IInv, TypeOK
  \* Nobody else holds h: its token would be the one in Redis, which is w's.
  <2>4. \A v \in Worker : v # w => held[v][h] = NoToken
    <3>1. key[h] = held[w][h]
      BY <1>a, <2>2 DEF Holds
    <3> QED BY <1>a, <2>2, <3>1 DEF IInv, OneOwner, Holds
  <2>5. \A v \in Worker : \/ \A g \in Host : held'[v][g] = NoToken
                          \/ direct'[v] = direct[v] /\ ran'[v] = ran[v]
    <3>1. CASE \E g \in Host \ {h} : Holds(w, g)
      BY <2>2, <3>1 DEF taskVars
    <3>2. CASE ~\E g \in Host \ {h} : Holds(w, g)
      <4>1. \A g \in Host : held'[w][g] = NoToken
        BY <3>2, <2>3 DEF Holds
      <4> QED BY <2>2, <3>2, <4>1, <1>2
    <3> QED BY <3>1, <3>2
  <2> QED BY <2>3, <2>4, <2>5, <1>a
<1>9. ASSUME NEW w \in Worker, NEW h \in Host, Refresh(w, h) PROVE Goal
  <2>1. UNCHANGED <<key, held, direct, ran>> /\ lease' = [lease EXCEPT ![h] = Ttl]
    BY <1>9 DEF Refresh, taskVars
  <2>2. \A g \in Host : lease'[g] >= lease[g]
    BY <2>1, <1>b DEF IInv, TypeOK
  <2>3. \A g \in Host : lease'[g] \in 0 .. Ttl
    BY <2>1, <1>b DEF IInv, TypeOK
  <2> QED BY <2>1, <2>2, <2>3, <1>a, <1>b
<1>10. ASSUME NEW w \in Worker, Crash(w) \/ TimeLimit(w) PROVE Goal
  <2>1. /\ TaskOver(w) /\ UNCHANGED <<key, lease>>
        /\ held' = [held EXCEPT ![w] = [h \in Host |-> NoToken]]
    BY <1>10 DEF Crash, TimeLimit, Die, redisVars
  <2>2. Keeps /\ \A h \in Host : held'[w][h] = NoToken
    BY <2>1 DEF Keeps, IInv, TypeOK
  <2> QED BY <2>1, <2>2, <1>1, <1>2
<1>11. ASSUME Tick PROVE Goal
  <2> SUFFICES ASSUME NEW w \in Worker, NEW h \in Host, held'[w][h] # NoToken
               PROVE  /\ key'[h] = held'[w][h]
                      /\ ~direct'[w] => lease'[h] >= RunLimit - ran'[w]
    OBVIOUS
  <2>1. /\ UNCHANGED <<held, direct>>
        /\ ~AtLimit(w) /\ ~RefreshDue(w) /\ ~HalfAcquired(w)
        /\ key'[h] = IF Expired(h) THEN NoToken ELSE key[h]
        /\ lease'[h] = IF lease[h] = 0 THEN 0 ELSE lease[h] - 1
        /\ ran'[w] = IF Working(w) THEN ran[w] + 1 ELSE ran[w]
    BY <1>11 DEF Tick
  <2>2. Holds(w, h) /\ key[h] = held[w][h]
    BY <2>1, <1>a DEF Holds
  <2>3. pc[w] \in {"run", "release"}
    <3>1. pc[w] # "idle" /\ pc[w] # "acquire"
      BY <2>1, <2>2 DEF IInv, IdleHoldsNothing, HalfAcquired
    <3> QED BY <3>1 DEF IInv, TypeOK, Phase
  <2>4. CASE direct[w]
    <3>1. lease[h] # 0
      BY <2>1, <2>2, <2>4, <1>0 DEF RefreshDue, IInv, NeverAway
    <3> QED BY <2>1, <2>2, <2>4, <3>1 DEF Expired
  <2>5. CASE ~direct[w]
    <3>1. Working(w) /\ ran[w] # RunLimit
      BY <2>1, <2>3, <2>5 DEF Working, AtLimit
    <3>2. lease[h] >= RunLimit - ran[w] /\ ran[w] \in 0 .. RunLimit /\ lease[h] \in 0 .. Ttl
      BY <2>2, <2>5, <1>a, <1>b DEF Holds
    <3>3. lease[h] # 0
      BY <3>1, <3>2
    <3>4. lease'[h] = lease[h] - 1 /\ ran'[w] = ran[w] + 1
      BY <2>1, <3>1, <3>3
    <3>5. key'[h] = held'[w][h]
      BY <2>1, <2>2, <3>3 DEF Expired
    <3> QED BY <3>2, <3>4, <3>5
  <2> QED BY <2>4, <2>5
<1>12. ASSUME \/ \E w \in Worker, h \in Host : ExpireLocal(w, h)
              \/ RedisDown \/ RedisBack \/ UNCHANGED vars
       PROVE  Goal
  <2>1. UNCHANGED <<key, lease, held, direct, ran>>
    BY <1>12 DEF ExpireLocal, RedisDown, RedisBack, vars, redisVars, taskVars
  <2> QED BY <2>1, <1>1 DEF Keeps
<1> QED
  BY <1>3, <1>4, <1>5, <1>6, <1>7, <1>8, <1>9, <1>10, <1>11, <1>12
  DEF Next, TryLock, ReleaseAny, RefreshAny
------------------------------------------------------------------------------
LEMMA IInvInit == Init => IInv
BY TypeInit, NeverAwayInit, IdleInit, OneOwnerInit, OwnedInit DEF IInv

LEMMA IInvStep == IInv /\ [Next]_vars => IInv'
<1> SUFFICES ASSUME IInv, [Next]_vars PROVE IInv'
  OBVIOUS
<1>1. TypeOK' /\ NeverAway' /\ IdleHoldsNothing' /\ OneOwner'
  BY TypeStep, NeverAwayStep, IdleStep, OneOwnerStep DEF IInv
<1>2. Owned'
  BY OwnedStep DEF Owned, Holds
<1>3. Leased'
  BY OwnedStep DEF Leased, Holds
<1> QED BY <1>1, <1>2, <1>3 DEF IInv

LEMMA Invariance == Spec => []IInv
BY IInvInit, IInvStep, PTL DEF Spec

LEMMA OwnedExcludes == IInv => MutualExclusion
BY DEF IInv, Owned, OneOwner, MutualExclusion, AtMostOnePerServer, Holds

\* While Redis has always answered, no two tasks hold one host, whatever keys
\* expire and whichever workers die.
THEOREM MutualExclusionHolds == Spec => []MutualExclusion
BY Invariance, OwnedExcludes, PTL
------------------------------------------------------------------------------
LEMMA OwnKeyStep ==
  ASSUME TypeOK, [Next]_vars, NEW h \in Host, key[h] # NoToken, key'[h] # key[h]
  PROVE  /\ key'[h] = NoToken
         /\ lease[h] = 0 \/ \E w \in Worker : held[w][h] = key[h]
<1> DEFINE Goal == /\ key'[h] = NoToken
                   /\ lease[h] = 0 \/ \E w \in Worker : held[w][h] = key[h]
<1>1. ASSUME NEW w \in Worker, NEW g \in Host, NEW t, AcquireRedis(w, g, t)
      PROVE  FALSE
  BY <1>1 DEF AcquireRedis, Free, TypeOK
<1>2. ASSUME NEW w \in Worker, NEW g \in Host, Release(w, g)
      PROVE  Goal
  <2>1. key' = [key EXCEPT ![g] = CompareAndDelete(held[w][g], key[g])]
    BY <1>2 DEF Release, redisVars
  <2> QED BY <2>1 DEF CompareAndDelete, TypeOK
<1>3. CASE Tick
  BY <1>3 DEF Tick, Expired
<1>4. ASSUME UNCHANGED key PROVE FALSE
  BY <1>4
<1>5. ASSUME NEW w \in Worker, NEW g \in Host, NEW t,
             AcquireLocal(w, g, t) \/ Busy(w, g) \/ Refresh(w, g) \/ ExpireLocal(w, g)
      PROVE  UNCHANGED key
  BY <1>5 DEF AcquireLocal, Busy, Refresh, ExpireLocal, redisVars
<1>6. ASSUME NEW w \in Worker, StartAny(w) \/ Finish(w) \/ Crash(w) \/ TimeLimit(w)
      PROVE  UNCHANGED key
  BY <1>6 DEF StartAny, Start, Finish, Crash, TimeLimit, Die, redisVars
<1>7. ASSUME RedisDown \/ RedisBack \/ UNCHANGED vars PROVE UNCHANGED key
  BY <1>7 DEF RedisDown, RedisBack, redisVars, vars
<1> QED BY <1>1, <1>2, <1>3, <1>4, <1>5, <1>6, <1>7
  DEF Next, TryLock, ReleaseAny, RefreshAny

\* A key leaves Redis by its TTL or by the task that was given its token, and is
\* never overwritten, in outages too.
THEOREM OwnKeyOnlyHolds == Spec => OwnKeyOnly
<1>1. TypeOK /\ [Next]_vars =>
        [\A h \in Host : key[h] # NoToken /\ key'[h] # key[h] =>
           /\ key'[h] = NoToken
           /\ lease[h] = 0 \/ \E w \in Worker : held[w][h] = key[h]]_vars
  BY OwnKeyStep
<1> QED BY <1>1, TypeCorrect, PTL DEF Spec, OwnKeyOnly

\* A process in a task comes to idle with its client in two ways: a first lock that is
\* busy, when it holds nothing, and its last release, of a task or of a half-won pair.
LEMMA WaysToIdle ==
  ASSUME IInv, [Next]_vars, NEW w \in Worker,
         pc[w] # "idle", pc'[w] = "idle", client'[w] # "unset"
  PROVE  \/ \A h \in Host : ~Holds(w, h)
         \/ \E h \in Host : Release(w, h) /\ \A g \in Host \ {h} : ~Holds(w, g)
<1> USE DEF IInv, TypeOK
<1>1. ASSUME NEW v \in Worker, StartAny(v) \/ Finish(v) \/ RefreshAny(v)
      PROVE  FALSE
  BY <1>1 DEF StartAny, Start, Finish, RefreshAny, Refresh, taskVars
<1>2. ASSUME NEW v \in Worker, NEW h \in Host, NEW t, AcquireRedis(v, h, t) \/ AcquireLocal(v, h, t)
      PROVE  FALSE
  BY <1>2 DEF AcquireRedis, AcquireLocal, Got
<1>3. ASSUME NEW v \in Worker, NEW h \in Host, Busy(v, h)
      PROVE  \A g \in Host : ~Holds(w, g)
  BY <1>3 DEF Busy, AfterBusy, TaskOver
<1>4. ASSUME NEW v \in Worker, NEW h \in Host, Release(v, h)
      PROVE  v = w /\ \A g \in Host \ {h} : ~Holds(w, g)
  BY <1>4 DEF Release, TaskOver, taskVars
<1>5. ASSUME NEW v \in Worker, Crash(v) \/ TimeLimit(v)
      PROVE  FALSE
  BY <1>5 DEF Crash, TimeLimit, Die, TaskOver
<1>6. CASE (\E v \in Worker, h \in Host : ExpireLocal(v, h)) \/ Tick \/ RedisDown \/ RedisBack \/ UNCHANGED vars
  BY <1>6 DEF ExpireLocal, Tick, RedisDown, RedisBack, taskVars, vars
<1> QED
  BY <1>1, <1>2, <1>3, <1>4, <1>5, <1>6 DEF Next, TryLock, ReleaseAny

LEMMA NothingLeftStep ==
  ASSUME IInv, [Next]_vars, NEW w \in Worker, NEW h \in Host,
         pc[w] # "idle", pc'[w] = "idle", client'[w] # "unset", outages' = 0, Holds(w, h)
  PROVE  key'[h] # held[w][h]
<1>1. Release(w, h)
  BY WaysToIdle
<1>2. redisUp /\ client[w] # "failed" /\ key[h] = held[w][h]
  BY <1>1 DEF IInv, NeverAway, Owned, Release, envVars
<1>3. key' = [key EXCEPT ![h] = CompareAndDelete(held[w][h], key[h])]
  BY <1>1, <1>2 DEF Release, ViaRedis
<1>4. key'[h] = NoToken
  BY <1>2, <1>3 DEF IInv, TypeOK, CompareAndDelete
<1> QED BY <1>4 DEF Holds

\* A task that is over leaves no key of its own in Redis, whichever of its locks it won
\* (try_acquire_dual_server_lock, release_server_lock), if Redis never was away.
THEOREM NothingLeftBehindHolds == Spec => NothingLeftBehind
<1>1. IInv /\ [Next]_vars =>
        [\A w \in Worker :
           pc[w] # "idle" /\ pc'[w] = "idle" /\ client'[w] # "unset" /\ outages' = 0 =>
             \A h \in Host : Holds(w, h) => key'[h] # held[w][h]]_vars
  BY NothingLeftStep
<1> QED BY <1>1, Invariance, PTL DEF Spec, NothingLeftBehind
------------------------------------------------------------------------------
(***************************************************************************)
(* Refinement: an acquire is a Take, a step that loses tokens is a Drop, a *)
(* first outage is a Degrade, every other step stutters.                   *)
(***************************************************************************)
HoldersOf == [h \in Host |-> {w \in Worker : Holds(w, h)}]

LEMMA AcquireTakes ==
  ASSUME IInv, NEW w \in Worker, NEW h \in Host, NEW t \in Token, Acquires(w, h, t)
  PROVE  Mutex!Take(w, h)
<1>1. /\ ~Holds(w, h) /\ held'[w][h] # NoToken
      /\ \A v \in Worker, g \in Host : v # w \/ g # h => held'[v][g] = held[v][g]
  BY AcquireHeld DEF IInv
<1>2. UNCHANGED outages
  BY DEF Acquires, AcquireRedis, AcquireLocal, envVars
<1>3. outages > 0 \/ HoldersOf[h] = {}
  <2>1. CASE outages = 0
    <3>1. key[h] = NoToken
      BY <2>1, NoLocalAcquire DEF Acquires, AcquireRedis, AcquireLocal, Free, IInv
    <3> QED BY <2>1, <3>1 DEF IInv, Owned, Holds, HoldersOf
  <2> QED BY <2>1, BoundAssumption DEF IInv, TypeOK
<1>4. HoldersOf' = [HoldersOf EXCEPT ![h] = @ \union {w}]
  <2>1. \A g \in Host : {v \in Worker : held'[v][g] # NoToken}
          = IF g = h THEN {v \in Worker : held[v][g] # NoToken} \union {w}
                     ELSE {v \in Worker : held[v][g] # NoToken}
    BY <1>1
  <2>2. HoldersOf' = [g \in Host |-> {v \in Worker : held'[v][g] # NoToken}]
    BY DEF HoldersOf, Holds
  <2>3. HoldersOf = [g \in Host |-> {v \in Worker : held[v][g] # NoToken}]
    BY DEF HoldersOf, Holds
  <2> QED BY <2>1, <2>2, <2>3
<1> QED BY <1>1, <1>2, <1>3, <1>4 DEF Mutex!Take, HoldersOf

\* One worker's tokens, some of them or all, are gone.
Loses(w) ==
  \A v \in Worker, h \in Host :
    held'[v][h] = held[v][h] \/ (v = w /\ held'[v][h] = NoToken)

LEMMA LossDrops ==
  ASSUME IInv, NEW w \in Worker, Loses(w), UNCHANGED outages
  PROVE  \E H \in SUBSET Host : Mutex!Drop(w, H)
<1> DEFINE H == {h \in Host : held'[w][h] = NoToken}
<1>1. HoldersOf' = [h \in Host |-> IF h \in H THEN HoldersOf[h] \ {w} ELSE HoldersOf[h]]
  BY DEF HoldersOf, Holds, Loses
<1>2. Mutex!Drop(w, H)
  BY <1>1, Zenon DEF Mutex!Drop, HoldersOf
<1> QED BY <1>2

LEMMA MutexInit == Init => Mutex!Init
BY DEF Init, Mutex!Init, Holds

LEMMA MutexStep == IInv /\ [Next]_vars => [Mutex!Next]_Mutex!vars
<1> SUFFICES ASSUME IInv, [Next]_vars PROVE [Mutex!Next]_Mutex!vars
  OBVIOUS
<1>1. ASSUME NEW w \in Worker, Loses(w), UNCHANGED outages
      PROVE  [Mutex!Next]_Mutex!vars
  BY <1>1, LossDrops DEF Mutex!Next
<1>2. ASSUME NEW w \in Worker, NEW h \in Host, NEW t, AcquireRedis(w, h, t) \/ AcquireLocal(w, h, t)
      PROVE  [Mutex!Next]_Mutex!vars
  <2>1. t \in Token /\ Acquires(w, h, t)
    BY <1>2 DEF Acquires, AcquireRedis, AcquireLocal
  <2> QED BY <2>1, AcquireTakes DEF Mutex!Next
<1>3. ASSUME NEW w \in Worker, NEW h \in Host, Busy(w, h) PROVE Loses(w) /\ UNCHANGED outages
  <2>1. held' = held \/ held' = [held EXCEPT ![w] = [g \in Host |-> NoToken]]
    BY <1>3 DEF Busy
  <2> QED BY <1>3, <2>1 DEF Busy, envVars, Loses, IInv, TypeOK
<1>4. ASSUME NEW w \in Worker, NEW h \in Host, Release(w, h)
      PROVE  Loses(w) /\ UNCHANGED outages
  <2>1. held' = [held EXCEPT ![w][h] = NoToken] /\ UNCHANGED outages
    BY <1>4 DEF Release, envVars
  <2> QED BY <2>1 DEF Loses, IInv, TypeOK
<1>5. ASSUME NEW w \in Worker, Crash(w) \/ TimeLimit(w) PROVE Loses(w) /\ UNCHANGED outages
  <2>1. held' = [held EXCEPT ![w] = [h \in Host |-> NoToken]] /\ UNCHANGED outages
    BY <1>5 DEF Crash, TimeLimit, Die
  <2> QED BY <2>1 DEF Loses, IInv, TypeOK
<1>6. ASSUME NEW w \in Worker, StartAny(w) \/ Finish(w) \/ RefreshAny(w)
      PROVE  UNCHANGED <<held, outages>>
  BY <1>6 DEF StartAny, Start, Finish, RefreshAny, Refresh, envVars
<1>7. ASSUME (\E w \in Worker, h \in Host : ExpireLocal(w, h)) \/ Tick \/ RedisBack \/ UNCHANGED vars
      PROVE  UNCHANGED <<held, outages>>
  BY <1>7 DEF ExpireLocal, Tick, RedisBack, vars, envVars
<1>8. ASSUME UNCHANGED <<held, outages>> PROVE [Mutex!Next]_Mutex!vars
  BY <1>8 DEF Mutex!vars, Holds
<1>9. CASE RedisDown
  <2>1. UNCHANGED held /\ outages' > 0
    BY <1>9 DEF RedisDown, IInv, TypeOK
  <2> QED BY <2>1 DEF Mutex!Next, Mutex!Degrade, Holds
<1> QED
  BY <1>1, <1>2, <1>3, <1>4, <1>5, <1>6, <1>7, <1>8, <1>9 DEF Next, TryLock, ReleaseAny

\* The Redis mutex and its fallback implement the promise of HostMutex.
THEOREM Refinement == Spec => RefinesMutex
<1>1. Init => Mutex!Init
  BY MutexInit
<1>2. IInv /\ [Next]_vars => [Mutex!Next]_Mutex!vars
  BY MutexStep
<1> QED BY <1>1, <1>2, Invariance, PTL DEF Spec, RefinesMutex, Mutex!Spec
==============================================================================
