------------------------------ MODULE ServerLock ------------------------------
(***************************************************************************)
(* The per-host backup mutex of services/server_job_lock.py as the Celery  *)
(* tasks use it: a backup takes one host, a Move (or its undo and recover) *)
(* takes source and dest, lower id first, a Direct copy takes one host and *)
(* refreshes the lease while its remote command runs.                      *)
(*                                                                         *)
(* A key lives in Redis with a TTL and a unique token.  A process that     *)
(* cannot reach Redis uses its own process-local map instead, and one      *)
(* failed first ping latches that choice for the life of the process.      *)
(* Time is counted in ticks; a lease and a task's run time move together.  *)
(***************************************************************************)
EXTENDS Integers

CONSTANTS
  Worker,      \* Celery child processes, one task at a time each
  Host,        \* server ids
  Uuid,        \* uuid4 suffixes of lock tokens
  NoToken,
  Ttl,         \* DEFAULT_TTL_SEC, in ticks
  RunLimit,    \* celery task_time_limit, in ticks
  MaxOutages,  \* bound: times Redis becomes unreachable
  MaxKills     \* bound: worker deaths other than the hard time limit

ASSUME HostAssumption  == Host \subseteq Nat

\* token = f"{holder}:{uuid}"; the holder is the task, here its process and host.
Token == Worker \X Host \X Uuid

ASSUME TokenAssumption == NoToken \notin Token
\* server_job_lock.py:20 "Must cover longest rsync; Celery task_time_limit is 7200s".
ASSUME TtlAssumption   == Ttl \in Nat /\ RunLimit \in Nat /\ RunLimit <= Ttl
ASSUME BoundAssumption == MaxOutages \in Nat /\ MaxKills \in Nat

VARIABLES
  key,      \* Redis: the token stored for each host
  lease,    \* Redis: ticks left before the key expires
  redisUp,
  client,   \* _redis_client / _redis_failed of each process
  local,    \* _local of each process
  held,     \* the tokens the running task of each process got back
  pc,
  want,     \* the hosts the running task needs
  direct,   \* the running task is a Direct copy: refreshes, has no 2 h limit
  ran,      \* ticks the running task has run
  outages, kills

redisVars == <<key, lease>>
envVars   == <<redisUp, outages, kills>>
taskVars  == <<pc, want, direct, ran>>
vars == <<key, lease, redisUp, client, local, held, pc, want, direct, ran,
          outages, kills>>

MaybeToken == Token \union {NoToken}
Phase == {"idle", "acquire", "run", "release"}

TypeOK ==
  /\ key \in [Host -> MaybeToken]
  /\ lease \in [Host -> 0 .. Ttl]
  /\ redisUp \in BOOLEAN
  /\ client \in [Worker -> {"unset", "redis", "failed"}]
  /\ local \in [Worker -> [Host -> MaybeToken]]
  /\ held \in [Worker -> [Host -> MaybeToken]]
  /\ pc \in [Worker -> Phase]
  /\ want \in [Worker -> SUBSET Host]
  /\ direct \in [Worker -> BOOLEAN]
  /\ ran \in [Worker -> 0 .. RunLimit]
  /\ outages \in 0 .. MaxOutages
  /\ kills \in 0 .. MaxKills

Init ==
  /\ key = [h \in Host |-> NoToken]
  /\ lease = [h \in Host |-> 0]
  /\ redisUp = TRUE
  /\ client = [w \in Worker |-> "unset"]
  /\ local = [w \in Worker |-> [h \in Host |-> NoToken]]
  /\ held = [w \in Worker |-> [h \in Host |-> NoToken]]
  /\ pc = [w \in Worker |-> "idle"]
  /\ want = [w \in Worker |-> {}]
  /\ direct = [w \in Worker |-> FALSE]
  /\ ran = [w \in Worker |-> 0]
  /\ outages = 0
  /\ kills = 0
------------------------------------------------------------------------------
Holds(w, h) == held[w][h] # NoToken

\* uuid4: a token no key, no process map and no task has.
Fresh(t) ==
  /\ \A h \in Host : key[h] # t
  /\ \A w \in Worker, h \in Host : local[w][h] # t /\ held[w][h] # t

\* Any fresh suffix will do: tokens are only compared for equality.
NewToken(w, h) == <<w, h, CHOOSE u \in Uuid : Fresh(<<w, h, u>>)>>

\* _get_redis: the first ping decides; afterwards a failed call falls back alone.
ViaRedis(w) == redisUp /\ client[w] # "failed"

Contact(w) ==
  client' = [client EXCEPT ![w] =
               IF @ # "unset" THEN @ ELSE IF redisUp THEN "redis" ELSE "failed"]

\* The process is free for its next task.
TaskOver(w) ==
  /\ pc' = [pc EXCEPT ![w] = "idle"]
  /\ want' = [want EXCEPT ![w] = {}]
  /\ direct' = [direct EXCEPT ![w] = FALSE]
  /\ ran' = [ran EXCEPT ![w] = 0]

\* Mutant: the caller's order instead of the lower id first.
NextHostAnyOrder(w, h) == h \in want[w] /\ ~Holds(w, h)

\* try_acquire_dual_server_lock: first, second = (a, b) if a < b else (b, a).
NextHost(w, h) ==
  /\ h \in want[w] /\ ~Holds(w, h)
  /\ \A g \in want[w] : Holds(w, g) \/ h <= g

\* The broker is the same Redis.  A task starts: one host for a backup or a Direct copy,
\* two for a Move.
Start(w, H, d) ==
  /\ pc[w] = "idle" /\ redisUp
  /\ H # {} /\ (d => \A g, h \in H : g = h)
  /\ \A f, g, h \in H : f = g \/ f = h \/ g = h
  /\ pc' = [pc EXCEPT ![w] = "acquire"]
  /\ want' = [want EXCEPT ![w] = H]
  /\ direct' = [direct EXCEPT ![w] = d]
  /\ UNCHANGED <<redisVars, envVars, client, local, held, ran>>

\* try_acquire_server_lock returned a token: go on to the next host, or to work.
Got(w, h, t) ==
  /\ held' = [held EXCEPT ![w][h] = t]
  /\ pc' = [pc EXCEPT ![w] =
              IF \A g \in want[w] : g = h \/ Holds(w, g) THEN "run" ELSE "acquire"]
  /\ Contact(w)

\* Mutant: SET without NX.
FreeAlways(h) == TRUE

Free(h) == key[h] = NoToken

\* SET key token NX EX ttl
AcquireRedis(w, h, t) ==
  /\ pc[w] = "acquire" /\ NextHost(w, h)
  /\ t \in Token /\ Fresh(t)
  /\ ViaRedis(w) /\ Free(h)
  /\ key' = [key EXCEPT ![h] = t]
  /\ lease' = [lease EXCEPT ![h] = Ttl]
  /\ Got(w, h, t)
  /\ UNCHANGED <<envVars, local, want, direct, ran>>

AcquireLocal(w, h, t) ==
  /\ pc[w] = "acquire" /\ NextHost(w, h)
  /\ t \in Token /\ Fresh(t)
  /\ ~ViaRedis(w) /\ local[w][h] = NoToken
  /\ local' = [local EXCEPT ![w][h] = t]
  /\ Got(w, h, t)
  /\ UNCHANGED <<redisVars, envVars, want, direct, ran>>

\* Mutant: a partial dual acquire forgets to give the first host back.
AfterBusyKeepsFirst(w) == "idle"

\* "On a partial fail the first lock is released."
AfterBusy(w) == IF \E h \in Host : Holds(w, h) THEN "release" ELSE "idle"

\* None: the task asks for a retry and is over, or backs out of a dual lock.
Busy(w, h) ==
  /\ pc[w] = "acquire" /\ NextHost(w, h)
  /\ IF ViaRedis(w) THEN ~Free(h) ELSE local[w][h] # NoToken
  /\ IF AfterBusy(w) = "idle"
     THEN /\ TaskOver(w)
          /\ held' = [held EXCEPT ![w] = [g \in Host |-> NoToken]]
     ELSE /\ pc' = [pc EXCEPT ![w] = AfterBusy(w)]
          /\ UNCHANGED <<held, want, direct, ran>>
  /\ Contact(w)
  /\ UNCHANGED <<redisVars, envVars, local>>

\* The work is over, whatever its result: the finally block.
Finish(w) ==
  /\ pc[w] = "run"
  /\ pc' = [pc EXCEPT ![w] = "release"]
  /\ UNCHANGED <<redisVars, envVars, client, local, held, want, direct, ran>>

\* Mutant: DEL without comparing the token.
CompareAndDeleteBlind(t, cur) == NoToken

\* _RELEASE_LUA, and _local_release.
CompareAndDelete(t, cur) == IF cur = t THEN NoToken ELSE cur

Release(w, h) ==
  /\ pc[w] = "release" /\ Holds(w, h)
  /\ IF ViaRedis(w)
     THEN /\ key' = [key EXCEPT ![h] = CompareAndDelete(held[w][h], @)]
          /\ lease' = [lease EXCEPT ![h] = IF key'[h] = NoToken THEN 0 ELSE @]
          /\ UNCHANGED local
     ELSE /\ local' = [local EXCEPT ![w][h] = CompareAndDelete(held[w][h], @)]
          /\ UNCHANGED redisVars
  /\ held' = [held EXCEPT ![w][h] = NoToken]
  /\ IF \E g \in Host \ {h} : Holds(w, g) THEN UNCHANGED taskVars ELSE TaskOver(w)
  /\ Contact(w)
  /\ UNCHANGED envVars

\* refresh_server_lock of a Direct copy; a Redis error leaves the lease alone.
Refresh(w, h) ==
  /\ pc[w] = "run" /\ direct[w] /\ Holds(w, h)
  /\ ViaRedis(w) /\ key[h] = held[w][h]
  /\ lease' = [lease EXCEPT ![h] = Ttl]
  /\ UNCHANGED <<key, envVars, client, local, held, taskVars>>
------------------------------------------------------------------------------
\* The process dies: its tokens, its map and its Redis client die with it.
Die(w) ==
  /\ held' = [held EXCEPT ![w] = [h \in Host |-> NoToken]]
  /\ local' = [local EXCEPT ![w] = [h \in Host |-> NoToken]]
  /\ client' = [client EXCEPT ![w] = "unset"]
  /\ TaskOver(w)
  /\ UNCHANGED <<redisVars, redisUp, outages>>

Crash(w) ==
  /\ pc[w] # "idle" /\ kills < MaxKills
  /\ kills' = kills + 1
  /\ Die(w)

\* The hard limit counts from the delivery of the task, here from its locks: later.
Working(w) == pc[w] \in {"run", "release"} /\ ~direct[w]

\* Mutant: no hard limit.
AtLimitNever(w) == FALSE

AtLimit(w) == Working(w) /\ ran[w] = RunLimit

\* celery task_time_limit
TimeLimit(w) ==
  /\ AtLimit(w)
  /\ Die(w)
  /\ UNCHANGED kills

\* A Direct copy refreshes every 30 s, so its key is never let run out by time alone.
RefreshDue(w) ==
  /\ redisUp /\ direct[w]
  /\ \E h \in Host : Holds(w, h) /\ key[h] = held[w][h] /\ lease[h] = 0

\* Mutant: SET without EX, a key that never expires.
ExpiredNever(h) == FALSE

\* Mutant: a lease shorter than the task limit it has to cover.
ExpiredEarly(h) == lease[h] <= 1

Expired(h) == lease[h] = 0

HalfAcquired(w) == pc[w] = "acquire" /\ \E h \in Host : Holds(w, h)

\* A lock call takes milliseconds, a tick a good part of two hours: no tick falls
\* between the two calls of one dual acquire.
Tick ==
  /\ \A w \in Worker : ~AtLimit(w) /\ ~RefreshDue(w) /\ ~HalfAcquired(w)
  /\ key' = [h \in Host |-> IF Expired(h) THEN NoToken ELSE key[h]]
  /\ lease' = [h \in Host |-> IF lease[h] = 0 THEN 0 ELSE lease[h] - 1]
  /\ ran' = [w \in Worker |->
               IF Working(w) THEN ran[w] + 1 ELSE ran[w]]
  /\ UNCHANGED <<envVars, client, local, held, pc, want, direct>>

\* A leftover of the process map passes its own TTL.
ExpireLocal(w, h) ==
  /\ local[w][h] # NoToken /\ local[w][h] # held[w][h]
  /\ local' = [local EXCEPT ![w][h] = NoToken]
  /\ UNCHANGED <<redisVars, envVars, client, held, taskVars>>

RedisDown ==
  /\ redisUp /\ outages < MaxOutages
  /\ redisUp' = FALSE
  /\ outages' = outages + 1
  /\ UNCHANGED <<redisVars, client, local, held, taskVars, kills>>

RedisBack ==
  /\ ~redisUp
  /\ redisUp' = TRUE
  /\ UNCHANGED <<redisVars, client, local, held, taskVars, outages, kills>>
------------------------------------------------------------------------------
StartAny(w)   == \E H \in SUBSET Host, d \in BOOLEAN : Start(w, H, d)
TryLock(w)    == \E h \in Host : \/ AcquireRedis(w, h, NewToken(w, h))
                                 \/ AcquireLocal(w, h, NewToken(w, h))
                                 \/ Busy(w, h)
ReleaseAny(w) == \E h \in Host : Release(w, h)
RefreshAny(w) == \E h \in Host : Refresh(w, h)

Next ==
  \/ \E w \in Worker : \/ StartAny(w) \/ TryLock(w) \/ Finish(w)
                       \/ ReleaseAny(w) \/ RefreshAny(w)
                       \/ Crash(w) \/ TimeLimit(w)
  \/ \E w \in Worker, h \in Host : ExpireLocal(w, h)
  \/ Tick \/ RedisDown \/ RedisBack

Spec == Init /\ [][Next]_vars

\* Celery keeps delivering and running tasks, and time passes (20 s lie between
\* two tries of a task, so tries do not stop the clock); deaths and outages are
\* not owed to anyone.
Fairness ==
  /\ \A w \in Worker : /\ WF_vars(StartAny(w)) /\ WF_vars(TryLock(w))
                       /\ WF_vars(Finish(w)) /\ WF_vars(ReleaseAny(w))
                       /\ WF_vars(TimeLimit(w))
  /\ SF_vars(Tick)

FairSpec == Spec /\ Fairness
------------------------------------------------------------------------------
(***************************************************************************)
(* Properties                                                              *)
(***************************************************************************)
\* server_job_lock.py:3 and tasks.py:10: "serializing per host".  As the module
\* states it, with no reserve about Redis: two tasks never hold one host.
AtMostOnePerServer ==
  \A h \in Host, v, w \in Worker : Holds(v, h) /\ Holds(w, h) => v = w

\* What the code keeps: as long as Redis has always answered, two tasks never
\* hold one host, although keys expire, owners die and their keys are left over.
MutualExclusion == outages = 0 => AtMostOnePerServer

\* _RELEASE_LUA "only if we still own the key": a key leaves Redis by its TTL or
\* by the task that was given its token, and is never overwritten, even by a
\* task that took its lock locally in an outage and releases it after.
OwnKeyOnly ==
  [][\A h \in Host : key[h] # NoToken /\ key'[h] # key[h] =>
       /\ key'[h] = NoToken
       /\ lease[h] = 0 \/ \E w \in Worker : held[w][h] = key[h]]_vars

\* try_acquire_dual_server_lock is all or nothing: a task that is over (its process
\* alive, Redis never away) leaves no key behind that a later task would wait for.
NothingLeftBehind ==
  [][\A w \in Worker :
       pc[w] # "idle" /\ pc'[w] = "idle" /\ client'[w] # "unset" /\ outages' = 0 =>
         \A h \in Host : Holds(w, h) => key'[h] # held[w][h]]_vars

\* "so two Moves cannot deadlock": while tasks try for hosts, one of them gets to
\* work; two Moves in opposite directions do not turn each other away for ever.
SomeTaskRuns ==
  (\E w \in Worker : pc[w] = "acquire") ~> (\E w \in Worker : pc[w] = "run")

\* A dead owner blocks its host for a TTL, not for ever.
KeysAreFreed ==
  \A h \in Host, t \in Token : key[h] = t ~> key[h] # t

\* The promise of the module, with the holders read off the tasks' tokens.
Mutex == INSTANCE HostMutex WITH
  holders  <- [h \in Host |-> {w \in Worker : Holds(w, h)}],
  degraded <- outages > 0

RefinesMutex == Mutex!Spec
==============================================================================
