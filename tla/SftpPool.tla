-------------------------------- MODULE SftpPool --------------------------------
(***************************************************************************)
(* The pool of SFTP sessions behind the file browser                       *)
(* (services/host_files.py sftp_session): one lease per host and identity, *)
(* kept until it has been idle for a while, with a lock of its own that    *)
(* lets one call at a time use its connection.  Calls run in the web       *)
(* process's thread pool.  A call sweeps idle leases under the pool's      *)
(* lock, trying each lease's lock; a call that fails takes its lease out   *)
(* of the pool while it still holds the lease's lock: the two locks are    *)
(* taken in both orders.                                                   *)
(*                                                                         *)
(* Clocks are left out: any lease may have been idle for long.             *)
(***************************************************************************)
EXTENDS Naturals, FiniteSets

CONSTANTS
  Caller,        \* threads
  HostKey,       \* _pool_key values
  Lease,         \* _SftpLease objects
  MaxCalls,      \* bound: calls of each thread
  MaxSftpFaults, \* bound: connections that drop
  NoLease, NoCaller

ASSUME SftpAssumption ==
  /\ NoLease \notin Lease /\ NoCaller \notin Caller
  /\ MaxCalls \in Nat /\ MaxSftpFaults \in Nat

VARIABLES
  poolLock,   \* holder of _pool_lock
  pool,       \* _pool
  leaseLock,  \* holder of each lease's lock
  conn,       \* each lease's connection
  sfPc,
  sfKey,      \* the key a call is for
  sfLease,    \* the lease it has looked up or made
  sfIdle,     \* leases its sweep finds past POOL_IDLE_SEC
  sfCalls,
  sfFaults

sftpVars == <<poolLock, pool, leaseLock, conn, sfPc, sfKey, sfLease, sfIdle, sfCalls, sfFaults>>

SftpTypeOK ==
  /\ poolLock \in Caller \union {NoCaller}
  /\ pool \in [HostKey -> Lease \union {NoLease}]
  /\ leaseLock \in [Lease -> Caller \union {NoCaller}]
  /\ conn \in [Lease -> {"none", "up", "down", "closed"}]
  /\ sfPc \in [Caller -> {"idle", "sweep", "open", "put", "acquire", "check", "use", "drop", "evict"}]
  /\ sfKey \in [Caller -> HostKey]
  /\ sfLease \in [Caller -> Lease \union {NoLease}]
  /\ sfIdle \in [Caller -> SUBSET Lease]
  /\ sfCalls \in [Caller -> 0 .. MaxCalls]
  /\ sfFaults \in 0 .. MaxSftpFaults

SftpInit ==
  /\ poolLock = NoCaller
  /\ pool = [k \in HostKey |-> NoLease]
  /\ leaseLock = [l \in Lease |-> NoCaller]
  /\ conn = [l \in Lease |-> "none"]
  /\ sfPc = [c \in Caller |-> "idle"]
  /\ sfKey \in [Caller -> HostKey]
  /\ sfLease = [c \in Caller |-> NoLease]
  /\ sfIdle = [c \in Caller |-> {}]
  /\ sfCalls = [c \in Caller |-> 0]
  /\ sfFaults = 0
------------------------------------------------------------------------------
Pooled == {pool[k] : k \in HostKey} \ {NoLease}
Alive(l) == l # NoLease /\ conn[l] = "up"   \* _transport_alive

SftpGoto(c, label) == sfPc' = [sfPc EXCEPT ![c] = label]

\* The call returns or raises; a lease's lock it has is released.
CallEnds(c) ==
  /\ SftpGoto(c, "idle")
  /\ sfLease' = [sfLease EXCEPT ![c] = NoLease]
  /\ leaseLock' = [l \in Lease |-> IF leaseLock[l] = c THEN NoCaller ELSE leaseLock[l]]
------------------------------------------------------------------------------
\* _pool_lock is taken; some of the leases are past their idle time.
CallStarts(c, k) ==
  /\ sfPc[c] = "idle"
  /\ sfCalls[c] < MaxCalls
  /\ poolLock = NoCaller
  /\ poolLock' = c
  /\ SftpGoto(c, "sweep")
  /\ sfKey' = [sfKey EXCEPT ![c] = k]
  /\ \E I \in SUBSET Pooled : sfIdle' = [sfIdle EXCEPT ![c] = I]
  /\ sfCalls' = [sfCalls EXCEPT ![c] = @ + 1]
  /\ UNCHANGED <<pool, leaseLock, conn, sfLease, sfFaults>>

\* Leases D are closed and dropped, the key is looked up and _pool_lock released.
SweepAndGet(c, D) ==
  LET kept == [k \in HostKey |-> IF pool[k] \in D THEN NoLease ELSE pool[k]]
  IN  /\ sfPc[c] = "sweep"
      /\ conn' = [l \in Lease |-> IF l \in D THEN "closed" ELSE conn[l]]
      /\ pool' = kept
      /\ sfLease' = [sfLease EXCEPT ![c] = kept[sfKey[c]]]
      /\ SftpGoto(c, IF kept[sfKey[c]] = NoLease THEN "open" ELSE "acquire")
      /\ sfIdle' = [sfIdle EXCEPT ![c] = {}]
      /\ poolLock' = NoCaller
      /\ UNCHANGED <<leaseLock, sfKey, sfCalls, sfFaults>>

\* Mutant: the sweep does not look at the leases' locks.
SweepTakesAll(c) == SweepAndGet(c, sfIdle[c])

\* Mutant: the sweep waits for the leases' locks.
SweepWaits(c) ==
  /\ \A l \in sfIdle[c] : leaseLock[l] = NoCaller
  /\ SweepAndGet(c, sfIdle[c])

\* _sweep_idle_locked: a lease that is in use is passed over.
Sweep(c) == SweepAndGet(c, {l \in sfIdle[c] : leaseLock[l] = NoCaller})

\* _open_client for a lease of its own; objects are taken in a fixed order.
OpenLease(c) ==
  /\ sfPc[c] = "open"
  /\ \/ LET l == CHOOSE x \in Lease : conn[x] = "none"
        IN  /\ \E x \in Lease : conn[x] = "none"
            /\ conn' = [conn EXCEPT ![l] = "up"]
            /\ sfLease' = [sfLease EXCEPT ![c] = l]
            /\ SftpGoto(c, "put")
            /\ UNCHANGED leaseLock
     \/ CallEnds(c) /\ UNCHANGED conn
  /\ UNCHANGED <<poolLock, pool, sfKey, sfIdle, sfCalls, sfFaults>>

\* Another call may have put a lease meanwhile: a live one is kept, any other replaced.
PutLease(c) ==
  LET k == sfKey[c]
  IN  /\ sfPc[c] = "put"
      /\ poolLock = NoCaller
      /\ \/ /\ Alive(pool[k])
            /\ conn' = [conn EXCEPT ![sfLease[c]] = "closed"]
            /\ sfLease' = [sfLease EXCEPT ![c] = pool[k]]
            /\ UNCHANGED pool
         \/ /\ ~Alive(pool[k])
            /\ pool' = [pool EXCEPT ![k] = sfLease[c]]
            /\ UNCHANGED <<conn, sfLease>>
      /\ SftpGoto(c, "acquire")
      /\ UNCHANGED <<poolLock, leaseLock, sfKey, sfIdle, sfCalls, sfFaults>>

AcquireLease(c) ==
  /\ sfPc[c] = "acquire"
  /\ leaseLock[sfLease[c]] = NoCaller
  /\ leaseLock' = [leaseLock EXCEPT ![sfLease[c]] = c]
  /\ SftpGoto(c, "check")
  /\ UNCHANGED <<poolLock, pool, conn, sfKey, sfLease, sfIdle, sfCalls, sfFaults>>

\* A lease whose connection dropped, or that a sweep closed between the look-up
\* and the lock, is opened again in place, in the pool or not.
CheckLease(c) ==
  /\ sfPc[c] = "check"
  /\ \/ /\ Alive(sfLease[c])
        /\ SftpGoto(c, "use")
        /\ UNCHANGED conn
     \/ /\ ~Alive(sfLease[c])
        /\ \/ /\ conn' = [conn EXCEPT ![sfLease[c]] = "up"]
              /\ SftpGoto(c, "use")
           \/ /\ conn' = [conn EXCEPT ![sfLease[c]] = "closed"]
              /\ SftpGoto(c, "drop")
  /\ UNCHANGED <<poolLock, pool, leaseLock, sfKey, sfLease, sfIdle, sfCalls, sfFaults>>

\* The reopening failed: whatever lease the key has by now leaves the pool.
DropKey(c) ==
  /\ sfPc[c] = "drop"
  /\ poolLock = NoCaller
  /\ pool' = [pool EXCEPT ![sfKey[c]] = NoLease]
  /\ CallEnds(c)
  /\ UNCHANGED <<poolLock, conn, sfKey, sfIdle, sfCalls, sfFaults>>

\* The caller's work: done or failed, or failed for the connection.
UseEnds(c) ==
  /\ sfPc[c] = "use"
  /\ \/ CallEnds(c)
     \/ SftpGoto(c, "evict") /\ UNCHANGED <<sfLease, leaseLock>>
  /\ UNCHANGED <<poolLock, pool, conn, sfKey, sfIdle, sfCalls, sfFaults>>

\* Its lease, if the pool still has it, is closed and taken out.
EvictLease(c) ==
  LET k == sfKey[c]
  IN  /\ sfPc[c] = "evict"
      /\ poolLock = NoCaller
      /\ \/ /\ pool[k] = sfLease[c]
            /\ conn' = [conn EXCEPT ![sfLease[c]] = "closed"]
            /\ pool' = [pool EXCEPT ![k] = NoLease]
         \/ /\ pool[k] # sfLease[c]
            /\ UNCHANGED <<conn, pool>>
      /\ CallEnds(c)
      /\ UNCHANGED <<poolLock, sfKey, sfIdle, sfCalls, sfFaults>>

ConnectionDrops(l) ==
  /\ sfFaults < MaxSftpFaults
  /\ conn[l] = "up"
  /\ conn' = [conn EXCEPT ![l] = "down"]
  /\ sfFaults' = sfFaults + 1
  /\ UNCHANGED <<poolLock, pool, leaseLock, sfPc, sfKey, sfLease, sfIdle, sfCalls>>

CallStep(c) ==
  \/ Sweep(c) \/ OpenLease(c) \/ PutLease(c) \/ AcquireLease(c) \/ CheckLease(c)
  \/ DropKey(c) \/ UseEnds(c) \/ EvictLease(c)

SftpNext ==
  \/ \E c \in Caller, k \in HostKey : CallStarts(c, k)
  \/ \E c \in Caller : CallStep(c)
  \/ \E l \in Lease : ConnectionDrops(l)

SftpSpec == SftpInit /\ [][SftpNext]_sftpVars
------------------------------------------------------------------------------
\* A connection is used by one call at a time and nobody closes it under that
\* call: not a sweep, nor a call that lost the race to make the lease, nor one
\* that evicts or reopens it.
UseIsExclusive ==
  /\ \A c, d \in Caller : sfPc[c] = "use" /\ sfPc[d] = "use" /\ sfLease[c] = sfLease[d] => c = d
  /\ \A c \in Caller : sfPc[c] = "use" => conn[sfLease[c]] \in {"up", "down"}

\* While calls are under way one of them can go on: a sweep holds the pool's lock
\* and looks at leases' locks, a call that failed holds a lease's lock and wants the
\* pool's, and they never all wait for each other.
SomeCallMoves ==
  (\E c \in Caller : sfPc[c] # "idle") => \E c \in Caller : ENABLED CallStep(c)
==============================================================================
