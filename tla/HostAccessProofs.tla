--------------------------- MODULE HostAccessProofs ---------------------------
(***************************************************************************)
(* What is proved of the ways to a host: the keys that open it, the pool   *)
(* of SFTP sessions, and the web consoles.                                 *)
(***************************************************************************)
EXTENDS KeyRotation, SftpPool, ConsoleSessions, FiniteSetTheorems, TLAPS
------------------------------------------------------------------------------
(***************************************************************************)
(* Rotations, deploys and provisioning of one host for any number of       *)
(* requests, identities and keys.  The argument is about keys that are not *)
(* saved yet: a key just made is nobody's, neither a row's nor an old key  *)
(* that some request read, so no removal on the host can hit it; it was    *)
(* seen to open the login before its request came to the removal; so it    *)
(* still does when the request saves it.                                   *)
(***************************************************************************)

\* The requests that have made a key and not saved it.
HasNew(o) == kyPc[o] \in {"verify", "remove", "save"}

\* Keys are numbered in the order they are made.
KeysMade ==
  /\ \A i \in Ident : idKey[i] <= lastKey
  /\ \A o \in KeyOp : kyOld[o] <= lastKey /\ kyNew[o] <= lastKey

\* A key that is not saved is nobody else's.
NewIsFresh ==
  \A o \in KeyOp : HasNew(o) =>
    /\ kyNew[o] > 0
    /\ \A i \in Ident : idKey[i] # kyNew[o]
    /\ \A p \in KeyOp : kyOld[p] # kyNew[o]
    /\ \A p \in KeyOp \ {o} : HasNew(p) => kyNew[p] # kyNew[o]

\* Past the check the new key opens the login that was read.
NewOpens == \A o \in KeyOp : kyPc[o] \in {"remove", "save"} => kyNew[o] \in authorized[kyUser[o]]

KeyInv == KeyTypeOK /\ KeysMade /\ NewIsFresh /\ NewOpens /\ SavedKeyOpens
LEMMA KeyInit0 == KeyInit => KeyInv
<1> SUFFICES ASSUME KeyInit PROVE KeyInv
  OBVIOUS
<1>1. KeyTypeOK
  <2>1. password \in BOOLEAN
    BY DEF KeyInit
  <2>2. idUser \in [Ident -> HostUser]
    BY DEF KeyInit, HostUser
  <2>3. authorized \in [HostUser -> SUBSET SshKey]
    BY KeyAssumption DEF KeyInit, SshKey
  <2> QED BY <2>1, <2>2, <2>3, KeyAssumption DEF KeyInit, KeyTypeOK, SshKey, HostUser
<1>2. SavedKeyOpens
  <2>1. \A i \in Ident : idUser[i] \in HostUser
    BY DEF KeyInit, HostUser
  <2> QED BY <2>1 DEF KeyInit, SavedKeyOpens
<1>3. KeysMade /\ NewIsFresh /\ NewOpens
  BY KeyAssumption DEF KeyInit, KeysMade, NewIsFresh, NewOpens, HasNew
<1> QED BY <1>1, <1>2, <1>3 DEF KeyInv

\* A request reads its row: an old key it reads is a row's, so not one that is unsaved.
LEMMA ReadStep ==
  ASSUME KeyInv, NEW o \in KeyOp, NEW i \in Ident, NEW label \in {"install", "deploy", "provision"},
         KeyReads(o, i, label)
  PROVE  KeyInv'
<1> USE DEF KeyInv, KeyTypeOK, KeyReads, KeyGoto, keyRow
<1>1. KeyTypeOK'
  OBVIOUS
<1>2. KeysMade'
  BY DEF KeysMade
<1>3. NewIsFresh'
  BY DEF NewIsFresh, HasNew
<1>4. NewOpens' /\ SavedKeyOpens'
  BY DEF NewOpens, SavedKeyOpens, FirstIdle
<1> QED BY <1>1, <1>2, <1>3, <1>4

\* Requests that end without saving anything: their unsaved keys are forgotten.
LEMMA KeyEndStep ==
  ASSUME KeyInv, NEW O \in SUBSET KeyOp, KeyEnds(O)
  PROVE  /\ kyPc' \in [KeyOp -> {"idle", "install", "verify", "remove", "save",
                                 "deploy", "deployed", "provision", "repoint"}]
         /\ kyIdent' \in [KeyOp -> Ident] /\ kyUser' \in [KeyOp -> HostUser]
         /\ kyOld' \in [KeyOp -> SshKey] /\ kyNew' \in [KeyOp -> SshKey]
         /\ \A o \in O : kyPc'[o] = "idle" /\ kyOld'[o] = 0 /\ kyNew'[o] = 0
         /\ \A o \in KeyOp \ O : /\ kyPc'[o] = kyPc[o] /\ kyIdent'[o] = kyIdent[o]
                                 /\ kyUser'[o] = kyUser[o] /\ kyOld'[o] = kyOld[o]
                                 /\ kyNew'[o] = kyNew[o]
BY KeyAssumption DEF KeyInv, KeyTypeOK, KeyEnds, SshKey, HostUser

\* Such an end, when no login lost a key.
LEMMA GiveUpStep ==
  ASSUME KeyInv, NEW O \in SUBSET KeyOp, KeyEnds(O), KeyTypeOK',
         UNCHANGED <<idKey, lastKey>>,
         \A u \in HostUser : authorized[u] \subseteq authorized'[u],
         SavedKeyOpens'
  PROVE  KeyInv'
<1>1. KeysMade'
  BY KeyEndStep, KeyAssumption DEF KeyInv, KeyTypeOK, KeysMade, SshKey
<1>2. NewIsFresh'
  BY KeyEndStep, KeyAssumption DEF KeyInv, KeyTypeOK, NewIsFresh, HasNew, SshKey
<1>3. NewOpens'
  BY KeyEndStep DEF KeyInv, KeyTypeOK, NewOpens
<1> QED BY <1>1, <1>2, <1>3 DEF KeyInv

LEMMA InstallStep ==
  ASSUME KeyInv, NEW o \in KeyOp, RotateInstalls(o)
  PROVE  KeyInv'
<1>1. CASE KeyEnds({o}) /\ UNCHANGED <<authorized, lastKey>>
  <2>1. KeyTypeOK'
    BY <1>1, KeyEndStep, KeyAssumption
    DEF KeyInv, KeyTypeOK, RotateInstalls, FailsUnless, KeyFault, keyRow
  <2>2. SavedKeyOpens'
    BY <1>1, KeyEndStep DEF KeyInv, KeyTypeOK, SavedKeyOpens, RotateInstalls, keyRow
  <2> QED BY <1>1, <2>1, <2>2, GiveUpStep DEF RotateInstalls, keyRow
<1>2. CASE /\ lastKey < MaxKey
           /\ lastKey' = lastKey + 1
           /\ kyNew' = [kyNew EXCEPT ![o] = lastKey + 1]
           /\ authorized' = [authorized EXCEPT ![kyUser[o]] = @ \union {lastKey + 1}]
           /\ KeyGoto(o, "verify")
           /\ UNCHANGED <<kyIdent, kyUser, kyOld, kyFaults>>
  <2>0. kyPc[o] = "install" /\ UNCHANGED <<idUser, idKey, password, unsafe>>
    BY DEF RotateInstalls, keyRow
  <2> USE <1>2, <2>0, KeyAssumption DEF KeyInv, KeyTypeOK, KeyGoto, SshKey
  <2>1. KeyTypeOK'
    OBVIOUS
  <2>2. KeysMade'
    BY DEF KeysMade
  <2>3. NewIsFresh'
    BY DEF KeysMade, NewIsFresh, HasNew
  <2>4. NewOpens' /\ SavedKeyOpens'
    BY DEF NewOpens, SavedKeyOpens
  <2> QED BY <2>1, <2>2, <2>3, <2>4
<1> QED BY <1>1, <1>2 DEF RotateInstalls

LEMMA VerifyStep ==
  ASSUME KeyInv, NEW o \in KeyOp, RotateVerifies(o)
  PROVE  KeyInv'
<1>1. CASE KeyEnds({o})
  <2>1. KeyTypeOK'
    BY <1>1, KeyEndStep, KeyAssumption
    DEF KeyInv, KeyTypeOK, RotateVerifies, FailsUnless, KeyFault, keyRow
  <2>2. SavedKeyOpens'
    BY <1>1, KeyEndStep DEF KeyInv, KeyTypeOK, SavedKeyOpens, RotateVerifies, keyRow
  <2> QED BY <1>1, <2>1, <2>2, GiveUpStep DEF RotateVerifies, keyRow
<1>2. CASE kyNew[o] \in authorized[kyUser[o]] /\ KeyGoto(o, "remove") /\ UNCHANGED <<keyOp, kyFaults>>
  <2> USE <1>2 DEF KeyInv, KeyTypeOK, KeyGoto, RotateVerifies, keyRow, keyOp
  <2>1. KeyTypeOK' /\ KeysMade'
    BY DEF KeysMade
  <2>2. NewIsFresh'
    BY DEF NewIsFresh, HasNew
  <2>3. NewOpens' /\ SavedKeyOpens'
    BY DEF NewOpens, SavedKeyOpens
  <2> QED BY <2>1, <2>2, <2>3
<1> QED BY <1>1, <1>2 DEF RotateVerifies

\* The removal of an old key hits no unsaved key, and no saved one but the request's
\* own identity's and those it puts out.
LEMMA RemoveStep ==
  ASSUME KeyInv, NEW o \in KeyOp, RotateRemoves(o)
  PROVE  KeyInv'
<1> USE DEF KeyInv, KeyTypeOK, KeyGoto, RotateRemoves, KeyFault, keyRow, keyOp
<1>1. KeyTypeOK' /\ KeysMade'
  BY KeyAssumption DEF KeysMade
<1>2. NewIsFresh'
  BY DEF NewIsFresh, HasNew
<1>3. NewOpens'
  BY DEF NewOpens, NewIsFresh, HasNew
<1>4. SavedKeyOpens'
  BY DEF SavedKeyOpens
<1> QED BY <1>1, <1>2, <1>3, <1>4

LEMMA SaveStep ==
  ASSUME KeyInv, NEW o \in KeyOp, RotateSaves(o)
  PROVE  KeyInv'
<1>0. /\ kyPc[o] = "save" /\ KeyEnds({o}) /\ kyIdent[o] \in Ident
      /\ idKey' = [idKey EXCEPT ![kyIdent[o]] = kyNew[o]]
      /\ UNCHANGED <<authorized, idUser, password, lastKey, kyFaults>>
      /\ unsafe' = IF idUser[kyIdent[o]] = kyUser[o] THEN unsafe \ {kyIdent[o]} ELSE unsafe \union {kyIdent[o]}
  BY DEF KeyInv, KeyTypeOK, RotateSaves
<1>1. KeyTypeOK'
  BY <1>0, KeyEndStep DEF KeyInv, KeyTypeOK
<1>2. KeysMade'
  BY <1>0, KeyEndStep, KeyAssumption DEF KeyInv, KeyTypeOK, KeysMade, SshKey
<1>3. NewIsFresh'
  BY <1>0, KeyEndStep, KeyAssumption DEF KeyInv, KeyTypeOK, NewIsFresh, HasNew, SshKey
<1>4. NewOpens'
  BY <1>0, KeyEndStep DEF KeyInv, KeyTypeOK, NewOpens
<1>5. SavedKeyOpens'
  BY <1>0, KeyEndStep DEF KeyInv, KeyTypeOK, NewOpens, SavedKeyOpens
<1> QED BY <1>1, <1>2, <1>3, <1>4, <1>5 DEF KeyInv

LEMMA DeployStep ==
  ASSUME KeyInv, NEW o \in KeyOp,
         DeployInstalls(o) \/ DeploySaves(o) \/ ProvisionRuns(o) \/ ProvisionSaves(o)
  PROVE  KeyInv'
<1> USE DEF KeyInv, KeyTypeOK, KeyGoto, keyRow, keyOp
<1>0. /\ authorized' \in [HostUser -> SUBSET SshKey]
      /\ \A u \in HostUser : authorized[u] \subseteq authorized'[u]
      /\ UNCHANGED <<idKey, lastKey>>
      /\ kyPc[o] \notin {"verify", "remove", "save"}
      /\ kyFaults' \in 0 .. MaxKeyFaults /\ password' \in BOOLEAN
  <2>1. CASE DeployInstalls(o)
    BY <2>1, KeyAssumption DEF DeployInstalls, FailsUnless, KeyFault, HostUser
  <2>2. CASE DeploySaves(o)
    <3>1. password' \in BOOLEAN
      BY <2>2, Zenon DEF DeploySaves
    <3> QED BY <2>2, <3>1 DEF DeploySaves
  <2>3. CASE ProvisionRuns(o)
    BY <2>3, KeyAssumption DEF ProvisionRuns, FailsUnless, KeyFault, HostUser
  <2>4. CASE ProvisionSaves(o)
    <3>1. password' \in BOOLEAN
      BY <2>4, Zenon DEF ProvisionSaves
    <3> QED BY <2>4, <3>1, KeyAssumption DEF ProvisionSaves, FailsUnless, KeyFault
  <2> QED BY <2>1, <2>2, <2>3, <2>4
<1>1. CASE KeyEnds({o})
  <2>1. /\ kyPc'[o] = "idle"
        /\ \A p \in KeyOp \ {o} : kyPc'[p] = kyPc[p] /\ kyIdent'[p] = kyIdent[p]
    BY <1>1, KeyEndStep
  <2>2. SavedKeyOpens' /\ idUser' \in [Ident -> HostUser] /\ unsafe' \subseteq Ident
    <3>1. CASE DeployInstalls(o) \/ ProvisionRuns(o)
      BY <1>0, <2>1, <3>1 DEF DeployInstalls, ProvisionRuns, SavedKeyOpens
    <3>2. CASE DeploySaves(o)
      BY <1>0, <2>1, <3>2 DEF DeploySaves, SavedKeyOpens
    <3>3. CASE ProvisionSaves(o)
      BY <1>0, <2>1, <3>3, KeyAssumption DEF ProvisionSaves, SavedKeyOpens, HostUser
    <3> QED BY <3>1, <3>2, <3>3
  <2>3. KeyTypeOK'
    BY <1>0, <1>1, <2>2, KeyEndStep
  <2> QED BY <1>0, <1>1, <2>2, <2>3, GiveUpStep
<1>2. CASE /\ \E label \in {"deployed", "repoint"} : KeyGoto(o, label)
           /\ UNCHANGED <<keyOp, keyRow, unsafe>>
  <2>1. KeyTypeOK' /\ KeysMade'
    BY <1>0, <1>2 DEF KeysMade
  <2>2. NewIsFresh'
    BY <1>0, <1>2 DEF NewIsFresh, HasNew
  <2>3. NewOpens' /\ SavedKeyOpens'
    BY <1>0, <1>2 DEF NewOpens, SavedKeyOpens
  <2> QED BY <2>1, <2>2, <2>3
<1> QED BY <1>1, <1>2 DEF DeployInstalls, DeploySaves, ProvisionRuns, ProvisionSaves

LEMMA KeyOtherStep ==
  ASSUME KeyInv, KeyProcessDies \/ \E u \in {FleetUser, LeastUser} : SetUsername(u)
  PROVE  KeyInv'
<1>1. CASE KeyProcessDies
  <2>1. KeyEnds(KeyOp) /\ UNCHANGED <<authorized, idUser, idKey, password, lastKey>>
    BY <1>1 DEF KeyProcessDies, keyRow
  <2>2. KeyTypeOK'
    BY <1>1, <2>1, KeyEndStep, KeyAssumption DEF KeyInv, KeyTypeOK, KeyProcessDies, KeyFault
  <2>3. SavedKeyOpens'
    BY <1>1, <2>1, KeyEndStep DEF KeyInv, KeyTypeOK, KeyProcessDies, SavedKeyOpens
  <2> QED BY <2>1, <2>2, <2>3, GiveUpStep
<1>2. ASSUME NEW u \in {FleetUser, LeastUser}, SetUsername(u) PROVE KeyInv'
  <2> USE <1>2, KeyAssumption DEF KeyInv, KeyTypeOK, SetUsername, keyOp, HostUser
  <2>1. KeyTypeOK' /\ KeysMade'
    BY DEF KeysMade
  <2>2. NewIsFresh' /\ NewOpens'
    BY DEF NewIsFresh, HasNew, NewOpens
  <2>3. SavedKeyOpens'
    BY DEF SavedKeyOpens
  <2> QED BY <2>1, <2>2, <2>3
<1> QED BY <1>1, <1>2

LEMMA KeyStep == KeyInv /\ [KeyNext]_keyVars => KeyInv'
<1>1. KeyInv /\ UNCHANGED keyVars => KeyInv'
  BY DEF keyVars, keyRow, keyOp, KeyInv, KeyTypeOK, KeysMade, NewIsFresh, HasNew, NewOpens, SavedKeyOpens
<1>2. ASSUME KeyInv, NEW o \in KeyOp, NEW i \in Ident,
             RotateStarts(o, i) \/ DeployStarts(o, i) \/ ProvisionStarts(o)
      PROVE  KeyInv'
  BY <1>2, ReadStep, KeyAssumption DEF RotateStarts, DeployStarts, ProvisionStarts
<1> QED
  BY <1>1, <1>2, InstallStep, VerifyStep, RemoveStep, SaveStep, DeployStep, KeyOtherStep, KeyAssumption DEF KeyNext
\* Identities, requests and the host's key lists keep their state in their sets.
THEOREM KeyTypeCorrect == KeySpec => []KeyTypeOK
<1>1. KeyInv => KeyTypeOK
  BY DEF KeyInv
<1> QED BY KeyInit0, KeyStep, <1>1, PTL DEF KeySpec

\* rotate_keypair: for any number of overlapping rotations, deploys and moves to another
\* login, and any number of keys, the saved key opens the saved login outside the gaps
\* SavedKeyOpens names.
THEOREM RotationKeepsAccess == KeySpec => []SavedKeyOpens
<1>1. KeyInv => SavedKeyOpens
  BY DEF KeyInv
<1> QED BY KeyInit0, KeyStep, <1>1, PTL DEF KeySpec
------------------------------------------------------------------------------
(***************************************************************************)
(* The SFTP pool for any number of threads, hosts and leases: a connection *)
(* that is in use is used by one call and closed by none.  A lease's lock  *)
(* says who may use it, but the pool closes leases without it in one       *)
(* place: a call that lost the race to make a lease closes its own, fresh  *)
(* one.  So the invariant also says that a fresh lease is nobody else's,   *)
(* and that a lease anybody knows was opened before.                       *)
(***************************************************************************)

\* The calls that hold the lock of their lease.
Locked(c) == sfPc[c] \in {"check", "use", "drop", "evict"}

\* A call holds a lease's lock exactly while it is past acquiring and not over.
LockHeld ==
  \A c \in Caller, l \in Lease : leaseLock[l] = c <=> (Locked(c) /\ sfLease[c] = l)

\* A call that has a place in the protocol after the look-up has a lease, opened before.
HasLease ==
  \A c \in Caller :
    /\ sfPc[c] \in {"put", "acquire", "check", "use", "drop", "evict"} => sfLease[c] \in Lease
    /\ sfLease[c] \in Lease => conn[sfLease[c]] # "none"

PoolOpened == \A k \in HostKey : pool[k] \in Lease => conn[pool[k]] # "none"

\* A lease that is about to be put is in no pool and no other call's.
FreshIsOwn ==
  \A c \in Caller : sfPc[c] = "put" =>
    /\ \A k \in HostKey : pool[k] # sfLease[c]
    /\ \A d \in Caller \ {c} : sfLease[d] # sfLease[c]

\* A connection in use is open, or has dropped by itself.
UsedIsOpen == \A c \in Caller : sfPc[c] = "use" => conn[sfLease[c]] \in {"up", "down"}

SftpInv == SftpTypeOK /\ LockHeld /\ HasLease /\ PoolOpened /\ FreshIsOwn /\ UsedIsOpen
LEMMA SftpInit0 == SftpInit => SftpInv
BY SftpAssumption DEF SftpInit, SftpInv, SftpTypeOK, LockHeld, Locked, HasLease, PoolOpened,
   FreshIsOwn, UsedIsOpen

\* The end of a call: its lease is forgotten and the lock given back.
LEMMA SftpEndStep ==
  ASSUME SftpInv, NEW c \in Caller, CallEnds(c)
  PROVE  /\ sfPc' \in [Caller -> {"idle", "sweep", "open", "put", "acquire", "check", "use",
                                  "drop", "evict"}]
         /\ sfLease' \in [Caller -> Lease \union {NoLease}]
         /\ leaseLock' \in [Lease -> Caller \union {NoCaller}]
         /\ LockHeld'
         /\ sfPc'[c] = "idle" /\ sfLease'[c] = NoLease
         /\ \A d \in Caller \ {c} : sfPc'[d] = sfPc[d] /\ sfLease'[d] = sfLease[d]
BY SftpAssumption DEF SftpInv, SftpTypeOK, CallEnds, SftpGoto, LockHeld, Locked

LEMMA StartStep ==
  ASSUME SftpInv, NEW c \in Caller, NEW k \in HostKey, CallStarts(c, k)
  PROVE  SftpInv'
<1>1. SftpTypeOK'
  BY SftpAssumption DEF SftpInv, SftpTypeOK, CallStarts, SftpGoto, Pooled
<1>2. LockHeld' /\ HasLease' /\ PoolOpened' /\ FreshIsOwn' /\ UsedIsOpen'
  BY DEF SftpInv, SftpTypeOK, CallStarts, SftpGoto, LockHeld, Locked, HasLease, PoolOpened,
     FreshIsOwn, UsedIsOpen
<1> QED BY <1>1, <1>2 DEF SftpInv

LEMMA SweepStep ==
  ASSUME SftpInv, NEW c \in Caller, Sweep(c)
  PROVE  SftpInv'
<1> DEFINE D    == {l \in sfIdle[c] : leaseLock[l] = NoCaller}
           kept == [k \in HostKey |-> IF pool[k] \in D THEN NoLease ELSE pool[k]]
<1>0. /\ sfPc[c] = "sweep"
      /\ conn' = [l \in Lease |-> IF l \in D THEN "closed" ELSE conn[l]]
      /\ pool' = kept
      /\ sfLease' = [sfLease EXCEPT ![c] = kept[sfKey[c]]]
      /\ sfPc' = [sfPc EXCEPT ![c] = IF kept[sfKey[c]] = NoLease THEN "open" ELSE "acquire"]
      /\ sfIdle' = [sfIdle EXCEPT ![c] = {}]
      /\ poolLock' = NoCaller
      /\ UNCHANGED <<leaseLock, sfKey, sfCalls, sfFaults>>
  BY DEF Sweep, SweepAndGet, SftpGoto
<1>1. kept \in [HostKey -> Lease \union {NoLease}] /\ sfKey[c] \in HostKey /\ D \subseteq Lease
  BY DEF SftpInv, SftpTypeOK
<1> HIDE DEF kept, D
<1>2. kept[sfKey[c]] \in Lease \union {NoLease}
  BY <1>1
<1>3. SftpTypeOK'
  BY <1>0, <1>1, <1>2, SftpAssumption DEF SftpInv, SftpTypeOK
<1>4. LockHeld'
  BY <1>0, <1>2 DEF SftpInv, SftpTypeOK, LockHeld, Locked
<1>5. \A k \in HostKey : kept[k] \in Lease => kept[k] = pool[k]
  BY SftpAssumption DEF kept
<1>6. PoolOpened'
  BY <1>0, <1>1, <1>5 DEF SftpInv, PoolOpened
<1>7. HasLease'
  BY <1>0, <1>1, <1>2, <1>5 DEF SftpInv, SftpTypeOK, HasLease, PoolOpened
<1>8. FreshIsOwn'
  <2>1. ASSUME NEW d \in Caller, sfPc'[d] = "put" PROVE d # c /\ sfPc[d] = "put" /\ sfLease'[d] = sfLease[d] /\ sfLease[d] \in Lease
    BY <1>0, <2>1 DEF SftpInv, SftpTypeOK, HasLease
  <2>2. ASSUME NEW d \in Caller, sfPc'[d] = "put", NEW k \in HostKey PROVE kept[k] # sfLease[d]
    BY <2>1, <2>2, <1>5 DEF SftpInv, FreshIsOwn
  <2> QED BY <1>0, <1>1, <2>1, <2>2 DEF SftpInv, SftpTypeOK, FreshIsOwn
<1>9. UsedIsOpen'
  <2>1. ASSUME NEW d \in Caller, sfPc'[d] = "use" PROVE conn'[sfLease'[d]] \in {"up", "down"}
    <3>1. d # c /\ sfPc[d] = "use" /\ sfLease'[d] = sfLease[d] /\ sfLease[d] \in Lease
      BY <1>0, <2>1 DEF SftpInv, SftpTypeOK, HasLease
    <3>2. leaseLock[sfLease[d]] = d
      BY <3>1 DEF SftpInv, LockHeld, Locked
    <3>3. sfLease[d] \notin D
      BY <3>2, SftpAssumption DEF D
    <3> QED BY <1>0, <3>1, <3>3 DEF SftpInv, UsedIsOpen
  <2> QED BY <2>1 DEF UsedIsOpen
<1> QED BY <1>3, <1>4, <1>6, <1>7, <1>8, <1>9 DEF SftpInv

LEMMA SftpOpenStep ==
  ASSUME SftpInv, NEW c \in Caller, OpenLease(c)
  PROVE  SftpInv'
<1>1. CASE CallEnds(c) /\ UNCHANGED conn
  <2>1. SftpTypeOK' /\ LockHeld'
    BY <1>1, SftpEndStep DEF SftpInv, SftpTypeOK, OpenLease
  <2>2. HasLease' /\ PoolOpened' /\ FreshIsOwn' /\ UsedIsOpen'
    BY <1>1, SftpEndStep, SftpAssumption
    DEF SftpInv, SftpTypeOK, OpenLease, HasLease, PoolOpened, FreshIsOwn, UsedIsOpen
  <2> QED BY <2>1, <2>2 DEF SftpInv
<1>2. CASE ~(CallEnds(c) /\ UNCHANGED conn)
  <2>1. PICK l \in Lease : /\ conn[l] = "none"
                           /\ conn' = [conn EXCEPT ![l] = "up"]
                           /\ sfLease' = [sfLease EXCEPT ![c] = l]
                           /\ sfPc' = [sfPc EXCEPT ![c] = "put"]
                           /\ UNCHANGED leaseLock
    BY <1>2 DEF OpenLease, SftpGoto
  <2>2. sfPc[c] = "open" /\ UNCHANGED <<poolLock, pool, sfKey, sfIdle, sfCalls, sfFaults>>
    BY DEF OpenLease
  <2>3. /\ \A k \in HostKey : pool[k] # l
        /\ \A d \in Caller : sfLease[d] # l
    BY <2>1 DEF SftpInv, HasLease, PoolOpened
  <2>4. SftpTypeOK' /\ LockHeld'
    BY <2>1, <2>2, <2>3 DEF SftpInv, SftpTypeOK, LockHeld, Locked
  <2>5. HasLease' /\ PoolOpened'
    BY <2>1, <2>2, <2>3 DEF SftpInv, SftpTypeOK, HasLease, PoolOpened
  <2>6. FreshIsOwn' /\ UsedIsOpen'
    BY <2>1, <2>2, <2>3 DEF SftpInv, SftpTypeOK, HasLease, FreshIsOwn, UsedIsOpen
  <2> QED BY <2>4, <2>5, <2>6 DEF SftpInv
<1> QED BY <1>1, <1>2

LEMMA PutStep ==
  ASSUME SftpInv, NEW c \in Caller, PutLease(c)
  PROVE  SftpInv'
<1> DEFINE k == sfKey[c]
<1>0. /\ sfPc[c] = "put" /\ sfPc' = [sfPc EXCEPT ![c] = "acquire"]
      /\ k \in HostKey /\ sfLease[c] \in Lease /\ conn[sfLease[c]] # "none"
      /\ UNCHANGED <<poolLock, leaseLock, sfKey, sfIdle, sfCalls, sfFaults>>
  BY DEF SftpInv, SftpTypeOK, HasLease, PutLease, SftpGoto
<1>1. CASE Alive(pool[k])
  <2>1. /\ pool[k] \in Lease /\ conn[pool[k]] = "up" /\ pool[k] # sfLease[c]
        /\ conn' = [conn EXCEPT ![sfLease[c]] = "closed"]
        /\ sfLease' = [sfLease EXCEPT ![c] = pool[k]]
        /\ pool' = pool
    BY <1>0, <1>1 DEF SftpInv, SftpTypeOK, FreshIsOwn, PutLease, Alive
  <2> HIDE DEF k
  <2>2. SftpTypeOK' /\ LockHeld'
    BY <1>0, <2>1 DEF SftpInv, SftpTypeOK, LockHeld, Locked
  <2>3. HasLease' /\ PoolOpened'
    BY <1>0, <2>1 DEF SftpInv, SftpTypeOK, HasLease, PoolOpened
  <2>4. FreshIsOwn' /\ UsedIsOpen'
    BY <1>0, <2>1 DEF SftpInv, SftpTypeOK, HasLease, FreshIsOwn, UsedIsOpen
  <2> QED BY <2>2, <2>3, <2>4 DEF SftpInv
<1>2. CASE ~Alive(pool[k])
  <2>1. pool' = [pool EXCEPT ![k] = sfLease[c]] /\ UNCHANGED <<conn, sfLease>>
    BY <1>2 DEF PutLease
  <2> HIDE DEF k
  <2>2. SftpTypeOK' /\ LockHeld'
    BY <1>0, <2>1 DEF SftpInv, SftpTypeOK, LockHeld, Locked
  <2>3. HasLease' /\ PoolOpened'
    BY <1>0, <2>1 DEF SftpInv, SftpTypeOK, HasLease, PoolOpened
  <2>4. FreshIsOwn' /\ UsedIsOpen'
    BY <1>0, <2>1 DEF SftpInv, SftpTypeOK, HasLease, FreshIsOwn, UsedIsOpen
  <2> QED BY <2>2, <2>3, <2>4 DEF SftpInv
<1> QED BY <1>1, <1>2

LEMMA AcquireStep ==
  ASSUME SftpInv, NEW c \in Caller, AcquireLease(c)
  PROVE  SftpInv'
<1>1. SftpTypeOK' /\ LockHeld'
  BY SftpAssumption DEF SftpInv, SftpTypeOK, HasLease, LockHeld, Locked, AcquireLease, SftpGoto
<1>2. HasLease' /\ PoolOpened' /\ FreshIsOwn' /\ UsedIsOpen'
  BY DEF SftpInv, SftpTypeOK, HasLease, PoolOpened, FreshIsOwn, UsedIsOpen, AcquireLease, SftpGoto
<1> QED BY <1>1, <1>2 DEF SftpInv

LEMMA SftpCheckStep ==
  ASSUME SftpInv, NEW c \in Caller, CheckLease(c)
  PROVE  SftpInv'
<1>0. sfLease[c] \in Lease /\ conn[sfLease[c]] # "none" /\ sfLease[c] # NoLease
  BY SftpAssumption DEF SftpInv, HasLease, CheckLease
<1>1. \A d \in Caller \ {c} : sfPc[d] = "use" => sfLease[d] # sfLease[c]
  BY <1>0 DEF SftpInv, LockHeld, Locked, CheckLease
<1>2. SftpTypeOK' /\ LockHeld'
  BY <1>0 DEF SftpInv, SftpTypeOK, LockHeld, Locked, CheckLease, SftpGoto
<1>3. HasLease' /\ PoolOpened'
  BY <1>0 DEF SftpInv, SftpTypeOK, HasLease, PoolOpened, CheckLease, SftpGoto
<1>4. FreshIsOwn'
  BY <1>0 DEF SftpInv, SftpTypeOK, FreshIsOwn, CheckLease, SftpGoto
<1>5. UsedIsOpen'
  BY <1>0, <1>1 DEF SftpInv, SftpTypeOK, UsedIsOpen, CheckLease, SftpGoto, Alive, HasLease
<1> QED BY <1>2, <1>3, <1>4, <1>5 DEF SftpInv

\* A call that ends, with its key's lease dropped or closed, or without.
LEMMA EndedStep ==
  ASSUME SftpInv, NEW c \in Caller, CallEnds(c), Locked(c),
         pool' \in [HostKey -> Lease \union {NoLease}],
         \A k \in HostKey : pool'[k] \in Lease => pool'[k] = pool[k],
         \/ conn' = conn
         \/ conn' = [conn EXCEPT ![sfLease[c]] = "closed"],
         UNCHANGED <<poolLock, sfKey, sfIdle, sfCalls, sfFaults>>
  PROVE  SftpInv'
<1>0. sfLease[c] \in Lease
  BY DEF SftpInv, HasLease, Locked
<1>1. SftpTypeOK' /\ LockHeld'
  BY <1>0, SftpEndStep DEF SftpInv, SftpTypeOK
<1>2. HasLease' /\ PoolOpened'
  BY <1>0, SftpEndStep, SftpAssumption DEF SftpInv, SftpTypeOK, HasLease, PoolOpened
<1>3. FreshIsOwn'
  <2>1. ASSUME NEW d \in Caller, sfPc'[d] = "put"
        PROVE  d # c /\ sfPc[d] = "put" /\ sfLease'[d] = sfLease[d] /\ sfLease[d] \in Lease
    BY <2>1, SftpEndStep DEF SftpInv, HasLease
  <2> QED BY <2>1, SftpEndStep, SftpAssumption DEF SftpInv, FreshIsOwn
<1>4. UsedIsOpen'
  <2>1. ASSUME NEW d \in Caller, sfPc'[d] = "use"
        PROVE  d # c /\ sfPc[d] = "use" /\ sfLease'[d] = sfLease[d] /\ sfLease[d] \in Lease
    BY <2>1, SftpEndStep DEF SftpInv, HasLease
  <2>2. ASSUME NEW d \in Caller, sfPc'[d] = "use" PROVE sfLease[d] # sfLease[c]
    BY <2>1, <2>2, <1>0 DEF SftpInv, LockHeld, Locked
  <2> QED BY <1>0, <2>1, <2>2 DEF SftpInv, SftpTypeOK, UsedIsOpen
<1> QED BY <1>1, <1>2, <1>3, <1>4 DEF SftpInv

LEMMA UseStep ==
  ASSUME SftpInv, NEW c \in Caller, UseEnds(c)
  PROVE  SftpInv'
<1>1. CASE CallEnds(c)
  BY <1>1, EndedStep DEF UseEnds, Locked, SftpInv, SftpTypeOK
<1>2. CASE SftpGoto(c, "evict") /\ UNCHANGED <<sfLease, leaseLock>>
  <2>1. SftpTypeOK' /\ LockHeld'
    BY <1>2 DEF SftpInv, SftpTypeOK, LockHeld, Locked, UseEnds, SftpGoto
  <2>2. HasLease' /\ PoolOpened' /\ FreshIsOwn' /\ UsedIsOpen'
    BY <1>2 DEF SftpInv, SftpTypeOK, HasLease, PoolOpened, FreshIsOwn, UsedIsOpen, UseEnds, SftpGoto
  <2> QED BY <2>1, <2>2 DEF SftpInv
<1> QED BY <1>1, <1>2 DEF UseEnds

LEMMA DropsStep ==
  ASSUME SftpInv, NEW l \in Lease, ConnectionDrops(l)
  PROVE  SftpInv'
<1>1. SftpTypeOK' /\ LockHeld'
  BY SftpAssumption DEF SftpInv, SftpTypeOK, LockHeld, Locked, ConnectionDrops
<1>2. HasLease' /\ PoolOpened' /\ FreshIsOwn' /\ UsedIsOpen'
  BY DEF SftpInv, SftpTypeOK, HasLease, PoolOpened, FreshIsOwn, UsedIsOpen, ConnectionDrops
<1> QED BY <1>1, <1>2 DEF SftpInv

LEMMA SftpStep == SftpInv /\ [SftpNext]_sftpVars => SftpInv'
<1> SUFFICES ASSUME SftpInv, [SftpNext]_sftpVars PROVE SftpInv'
  OBVIOUS
<1>1. ASSUME NEW c \in Caller, DropKey(c) PROVE SftpInv'
  BY <1>1, EndedStep, SftpAssumption DEF DropKey, Locked, SftpInv, SftpTypeOK
<1>2. ASSUME NEW c \in Caller, EvictLease(c) PROVE SftpInv'
  BY <1>2, EndedStep, SftpAssumption DEF EvictLease, Locked, SftpInv, SftpTypeOK
<1>3. CASE UNCHANGED sftpVars
  BY <1>3 DEF sftpVars, SftpInv, SftpTypeOK, LockHeld, Locked, HasLease, PoolOpened, FreshIsOwn,
     UsedIsOpen
<1> QED
  BY <1>1, <1>2, <1>3, StartStep, SweepStep, SftpOpenStep, PutStep, AcquireStep, SftpCheckStep, UseStep,
     DropsStep DEF SftpNext, CallStep

LEMMA Exclusive == SftpInv => UseIsExclusive
BY DEF SftpInv, UseIsExclusive, UsedIsOpen, LockHeld, Locked, HasLease

\* The pool of host_files.py keeps its state in its sets, whatever calls do.
THEOREM SftpTypeCorrect == SftpSpec => []SftpTypeOK
<1>1. SftpInv => SftpTypeOK
  BY DEF SftpInv
<1> QED BY SftpInit0, SftpStep, <1>1, PTL DEF SftpSpec

\* sftp_session: for any number of threads, hosts and leases, a connection that is in
\* use is one call's, and no sweep, eviction or lost race closes it.
THEOREM ConnectionsAreExclusive == SftpSpec => []UseIsExclusive
BY SftpInit0, SftpStep, Exclusive, PTL DEF SftpSpec

\* A call has the pool's lock exactly while it sweeps.
PoolLockHeld == \A c \in Caller : poolLock = c <=> sfPc[c] = "sweep"

\* What a call waits for before its next step, if for anything.
CanGoOn(c) ==
  \/ sfPc[c] \in {"sweep", "open", "check", "use"}
  \/ sfPc[c] \in {"put", "drop", "evict"} /\ poolLock = NoCaller
  \/ sfPc[c] = "acquire" /\ leaseLock[sfLease[c]] = NoCaller

NoCircularWait == (\E c \in Caller : sfPc[c] # "idle") => \E c \in Caller : CanGoOn(c)

LEMMA PoolLockStep ==
  ASSUME SftpTypeOK, PoolLockHeld, [SftpNext]_sftpVars
  PROVE  PoolLockHeld'
<1> USE SftpAssumption DEF SftpTypeOK, PoolLockHeld, SftpGoto, CallEnds
<1>1. ASSUME NEW c \in Caller, NEW k \in HostKey, CallStarts(c, k) PROVE PoolLockHeld'
  BY <1>1 DEF CallStarts
<1>2. ASSUME NEW c \in Caller, Sweep(c) PROVE PoolLockHeld'
  BY <1>2 DEF Sweep, SweepAndGet
<1>3. ASSUME NEW c \in Caller, OpenLease(c) PROVE PoolLockHeld'
  BY <1>3 DEF OpenLease
<1>4. ASSUME NEW c \in Caller, PutLease(c) PROVE PoolLockHeld'
  BY <1>4 DEF PutLease
<1>5. ASSUME NEW c \in Caller, AcquireLease(c) \/ CheckLease(c) PROVE PoolLockHeld'
  BY <1>5 DEF AcquireLease, CheckLease
<1>6. ASSUME NEW c \in Caller, DropKey(c) \/ UseEnds(c) \/ EvictLease(c) PROVE PoolLockHeld'
  BY <1>6 DEF DropKey, UseEnds, EvictLease
<1>7. CASE (\E l \in Lease : ConnectionDrops(l)) \/ UNCHANGED sftpVars
  BY <1>7 DEF ConnectionDrops, sftpVars
<1> QED BY <1>1, <1>2, <1>3, <1>4, <1>5, <1>6, <1>7 DEF SftpNext, CallStep

\* Who waits for a lease waits for a call that has it, and that call waits for the pool
\* at most; who has the pool waits for nobody.
LEMMA WaitsEnd == SftpInv /\ PoolLockHeld => NoCircularWait
<1> SUFFICES ASSUME SftpInv, PoolLockHeld, NEW c \in Caller, sfPc[c] # "idle"
             PROVE  \E d \in Caller : CanGoOn(d)
  BY DEF NoCircularWait
<1>1. CASE poolLock # NoCaller
  BY <1>1 DEF SftpInv, SftpTypeOK, PoolLockHeld, CanGoOn
<1>2. CASE poolLock = NoCaller /\ sfPc[c] = "acquire" /\ leaseLock[sfLease[c]] # NoCaller
  <2>1. sfLease[c] \in Lease
    BY <1>2 DEF SftpInv, HasLease
  <2>2. PICK d \in Caller : leaseLock[sfLease[c]] = d
    BY <1>2, <2>1 DEF SftpInv, SftpTypeOK
  <2>3. sfPc[d] \in {"check", "use", "drop", "evict"}
    BY <2>1, <2>2 DEF SftpInv, LockHeld, Locked
  <2> QED BY <1>2, <2>3 DEF CanGoOn
<1>3. CASE poolLock = NoCaller /\ ~(sfPc[c] = "acquire" /\ leaseLock[sfLease[c]] # NoCaller)
  BY <1>3 DEF SftpInv, SftpTypeOK, CanGoOn
<1> QED BY <1>1, <1>2, <1>3

\* sftp_session, _sweep_idle_locked and the eviction after a failure take the pool's lock and
\* a lease's in both orders; still, while calls are under way, one has the locks it wants.
THEOREM LocksNeverCircular == SftpSpec => []NoCircularWait
<1>1. SftpInit => PoolLockHeld
  BY SftpAssumption DEF SftpInit, PoolLockHeld
<1>2. SftpInv => SftpTypeOK
  BY DEF SftpInv
<1> QED BY <1>1, <1>2, SftpInit0, SftpStep, PoolLockStep, WaitsEnd, PTL DEF SftpSpec
------------------------------------------------------------------------------
(***************************************************************************)
(* Consoles for any number of users, WebSockets, shells, logins and        *)
(* limits. The counters are proved against the set of shells they count:   *)
(* each action either leaves that set alone, adds one shell that was not   *)
(* in it, or takes shells out of it; and it changes the counters by the    *)
(* same. That a shell is added or taken out once is the other half: a PTY  *)
(* is in one place, a shell with a ticket to use is in none.               *)
(***************************************************************************)
\* A handler has a shell exactly while it is busy; a shell it has resumed is marked so.
HandlerHasShell ==
  \A w \in Ws :
    /\ IF ws[w] = "idle" THEN wsShell[w] = NoShell ELSE wsShell[w] \in Shell
    /\ ws[w] \in {"resuming", "resumed"} => wasResumed[wsShell[w]]

\* What a shell that takes a slot looks like, and one whose ticket is not used.
HeldIsOpen ==
  /\ \A s \in parked : ticket[s] = "used" /\ record[s] = "open"
  /\ \A w \in Ws : ws[w] # "idle" => ticket[wsShell[w]] = "used" /\ record[wsShell[w]] = "open"
  /\ \A s \in Shell : ticket[s] # "used" => channel[s] = "none"

ConsoleInv == ConsoleTypeOK /\ HandlerHasShell /\ HeldIsOpen /\ OneHolder /\ ClosedIsAudited /\ SlotsCounted
------------------------------------------------------------------------------
\* Taking a subset out of a finite set.
LEMMA CardinalityWithout ==
  ASSUME NEW H, IsFiniteSet(H), NEW S \in SUBSET H
  PROVE  /\ Cardinality(H \ S) = Cardinality(H) - Cardinality(S)
         /\ Cardinality(H \ S) \in Nat /\ Cardinality(H) \in Nat /\ Cardinality(S) \in Nat
<1>1. IsFiniteSet(S) /\ IsFiniteSet(H \ S)
  BY FS_Subset
<1>2. (H \ S) \union S = H /\ (H \ S) \intersect S = {}
  OBVIOUS
<1>3. Cardinality((H \ S) \union S) =
        Cardinality(H \ S) + Cardinality(S) - Cardinality((H \ S) \intersect S)
  BY <1>1, FS_Union
<1>4. /\ Cardinality(H) \in Nat /\ Cardinality(S) \in Nat /\ Cardinality(H \ S) \in Nat
      /\ Cardinality({}) = 0
  BY <1>1, FS_CardinalityType, FS_EmptySet
<1>5. Cardinality(H) = Cardinality(H \ S) + Cardinality(S) - Cardinality({})
  BY <1>2, <1>3
<1> QED BY <1>4, <1>5

LEMMA HoldingFinite ==
  ASSUME ConsoleTypeOK, HandlerHasShell
  PROVE  Holding \subseteq Shell /\ IsFiniteSet(Holding)
<1>1. Holding \subseteq Shell
  BY DEF ConsoleTypeOK, HandlerHasShell, Holding
<1> QED BY <1>1, FS_Subset, ShellAssumption

\* release_slot for shells that had a slot: the counters stay exact.
LEMMA SlotsReleased ==
  ASSUME ConsoleInv, NEW S \in SUBSET Holding, ReleaseSlots(S), Holding' = Holding \ S
  PROVE  SlotsCounted' /\ liveByUser' \in [User -> Int] /\ liveGlobal' \in Int
<1>0. IsFiniteSet(Holding)
  BY HoldingFinite DEF ConsoleInv
<1>1. /\ Cardinality(Holding') = Cardinality(Holding) - Cardinality(S)
      /\ Cardinality(Holding') \in Nat /\ Cardinality(Holding) \in Nat /\ Cardinality(S) \in Nat
  BY <1>0, CardinalityWithout
<1>2. liveGlobal' = Cardinality(Holding') /\ liveGlobal' <= MaxGlobal
  BY <1>1, SlotAssumption DEF ConsoleInv, SlotsCounted, ReleaseSlots
<1>3. ASSUME NEW u \in User
      PROVE  liveByUser'[u] = Cardinality({s \in Holding' : ShellOwner[s] = u}) /\ liveByUser'[u] <= MaxPerUser
  <2> DEFINE H == {s \in Holding : ShellOwner[s] = u}
             F == {s \in S : ShellOwner[s] = u}
  <2>1. IsFiniteSet(H) /\ F \in SUBSET H
    BY <1>0, FS_Subset
  <2>2. {s \in Holding' : ShellOwner[s] = u} = H \ F
    OBVIOUS
  <2>3. liveByUser'[u] = IF liveByUser[u] < Cardinality(F) THEN 0 ELSE liveByUser[u] - Cardinality(F)
    BY DEF ReleaseSlots
  <2>4. liveByUser[u] = Cardinality(H) /\ liveByUser[u] <= MaxPerUser
    BY DEF ConsoleInv, SlotsCounted
  <2> HIDE DEF H, F
  <2>5. Cardinality(H \ F) = Cardinality(H) - Cardinality(F) /\ Cardinality(H) \in Nat
        /\ Cardinality(F) \in Nat /\ Cardinality(H \ F) \in Nat
    BY <2>1, CardinalityWithout
  <2> QED BY <2>2, <2>3, <2>4, <2>5, SlotAssumption
<1>4. liveByUser' \in [User -> Int]
  <2>1. ASSUME NEW u \in User PROVE Cardinality({s \in Holding' : ShellOwner[s] = u}) \in Int
    <3>1. IsFiniteSet({s \in Holding' : ShellOwner[s] = u})
      BY <1>0, FS_Subset
    <3> QED BY <3>1, FS_CardinalityType
  <2>2. \A u \in User : liveByUser'[u] \in Int
    BY <1>3, <2>1
  <2> QED BY <2>2 DEF ReleaseSlots
<1> QED BY <1>1, <1>2, <1>3, <1>4 DEF SlotsCounted

\* try_acquire_slot for a shell that has none.
LEMMA SlotTaken ==
  ASSUME ConsoleInv, NEW s \in Shell, s \notin Holding, SlotFree(ShellOwner[s]), AcquireSlot(ShellOwner[s]),
         Holding' = Holding \union {s}
  PROVE  SlotsCounted' /\ liveByUser' \in [User -> Int] /\ liveGlobal' \in Int
<1>0. IsFiniteSet(Holding) /\ ShellOwner[s] \in User /\ liveByUser \in [User -> Int] /\ liveGlobal \in Int
  BY HoldingFinite, ShellAssumption DEF ConsoleInv, ConsoleTypeOK
<1>1. Cardinality(Holding') = Cardinality(Holding) + 1
  BY <1>0, FS_AddElement
<1>2. liveGlobal' = Cardinality(Holding') /\ liveGlobal' <= MaxGlobal
  BY <1>0, <1>1, SlotAssumption DEF ConsoleInv, SlotsCounted, AcquireSlot, SlotFree
<1>3. ASSUME NEW u \in User
      PROVE  liveByUser'[u] = Cardinality({t \in Holding' : ShellOwner[t] = u}) /\ liveByUser'[u] <= MaxPerUser
  <2> DEFINE H == {t \in Holding : ShellOwner[t] = u}
  <2>1. IsFiniteSet(H) /\ s \notin H
    BY <1>0, FS_Subset
  <2>2. liveByUser[u] = Cardinality(H) /\ liveByUser[u] <= MaxPerUser
    BY DEF ConsoleInv, SlotsCounted
  <2>3. CASE u = ShellOwner[s]
    <3>1. {t \in Holding' : ShellOwner[t] = u} = H \union {s}
      BY <2>3
    <3>2. Cardinality(H \union {s}) = Cardinality(H) + 1
      BY <2>1, FS_AddElement
    <3> HIDE DEF H
    <3> QED BY <1>0, <2>2, <2>3, <3>1, <3>2, SlotAssumption DEF AcquireSlot, SlotFree
  <2>4. CASE u # ShellOwner[s]
    <3>1. {t \in Holding' : ShellOwner[t] = u} = H
      BY <2>4
    <3> HIDE DEF H
    <3> QED BY <1>0, <2>2, <2>4, <3>1 DEF AcquireSlot
  <2> QED BY <2>3, <2>4
<1> QED BY <1>0, <1>2, <1>3 DEF SlotsCounted, AcquireSlot
------------------------------------------------------------------------------
LEMMA ConsoleInit0 == ConsoleInit => ConsoleInv
<1> SUFFICES ASSUME ConsoleInit PROVE ConsoleInv
  OBVIOUS
<1>1. ConsoleTypeOK
  <2>1. wsGone \in [Ws -> BOOLEAN] /\ wasResumed \in [Shell -> BOOLEAN]
    BY Zenon DEF ConsoleInit
  <2> QED BY <2>1, SlotAssumption DEF ConsoleInit, ConsoleTypeOK
<1>2. HandlerHasShell /\ HeldIsOpen /\ OneHolder /\ ClosedIsAudited
  BY DEF ConsoleInit, HandlerHasShell, HeldIsOpen, OneHolder, ClosedIsAudited
<1>3. SlotsCounted
  <2>1. Holding = {} /\ \A u \in User : {s \in Holding : ShellOwner[s] = u} = {}
    BY DEF ConsoleInit, Holding
  <2> QED BY <2>1, FS_EmptySet, SlotAssumption DEF ConsoleInit, SlotsCounted
<1> QED BY <1>1, <1>2, <1>3 DEF ConsoleInv

\* The counters when nothing about slots changes.
LEMMA SlotsKept ==
  ASSUME ConsoleInv, Holding' = Holding, UNCHANGED <<liveByUser, liveGlobal>>
  PROVE  SlotsCounted'
BY DEF ConsoleInv, SlotsCounted

\* destroy_held of parked shells.
LEMMA DestroyStep ==
  ASSUME ConsoleInv, NEW S \in SUBSET parked, Destroy(S), sv' \in [User -> 0 .. MaxRevokes],
         watchers' \in [Shell -> 0 .. MaxWatchers],
         UNCHANGED <<ticket, shellSv, ws, wsShell, wsGone, wasResumed>>
  PROVE  ConsoleInv'
<1>1. Holding' = Holding \ S /\ S \in SUBSET Holding
  BY DEF ConsoleInv, OneHolder, Holding, Destroy
<1>2. SlotsCounted' /\ liveByUser' \in [User -> Int] /\ liveGlobal' \in Int
  BY <1>1, SlotsReleased DEF Destroy
<1>3. ConsoleTypeOK' /\ HandlerHasShell' /\ HeldIsOpen'
  BY <1>2 DEF ConsoleInv, ConsoleTypeOK, HandlerHasShell, HeldIsOpen, OneHolder, Destroy
<1>4. OneHolder' /\ ClosedIsAudited'
  BY DEF ConsoleInv, ConsoleTypeOK, HandlerHasShell, HeldIsOpen, OneHolder, ClosedIsAudited, Destroy
<1> QED BY <1>2, <1>3, <1>4 DEF ConsoleInv

\* The end of a handler's shell: with its close row, or without when it was resumed.
LEMMA ConsoleCloseStep ==
  ASSUME ConsoleInv, NEW w \in Ws, NEW closes \in BOOLEAN, ws[w] # "idle",
         closes \/ ws[w] \in {"resuming", "resumed"}, CloseShell(w, closes)
  PROVE  ConsoleInv'
<1> DEFINE s == wsShell[w]
<1>0. s \in Shell /\ s \in Holding
  BY DEF ConsoleInv, HandlerHasShell, Holding
<1>1. Holding' = Holding \ {s}
  BY <1>0 DEF ConsoleInv, ConsoleTypeOK, OneHolder, Holding, CloseShell
<1>2. SlotsCounted' /\ liveByUser' \in [User -> Int] /\ liveGlobal' \in Int
  BY <1>0, <1>1, SlotsReleased DEF CloseShell
<1>3. wsGone' \in [Ws -> BOOLEAN]
  BY Zenon DEF ConsoleInv, ConsoleTypeOK, CloseShell
<1>4. ConsoleTypeOK'
  BY <1>0, <1>2, <1>3 DEF ConsoleInv, ConsoleTypeOK, CloseShell
<1>5. HandlerHasShell' /\ HeldIsOpen' /\ OneHolder'
  BY <1>0 DEF ConsoleInv, ConsoleTypeOK, HandlerHasShell, HeldIsOpen, OneHolder, CloseShell
<1>6. ClosedIsAudited'
  BY <1>0 DEF ConsoleInv, ConsoleTypeOK, HandlerHasShell, ClosedIsAudited, CloseShell
<1> QED BY <1>2, <1>4, <1>5, <1>6 DEF ConsoleInv

LEMMA MintStep ==
  ASSUME ConsoleInv, NEW s \in Shell, MintTicket(s)
  PROVE  ConsoleInv'
<1>1. SlotsCounted'
  BY SlotsKept DEF MintTicket, Holding
<1>2. ConsoleTypeOK'
  BY ShellAssumption DEF ConsoleInv, ConsoleTypeOK, MintTicket
<1>3. HandlerHasShell' /\ HeldIsOpen' /\ OneHolder' /\ ClosedIsAudited'
  BY DEF ConsoleInv, ConsoleTypeOK, HandlerHasShell, HeldIsOpen, OneHolder, ClosedIsAudited, MintTicket
<1> QED BY <1>1, <1>2, <1>3 DEF ConsoleInv

LEMMA ConsoleOpenStep ==
  ASSUME ConsoleInv, NEW w \in Ws, NEW s \in Shell, OpenWithTicket(w, s)
  PROVE  ConsoleInv'
<1>0. /\ ws[w] = "idle" /\ ticket[s] = "minted" /\ ticket' = [ticket EXCEPT ![s] = "used"]
      /\ UNCHANGED <<sv, shellSv, wsGone, parked, watchers, channel, wasResumed>>
  BY DEF OpenWithTicket
<1>1. CASE UNCHANGED <<liveByUser, liveGlobal, ws, wsShell, record>>
  <2>1. SlotsCounted'
    BY <1>0, <1>1, SlotsKept DEF Holding
  <2>2. ConsoleTypeOK' /\ HandlerHasShell' /\ HeldIsOpen' /\ OneHolder' /\ ClosedIsAudited'
    BY <1>0, <1>1 DEF ConsoleInv, ConsoleTypeOK, HandlerHasShell, HeldIsOpen, OneHolder, ClosedIsAudited
  <2> QED BY <2>1, <2>2 DEF ConsoleInv
<1>2. CASE /\ SlotFree(ShellOwner[s])
           /\ AcquireSlot(ShellOwner[s])
           /\ ws' = [ws EXCEPT ![w] = "opening"]
           /\ wsShell' = [wsShell EXCEPT ![w] = s]
           /\ record' = [record EXCEPT ![s] = "open"]
  <2>1. s \notin Holding /\ Holding' = Holding \union {s}
    BY <1>0, <1>2 DEF ConsoleInv, ConsoleTypeOK, HandlerHasShell, HeldIsOpen, Holding
  <2>2. SlotsCounted' /\ liveByUser' \in [User -> Int] /\ liveGlobal' \in Int
    BY <1>2, <2>1, SlotTaken
  <2>3. ConsoleTypeOK'
    BY <1>0, <1>2, <2>2 DEF ConsoleInv, ConsoleTypeOK
  <2>4. HandlerHasShell' /\ HeldIsOpen' /\ ClosedIsAudited'
    BY <1>0, <1>2 DEF ConsoleInv, ConsoleTypeOK, HandlerHasShell, HeldIsOpen, ClosedIsAudited
  <2>5. OneHolder'
    BY <1>0, <1>2 DEF ConsoleInv, ConsoleTypeOK, HandlerHasShell, HeldIsOpen, OneHolder
  <2> QED BY <2>2, <2>3, <2>4, <2>5 DEF ConsoleInv
<1> QED BY <1>1, <1>2 DEF OpenWithTicket

\* A busy handler moves on, or its browser drops: no shell changes hands.
LEMMA HandlerStep ==
  ASSUME ConsoleInv, NEW w \in Ws, ShellOpens(w) \/ ResumeAttaches(w) \/ BrowserDrops(w)
  PROVE  ConsoleInv'
<1>0. ws[w] # "idle" /\ wsShell[w] \in Shell
  BY DEF ConsoleInv, HandlerHasShell, ShellOpens, ResumeAttaches, BrowserDrops
<1>1. Holding' = Holding
  BY <1>0 DEF ConsoleInv, ConsoleTypeOK, Holding, ShellOpens, ResumeAttaches, BrowserDrops
<1>2. SlotsCounted'
  BY <1>1, SlotsKept DEF ShellOpens, ResumeAttaches, BrowserDrops
<1>3. wsGone' \in [Ws -> BOOLEAN]
  BY Zenon DEF ConsoleInv, ConsoleTypeOK, ShellOpens, ResumeAttaches, BrowserDrops
<1>4. ConsoleTypeOK' /\ HandlerHasShell' /\ HeldIsOpen'
  BY <1>0, <1>3 DEF ConsoleInv, ConsoleTypeOK, HandlerHasShell, HeldIsOpen, ShellOpens, ResumeAttaches, BrowserDrops
<1>5. OneHolder' /\ ClosedIsAudited'
  BY <1>0 DEF ConsoleInv, ConsoleTypeOK, HandlerHasShell, OneHolder, ClosedIsAudited, ShellOpens, ResumeAttaches,
     BrowserDrops
<1> QED BY <1>2, <1>4, <1>5 DEF ConsoleInv

\* claim_resume takes the shell out of the parked ones: its slot goes with it.
LEMMA ClaimStep ==
  ASSUME ConsoleInv, NEW w \in Ws, NEW s \in Shell, ClaimResume(w, s)
  PROVE  ConsoleInv'
<1>1. CASE Destroy({s}) /\ UNCHANGED <<ws, wsShell, wasResumed>>
  BY <1>1, DestroyStep DEF ClaimResume, ConsoleInv, ConsoleTypeOK
<1>2. CASE ~(Destroy({s}) /\ UNCHANGED <<ws, wsShell, wasResumed>>)
  <2>0. /\ ws[w] = "idle" /\ s \in parked /\ parked' = parked \ {s}
        /\ ws' = [ws EXCEPT ![w] = "resuming"] /\ wsShell' = [wsShell EXCEPT ![w] = s]
        /\ wasResumed' = [wasResumed EXCEPT ![s] = TRUE]
        /\ UNCHANGED <<ticket, sv, shellSv, wsGone, watchers, channel, record, liveByUser, liveGlobal>>
    BY <1>2 DEF ClaimResume
  <2>1. Holding' = Holding
    BY <2>0 DEF ConsoleInv, ConsoleTypeOK, Holding
  <2>2. SlotsCounted'
    BY <2>0, <2>1, SlotsKept
  <2>3. wasResumed' \in [Shell -> BOOLEAN] /\ wasResumed'[s] /\ \A t \in Shell : wasResumed[t] => wasResumed'[t]
    BY <2>0, Zenon DEF ConsoleInv, ConsoleTypeOK
  <2>4. ConsoleTypeOK' /\ HeldIsOpen'
    BY <2>0, <2>3 DEF ConsoleInv, ConsoleTypeOK, HeldIsOpen, HandlerHasShell
  <2>5. HandlerHasShell'
    BY <2>0, <2>3 DEF ConsoleInv, ConsoleTypeOK, HandlerHasShell
  <2>6. OneHolder'
    BY <2>0 DEF ConsoleInv, ConsoleTypeOK, HandlerHasShell, OneHolder
  <2>7. ClosedIsAudited'
    BY <2>0, <2>3 DEF ConsoleInv, ConsoleTypeOK, ClosedIsAudited
  <2> QED BY <2>2, <2>4, <2>5, <2>6, <2>7 DEF ConsoleInv
<1> QED BY <1>1, <1>2

\* A dropped shell is parked: the handler lets go of it in the same step.
LEMMA ParkStep ==
  ASSUME ConsoleInv, NEW w \in Ws, Park(w)
  PROVE  ConsoleInv'
<1> DEFINE s == wsShell[w]
<1>0. /\ ws[w] \in {"open", "resumed"} /\ s \in Shell /\ channel[s] \in {"up", "exited"}
      /\ parked' = parked \union {s} /\ watchers[s] < MaxWatchers
      /\ watchers' = [watchers EXCEPT ![s] = @ + 1]
      /\ ws' = [ws EXCEPT ![w] = "idle"] /\ wsShell' = [wsShell EXCEPT ![w] = NoShell]
      /\ wsGone' = [wsGone EXCEPT ![w] = FALSE]
      /\ UNCHANGED <<ticket, sv, shellSv, channel, record, liveByUser, liveGlobal, wasResumed>>
  BY DEF ConsoleInv, HandlerHasShell, Park, Attached
<1> HIDE DEF s
<1>1. Holding' = Holding
  BY <1>0 DEF ConsoleInv, ConsoleTypeOK, Holding, s
<1>2. SlotsCounted'
  BY <1>0, <1>1, SlotsKept
<1>3. wsGone' \in [Ws -> BOOLEAN]
  BY <1>0, Zenon DEF ConsoleInv, ConsoleTypeOK
<1>4. ConsoleTypeOK'
  BY <1>0, <1>3, SlotAssumption DEF ConsoleInv, ConsoleTypeOK
<1>5. HandlerHasShell' /\ HeldIsOpen'
  BY <1>0 DEF ConsoleInv, ConsoleTypeOK, HandlerHasShell, HeldIsOpen, s
<1>6. OneHolder' /\ ClosedIsAudited'
  BY <1>0 DEF ConsoleInv, ConsoleTypeOK, HandlerHasShell, OneHolder, ClosedIsAudited, s
<1> QED BY <1>2, <1>4, <1>5, <1>6 DEF ConsoleInv

LEMMA ConsoleOtherStep ==
  ASSUME ConsoleInv, (\E u \in User : Revoke(u)) \/ (\E s \in Shell : WatchEnds(s) \/ ShellExits(s))
  PROVE  ConsoleInv'
<1>1. SlotsCounted'
  BY SlotsKept DEF Revoke, WatchEnds, ShellExits, Holding
<1>2. ConsoleTypeOK' /\ HandlerHasShell' /\ HeldIsOpen'
  BY SlotAssumption DEF ConsoleInv, ConsoleTypeOK, HandlerHasShell, HeldIsOpen, Revoke, WatchEnds, ShellExits
<1>3. OneHolder' /\ ClosedIsAudited'
  BY DEF ConsoleInv, ConsoleTypeOK, OneHolder, ClosedIsAudited, Revoke, WatchEnds, ShellExits
<1> QED BY <1>1, <1>2, <1>3 DEF ConsoleInv

LEMMA ConsoleStep == ConsoleInv /\ [ConsoleNext]_consoleVars => ConsoleInv'
<1> SUFFICES ASSUME ConsoleInv, [ConsoleNext]_consoleVars PROVE ConsoleInv'
  OBVIOUS
<1>1. ASSUME NEW w \in Ws, OpenFails(w) \/ ResumeFails(w) \/ Bye(w) PROVE ConsoleInv'
  BY <1>1, ConsoleCloseStep DEF OpenFails, ResumeFails, Bye, Attached
<1>2. ASSUME NEW w \in Ws, ShellEnds(w) PROVE ConsoleInv'
  <2>1. PICK intentional \in {FALSE, Revoked(wsShell[w])} : CloseShell(w, ws[w] = "open" \/ intentional)
    BY <1>2 DEF ShellEnds
  <2>2. (ws[w] = "open" \/ intentional) \in BOOLEAN
    BY Zenon
  <2>3. ws[w] \in {"open", "resumed"}
    BY <1>2 DEF ShellEnds, Attached
  <2> QED BY <2>1, <2>2, <2>3, ConsoleCloseStep
<1>3. ASSUME NEW s \in Shell, Discard(s) PROVE ConsoleInv'
  BY <1>3, DestroyStep DEF Discard, ConsoleInv, ConsoleTypeOK
<1>4. ASSUME NEW s \in Shell, WatchDestroys(s) PROVE ConsoleInv'
  BY <1>4, DestroyStep, SlotAssumption DEF WatchDestroys, ConsoleInv, ConsoleTypeOK
<1>5. ASSUME NEW u \in User, Logout(u) PROVE ConsoleInv'
  BY <1>5, DestroyStep, SlotAssumption DEF Logout, ConsoleInv, ConsoleTypeOK
<1>6. CASE UNCHANGED consoleVars
  <2>1. SlotsCounted'
    BY <1>6, SlotsKept DEF consoleVars, Holding
  <2> QED
    BY <1>6, <2>1 DEF consoleVars, ConsoleInv, ConsoleTypeOK, HandlerHasShell, HeldIsOpen, OneHolder, ClosedIsAudited
<1> QED
  BY <1>1, <1>2, <1>3, <1>4, <1>5, <1>6, MintStep, ConsoleOpenStep, HandlerStep, ClaimStep, ParkStep, ConsoleOtherStep
  DEF ConsoleNext
------------------------------------------------------------------------------
\* Tickets, handlers, parked shells and counters keep their state in its sets.
THEOREM ConsoleTypeCorrect == ConsoleSpec => []ConsoleTypeOK
<1>1. ConsoleInv => ConsoleTypeOK
  BY DEF ConsoleInv
<1> QED BY ConsoleInit0, ConsoleStep, <1>1, PTL DEF ConsoleSpec

\* ssh_console.py: for any number of users, handlers and shells and any limits, the
\* counters are the shells they count, and no limit is passed.
THEOREM SlotsNeverLeak == ConsoleSpec => []SlotsCounted
<1>1. ConsoleInv => SlotsCounted
  BY DEF ConsoleInv
<1> QED BY ConsoleInit0, ConsoleStep, <1>1, PTL DEF ConsoleSpec

\* claim_resume and the hold watcher: a PTY is with one WebSocket or parked, never twice.
THEOREM PtyHasOneHolder == ConsoleSpec => []OneHolder
<1>1. ConsoleInv => OneHolder
  BY DEF ConsoleInv
<1> QED BY ConsoleInit0, ConsoleStep, <1>1, PTL DEF ConsoleSpec

\* server_console.py: a shell that is closed and was never resumed has its close row.
THEOREM CloseIsRecorded == ConsoleSpec => []ClosedIsAudited
<1>1. ConsoleInv => ClosedIsAudited
  BY DEF ConsoleInv
<1> QED BY ConsoleInit0, ConsoleStep, <1>1, PTL DEF ConsoleSpec
==============================================================================
