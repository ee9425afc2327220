------------------------------ MODULE KeyRotation ------------------------------
(***************************************************************************)
(* SSH keys of one host (services/ssh_onboarding.py, services/             *)
(* ssh_identities.py, routers/server_ssh.py): an identity is a login name  *)
(* and a key in the database; the host keeps a list of keys per login.     *)
(* Rotation installs a new key, proves it by logging in, takes the old one *)
(* off the host and only then does the handler save the new one.  The work *)
(* runs in the thread pool, so rotations, deploys and a move to a          *)
(* least-privilege user interleave, each with the row it read at its start.*)
(***************************************************************************)
EXTENDS Integers, FiniteSets

CONSTANTS
  KeyOp,        \* requests that may be at work
  Ident,        \* ServerSshIdentity rows; the fleet's is what jobs use
  Fleet,
  FleetUser, SudoUser, LeastUser,   \* logins: at first, of the other identity, and least-privilege
  MaxKey,       \* bound: keys ever made
  MaxKeyFaults  \* bound: failures of the network, deaths of the web process

ASSUME KeyAssumption ==
  /\ Fleet \in Ident
  /\ Cardinality({FleetUser, SudoUser, LeastUser}) = 3
  /\ MaxKey \in Nat /\ MaxKeyFaults \in Nat

HostUser == {FleetUser, SudoUser, LeastUser}
SshKey   == 0 .. MaxKey

VARIABLES
  authorized,  \* authorized_keys of each login
  idUser,      \* username of each identity
  idKey,       \* its key
  password,    \* the fleet login's password is stored and works
  lastKey,     \* the last key made
  kyPc,
  kyIdent,     \* the identity a request is about
  kyUser,      \* its login, as read at the start
  kyOld,       \* its key, as read at the start
  kyNew,
  kyFaults,
  unsafe       \* history: identities that something outside the protocol has put out

keyRow  == <<idUser, idKey, password>>
keyOp   == <<kyIdent, kyUser, kyOld, kyNew>>
keyVars == <<authorized, keyRow, lastKey, kyPc, keyOp, kyFaults, unsafe>>

KeyTypeOK ==
  /\ authorized \in [HostUser -> SUBSET SshKey]
  /\ idUser \in [Ident -> HostUser]
  /\ idKey \in [Ident -> SshKey]
  /\ password \in BOOLEAN
  /\ lastKey \in SshKey
  /\ kyPc \in [KeyOp -> {"idle", "install", "verify", "remove", "save",
                         "deploy", "deployed", "provision", "repoint"}]
  /\ kyIdent \in [KeyOp -> Ident]
  /\ kyUser \in [KeyOp -> HostUser]
  /\ kyOld \in [KeyOp -> SshKey]
  /\ kyNew \in [KeyOp -> SshKey]
  /\ kyFaults \in 0 .. MaxKeyFaults
  /\ unsafe \subseteq Ident

\* Every identity's key is on the host; another identity may have been given the
\* fleet's login and key (add_privileged takes any).
KeyInit ==
  /\ idKey = [i \in Ident |-> 0]
  /\ idUser \in {u \in [Ident -> {FleetUser, SudoUser}] : u[Fleet] = FleetUser}
  /\ authorized = [u \in HostUser |-> IF \E i \in Ident : idUser[i] = u THEN {0} ELSE {}]
  /\ password \in BOOLEAN
  /\ lastKey = 0
  /\ kyPc = [o \in KeyOp |-> "idle"]
  /\ kyIdent = [o \in KeyOp |-> Fleet]
  /\ kyUser = [o \in KeyOp |-> FleetUser]
  /\ kyOld = [o \in KeyOp |-> 0]
  /\ kyNew = [o \in KeyOp |-> 0]
  /\ kyFaults = 0
  /\ unsafe = {}
------------------------------------------------------------------------------
KeyGoto(o, label) == kyPc' = [kyPc EXCEPT ![o] = label]

KeyEnds(O) ==
  /\ kyPc' = [o \in KeyOp |-> IF o \in O THEN "idle" ELSE kyPc[o]]
  /\ kyIdent' = [o \in KeyOp |-> IF o \in O THEN Fleet ELSE kyIdent[o]]
  /\ kyUser' = [o \in KeyOp |-> IF o \in O THEN FleetUser ELSE kyUser[o]]
  /\ kyOld' = [o \in KeyOp |-> IF o \in O THEN 0 ELSE kyOld[o]]
  /\ kyNew' = [o \in KeyOp |-> IF o \in O THEN 0 ELSE kyNew[o]]

\* The network fails a step that could succeed, or the process stops.
KeyFault == kyFaults < MaxKeyFaults /\ kyFaults' = kyFaults + 1
FailsUnless(able) == IF able THEN KeyFault ELSE UNCHANGED kyFaults

\* The next request: they differ in name alone.
FirstIdle(o) == kyPc[o] = "idle" /\ o = CHOOSE p \in KeyOp : kyPc[p] = "idle"

\* connect_with_auth with the key read, or with the stored password, which only the
\* fleet identity falls back to.
CanLogIn(o) ==
  \/ kyOld[o] \in authorized[kyUser[o]]
  \/ kyIdent[o] = Fleet /\ password /\ kyUser[o] = FleetUser

KeyReads(o, i, label) ==
  /\ FirstIdle(o)
  /\ KeyGoto(o, label)
  /\ kyIdent' = [kyIdent EXCEPT ![o] = i]
  /\ kyUser' = [kyUser EXCEPT ![o] = idUser[i]]
  /\ kyOld' = [kyOld EXCEPT ![o] = idKey[i]]
  /\ UNCHANGED <<authorized, keyRow, lastKey, kyNew, kyFaults, unsafe>>
------------------------------------------------------------------------------
RotateStarts(o, i) == KeyReads(o, i, "install")

\* Mutant: the new key takes the old one's place.
InstallInPlace(o) ==
  /\ kyPc[o] = "install"
  /\ CanLogIn(o) /\ lastKey < MaxKey
  /\ lastKey' = lastKey + 1
  /\ kyNew' = [kyNew EXCEPT ![o] = lastKey + 1]
  /\ authorized' = [authorized EXCEPT ![kyUser[o]] = (@ \ {kyOld[o]}) \union {lastKey + 1}]
  /\ KeyGoto(o, "verify")
  /\ UNCHANGED <<kyIdent, kyUser, kyOld, keyRow, kyFaults, unsafe>>

\* install_authorized_key of the key just made, beside the old one; or nothing works.
RotateInstalls(o) ==
  /\ kyPc[o] = "install"
  /\ \/ /\ CanLogIn(o) /\ lastKey < MaxKey
        /\ lastKey' = lastKey + 1
        /\ kyNew' = [kyNew EXCEPT ![o] = lastKey + 1]
        /\ authorized' = [authorized EXCEPT ![kyUser[o]] = @ \union {lastKey + 1}]
        /\ KeyGoto(o, "verify")
        /\ UNCHANGED <<kyIdent, kyUser, kyOld, kyFaults>>
     \/ /\ FailsUnless(CanLogIn(o))
        /\ KeyEnds({o})
        /\ UNCHANGED <<authorized, lastKey>>
  /\ UNCHANGED <<keyRow, unsafe>>

\* A login with the new key alone; when it fails the row is left as it is.
RotateVerifies(o) ==
  /\ kyPc[o] = "verify"
  /\ \/ /\ kyNew[o] \in authorized[kyUser[o]]
        /\ KeyGoto(o, "remove")
        /\ UNCHANGED <<keyOp, kyFaults>>
     \/ /\ FailsUnless(kyNew[o] \in authorized[kyUser[o]])
        /\ KeyEnds({o})
  /\ UNCHANGED <<authorized, keyRow, lastKey, unsafe>>

\* The old key is taken off the host, at best: any other identity that used it
\* with this login is put out.
RotateRemoves(o) ==
  /\ kyPc[o] = "remove"
  /\ KeyGoto(o, "save")
  /\ \/ /\ authorized' = [authorized EXCEPT ![kyUser[o]] = @ \ {kyOld[o]}]
        /\ unsafe' = unsafe \union {i \in Ident \ {kyIdent[o]} :
                                      idUser[i] = kyUser[o] /\ idKey[i] = kyOld[o]}
        /\ UNCHANGED kyFaults
     \/ KeyFault /\ UNCHANGED <<authorized, unsafe>>
  /\ UNCHANGED <<keyRow, lastKey, keyOp>>

\* The handler saves the key alone: the login is the row's, which may be another by now.
RotateSaves(o) ==
  LET i == kyIdent[o]
  IN  /\ kyPc[o] = "save"
      /\ idKey' = [idKey EXCEPT ![i] = kyNew[o]]
      /\ unsafe' = IF idUser[i] = kyUser[o] THEN unsafe \ {i} ELSE unsafe \union {i}
      /\ KeyEnds({o})
      /\ UNCHANGED <<authorized, idUser, password, lastKey, kyFaults>>
------------------------------------------------------------------------------
DeployStarts(o, i) == KeyReads(o, i, "deploy")

\* deploy_public_key: the key already works, or a password login installs it; the
\* login with the key is tried, and the password may be dropped at the end.
DeployInstalls(o) ==
  /\ kyPc[o] = "deploy"
  /\ \/ /\ CanLogIn(o)
        /\ authorized' = [authorized EXCEPT ![kyUser[o]] = @ \union {kyOld[o]}]
        /\ KeyGoto(o, "deployed")
        /\ UNCHANGED <<keyOp, kyFaults>>
     \/ /\ FailsUnless(CanLogIn(o))
        /\ KeyEnds({o})
        /\ UNCHANGED authorized
  /\ UNCHANGED <<keyRow, lastKey, unsafe>>

DeploySaves(o) ==
  LET i == kyIdent[o]
  IN  /\ kyPc[o] = "deployed"
      /\ password' \in IF i = Fleet THEN {password, FALSE} ELSE {password}
      /\ unsafe' = IF /\ idUser[i] = kyUser[o] /\ idKey[i] = kyOld[o]
                      /\ kyOld[o] \in authorized[kyUser[o]]
                   THEN unsafe \ {i} ELSE unsafe
      /\ KeyEnds({o})
      /\ UNCHANGED <<authorized, idUser, idKey, lastKey, kyFaults>>

ProvisionStarts(o) == KeyReads(o, Fleet, "provision")

\* provision_least_priv_user: the script makes the login with the key that was read, ...
ProvisionRuns(o) ==
  /\ kyPc[o] = "provision"
  /\ \/ /\ CanLogIn(o)
        /\ authorized' = [authorized EXCEPT ![LeastUser] = @ \union {kyOld[o]}]
        /\ KeyGoto(o, "repoint")
        /\ UNCHANGED <<keyOp, kyFaults>>
     \/ /\ FailsUnless(CanLogIn(o))
        /\ KeyEnds({o})
        /\ UNCHANGED authorized
  /\ UNCHANGED <<keyRow, lastKey, unsafe>>

\* ... the login is tried, and repoint_ssh_username saves it and drops the password.
ProvisionSaves(o) ==
  /\ kyPc[o] = "repoint"
  /\ \/ /\ kyOld[o] \in authorized[LeastUser]
        /\ idUser' = [idUser EXCEPT ![Fleet] = LeastUser]
        /\ password' = FALSE
        /\ unsafe' = IF idKey[Fleet] = kyOld[o] THEN unsafe \ {Fleet} ELSE unsafe \union {Fleet}
        /\ UNCHANGED kyFaults
     \/ /\ FailsUnless(kyOld[o] \in authorized[LeastUser])
        /\ UNCHANGED <<idUser, password, unsafe>>
  /\ KeyEnds({o})
  /\ UNCHANGED <<authorized, idKey, lastKey>>

\* ssh_set_username: the row alone, whatever the host has; the password is dropped.
SetUsername(u) ==
  /\ idUser[Fleet] # u
  /\ idUser' = [idUser EXCEPT ![Fleet] = u]
  /\ password' = FALSE
  /\ unsafe' = unsafe \union {Fleet}
  /\ UNCHANGED <<authorized, idKey, lastKey, kyPc, keyOp, kyFaults>>

\* The web process stops: a key that was not saved is gone.
KeyProcessDies ==
  /\ KeyFault
  /\ unsafe' = unsafe \union {i \in Ident : \E o \in KeyOp : kyPc[o] = "save" /\ kyIdent[o] = i}
  /\ KeyEnds(KeyOp)
  /\ UNCHANGED <<authorized, keyRow, lastKey>>

KeyNext ==
  \/ \E o \in KeyOp, i \in Ident : RotateStarts(o, i) \/ DeployStarts(o, i)
  \/ \E o \in KeyOp :
       \/ RotateInstalls(o) \/ RotateVerifies(o) \/ RotateRemoves(o) \/ RotateSaves(o)
       \/ DeployInstalls(o) \/ DeploySaves(o)
       \/ ProvisionStarts(o) \/ ProvisionRuns(o) \/ ProvisionSaves(o)
  \/ \E u \in {FleetUser, LeastUser} : SetUsername(u)
  \/ KeyProcessDies

KeySpec == KeyInit /\ [][KeyNext]_keyVars
------------------------------------------------------------------------------
\* rotate_keypair: "On verify failure, leaves DB unchanged", and the row changes only
\* after a login with the new key.  Whatever rotations and deploys of one host
\* overlap and wherever they fail, the saved key opens the saved login, except
\* between the removal of the old key and the save, and after: a death in that
\* gap, a change of login meanwhile or without a check, or a rotation of the
\* same key of another identity.
SavedKeyOpens ==
  \A i \in Ident \ unsafe :
    (\A o \in KeyOp : kyPc[o] = "save" => kyIdent[o] # i)
      => idKey[i] \in authorized[idUser[i]]
==============================================================================
