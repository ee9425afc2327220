--------------------------------- MODULE MCFleet ---------------------------------
(* Small instances of the components that work on state of their own.  They share no
   variable, so each behaviour is about one of them: focus says which, and the others
   stay in an initial state.  The checker so explores each component's states once,
   and nothing is said of two of them together. *)
EXTENDS ConsoleSessions, HostBackup, BackupCopies, CertRenewal, KeyRotation, SftpPool,
        KumaAlerts, DnsFabric, SelfBackup

VARIABLE focus

\* Both shells are one user's, the backup rows are for one source, a Move polls quietly
\* in a process of its own, and the first host may change its address.
OneOwner   == [s \in Shell |-> CHOOSE u \in User : TRUE]
OneSource  == [j \in BackupJob |-> "all"]
EachItsOwn == [p \in Poller |-> p]
QuietMove  == [p \in Poller |-> IF p = "move" THEN {FALSE} ELSE BOOLEAN]
TwoAddrs   == [s \in DnsHost |-> IF s = "s1" THEN Addr ELSE {1}]

FleetInit ==
  /\ focus \in {"console", "backup", "copies", "cert", "keys", "sftp", "kuma", "dns",
                "self"}
  /\ ConsoleInit /\ BackupInit /\ CopyInit /\ CertInit /\ KeyInit /\ SftpInit /\ KumaInit /\ DnsInit
  /\ SelfInit
  /\ focus # "keys" => ~password /\ \A i \in Ident : idUser[i] = FleetUser
  /\ focus # "dns" => \A s \in DnsHost : hostIp[s] = 1

FleetNext ==
  /\ UNCHANGED focus
  /\ \/ focus = "console" /\ ConsoleNext
     \/ focus # "console" /\ UNCHANGED consoleVars
  /\ \/ focus = "backup" /\ BackupNext
     \/ focus # "backup" /\ UNCHANGED backupVars
  /\ \/ focus = "copies" /\ CopyNext
     \/ focus # "copies" /\ UNCHANGED copyVars
  /\ \/ focus = "cert" /\ CertNext
     \/ focus # "cert" /\ UNCHANGED certVars
  /\ \/ focus = "keys" /\ KeyNext
     \/ focus # "keys" /\ UNCHANGED keyVars
  /\ \/ focus = "sftp" /\ SftpNext
     \/ focus # "sftp" /\ UNCHANGED sftpVars
  /\ \/ focus = "kuma" /\ KumaNext
     \/ focus # "kuma" /\ UNCHANGED kumaVars
  /\ \/ focus = "dns" /\ DnsNext
     \/ focus # "dns" /\ UNCHANGED dnsVars
  /\ \/ focus = "self" /\ SelfNext
     \/ focus # "self" /\ UNCHANGED selfVars

fleetVars == <<focus, consoleVars, backupVars, copyVars, certVars, keyVars, sftpVars, kumaVars,
               dnsVars, selfVars>>

\* In another component's behaviours the fair actions of the console are never enabled.
FleetSpec == FleetInit /\ [][FleetNext]_fleetVars /\ ConsoleFairness

\* Every component's variables stay in their sets.
TypesOK ==
  /\ ConsoleTypeOK /\ BackupTypeOK /\ CopyTypeOK /\ CertTypeOK /\ KeyTypeOK /\ SftpTypeOK
  /\ KumaTypeOK /\ DnsTypeOK /\ SelfTypeOK
==================================================================================
