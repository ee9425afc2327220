-------------------------------- MODULE FleetProofs --------------------------------
(***************************************************************************)
(* The components side by side, as the Fleet run checks them.  A step of   *)
(* the fleet is a step of one component, or of none, and leaves the others *)
(* alone.  So the fleet implements the specification of every component,   *)
(* and what is proved of each of them holds of the fleet.                  *)
(***************************************************************************)
EXTENDS MCFleet, BackupsProofs, HostAccessProofs, IntegrationsProofs

\* Each component begins in an initial state of its own.
LEMMA FleetBegins ==
  ASSUME FleetInit
  PROVE  /\ ConsoleInit /\ BackupInit /\ CopyInit /\ CertInit /\ KeyInit /\ SftpInit
         /\ KumaInit /\ DnsInit /\ SelfInit
BY DEF FleetInit

\* Each component makes a step of its own or stutters.
LEMMA FleetSteps ==
  ASSUME [FleetNext]_fleetVars
  PROVE  /\ [ConsoleNext]_consoleVars /\ [BackupNext]_backupVars /\ [CopyNext]_copyVars
         /\ [CertNext]_certVars /\ [KeyNext]_keyVars /\ [SftpNext]_sftpVars
         /\ [KumaNext]_kumaVars /\ [DnsNext]_dnsVars /\ [SelfNext]_selfVars
BY DEF FleetNext, fleetVars

\* The consoles, backups, copies, certificates, keys, sessions, alerts, names and self-backups
\* of a fleet behave as the components alone do: no handler of one reaches the others' state.
THEOREM FleetIsEach ==
  FleetSpec => /\ ConsoleSpec /\ BackupSpec /\ CopySpec /\ CertSpec /\ KeySpec /\ SftpSpec
               /\ KumaSpec /\ DnsSpec /\ SelfSpec
BY FleetBegins, FleetSteps, PTL
   DEF FleetSpec, ConsoleSpec, BackupSpec, CopySpec, CertSpec, KeySpec, SftpSpec, KumaSpec,
       DnsSpec, SelfSpec

\* No handler, task or request of any component takes a variable out of its set, however
\* many hosts, users, rows and workers there are.
THEOREM FleetTypes == FleetSpec => []TypesOK
BY FleetIsEach, ConsoleTypeCorrect, BackupTypeCorrect, CopyTypes, CertTypes, KeyTypeCorrect,
   SftpTypeCorrect, KumaTypeCorrect, DnsTypes, SelfTypes, PTL DEF TypesOK

\* What the Fleet run checks of the ways to a host, for every fleet: the consoles' counters
\* and shells, the saved keys and the connections in use.
THEOREM FleetAccess ==
  FleetSpec => [](SlotsCounted /\ OneHolder /\ ClosedIsAudited /\ SavedKeyOpens /\ UseIsExclusive)
BY FleetIsEach, SlotsNeverLeak, PtyHasOneHolder, CloseIsRecorded, RotationKeepsAccess,
   ConnectionsAreExclusive, PTL

\* What it checks of the backups: those of the hosts, their copies and PiHerder's own.
THEOREM FleetBackups ==
  FleetSpec => [](/\ OneRunPerHost /\ AlertTellsLastRun /\ SettledMeansCopied
                  /\ DirectFollowsFolder /\ SelfBackupKept /\ ArchivedOnce)
BY FleetIsEach, BackupsExcludeEachOther, AlertIsLastRuns, SettledIsCopied, DirectHopFollows,
   SelfBackupIsKept, SelfArchivedOnce, PTL

\* What it checks of the integrations: Uptime Kuma, Nginx Proxy Manager and the Pi-holes.
THEOREM FleetIntegrations ==
  FleetSpec => [](/\ AlertMatchesBinding /\ DeployRecordHolds /\ RenewalReachesTargets
                  /\ DnsServesRows)
BY FleetIsEach, AlertsFollowBinding, DeployRecordIsTrue, RenewalIsDistributed, PiHolesServeRows, PTL

\* In a fleet too, whatever the other components do, the rows of backups, copies and
\* PiHerder's own backups keep JobRow's promise, and come to rest.
THEOREM FleetRows ==
  FleetSpec => /\ BackupRows!RowSpec /\ CopyRows!RowSpec /\ SelfRows!RowSpec
               /\ BackupRows!RestsForGood /\ CopyRows!RestsForGood /\ SelfRows!RestsForGood
               /\ BackupRows!CancelsStand /\ CopyRows!CancelsStand
BY FleetIsEach, BackupRowsKeepPromise, CopyRowsKeepPromise, SelfRowsKeepPromise,
   BackupRowsComeToRest, PTL
====================================================================================
