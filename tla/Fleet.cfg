SPECIFICATION FleetSpec
CONSTANTS
  Ws = {w1, w2}
  Shell = {h1, h2}
  User = {alice}
  ShellOwner <- OneOwner
  MaxPerUser = 1
  MaxGlobal = 2
  MaxRevokes = 1
  MaxWatchers = 2
  NoShell = NoShell
  BackupJob = {b1, b2}
  BackupWorker = {k1, k2}
  BackupSource <- OneSource
  MaxLockWaits = 1
  MaxBackupFaults = 1
  NoBackup = NoBackup
  CopyJob = {c1, c2}
  CopyWorker = {r1}
  CopyHost = {pi1}
  MaxVersion = 1
  MaxCopyFaults = 2
  NoCopy = NoCopy
  CertTarget = {t1}
  MaxMaterial = 1
  MaxPolls = 1
  MaxCertFaults = 1
  NoTarget = NoTarget
  KeyOp = {o1, o2}
  Ident = {fleet, priv}
  Fleet = fleet
  FleetUser = "pi"
  SudoUser = "admin"
  LeastUser = "piherder"
  MaxKey = 1
  MaxKeyFaults = 1
  Caller = {p1, p2}
  HostKey = {browse}
  Lease = {l1, l2, l3}
  MaxCalls = 2
  MaxSftpFaults = 1
  NoLease = NoLease
  NoCaller = NoCaller
  Poller = {"web", "move"}
  PollProcess <- EachItsOwn
  MayNotify <- QuietMove
  MaxKumaFaults = 1
  NoPoller = NoPoller
  Hole = {q1}
  DnsHost = {"s1", "s2"}
  HostName = {n1, n2}
  NoName = NoName
  NoHost = NoHost
  Addr = {1, 2}
  HostAddrs <- TwoAddrs
  MaxDnsFaults = 1
  SelfJob = {x1, x2}
  SelfWorker = {v1, v2}
  Keep = 1
  MaxSelfFaults = 1
  NoSelf = NoSelf
CHECK_DEADLOCK FALSE
INVARIANTS TypesOK SlotsCounted OneHolder  OneRunPerHost   DirectFollowsFolder DeployRecordHolds   UseIsExclusive SomeCallMoves AlertMatchesBinding DnsServesRows SelfBackupKept ArchivedOnce
PROPERTIES RevokedShellCloses CancelIsFinal
