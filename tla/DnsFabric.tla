-------------------------------- MODULE DnsFabric --------------------------------
(***************************************************************************)
(* Names on the Pi-holes (services/dns_fabric/core.py): the A record of    *)
(* each host that has a DNS name, and the CNAME of one service, whose      *)
(* target is a host's name.  A handler commits the row and then writes to  *)
(* all Pi-holes, one call each: it deletes what it replaces, adds the new  *)
(* record, and for a service commits how the adding went.  A call that     *)
(* fails is noted and nothing is undone; "duplicate" counts as success.    *)
(*                                                                         *)
(* Handlers block the event loop, so they run one at a time.  The writes   *)
(* of a Move, which runs in a worker, and names that are a host's own and  *)
(* a service's (record_type a) are left out.                               *)
(***************************************************************************)
EXTENDS Naturals, FiniteSets

CONSTANTS
  Hole,         \* enabled Pi-hole integrations
  DnsHost,
  HostName, NoName,
  Addr,
  HostAddrs,    \* the addresses each host may be given
  MaxDnsFaults, \* bound: Pi-hole calls that fail and deaths of the process
  NoHost

ASSUME DnsAssumption ==
  /\ NoName \notin HostName /\ NoHost \notin DnsHost
  /\ HostAddrs \in [DnsHost -> SUBSET Addr]
  /\ Hole # {} /\ MaxDnsFaults \in Nat

VARIABLES
  hostName, hostIp, manageA,   \* dns_name, the address (host_ip_for_dns) and dns_manage_a of each host
  svcTarget,   \* the service's row: its target host
  svcStatus,   \* last_sync_status
  holeA,       \* A records of each Pi-hole
  holeCname,   \* targets of the service's CNAMEs on it
  dnPc,
  dnOld, dnNew, \* the record the handler deletes and the one it adds
  dnDone,      \* Pi-holes where the adding went well
  dnFaults,
  dirty,       \* history: the row was changed since the service was last synced
  keptA,       \* history: <<Pi-hole, name>> with an A record no row accounts for
  keptCname    \* history: Pi-holes with a CNAME no row accounts for

hostRow  == <<hostName, hostIp, manageA>>
svcRow   == <<svcTarget, svcStatus>>
dnOp     == <<dnOld, dnNew, dnDone>>
dnsVars  == <<hostRow, svcRow, holeA, holeCname, dnPc, dnOp, dnFaults, dirty,
              keptA, keptCname>>

ARecord  == HostName \X Addr
NoRecord == <<>>

DnsTypeOK ==
  /\ hostName \in [DnsHost -> HostName \union {NoName}]
  /\ hostIp \in [DnsHost -> Addr]
  /\ manageA \in [DnsHost -> BOOLEAN]
  /\ svcTarget \in DnsHost \union {NoHost}
  /\ svcStatus \in {"none", "ok", "partial", "error"}
  /\ holeA \in [Hole -> SUBSET ARecord]
  /\ holeCname \in [Hole -> SUBSET HostName]
  /\ dnPc \in {"idle", "deleteA", "addA", "deleteC", "addC", "status"}
  /\ dnOld \in ARecord \union {<<n>> : n \in HostName} \union {NoRecord}
  /\ dnNew \in ARecord \union {<<n>> : n \in HostName} \union {NoRecord}
  /\ dnDone \subseteq Hole
  /\ dnFaults \in 0 .. MaxDnsFaults
  /\ dirty \in BOOLEAN
  /\ keptA \subseteq Hole \X HostName
  /\ keptCname \subseteq Hole

DnsInit ==
  /\ hostName = [s \in DnsHost |-> NoName]
  /\ hostIp \in {f \in [DnsHost -> Addr] : \A s \in DnsHost : f[s] \in HostAddrs[s]}
  /\ manageA = [s \in DnsHost |-> FALSE]
  /\ svcTarget = NoHost
  /\ svcStatus = "none"
  /\ holeA = [h \in Hole |-> {}]
  /\ holeCname = [h \in Hole |-> {}]
  /\ dnPc = "idle"
  /\ dnOld = NoRecord /\ dnNew = NoRecord
  /\ dnDone = {}
  /\ dnFaults = 0
  /\ dirty = FALSE
  /\ keptA = {} /\ keptCname = {}
------------------------------------------------------------------------------
\* fanout_pihole_dns reaches the Pi-holes up; when it misses some, that is a fault.
Reaches(up) ==
  \/ up = Hole /\ UNCHANGED dnFaults
  \/ up # Hole /\ dnFaults < MaxDnsFaults /\ dnFaults' = dnFaults + 1

TargetName == IF svcTarget = NoHost THEN NoName ELSE hostName[svcTarget]

\* The Pi-holes that have a record of a name.
With(name)  == {h \in Hole : \E ip \in Addr : <<name, ip>> \in holeA[h]}
WithCname   == {h \in Hole : holeCname[h] # {}}

DnsIdle ==
  /\ dnPc' = "idle"
  /\ dnOld' = NoRecord /\ dnNew' = NoRecord
  /\ dnDone' = {}
------------------------------------------------------------------------------
\* The host forms and update_server_dns.  edit: the form changes ip_address, which is
\* saved before the old address is looked up, and not dns_ip_override.  The old
\* record is deleted when "manage A" is unticked, or name or address differ.  force
\* (sync_now): a record that is not owned is pushed too.
SaveHostDns(s, name, ip, edit, manage, force) ==
  LET old   == hostName[s]
      oldIp == IF edit THEN ip ELSE hostIp[s]
      owned == manage /\ name # NoName
      drops == manageA[s] /\ old # NoName /\ (~owned \/ old # name \/ oldIp # ip)
      pushes == owned \/ (force /\ name # NoName /\ ~drops)
  IN  /\ dnPc = "idle"
      /\ name # NoName => \A r \in DnsHost \ {s} : hostName[r] # name
      /\ hostName' = [hostName EXCEPT ![s] = name]
      /\ hostIp' = [hostIp EXCEPT ![s] = ip]
      /\ manageA' = [manageA EXCEPT ![s] = owned]
      /\ dnOld' = IF drops THEN <<old, oldIp>> ELSE NoRecord
      /\ dnNew' = IF pushes THEN <<name, ip>> ELSE NoRecord
      /\ dnPc' = IF drops THEN "deleteA" ELSE IF pushes THEN "addA" ELSE "idle"
      /\ keptA' = IF old # NoName /\ (oldIp # hostIp[s] \/ (~drops /\ (old # name \/ ip # hostIp[s])))
                  THEN keptA \union (With(old) \X {old}) ELSE keptA
      /\ keptCname' = IF s = svcTarget /\ old # name THEN keptCname \union WithCname ELSE keptCname
      /\ dirty' = (dirty \/ (s = svcTarget /\ old # name))
      /\ UNCHANGED <<svcRow, holeA, holeCname, dnDone, dnFaults>>

\* sync-a: the record is owned from now on and pushed as it is.
SyncHostA(s) ==
  /\ dnPc = "idle"
  /\ hostName[s] # NoName
  /\ manageA' = [manageA EXCEPT ![s] = TRUE]
  /\ dnNew' = <<hostName[s], hostIp[s]>>
  /\ dnPc' = "addA"
  /\ UNCHANGED <<hostName, hostIp, svcRow, holeA, holeCname, dnOld, dnDone, dnFaults,
                 dirty, keptA, keptCname>>

DeleteA(up) ==
  /\ dnPc = "deleteA"
  /\ Reaches(up)
  /\ holeA' = [h \in Hole |-> IF h \in up THEN holeA[h] \ {dnOld} ELSE holeA[h]]
  /\ keptA' = keptA \union ({h \in Hole \ up : dnOld \in holeA[h]} \X {dnOld[1]})
  /\ \/ dnNew # NoRecord /\ dnPc' = "addA" /\ UNCHANGED dnOp
     \/ dnNew = NoRecord /\ DnsIdle
  /\ UNCHANGED <<hostRow, svcRow, holeCname, dirty, keptCname>>

\* The same record again is a duplicate; another address of the name is one more record.
AddA(up) ==
  /\ dnPc = "addA"
  /\ Reaches(up)
  /\ holeA' = [h \in Hole |-> IF h \in up THEN holeA[h] \union {dnNew} ELSE holeA[h]]
  /\ DnsIdle
  /\ UNCHANGED <<hostRow, svcRow, holeCname, dirty, keptA, keptCname>>
------------------------------------------------------------------------------
\* Mutant: the old CNAME stays.
AddOnly(drops) == "addC"

\* With a new target the old CNAME is deleted first.
FirstSvcStep(drops) == IF drops THEN "deleteC" ELSE "addC"

\* upsert_service_record: the row is committed; when Pi-holes are to follow, the CNAME
\* to the old target's name, as that host is called now, is deleted first.
UpsertService(t, managed, push) ==
  LET old   == TargetName
      name  == hostName[t]
      syncs == push /\ managed
      drops == old # NoName /\ old # name
  IN  /\ dnPc = "idle"
      /\ name # NoName
      /\ svcTarget' = t
      /\ \/ /\ syncs
            /\ dnOld' = IF drops THEN <<old>> ELSE NoRecord
            /\ dnNew' = <<name>>
            /\ dnPc' = FirstSvcStep(drops)
            /\ dirty' = TRUE
            /\ UNCHANGED keptCname
         \/ /\ ~syncs
            /\ dirty' = (dirty \/ old # name \/ ~managed)
            /\ keptCname' = IF old # name THEN keptCname \union WithCname ELSE keptCname
            /\ UNCHANGED <<dnOld, dnNew, dnPc>>
      /\ UNCHANGED <<hostRow, svcStatus, holeA, holeCname, dnDone, dnFaults, keptA>>

\* sync_service_dns, by its button.
SyncService ==
  /\ dnPc = "idle"
  /\ TargetName # NoName
  /\ dnNew' = <<TargetName>>
  /\ dnPc' = "addC"
  /\ UNCHANGED <<hostRow, svcRow, holeA, holeCname, dnOld, dnDone, dnFaults, dirty,
                 keptA, keptCname>>

DeleteCname(up) ==
  /\ dnPc = "deleteC"
  /\ Reaches(up)
  /\ holeCname' = [h \in Hole |-> IF h \in up THEN holeCname[h] \ {dnOld[1]} ELSE holeCname[h]]
  /\ keptCname' = keptCname \union {h \in Hole \ up : holeCname[h] # {}}
  /\ \/ dnNew # NoRecord /\ dnPc' = "addC" /\ UNCHANGED dnOp
     \/ dnNew = NoRecord /\ DnsIdle
  /\ UNCHANGED <<hostRow, svcRow, holeA, dirty, keptA>>

\* A second CNAME of one name is a duplicate, whatever its target: refused, and taken
\* as a success.
AddCname(up) ==
  /\ dnPc = "addC"
  /\ Reaches(up)
  /\ holeCname' = [h \in Hole |-> IF h \in up /\ holeCname[h] = {} THEN {dnNew[1]}
                                   ELSE holeCname[h]]
  /\ dnDone' = up
  /\ dnPc' = "status"
  /\ UNCHANGED <<hostRow, svcRow, holeA, dnOld, dnNew, dirty, keptA, keptCname>>

\* _summarize_results: how the adding went is committed.
SaveSvcStatus ==
  /\ dnPc = "status"
  /\ svcStatus' = IF dnDone = Hole THEN "ok" ELSE IF dnDone = {} THEN "error" ELSE "partial"
  /\ dirty' = FALSE
  /\ DnsIdle
  /\ UNCHANGED <<hostRow, svcTarget, holeA, holeCname, dnFaults, keptA, keptCname>>

\* delete_service_record: the CNAME to the target's present name is deleted, if wanted.
DeleteService(remove) ==
  /\ dnPc = "idle"
  /\ svcTarget # NoHost
  /\ svcTarget' = NoHost
  /\ svcStatus' = "none"
  /\ dirty' = FALSE
  /\ \/ /\ remove /\ TargetName # NoName
        /\ dnOld' = <<TargetName>>
        /\ dnPc' = "deleteC"
        /\ keptCname' = keptCname \union {h \in Hole : holeCname[h] \ {TargetName} # {}}
     \/ /\ ~remove \/ TargetName = NoName
        /\ keptCname' = keptCname \union WithCname
        /\ UNCHANGED <<dnOld, dnPc>>
  /\ UNCHANGED <<hostRow, holeA, holeCname, dnNew, dnDone, dnFaults, keptA>>

\* The process stops in a fan-out: the row is saved and what follows is not done.
DnsProcessDies ==
  /\ dnPc # "idle"
  /\ dnFaults < MaxDnsFaults
  /\ dnFaults' = dnFaults + 1
  /\ DnsIdle
  /\ keptA' = IF dnPc = "deleteA" THEN keptA \union (With(dnOld[1]) \X {dnOld[1]}) ELSE keptA
  /\ keptCname' = IF dnPc = "deleteC" THEN keptCname \union WithCname ELSE keptCname
  /\ UNCHANGED <<hostRow, svcRow, holeA, holeCname, dirty>>

DnsNext ==
  \/ \E s \in DnsHost, name \in HostName \union {NoName}, edit, manage, force \in BOOLEAN :
       \E ip \in HostAddrs[s] : SaveHostDns(s, name, ip, edit, manage, force)
  \/ \E s \in DnsHost : SyncHostA(s)
  \/ \E t \in DnsHost, managed, push \in BOOLEAN : UpsertService(t, managed, push)
  \/ \E remove \in BOOLEAN : DeleteService(remove)
  \/ \E up \in SUBSET Hole : DeleteA(up) \/ AddA(up) \/ DeleteCname(up) \/ AddCname(up)
  \/ SyncService \/ SaveSvcStatus \/ DnsProcessDies

DnsSpec == DnsInit /\ [][DnsNext]_dnsVars
------------------------------------------------------------------------------
\* When no handler is at work: a service whose last sync says ok is a CNAME to its
\* target's name on every Pi-hole, and a host's name has no address but the host's
\* own.  Excused are rows changed since, and the Pi-holes that still have a record
\* no row accounts for: its deleting failed or was cut off, its host was renamed,
\* its address edited in the form, it was saved without a sync, or its row deleted
\* without it.
DnsServesRows ==
  dnPc = "idle" =>
    /\ svcStatus = "ok" /\ ~dirty =>
         \A h \in Hole \ keptCname : holeCname[h] = {TargetName}
    /\ \A s \in DnsHost, h \in Hole :
         hostName[s] # NoName /\ <<h, hostName[s]>> \notin keptA =>
           \A r \in holeA[h] : r[1] = hostName[s] => r[2] = hostIp[s]
==============================================================================
