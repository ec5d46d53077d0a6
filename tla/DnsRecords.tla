------------------------------- MODULE DnsRecords ------------------------------
(****************************************************************************)
(* Who publishes one domain's records: its assignment to a DNS provider     *)
(* configuration, the opt-in and opt-out of its apex TXT set with their     *)
(* takeover and restore operations, the deletion of the domain and of       *)
(* configurations, changes of their zones, the DNS controller's reports and *)
(* the takeovers the server queues by itself. A zone is how specifically it *)
(* covers the domain's name: 1 the registered name, 2 the name itself.      *)
(* The controller, external-dns and the zone are outside the repository.    *)
(****************************************************************************)
EXTENDS Naturals, Sequences, FiniteSets

CONSTANTS
    Providers, NoProvider,  \* provider configurations
    DomainAdmins, ProviderAdmins, Servers,   \* requests on the domain and on configurations; servers that scan for conflicts
    ZoneSets,               \* zones a configuration may be given
    MaxOps, MaxDnsLapses    \* bounds: operations queued; writes of an operation that fail

ASSUME DnsAssumption == NoProvider \notin Providers /\ MaxOps \in Nat /\ MaxDnsLapses \in Nat

VARIABLES
    zones,    \* of each configuration; {}: there is none
    domain,   \* the row: there, prov (dnsProviderUid), managed (apexTxt), verified
    ops,      \* DnsOperation rows in the order they were queued
    apex,     \* the TXT set in the zone: theirs, owned (through us), gone
    dnsReq,   \* what each request is doing, how many operations there were when it began, and whether what
              \* it read of the row still is the latest
    scan,     \* what each server's scan found
    overtaken, dnsLapses

DnsRequests == DomainAdmins \cup ProviderAdmins
dnsVars == <<zones, domain, ops, apex, dnsReq, scan, overtaken, dnsLapses>>

Max0(S) == IF S = {} THEN 0 ELSE IF 2 \in S THEN 2 ELSE 1
NewDomain == [there |-> TRUE, prov |-> NoProvider, managed |-> FALSE, verified |-> FALSE]
NoDnsReq == [at |-> "idle", began |-> 0, latest |-> FALSE, prov |-> NoProvider, zones |-> {}, op |-> 0, seen |-> "none", cancel |-> {}]
\* A domain nobody publishes, or one whose apex has been managed for long (its takeover is history).
DnsInit ==
    \E q \in Providers, v, m \in BOOLEAN :
    /\ zones = [p \in Providers |-> IF p = q THEN {1} ELSE {}]
    /\ domain = [NewDomain EXCEPT !.verified = v, !.prov = IF m THEN q ELSE NoProvider, !.managed = m]
    /\ apex = IF m THEN "owned" ELSE "theirs"
    /\ ops = <<>> /\ overtaken = FALSE /\ dnsLapses \in 0..MaxDnsLapses
    /\ dnsReq \in [DnsRequests -> {NoDnsReq, [NoDnsReq EXCEPT !.at = "off"]}] /\ scan \in [Servers -> {NoProvider, "off"}]

\* zoneCoverage(), isNameInZones(): the most specific zone of a configuration, 0 outside of all.
ZoneCoverage(S) == Max0(S)
Covers(p) == p # NoProvider /\ ZoneCoverage(zones[p]) > 0
\* moreSpecificProvider()
MoreSpecific(p) == \E q \in Providers \ {p} : ZoneCoverage(zones[q]) > ZoneCoverage(zones[p])
\* domainProvider(), buildDomainEndpointSets(): what the controller is told to publish.
ApexDesired == domain.there /\ domain.managed /\ Covers(domain.prov)
Pending(o) == ops[o].state \in {"queued", "waiting", "running"}
PendingRestores == {o \in DOMAIN ops : ops[o].type = "restore" /\ Pending(o)}

--------------------------------------------------------------------------------
Ends(r) == dnsReq' = [dnsReq EXCEPT ![r] = NoDnsReq]
On(r, at) == dnsReq' = [dnsReq EXCEPT ![r].at = at]
Begins(r, at) == [NoDnsReq EXCEPT !.at = at, !.began = Len(ops), !.latest = TRUE]
\* repoUtils.update() of the row by the version that was read: saved, everybody else's read is out of date; or a conflict.
SavesDomain(r, row, at, conflict) ==
    IF dnsReq[r].latest
    THEN /\ domain' = row
         /\ dnsReq' = [q \in DnsRequests |-> IF q # r THEN [dnsReq[q] EXCEPT !.latest = FALSE]
                                             ELSE IF at = "idle" THEN NoDnsReq ELSE [dnsReq[r] EXCEPT !.at = at]]
    ELSE /\ UNCHANGED domain
         /\ dnsReq' = [dnsReq EXCEPT ![r] = IF conflict = "idle" THEN NoDnsReq ELSE [@ EXCEPT !.at = conflict]]
DnsLapse == dnsLapses < MaxDnsLapses /\ dnsLapses' = dnsLapses + 1
\* queueDnsOperation()
Queued(type, p, auto) == Append(ops, [type |-> type, prov |-> p, state |-> "queued", run |-> "none", auto |-> auto])
\* cancelDnsOperation(), cancelOperation(): by the version it was read with.
Cancelled(S) == [o \in DOMAIN ops |-> IF o \in S THEN [ops[o] EXCEPT !.state = "failed"] ELSE ops[o]]

\* create(): prepareNewDomain() refuses one that is there.
CreateDomain(r) ==
    /\ dnsReq[r].at = "idle" /\ ~domain.there /\ domain' = NewDomain
    /\ UNCHANGED <<zones, ops, apex, dnsReq, scan, overtaken, dnsLapses>>
\* update(), its bulk and property forms, and dnsSetup(), which records the key pair of a domain that has none.
UpdateDomain(r) ==
    /\ dnsReq[r].at = "idle" /\ domain.there /\ \E q \in DnsRequests : dnsReq[q].latest
    /\ dnsReq' = [q \in DnsRequests |-> [dnsReq[q] EXCEPT !.latest = FALSE]]
    /\ UNCHANGED <<zones, domain, ops, apex, scan, overtaken, dnsLapses>>
\* verify() and DomainVerificationJob.run(): the token was found in DNS.
VerifyDomain ==
    /\ domain.there /\ ~domain.verified
    /\ domain' = [domain EXCEPT !.verified = TRUE] /\ dnsReq' = [q \in DnsRequests |-> [dnsReq[q] EXCEPT !.latest = FALSE]]
    /\ UNCHANGED <<zones, ops, apex, scan, overtaken, dnsLapses>>

\* assignDnsProvider(): not while the apex is managed, and only to the configuration that covers the name best.
ReadAssign(r, p) ==
    /\ dnsReq[r].at = "idle" /\ domain.there /\ p # domain.prov /\ ~domain.managed
    /\ (p # NoProvider => Covers(p) /\ ~MoreSpecific(p))
    /\ dnsReq' = [dnsReq EXCEPT ![r] = [Begins(r, "assign") EXCEPT !.prov = p]]
    /\ UNCHANGED <<zones, domain, ops, apex, scan, overtaken, dnsLapses>>
Assign(r) ==
    /\ dnsReq[r].at = "assign" /\ SavesDomain(r, [domain EXCEPT !.prov = dnsReq[r].prov], "idle", "idle")
    /\ UNCHANGED <<zones, ops, apex, scan, overtaken, dnsLapses>>

\* delete(), and updateApexTxt() with managed false: the restore is queued first.
ReadRelease(r, at) ==
    /\ dnsReq[r].at = "idle" /\ domain.there /\ (at = "release" => domain.managed)
    /\ dnsReq' = [dnsReq EXCEPT ![r] = IF domain.managed /\ domain.prov # NoProvider
                                       THEN [Begins(r, "restore") EXCEPT !.seen = at, !.prov = domain.prov] ELSE Begins(r, at)]
    /\ UNCHANGED <<zones, domain, ops, apex, scan, overtaken, dnsLapses>>
QueueApexTxtRestore(r) ==
    /\ dnsReq[r].at = "restore" /\ Len(ops) < MaxOps
    /\ ops' = Queued("restore", dnsReq[r].prov, FALSE)
    /\ dnsReq' = [dnsReq EXCEPT ![r].at = dnsReq[r].seen, ![r].op = Len(ops) + 1]
    /\ UNCHANGED <<zones, domain, apex, scan, overtaken, dnsLapses>>
Release(r) ==
    /\ dnsReq[r].at = "release"
    /\ SavesDomain(r, [domain EXCEPT !.managed = FALSE], "idle", IF dnsReq[r].op = 0 THEN "idle" ELSE "cancel")
    /\ UNCHANGED <<zones, ops, apex, scan, overtaken, dnsLapses>>
\* The delete carries a version only if the client gave one.
DeleteDomain(r) ==
    /\ dnsReq[r].at = "delete"
    /\ \/ /\ domain.there /\ domain' = [domain EXCEPT !.there = FALSE]
          /\ dnsReq' = [q \in DnsRequests |-> IF q = r THEN NoDnsReq ELSE [dnsReq[q] EXCEPT !.latest = FALSE]]
          /\ overtaken' = (overtaken \/ (domain.managed /\ ~dnsReq[r].latest))
       \/ /\ ~domain.there \/ ~dnsReq[r].latest
          /\ UNCHANGED <<domain, overtaken>> /\ dnsReq' = [dnsReq EXCEPT ![r] = IF @.op = 0 THEN NoDnsReq ELSE [@ EXCEPT !.at = "cancel"]]
    /\ UNCHANGED <<zones, ops, apex, scan, dnsLapses>>
\* A restore the controller already reported on has another version: the failing cancel is logged.
CancelRestore(r) ==
    /\ dnsReq[r].at = "cancel" /\ Ends(r)
    /\ \/ ops[dnsReq[r].op].state = "queued" /\ ops' = Cancelled({dnsReq[r].op}) /\ UNCHANGED dnsLapses
       \/ ops[dnsReq[r].op].state # "queued" /\ UNCHANGED <<ops, dnsLapses>>
       \/ DnsLapse /\ UNCHANGED ops
    /\ UNCHANGED <<zones, domain, apex, scan, overtaken>>

\* A takeover of an earlier opt-in has been answered: the controller fails one at once whose set is not published.
Answered == \A o \in DOMAIN ops : ops[o].type = "apex" => ops[o].run # "none" \/ ~Pending(o)
\* updateApexTxt() with managed true: what is there is looked up, then the restores of an earlier opt-out are read.
ReadOptIn(r) ==
    /\ dnsReq[r].at = "idle" /\ domain.there /\ ~domain.managed /\ Covers(domain.prov) /\ Answered
    /\ dnsReq' = [dnsReq EXCEPT ![r] = [Begins(r, "restores") EXCEPT !.seen = apex, !.prov = domain.prov]]
    /\ UNCHANGED <<zones, domain, ops, apex, scan, overtaken, dnsLapses>>
Unstarted(o) == ops[o].state \in {"queued", "waiting"}
StillThere(r) == dnsReq[r].seen # "gone"
ReadRestores(r) ==
    /\ dnsReq[r].at = "restores"
    /\ \/ PendingRestores # {} /\ ((\E o \in PendingRestores : ~Unstarted(o)) \/ ~StillThere(r)) /\ Ends(r)
       \/ /\ PendingRestores = {} \/ ((\A o \in PendingRestores : Unstarted(o)) /\ StillThere(r))
          /\ dnsReq' = [dnsReq EXCEPT ![r].at = "manage", ![r].cancel = {<<o, ops[o].state>> : o \in PendingRestores}]
    /\ UNCHANGED <<zones, domain, ops, apex, scan, overtaken, dnsLapses>>
\* Each of them is cancelled by its version; one that moved on ends the request.
CancelEarlier(r) ==
    /\ dnsReq[r].at = "manage"
    /\ \E c \in dnsReq[r].cancel :
        \/ /\ ops[c[1]].state = c[2] /\ ops' = Cancelled({c[1]})
           /\ dnsReq' = [dnsReq EXCEPT ![r].cancel = @ \ {c}, ![r].op = 1] /\ UNCHANGED overtaken
        \/ /\ ops[c[1]].state # c[2] /\ Ends(r) /\ UNCHANGED ops
           /\ overtaken' = (overtaken \/ dnsReq[r].op # 0)
    /\ UNCHANGED <<zones, domain, apex, scan, dnsLapses>>
\* Saved before the takeover is queued; a queue that fails puts the row back.
Manage(r) ==
    /\ dnsReq[r].at = "manage" /\ dnsReq[r].cancel = {}
    /\ SavesDomain(r, [domain EXCEPT !.managed = TRUE], "takeover", "idle")
    /\ overtaken' = (overtaken \/ (~dnsReq[r].latest /\ dnsReq[r].op # 0))
    /\ UNCHANGED <<zones, ops, apex, scan, dnsLapses>>
QueueApexTakeover(r) ==
    /\ dnsReq[r].at = "takeover"
    /\ \/ Len(ops) < MaxOps /\ ops' = Queued("apex", dnsReq[r].prov, FALSE) /\ Ends(r) /\ UNCHANGED dnsLapses
       \/ DnsLapse /\ On(r, "putback") /\ UNCHANGED ops
    /\ UNCHANGED <<zones, domain, apex, scan, overtaken>>
PutBack(r) ==
    /\ dnsReq[r].at = "putback" /\ SavesDomain(r, [domain EXCEPT !.managed = FALSE], "idle", "idle")
    /\ overtaken' = (overtaken \/ dnsReq[r].op # 0 \/ apex = "owned")
    /\ UNCHANGED <<zones, ops, apex, scan, dnsLapses>>

--------------------------------------------------------------------------------
(* BaseDnsProviderRoute                                                     *)
ZonesFree(p, S) == \A q \in Providers \ {p} : zones[q] \cap S = {}
\* assertNoAssignedDomainTaken()
TakesAssigned(p, S) ==
    /\ domain.there /\ domain.prov \notin {NoProvider, p}
    /\ Covers(domain.prov) /\ ZoneCoverage(S) > ZoneCoverage(zones[domain.prov])
ReadZones(r, p, S) ==
    /\ dnsReq[r].at = "idle" /\ S # zones[p] /\ S # {}
    /\ LET added == S \ zones[p] IN ZonesFree(p, added) /\ ~TakesAssigned(p, added)
    /\ (domain.there /\ domain.prov = p => ZoneCoverage(S) > 0)
    /\ dnsReq' = [dnsReq EXCEPT ![r] = [Begins(r, "zones") EXCEPT !.prov = p, !.zones = S, !.cancel = zones[p]]]
    /\ UNCHANGED <<zones, domain, ops, apex, scan, overtaken, dnsLapses>>
\* create() and update(): by the version that was read.
SaveZones(r) ==
    /\ dnsReq[r].at = "zones" /\ Ends(r)
    /\ zones' = IF zones[dnsReq[r].prov] = dnsReq[r].cancel THEN [zones EXCEPT ![dnsReq[r].prov] = dnsReq[r].zones] ELSE zones
    /\ UNCHANGED <<domain, ops, apex, scan, overtaken, dnsLapses>>
\* remove(): no domain is assigned, then no restore is pending, then the row goes and its other operations with it.
ReadRemove(r, p) ==
    /\ dnsReq[r].at = "idle" /\ zones[p] # {} /\ ~(domain.there /\ domain.prov = p)
    /\ dnsReq' = [dnsReq EXCEPT ![r] = [Begins(r, "pending") EXCEPT !.prov = p]]
    /\ UNCHANGED <<zones, domain, ops, apex, scan, overtaken, dnsLapses>>
HasRestore_Ignored(p) == FALSE
HasRestore(p) == \E o \in PendingRestores : ops[o].prov = p
PendingOperations(r) ==
    /\ dnsReq[r].at = "pending" /\ IF HasRestore(dnsReq[r].prov) THEN Ends(r) ELSE On(r, "remove")
    /\ UNCHANGED <<zones, domain, ops, apex, scan, overtaken, dnsLapses>>
RemoveProvider(r) ==
    LET p == dnsReq[r].prov IN
    /\ dnsReq[r].at = "remove" /\ Ends(r) /\ zones' = [zones EXCEPT ![p] = {}]
    /\ ops' = Cancelled({o \in DOMAIN ops : ops[o].prov = p /\ ops[o].type # "restore" /\ Pending(o)})
    /\ UNCHANGED <<domain, apex, scan, overtaken, dnsLapses>>
\* test(), takeover(): an operation of the administrator's on records other than the apex TXT set.
QueueByHand(r, p) ==
    /\ dnsReq[r].at = "idle" /\ domain.there /\ domain.prov = p /\ Covers(p) /\ Len(ops) < 1   \* bound: as the first operation
    /\ ops' = Queued("takeover", p, FALSE) /\ UNCHANGED <<zones, domain, apex, dnsReq, scan, overtaken, dnsLapses>>

--------------------------------------------------------------------------------
(* BaseDnsDesiredStateRoute: takeovers the server queues, and reports       *)
\* planAutomaticTakeovers(): not while an operation on the set is under way, and once per configuration and records.
Underway == \E o \in DOMAIN ops : ops[o].type \in {"takeover", "apex", "restore"} /\ Pending(o)
Taken(p) == \E o \in DOMAIN ops : ops[o].type = "takeover" /\ ops[o].prov = p /\ ~(ops[o].state = "failed" /\ ~ops[o].auto)
PlanTakeover(s) ==
    /\ scan[s] = NoProvider /\ domain.there /\ Covers(domain.prov) /\ ~Underway /\ ~Taken(domain.prov)
    /\ scan' = [scan EXCEPT ![s] = domain.prov]
    /\ UNCHANGED <<zones, domain, ops, apex, dnsReq, overtaken, dnsLapses>>
\* queueTakeover(): its uid is made from its records, so a second create is refused.
UidTaken(p) == \E o \in DOMAIN ops : ops[o].auto /\ ops[o].prov = p
QueueTakeover(s) ==
    /\ scan[s] \in Providers /\ scan' = [scan EXCEPT ![s] = NoProvider]
    /\ IF UidTaken(scan[s]) THEN UNCHANGED ops ELSE Len(ops) < MaxOps /\ ops' = Queued("takeover", scan[s], TRUE)
    /\ UNCHANGED <<zones, domain, apex, dnsReq, overtaken, dnsLapses>>
\* applyOperationStatus(): a finished operation is never reopened.
ReportOperation(o) ==
    /\ Pending(o) /\ ops[o].run \notin {"none", ops[o].state}
    /\ ops' = [ops EXCEPT ![o].state = ops[o].run]
    /\ UNCHANGED <<zones, domain, apex, dnsReq, scan, overtaken, dnsLapses>>
\* applyEndpointStatus() saves what the controller published on the domain's row, and so is one more writer of it.
ReportEndpoint ==
    /\ domain.there /\ domain.prov # NoProvider /\ \E q \in DnsRequests : dnsReq[q].latest
    /\ dnsReq' = [q \in DnsRequests |-> [dnsReq[q] EXCEPT !.latest = FALSE]]
    /\ UNCHANGED <<zones, domain, ops, apex, scan, overtaken, dnsLapses>>

(* Outside: the controller and external-dns. A takeover's Job outlasts the  *)
(* requests that were under way when it was queued.                         *)
CtlReleases ==
    /\ apex = "owned" /\ ~ApexDesired /\ apex' = "gone"
    /\ UNCHANGED <<zones, domain, ops, dnsReq, scan, overtaken, dnsLapses>>
CtlTakesOver(o) ==
    /\ ops[o].type # "restore" /\ Pending(o) /\ ops[o].run = "none"
    /\ \A r \in DnsRequests : dnsReq[r].at \in {"idle", "off"} \/ dnsReq[r].began >= o
    /\ LET ok == ops[o].type = "takeover" \/ ApexDesired IN
       /\ ops' = [ops EXCEPT ![o].run = IF ok THEN "done" ELSE "failed"]
       /\ apex' = IF ok /\ ops[o].type = "apex" THEN "owned" ELSE apex
    /\ UNCHANGED <<zones, domain, dnsReq, scan, overtaken, dnsLapses>>
\* A restore waits while the set is published, and then puts the values back.
CtlRestores(o) ==
    /\ ops[o].type = "restore" /\ Pending(o) /\ zones[ops[o].prov] # {}
    /\ \/ (ApexDesired \/ apex = "owned") /\ ops[o].run = "none" /\ ops' = [ops EXCEPT ![o].run = "waiting"] /\ UNCHANGED apex
       \/ ~ApexDesired /\ apex # "owned" /\ ops[o].run \in {"none", "waiting"} /\ ops' = [ops EXCEPT ![o].run = "running"] /\ UNCHANGED apex
       \/ ops[o].run = "running" /\ ops' = [ops EXCEPT ![o].run = "done"] /\ apex' = IF apex = "gone" THEN "theirs" ELSE apex
    /\ UNCHANGED <<zones, domain, dnsReq, scan, overtaken, dnsLapses>>

DnsNext ==
    \/ \E r \in DomainAdmins :
        \/ CreateDomain(r) \/ UpdateDomain(r) \/ Assign(r) \/ ReadRelease(r, "release") \/ ReadRelease(r, "delete")
        \/ QueueApexTxtRestore(r) \/ Release(r) \/ DeleteDomain(r) \/ CancelRestore(r) \/ ReadOptIn(r) \/ ReadRestores(r)
        \/ CancelEarlier(r) \/ Manage(r) \/ QueueApexTakeover(r) \/ PutBack(r)
        \/ \E p \in Providers \cup {NoProvider} : ReadAssign(r, p)
    \/ \E r \in ProviderAdmins :
        \/ SaveZones(r) \/ PendingOperations(r) \/ RemoveProvider(r)
        \/ \E p \in Providers : ReadRemove(r, p) \/ QueueByHand(r, p) \/ \E S \in ZoneSets : ReadZones(r, p, S)
    \/ VerifyDomain \/ ReportEndpoint \/ CtlReleases
    \/ \E s \in Servers : PlanTakeover(s) \/ QueueTakeover(s)
    \/ \E o \in DOMAIN ops : ReportOperation(o) \/ CtlTakesOver(o) \/ CtlRestores(o)
DnsSpec == DnsInit /\ [][DnsNext]_dnsVars

--------------------------------------------------------------------------------
\* "Never released without its restore", "never gone without its restore": while a set we owned is not managed any more and
\* not back, its restore is pending through a configuration that is there. The exceptions the code has: an opt-in that
\* cancelled a restore and then failed (its save, another restore, its takeover), and a delete that read the row before an
\* opt-in managed it.
Bare == ~(domain.there /\ domain.managed) /\ apex # "theirs" /\ \A r \in DnsRequests : dnsReq[r].at \notin {"manage", "putback"}
RestorePending == \E o \in PendingRestores : zones[ops[o].prov] # {}
NeverReleasedBare == Bare => RestorePending \/ overtaken
\* Two servers that find one conflict queue its takeover once.
TakenOnce == \A o, u \in DOMAIN ops : ops[o].auto /\ ops[u].auto /\ ops[o].prov = ops[u].prov => o = u

\* The records a domain had before it was managed are never lost, and each is taken over once (BaseDomainRoute).
RecordsHeld == NeverReleasedBare /\ TakenOnce
================================================================================
