------------------------------- MODULE MCDomains -------------------------------
(****************************************************************************)
(* A domain's DKIM rotation and the publication of its records: the row's   *)
(* parts they write are different ones, so each is followed on its own, and *)
(* the second with different company: two administrators, one beside an     *)
(* administrator of configurations, one beside servers that take over.      *)
(****************************************************************************)
EXTENDS DkimRotation, DnsRecords, TLC
VARIABLE part
MCDomainSymmetry ==
    UNION {Permutations(S) : S \in {RotationJobs, DomainAdmins, Servers, Providers}}

OnDuty(R) == {r \in R : dnsReq[r].at = "idle"}
ServersOff == \A s \in Servers : scan[s] = "off"
Long == domain.managed /\ domain.verified /\ dnsLapses = MaxDnsLapses   \* managed for long, and nothing fails
Company ==
    CASE part = "dkim" -> Long /\ OnDuty(DnsRequests) = {} /\ ServersOff
      [] part = "opting" -> Long /\ OnDuty(DnsRequests) = DomainAdmins /\ ServersOff
      [] part = "configuring" -> Long /\ OnDuty(ProviderAdmins) = ProviderAdmins /\ Cardinality(OnDuty(DomainAdmins)) = 1 /\ ServersOff
      [] part = "taking over" -> /\ ~domain.managed /\ dnsLapses = 0 /\ OnDuty(ProviderAdmins) = {}
                                 /\ Cardinality(OnDuty(DomainAdmins)) = 1 /\ \A s \in Servers : scan[s] # "off"
MCInit == part \in {"dkim", "opting", "configuring", "taking over"} /\ DkimInit /\ DnsInit /\ Company
MCNext ==
    \/ part = "dkim" /\ DkimNext /\ UNCHANGED <<dnsVars, part>>
    \/ part # "dkim" /\ DnsNext /\ UNCHANGED <<dkimVars, part>>
MCSpec == MCInit /\ [][MCNext]_<<dkimVars, dnsVars, part>>
================================================================================
