---------------------------- MODULE AsnDetector ----------------------------
(***************************************************************************)
(* link_detector.py's AsnMatchDetector: a check asks for the public        *)
(* address, and if that is not the one it knows, for the number and then   *)
(* the name of the network the address belongs to.  The three queries      *)
(* share one deadline, and the WAN may fail over between any two of them.  *)
(*                                                                         *)
(* The resolvers are external: they answer with what they know (which here *)
(* is the truth), among other records, or with an error, or not in time.   *)
(* Addresses, AS numbers and organisations are natural numbers.            *)
(***************************************************************************)
EXTENDS Dns

CONSTANTS
    AsnOf,        \* AsnOf[ip]: the network an address belongs to
    OrgOf,        \* OrgOf[asn]: the organisation that owns the network
    BackupOrgs,   \* those a term of backup_match is found in
    Primary, Backup,
    CheckFailed,  \* the outcome of a check that raises
    Nothing,      \* no address, organisation, reply or outcome yet
    Timeout,      \* the detector's timeout, in clock ticks
    Floor,        \* the floor of _remaining()
    Owners,       \* how a record's owner may be written
    MaxAnswers    \* bound: records in a reply

ASSUME AsnDetectorAssumption ==
    /\ Timeout \in Nat /\ Floor \in Nat \ {0} /\ Floor <= Timeout
    /\ \A i \in DOMAIN AsnOf : i \in Nat /\ AsnOf[i] \in DOMAIN OrgOf
    /\ \A n \in DOMAIN OrgOf : n \in Nat /\ OrgOf[n] \in Nat
    /\ Nothing \notin Nat
    /\ {Primary, Backup} \cap {CheckFailed, Nothing} = {}
    /\ MaxAnswers \in Nat

VARIABLES
    pc,          \* the query being made, or idle between checks
    ip,          \* the address this check has read
    asn,         \* the number it has read
    cached_ip,   \* _cached_ip
    cached_org,  \* _cached_org_name
    reading,     \* the latest check's outcome
    elapsed,     \* clock ticks since the latest check began
    reply,       \* history: the reply it has received last
    wan_ip       \* the address traffic really leaves by

vars == <<pc, ip, asn, cached_ip, cached_org, reading, elapsed, reply, wan_ip>>

Ips == DOMAIN AsnOf
Orgs == {OrgOf[n] : n \in DOMAIN OrgOf}
NotANumber == 0
Host == << <<97, 98>>, <<99>> >>

TypeOK ==
    /\ pc \in {"idle", "ip", "origin", "name"}
    /\ ip \in Ips \cup {Nothing}
    /\ asn \in DOMAIN OrgOf \cup {Nothing}
    /\ cached_ip \in Ips \cup {Nothing}
    /\ cached_org \in Orgs \cup {Nothing}
    /\ cached_ip = Nothing <=> cached_org = Nothing
    /\ reading \in {Primary, Backup, CheckFailed, Nothing}
    /\ elapsed \in Nat
    /\ wan_ip \in Ips

Init ==
    /\ pc = "idle"
    /\ ip = Nothing /\ asn = Nothing
    /\ cached_ip = Nothing /\ cached_org = Nothing
    /\ reading = Nothing
    /\ elapsed = 0
    /\ reply = Nothing
    /\ wan_ip \in Ips

-----------------------------------------------------------------------------
\* Records a resolver may send: the value asked for, the same without data, an
\* alias, a record of another class.
Records(qtype, value) ==
    {[owner |-> how, type |-> r[1], class |-> r[2], rdata |-> r[3]] :
        how \in Owners,
        r \in {<<qtype, In, <<value>> >>, <<qtype, In, <<>> >>,
               <<Cname, In, <<192, 12>> >>, <<qtype, 3, <<value>> >>}}

Replies(qtype, value) ==
    {[name |-> Host, id_ok |-> TRUE, rcode |-> 0, answers |-> answers] :
        answers \in UNION {[1..n -> Records(qtype, value)] : n \in 0..MaxAnswers}}
    \cup {[name |-> Host, id_ok |-> e = "refused", rcode |-> IF e = "refused" THEN 5 ELSE 0,
           answers |-> <<>>] : e \in {"refused", "other query"}}

-----------------------------------------------------------------------------
(***************************************************************************)
(* check().                                                                *)
(***************************************************************************)
\* Mutant: each query has the whole timeout.
WholeTimeout == Timeout

\* _remaining()
Remaining == IF Timeout - elapsed > Floor THEN Timeout - elapsed ELSE Floor

\* classify_isp()
Classify(org) == IF org \in BackupOrgs THEN Backup ELSE Primary

Begin ==
    /\ pc = "idle"
    /\ pc' = "ip"
    /\ elapsed' = 0
    /\ reading' = Nothing /\ reply' = Nothing
    /\ UNCHANGED <<ip, asn, cached_ip, cached_org, wan_ip>>

Conclude(how) ==
    /\ pc' = "idle"
    /\ reading' = how
    /\ ip' = Nothing /\ asn' = Nothing

Raise == Conclude(CheckFailed) /\ UNCHANGED <<cached_ip, cached_org>>

\* A reply comes in time; got is what the query makes of it.
Answered(qtype, value) ==
    /\ \E took \in 0..Remaining : elapsed' = elapsed + took
    /\ reply' \in Replies(qtype, value)
    /\ UNCHANGED wan_ip

\* Mutant: the new address is remembered before its organisation is known.
KnownAtOnce(read) == read

KnownSoFar(read) == cached_ip

\* Mutant: any known organisation will do.
AnyKnown(read) == cached_ip # Nothing

Known(read) == read = cached_ip

\* Where this address is the one known, its organisation is.
QueryIp ==
    /\ pc = "ip"
    /\ Answered(A, wan_ip)
    /\ LET got == ARecord(reply')
       IN  \/ got = Raised /\ Raise
           \/ /\ got # Raised /\ Known(got)
              /\ Conclude(Classify(cached_org))
              /\ UNCHANGED <<cached_ip, cached_org>>
           \/ /\ got # Raised /\ ~Known(got)
              /\ pc' = "origin" /\ ip' = got
              /\ cached_ip' = KnownSoFar(got)
              /\ UNCHANGED <<asn, reading, cached_org>>

\* The first number of the origin record, which may not be one.
QueryOrigin ==
    /\ pc = "origin"
    /\ \E number \in {AsnOf[ip], NotANumber} : Answered(Txt, number)
    /\ LET got == TxtRecord(reply')
       IN  IF got \in {Raised, NotANumber}
           THEN Raise
           ELSE /\ pc' = "name" /\ asn' = got
                /\ UNCHANGED <<ip, reading, cached_ip, cached_org>>

\* Address and organisation become known together.
QueryName ==
    /\ pc = "name"
    /\ Answered(Txt, OrgOf[asn])
    /\ LET got == TxtRecord(reply')
       IN  IF got = Raised
           THEN Raise
           ELSE /\ cached_ip' = ip /\ cached_org' = got
                /\ Conclude(Classify(got))

\* No answer, or the network refuses the query.
QueryFails ==
    /\ pc \in {"ip", "origin", "name"}
    /\ \E took \in {0, Remaining} : elapsed' = elapsed + took
    /\ Raise
    /\ reply' = Nothing
    /\ UNCHANGED wan_ip

\* Failover, or the provider hands out another address.
SwitchWan ==
    /\ wan_ip' \in Ips \ {wan_ip}
    /\ UNCHANGED <<pc, ip, asn, cached_ip, cached_org, reading, elapsed, reply>>

Next == Begin \/ QueryIp \/ QueryOrigin \/ QueryName \/ QueryFails \/ SwitchWan

Spec == Init /\ [][Next]_vars

-----------------------------------------------------------------------------
LinkOf(address) == Classify(OrgOf[AsnOf[address]])

\* The organisation kept is that of the address kept, whatever lookup fails and
\* however the WAN switches while one is under way.
CacheIsConsistent ==
    cached_ip # Nothing => cached_org = OrgOf[AsnOf[cached_ip]]

\* A check that does not raise reads the link that the address it was told
\* belongs to: one that traffic has left by since the check began.
ReadingIsOfTheAddressRead ==
    [][ pc # "idle" /\ reading' \in {Primary, Backup} =>
          IF pc = "ip" THEN reading' = LinkOf(wan_ip) ELSE reading' = LinkOf(ip) ]_vars

\* The walk over a reply ends at the record the query asked for, or raises if
\* there is none, wherever aliases and records of another class stand.
RepliesAreUnderstood ==
    reply # Nothing => \A qtype \in {A, Txt} : DnsQuery(reply, qtype) = Answer(reply, qtype)

\* A check holds the poll loop up no longer than its timeout and the floors of
\* the two later queries, however late each answer comes.
CheckIsBounded == elapsed <= Timeout + 2 * Floor
=============================================================================
