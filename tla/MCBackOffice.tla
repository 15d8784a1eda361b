---------------------------- MODULE MCBackOffice ----------------------------
(***************************************************************************)
(* The back office for TLC: dashboards, alert rules and incidents, the     *)
(* reports and the history read from the tables, discovery, accounts, the  *)
(* container's start with its demo data, and the SNMP probes.  These parts *)
(* share no row that one writes and another checks, so topic, chosen at    *)
(* the start, says which of them moves.                                    *)
(***************************************************************************)
EXTENDS Desk, Accounts, History

CONSTANTS
    Rows, MaxChanges,                                       \* Reports
    Bits, OctetBits, Bases, Kinds, Concurrency, MaxAlive,   \* Discovery, scans
    ImportBits, ImportOctetBits, ImportBases, ImportKinds,  \* Discovery, imports
    ImportConcurrency, Assets, Imports, UserAddresses,
    MaxRestarts, Emptied,                                   \* Seeding
    Septet, Root, IntBits, Communities, Oids, Public, SysDescr,     \* Wire
    Slots                                                   \* Probes

\* Octets of four bits; objects with two arcs in and beyond one octet, and arcs
\* on both sides of each length and of the sign.
Heads == {<<1, 1>>, <<2, 3>>, <<2, 4>>, <<2, 13>>}
Tails == {<<>>} \union {<<a>> : a \in {0, 7, 8, 31, 32, 63}}
               \union {<<a, b>> : a, b \in {7, 31, 32}}
ShortAndLong == {<<>>} \union {h \o t : h \in Heads, t \in Tails}
ShownNames == {<<>>, <<1, 2>>, <<1, 1, 1, 1, 1, 1, 1, 1, 1>>}
DefaultName == <<7>>
DefaultOid == <<1, 1, 6, 1>>

\* The last conjunct is what the provers do not know of powers.
ASSUME ScansAssumption ==
    /\ Bits \in Nat \ {0} /\ OctetBits \in 0 .. Bits
    /\ Bases \subseteq 0 .. 2 ^ Bits - 1
    /\ Concurrency \subseteq Nat \ {0}
    /\ \A b \in 0 .. Bits : /\ 2 ^ b \in Nat \ {0}
                            /\ 2 ^ Bits = 2 ^ b * 2 ^ (Bits - b)

ASSUME ImportsAssumption ==
    /\ ImportBits \in Nat \ {0} /\ ImportOctetBits \in 0 .. ImportBits
    /\ ImportBases \union UserAddresses \subseteq 0 .. 2 ^ ImportBits - 1
    /\ ImportConcurrency \subseteq Nat \ {0}
    /\ \A b \in 0 .. ImportBits :
          /\ 2 ^ b \in Nat \ {0} /\ 2 ^ ImportBits = 2 ^ b * 2 ^ (ImportBits - b)

ASSUME ReportsAssumption == IsFiniteSet(Rows) /\ MaxChanges \in Nat

ASSUME SeedingAssumption == MaxRestarts \in Nat

VARIABLES
    topic,
    report, table, counted, changes,
    asset, scan, import, overlapped,
    db, boot, script, broken, deleted, restarts,
    sent,
    probe, device, process, culprit

reportVars == <<report, table, counted, changes>>
discoveryVars == <<asset, scan, import, overlapped>>
seedVars == <<db, boot, script, broken, deleted, restarts>>
probeVars == <<probe, device, process, culprit>>
snmpVars == <<sent, probeVars>>
allVars == <<topic, vars, historyVars, reportVars, discoveryVars, accountVars, seedVars,
             snmpVars>>

ReportsPart == INSTANCE Reports
\* Every range of a small address space, and imports in a smaller one.
ScansPart == INSTANCE Discovery WITH Assets <- {}, Imports <- {}, UserAddresses <- {}
ImportsPart == INSTANCE Discovery WITH
    Bits <- ImportBits, OctetBits <- ImportOctetBits, Bases <- ImportBases,
    Kinds <- ImportKinds, Concurrency <- ImportConcurrency
SeedingPart == INSTANCE Seeding
WirePart == INSTANCE Wire
ProbesPart == INSTANCE Probes

\* Object ids as X.690 defines them, and no request longer than two octets of a
\* length can say (what else is in it takes less than 200).
ObjectId(oid) ==
    /\ oid \in Seq(Nat) /\ Len(oid) >= 2
    /\ oid[1] \in 0 .. 2 /\ (oid[1] < 2 => oid[2] < Root)
ASSUME WireAssumption ==
    /\ Septet \in Nat \ {0, 1} /\ Root \in Nat \ {0}
    /\ WirePart!Word \in Nat /\ WirePart!Byte <= WirePart!Word
    /\ Communities \union {Public} \subseteq Seq(Nat)
    /\ ObjectId(SysDescr) /\ \A oid \in Oids : oid = <<>> \/ ObjectId(oid)
    /\ \A c \in Communities, oid \in Oids :
          Len(WirePart!Community(c)) + Len(WirePart!encodeOid(WirePart!Oid(oid))) + 200
            < WirePart!Byte * WirePart!Byte

MCInit ==
    /\ Init /\ AccountsInit /\ HistoryInit /\ ReportsPart!Init /\ SeedingPart!Init
    /\ WirePart!Init /\ ProbesPart!Init
    /\ topic \in {"dashboards", "rules", "incidents", "reports", "history",
                  "scans", "imports", "accounts", "seeding", "packets", "probes"}
    /\ \/ topic = "scans" /\ ScansPart!Init
       \/ topic # "scans" /\ ImportsPart!Init

SeedingAlone ==
    /\ topic = "seeding"
    /\ UNCHANGED <<topic, vars, historyVars, reportVars, discoveryVars, accountVars, snmpVars>>

\* Rows of one table at a time: requests on the others share nothing with them.
DeskAt(ids) ==
    /\ Next
    /\ \A i \in Ids \ ids : row'[i] = Gone
    /\ \A r \in Requests : req'[r] = Idle \/ req'[r].id \in ids
    /\ UNCHANGED <<topic, historyVars, reportVars, discoveryVars, accountVars, seedVars, snmpVars>>

DiscoveryMoves(next) ==
    /\ next
    /\ UNCHANGED <<topic, vars, historyVars, reportVars, accountVars, seedVars, snmpVars>>

MCNext ==
    \/ topic = "dashboards" /\ DeskAt(Boards)
    \/ topic = "rules" /\ DeskAt(Rules)
    \/ topic = "incidents" /\ DeskAt(Incidents)
    \/ topic = "scans" /\ DiscoveryMoves(ScansPart!Next)
    \/ topic = "imports" /\ DiscoveryMoves(ImportsPart!Next)
    \/ /\ topic = "reports" /\ ReportsPart!Next
       /\ UNCHANGED <<topic, vars, historyVars, discoveryVars, accountVars, seedVars, snmpVars>>
    \/ /\ topic = "history" /\ HistoryNext
       /\ UNCHANGED <<topic, vars, reportVars, discoveryVars, accountVars, seedVars, snmpVars>>
    \/ /\ topic = "accounts" /\ AccountsNext
       /\ UNCHANGED <<topic, vars, historyVars, reportVars, discoveryVars, seedVars, snmpVars>>
    \/ SeedingAlone /\ SeedingPart!Next
    \/ /\ topic = "packets" /\ WirePart!Next
       /\ UNCHANGED <<topic, vars, historyVars, reportVars, discoveryVars, accountVars, seedVars,
                      probeVars>>
    \/ /\ topic = "probes" /\ ProbesPart!Next
       /\ UNCHANGED <<topic, vars, historyVars, reportVars, discoveryVars, accountVars, seedVars,
                      sent>>

MCBoot == SeedingAlone /\ SeedingPart!Boot
MCEntrypointScript == SeedingAlone /\ SeedingPart!EntrypointScript

MCSpec == /\ MCInit /\ [][MCNext]_allVars
          /\ WF_allVars(MCBoot) /\ WF_allVars(MCEntrypointScript)

-----------------------------------------------------------------------------
(***************************************************************************)
(* The properties of the parts; each module says what they mean.           *)
(***************************************************************************)

\* Types: the rows, requests, counts, scans, accounts and tables are what
\* their modules declare them to be.
MCTypeOK ==
    /\ DeskTypeOK /\ AccountsTypeOK
    /\ topic = "scans" => ScansPart!DiscoveryTypeOK
    /\ topic = "imports" => ImportsPart!DiscoveryTypeOK
    /\ ReportsPart!ReportsTypeOK
    /\ SeedingPart!SeedingTypeOK /\ ProbesPart!ProbesTypeOK

\* OneDefault, TogglesCount, ResolvedCounted, AdminRemains, EmailOnce and
\* TransitionsTell are those of Desk, Accounts and History.

\* Reports: the parts are not more than the whole, but for what changed.
Coherent == ReportsPart!Coherent
\* Scans: a network is scanned exactly, and none who answers passed over.
ScanExact == topic = "scans" => ScansPart!ScanExact
\* Imports: an address has one imported asset, unless two imports overlap.
ImportedOnce == topic = "imports" => ImportsPart!ImportedOnce
\* Seeding: the demo data is whole, and the application starts.
SeedWhole == SeedingPart!SeedWhole
AppStarts == topic = "seeding" => SeedingPart!AppStarts
\* Packets: what a device reads of an SNMP request of version 1 or 2c.
WireRead == WirePart!WireRead
\* Packets: what the source says of the tester's, of version 3 and of the
\* version that a form asks for (it does not keep it).
PacketsAsSaid == WirePart!PacketsAsSaid
\* Probes: no monitor's probe leaks its socket or stops the process.
ProbesContained == ProbesPart!ProbesContained
=============================================================================
