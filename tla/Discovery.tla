----------------------------- MODULE Discovery ------------------------------
(***************************************************************************)
(* Assets and the discovery of hosts: parseRange, the scan in batches, the *)
(* import of what was found, and the users' own changes of assets.         *)
(*                                                                         *)
(* An address is a number of Bits bits, written as octets of OctetBits     *)
(* (32 and 8 in the code).  Numbers are signed, as << and >> make them;    *)
(* formatting an address takes its octets with a shift and a mask, which   *)
(* makes it an address again (Wrap).  Requests run beside each other, each *)
(* statement a step; a host of a scan is an address that answers a ping.   *)
(***************************************************************************)
EXTENDS Integers, Sequences, SequencesExt, FiniteSetsExt

CONSTANTS
    Bits, OctetBits,
    Assets,         \* bound: rows of the asset table
    Imports,        \* bound: imports at once
    Concurrency,    \* sizes of a batch that are tried, above 0 (20; at most 50)
    Bases,          \* bound: addresses that scans are asked for
    UserAddresses,  \* bound: addresses that users give assets
    MaxAlive,       \* bound: hosts of a range that answer
    Kinds           \* the kinds of range that are asked for

VARIABLES
    asset,          \* the asset table: address, isActive, who wrote it
    scan,           \* the scan that is running or was shown last
    import,         \* the imports: hosts to go, the host found missing
    overlapped      \* history: addresses two imports created side by side

vars == <<asset, scan, import, overlapped>>

Address == 0 .. 2 ^ Bits - 1
None == -1
NoAsset == [ip |-> None, active |-> FALSE, by |-> "none"]
NoScan == [range |-> <<>>, ips |-> <<>>, next |-> 1, step |-> 1, alive |-> {},
           found |-> {}]
NoImport == [todo |-> <<>>, missing |-> None]

DiscoveryTypeOK ==
    /\ asset \in [Assets -> [ip : Address \union {None}, active : BOOLEAN,
                             by : {"none", "user", "import"}]]
    /\ scan.next \in Nat \ {0} /\ scan.step \in Concurrency \union {1}
    /\ \A n \in {scan.ips[i] : i \in DOMAIN scan.ips} : n \in Address
    /\ \A r \in Imports : /\ import[r].todo \in Seq(Address)
                          /\ import[r].missing \in Address \union {None}
    /\ overlapped \subseteq Address

Init ==
    /\ asset = [a \in Assets |-> NoAsset]
    /\ scan = NoScan
    /\ import = [r \in Imports |-> NoImport]
    /\ overlapped = {}

-----------------------------------------------------------------------------
(***************************************************************************)
(* parseRange.  A range is a base and a mask, a run of last octets, or one *)
(* address.                                                                *)
(***************************************************************************)
Wrap(n) == n % 2 ^ Bits

\* Variant: formatting keeps the sign of the number.
FormatSigned(n) == n

Format(n) == Wrap(n)

ToSigned(n) == IF n >= 2 ^ (Bits - 1) THEN n - 2 ^ Bits ELSE n

Hosts(bits) == 1 .. 2 ^ (Bits - bits) - 2

Cidr(base, bits) ==
    [i \in Hosts(bits) |-> Format(ToSigned(base) + i)]

LastOctets(base, first, last) ==
    [i \in 1 .. last - first + 1 |->
        (base \div 2 ^ OctetBits) * 2 ^ OctetBits + first + i - 1]

ParseRange(range) ==
    CASE range[1] = "cidr"   -> Cidr(range[2], range[3])
      [] range[1] = "run"    -> LastOctets(range[2], range[3], range[4])
      [] range[1] = "single" -> <<range[2]>>

Octet == 0 .. 2 ^ OctetBits - 1
Ranges == {r \in ({"cidr"} \X Bases \X (0 .. Bits))
                    \union ({"run"} \X Bases \X Octet \X Octet)
                    \union ({"single"} \X Bases) : r[1] \in Kinds}

-----------------------------------------------------------------------------
(***************************************************************************)
(* discoverNetwork: batch after batch is scanned, and who answers is       *)
(* listed.  (Each host is also called new or not, from the addresses of    *)
(* the assets when the scan began; nothing depends on it.)                 *)
(***************************************************************************)
Ask(range, step, alive) ==
    /\ scan' = [NoScan EXCEPT !.range = range, !.ips = ParseRange(range),
                              !.step = step, !.alive = alive]
    /\ UNCHANGED <<asset, import, overlapped>>

Batch == SubSeq(scan.ips, scan.next, Min({scan.next + scan.step - 1, Len(scan.ips)}))

\* scanHost, side by side: who answers a ping is listed, with the ports that
\* accept a connection, a name and a guess of what it is; nothing of it throws.
Answering(ips) == ToSet(ips) \intersect scan.alive

Scanning == scan.next <= Len(scan.ips)

Advance == scan.next + scan.step

ScanBatch ==
    /\ Scanning
    /\ scan' = [scan EXCEPT
                  !.found = @ \union Answering(Batch),
                  !.next = Advance]
    /\ UNCHANGED <<asset, import, overlapped>>

\* Hosts in the order of their last octets, ties as they were found.
LastOctet(n) == n % 2 ^ OctetBits
Before(m, n) == \/ LastOctet(m) < LastOctet(n)
                \/ LastOctet(m) = LastOctet(n) /\ m < n

Sorted ==
    CHOOSE s \in [1 .. Cardinality(scan.found) -> scan.found] :
        \A i, j \in DOMAIN s : i < j => Before(s[i], s[j])

\* The page is left, or another range is entered.
Discard ==
    /\ scan # NoScan /\ ~Scanning
    /\ scan' = NoScan
    /\ UNCHANGED <<asset, import, overlapped>>

-----------------------------------------------------------------------------
(***************************************************************************)
(* importDiscovered: for each host, findFirst and then create.             *)
(***************************************************************************)
StartImport(r) ==
    /\ import[r] = NoImport
    /\ ~Scanning /\ scan.found # {}
    /\ import' = [import EXCEPT ![r].todo = Sorted]
    /\ UNCHANGED <<asset, scan, overlapped>>

\* Variant: only active assets are looked for, as the scan does.
HasAssetActive(ip) == \E a \in Assets : asset[a].ip = ip /\ asset[a].active

HasAsset(ip) == \E a \in Assets : asset[a].ip = ip

FindHost(r) ==
    LET ip == Head(import[r].todo) IN
    /\ import[r].todo # <<>> /\ import[r].missing = None
    /\ import' = [import EXCEPT ![r] =
                    IF HasAsset(ip) THEN [@ EXCEPT !.todo = Tail(import[r].todo)]
                    ELSE [@ EXCEPT !.missing = ip]]
    /\ UNCHANGED <<asset, scan, overlapped>>

CreateHost(r, a) ==
    LET ip == import[r].missing IN
    /\ ip # None
    /\ asset[a] = NoAsset
    /\ asset' = [asset EXCEPT ![a] = [ip |-> ip, active |-> TRUE, by |-> "import"]]
    /\ import' = [import EXCEPT ![r] = [todo |-> Tail(@.todo), missing |-> None]]
    /\ overlapped' = IF \E q \in Imports \ {r} : import[q].missing = ip
                     THEN overlapped \union {ip} ELSE overlapped
    /\ UNCHANGED scan

\* A statement fails: the host is counted as skipped, and the loop goes on.
SkipHost(r) ==
    /\ import[r].todo # <<>>
    /\ import' = [import EXCEPT ![r] = [todo |-> Tail(@.todo), missing |-> None]]
    /\ UNCHANGED <<asset, scan, overlapped>>

\* AssetsService.create, also for each row of a CSV file; no address is
\* refused because another asset has it.
CreateAsset(a, ip) ==
    /\ asset[a] = NoAsset
    /\ asset' = [asset EXCEPT ![a] = [ip |-> ip, active |-> TRUE, by |-> "user"]]
    /\ UNCHANGED <<scan, import, overlapped>>

EditAsset(a, ip) ==
    /\ asset[a] # NoAsset
    /\ asset' = [asset EXCEPT ![a].ip = ip, ![a].by = "user"]
    /\ UNCHANGED <<scan, import, overlapped>>

\* remove: the row stays.
RemoveAsset(a) ==
    /\ asset[a] # NoAsset
    /\ asset' = [asset EXCEPT ![a].active = FALSE]
    /\ UNCHANGED <<scan, import, overlapped>>

\* The hosts of a range that answer.
Alive(range) ==
    UNION {kSubset(k, ToSet(ParseRange(range))) : k \in 0 .. MaxAlive}

Next ==
    \/ /\ scan = NoScan
       /\ \E range \in Ranges, step \in Concurrency :
             \E alive \in Alive(range) : Ask(range, step, alive)
    \/ ScanBatch \/ Discard
    \/ \E r \in Imports : StartImport(r) \/ FindHost(r) \/ SkipHost(r)
    \/ \E r \in Imports, a \in Assets : CreateHost(r, a)
    \/ \E a \in Assets : RemoveAsset(a)
    \/ \E a \in Assets, ip \in UserAddresses : CreateAsset(a, ip) \/ EditAsset(a, ip)

Spec == Init /\ [][Next]_vars

-----------------------------------------------------------------------------
(***************************************************************************)
(* A scan misses nobody: one of a network given by its first address and a *)
(* mask has found, when it ends, each address that answers, once, but the  *)
(* network's first and last, also where the number is negative; and so has *)
(* a scan of a run of addresses.  (A network of two addresses or one       *)
(* yields none, and a base inside of its network is taken for its first.)  *)
(***************************************************************************)
ScanExact ==
    LET r == scan.range IN
    r # <<>> /\ ~Scanning =>
        /\ r[1] = "cidr" /\ r[2] % 2 ^ (Bits - r[3]) = 0
              => ToSet(scan.ips) = {n \in Address : /\ n > r[2]
                                                   /\ n < r[2] + 2 ^ (Bits - r[3]) - 1}
        /\ \A i, k \in DOMAIN scan.ips : scan.ips[i] = scan.ips[k] => i = k
        /\ scan.found = ToSet(scan.ips) \intersect scan.alive

(***************************************************************************)
(* Imports give an address one asset, however often it is found and even   *)
(* if its asset was removed, unless two imports create it side by side.    *)
(***************************************************************************)
ImportedOnce ==
    \A a, b \in Assets :
        /\ a # b /\ asset[a].by = "import" /\ asset[b].by = "import"
        /\ asset[a].ip = asset[b].ip
        => asset[a].ip \in overlapped
=============================================================================
