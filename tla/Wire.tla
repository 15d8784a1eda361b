-------------------------------- MODULE Wire --------------------------------
(***************************************************************************)
(* The SNMP requests as octets: what the probe of a monitor and the        *)
(* tester of the discovery page put on the wire, read back as a device     *)
(* reads BER.  An octet has twice Septet values (256), an object id begins *)
(* with Root times its first arc (40), an integer of JavaScript's & and >> *)
(* has IntBits bits (32).  Tags are numbers, distinct as the real ones.    *)
(* Characters of a community are octets below Septet (ASCII).              *)
(***************************************************************************)
EXTENDS Integers, Sequences

CONSTANTS
    Septet, Root, IntBits,
    Communities,    \* bound: sequences of characters; <<>> is a field left empty
    Oids,           \* bound: object ids as sequences of arcs; <<>> likewise
    Public, SysDescr    \* the defaults for both

VARIABLE sent       \* the request looked at

INTEGER == 2
OCTETS == 4
NULL == 5
OBJECT == 6
SEQUENCE == 3
GET == 10

Byte == 2 * Septet
Word == 2 ^ IntBits

-----------------------------------------------------------------------------
\* Variant: the short form is taken one octet too far.
ShortUpTo(len) == len <= Septet
Short(len) == len < Septet

tlvWrap(tag, value) ==
    LET len == Len(value)
        lenBuf == CASE Short(len) -> <<len>>
                    [] ~Short(len) /\ len < Byte -> <<Septet + 1, len>>
                    [] ~Short(len) /\ len >= Byte -> <<Septet + 2, len \div Byte, len % Byte>>
    IN  <<tag>> \o lenBuf \o value

ToInt32(v) == LET m == v % Word IN IF m >= Word \div 2 THEN m - Word ELSE m

\* while (v > 0) { ... v & 0x7f ...; v >>= 7; }
Groups[v \in Int] ==
    IF v <= 0 THEN <<>>
    ELSE Append(Groups[ToInt32(v) \div Septet], ToInt32(v) % Septet)

Arc(v) ==
    IF v < Septet THEN <<v>>
    ELSE LET g == Groups[v]
         IN  [i \in DOMAIN g |-> IF i = Len(g) THEN g[i] ELSE g[i] + Septet]

encodeOid(oid) ==
    LET octets[k \in 0 .. Len(oid) - 2] ==
            IF k = 0 THEN <<(Root * oid[1] + oid[2]) % Byte>>
            ELSE octets[k - 1] \o Arc(oid[k + 2])
    IN  octets[Len(oid) - 2]

Zeros(n) == [i \in 1 .. n |-> 0]
Small(n) == tlvWrap(INTEGER, <<n>>)
Nothing == <<NULL, 0>>

Community(c) == IF c = <<>> THEN Public ELSE c
Oid(o) == IF o = <<>> THEN SysDescr ELSE o

-----------------------------------------------------------------------------
(***************************************************************************)
(* The packets of the monitors' probe, snmp-monitor.checker.ts.            *)
(***************************************************************************)
buildVarBind(oid) ==
    tlvWrap(SEQUENCE, tlvWrap(OBJECT, encodeOid(oid)) \o Nothing)

Pdu(bindings) ==
    tlvWrap(GET, tlvWrap(INTEGER, Zeros(4)) \o Small(0) \o Small(0) \o bindings)

buildSnmpGetPacket(community, oid, version) ==
    tlvWrap(SEQUENCE,
        Small(version) \o tlvWrap(OCTETS, community)
          \o Pdu(tlvWrap(SEQUENCE, buildVarBind(oid))))

\* Twelve octets that are a key or zeros, eight random or zero, one of flags:
\* only their number is told apart here, and so with ids and names.
buildUsmParams ==
    tlvWrap(SEQUENCE,
        tlvWrap(OCTETS, Zeros(9)) \o tlvWrap(INTEGER, Zeros(4))
          \o tlvWrap(INTEGER, Zeros(4)) \o tlvWrap(OCTETS, Zeros(5))
          \o tlvWrap(OCTETS, Zeros(12)) \o tlvWrap(OCTETS, Zeros(8)))

\* The binding, which is a sequence already, is put into two more.
buildSnmpV3Packet(oid) ==
    tlvWrap(SEQUENCE,
        Small(3)
          \o tlvWrap(SEQUENCE, tlvWrap(INTEGER, Zeros(4)) \o tlvWrap(INTEGER, <<0, 0>>)
                                 \o tlvWrap(OCTETS, <<4>>) \o Small(3))
          \o tlvWrap(OCTETS, buildUsmParams)
          \o tlvWrap(SEQUENCE,
                tlvWrap(OCTETS, Zeros(9)) \o tlvWrap(OCTETS, <<>>)
                  \o Pdu(tlvWrap(SEQUENCE, tlvWrap(SEQUENCE, buildVarBind(oid))))))

runSnmpCheck(cfg) ==
    CASE cfg.version = "3" -> buildSnmpV3Packet(Oid(cfg.oid))
      [] cfg.version = "1" -> buildSnmpGetPacket(Community(cfg.community), Oid(cfg.oid), 0)
      [] OTHER -> buildSnmpGetPacket(Community(cfg.community), Oid(cfg.oid), 1)

\* checkSnmp names a community, an object and a port; the version that the
\* monitor's form asks for stays behind.
Passed(cfg) == [cfg EXCEPT !.version = "default"]
checkSnmp(cfg) == runSnmpCheck(Passed(cfg))

(***************************************************************************)
(* The packet of the tester, snmp.checker.ts: its list of bindings is the  *)
(* binding.                                                                *)
(***************************************************************************)
checkSnmpUdp(cfg) ==
    tlvWrap(SEQUENCE,
        Small(0) \o tlvWrap(OCTETS, Community(cfg.community))
          \o Pdu(buildVarBind(Oid(cfg.oid))))

-----------------------------------------------------------------------------
(***************************************************************************)
(* The device: BER as X.690 reads it, SNMP messages as RFC 1157 and 3412   *)
(* nest them.                                                              *)
(***************************************************************************)
Malformed == <<[tag |-> -1, value |-> <<>>]>>

Items[b \in Seq(Nat)] ==
    LET form == IF Len(b) < 2 THEN -1
                ELSE IF b[2] = Septet THEN -1     \* no definite length
                ELSE IF b[2] < Septet THEN 0 ELSE b[2] - Septet
        head == 2 + form
        len  == CASE form = 0 -> b[2]
                  [] form = 1 -> b[3]
                  [] form = 2 -> b[3] * Byte + b[4]
    IN  IF b = <<>> THEN <<>>
        ELSE IF form \notin 0 .. 2 \/ Len(b) < head THEN Malformed
        ELSE IF Len(b) < head + len THEN Malformed
        ELSE <<[tag |-> b[1], value |-> SubSeq(b, head + 1, head + len)]>>
                 \o Items[SubSeq(b, head + len + 1, Len(b))]

Shaped(b, tags) == LET items == Items[b] IN [i \in DOMAIN items |-> items[i].tag] = tags
Inside(b, i) == Items[b][i].value

\* The message, its PDU, the list of its bindings, the first of them.
Message(p) == Inside(p, 1)
IsV3(p) == Shaped(Message(p), <<INTEGER, SEQUENCE, OCTETS, SEQUENCE>>)
PduOf(p) == IF IsV3(p) THEN Inside(Inside(Message(p), 4), 3) ELSE Inside(Message(p), 3)
BindingOf(p) == Inside(Inside(PduOf(p), 4), 1)

Readable(p) ==
    /\ Shaped(p, <<SEQUENCE>>)
    /\ \/ Shaped(Message(p), <<INTEGER, OCTETS, GET>>)
       \/ IsV3(p) /\ Shaped(Inside(Message(p), 4), <<OCTETS, OCTETS, GET>>)
    /\ Shaped(PduOf(p), <<INTEGER, INTEGER, INTEGER, SEQUENCE>>)
    /\ Shaped(Inside(PduOf(p), 4), <<SEQUENCE>>)
    /\ Shaped(BindingOf(p), <<OBJECT, NULL>>)

\* An octet ends a subidentifier, or is a part of it.
Octet(before, x) ==
    IF x < Septet
    THEN [arcs |-> Append(before.arcs, before.rest * Septet + x), rest |-> 0]
    ELSE [before EXCEPT !.rest = @ * Septet + x - Septet]

Subidentifiers(b) ==
    LET read[k \in 0 .. Len(b)] ==
            IF k = 0 THEN [arcs |-> <<>>, rest |-> 0] ELSE Octet(read[k - 1], b[k])
    IN  read[Len(b)].arcs

ReadOid(p) ==
    LET s == Subidentifiers(Inside(BindingOf(p), 1))
        first == IF s[1] >= 2 * Root THEN 2 ELSE s[1] \div Root
    IN  IF s = <<>> THEN <<>> ELSE <<first, s[1] - Root * first>> \o Tail(s)

-----------------------------------------------------------------------------
Settings == [community : Communities, oid : Oids, version : {"1", "2c", "3"}]
NoRequest == [by |-> "none"]

Init == sent = NoRequest

Probe(cfg) == sent' = [by |-> "monitor", cfg |-> cfg, packet |-> checkSnmp(cfg)]
Direct(cfg) == sent' = [by |-> "library", cfg |-> cfg, packet |-> runSnmpCheck(cfg)]
Test(cfg) == sent' = [by |-> "tester", cfg |-> cfg, packet |-> checkSnmpUdp(cfg)]
Forget == sent # NoRequest /\ sent' = NoRequest

Next ==
    \/ sent = NoRequest /\ \E cfg \in Settings : Probe(cfg) \/ Direct(cfg) \/ Test(cfg)
    \/ Forget

Spec == Init /\ [][Next]_sent

-----------------------------------------------------------------------------
\* The first two arcs fit in one octet's lower half, and no arc is a number
\* that & and >> make negative: all others are encoded as something else.
Encodable(oid) ==
    /\ Root * oid[1] + oid[2] < Septet
    /\ \A i \in 3 .. Len(oid) : oid[i] < Word \div 2

Number(version) == CASE version = "1" -> 0 [] version = "2c" -> 1 [] version = "3" -> 3

(***************************************************************************)
(* A probe of version 1 or 2c asks a device for exactly the object that    *)
(* the monitor's form names, as the community it names, if the object is   *)
(* an encodable one (and for another object otherwise); and the library    *)
(* sends the version it is asked for.  Of the tester, of version 3 and of  *)
(* the version that a form asks for the next one speaks.                   *)
(***************************************************************************)
WireRead ==
    sent # NoRequest /\ sent.by # "tester" /\ ~(sent.by = "library" /\ sent.cfg.version = "3")
    => LET p == sent.packet
       IN  /\ Readable(p)
           /\ sent.by = "library" => Inside(Message(p), 1) = <<Number(sent.cfg.version)>>
           /\ Inside(Message(p), 2) = Community(sent.cfg.community)
           /\ (ReadOid(p) = Oid(sent.cfg.oid)) = Encodable(Oid(sent.cfg.oid))

\* What is said of the others: the tester's request is a GET of version 1 (the
\* comments in snmp.checker.ts), a request of version 3 an SNMPv3 message (those
\* in snmp-monitor.checker.ts), a monitor's probe of the version chosen for it
\* (the form for a monitor).
Promised(by) == CASE by = "tester" -> 0
                  [] OTHER -> Number(sent.cfg.version)

(***************************************************************************)
(* Every packet can be read by a device, and is of the version that the    *)
(* source says it is of.  (None of the three is kept: the tester's one     *)
(* binding is in no list, that of version 3 is in a list too many, and     *)
(* checkSnmp passes no version on, so that a probe is always of 2c.)       *)
(***************************************************************************)
PacketsAsSaid ==
    sent # NoRequest
    => Readable(sent.packet) /\ Inside(Message(sent.packet), 1) = <<Promised(sent.by)>>
=============================================================================
