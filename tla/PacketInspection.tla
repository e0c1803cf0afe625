-------------------------- MODULE PacketInspection --------------------------
(***************************************************************************)
(* What the detector reads from the payloads of one flow: the JA3          *)
(* fingerprint of TLS ClientHellos (src/src/features/ja3.py), attack       *)
(* patterns and payload features (payload_analyzer.py).  A packet is       *)
(* inspected by itself: no stream is reassembled.                          *)
(***************************************************************************)
EXTENDS Integers, Sequences, SequencesExt, FiniteSets, FiniteSetsExt

CONSTANTS
    Hellos,      \* ClientHellos: lengths of session id and compression methods, ciphers, extensions
    Grease,      \* _GREASE
    Payloads,    \* other payloads: patterns they match, whether they look like TLS, length, entropy ...
    EncryptedLen, EncryptedEntropy,   \* _ENCRYPTED_MIN_LEN, _ENCRYPTED_ENTROPY
    MaxPayloads, \* MAX_PAYLOAD_SAMPLES
    MaxInspected \* bound: packets of the flow

-----------------------------------------------------------------------------
(* _parse_client_hello over the first bytes of a record; have counts those of the handshake body. *)

Groups == 10   \* extension 0x000A, two bytes for each entry after two of length
Formats == 11  \* extension 0x000B, one byte for each entry after one of length

ExtLength(e) == CASE e.type = Groups -> 2 + 2 * Len(e.items) [] e.type = Formats -> 1 + Len(e.items) [] OTHER -> Len(e.items)

CiphersAt(h)    == 35 + h.sid
CompressAt(h)   == CiphersAt(h) + 2 + 2 * Len(h.ciphers)
ExtensionsAt(h) == CompressAt(h) + 1 + h.comp
ExtAt(h, i)     == ExtensionsAt(h) + 2 + FoldSeq(LAMBDA e, n : n + 4 + ExtLength(e), 0, SubSeq(h.exts, 1, i - 1))
BodyLength(h)   == IF h.exts = <<>> THEN ExtensionsAt(h) ELSE ExtAt(h, Len(h.exts) + 1)

NotGrease(s) == SelectSeq(s, LAMBDA x : x \notin Grease)

(* The extensions whose header was received, and the entries of one that were. *)
SeenExts(h, have) == SelectSeq([i \in DOMAIN h.exts |-> i], LAMBDA i : ExtAt(h, i) + 4 <= have)
SeenItems(h, have, type, skip, width) ==
    FlattenSeq([k \in DOMAIN SeenExts(h, have) |->
        LET i  == SeenExts(h, have)[k]
            in == (have - ExtAt(h, i) - 4 - skip) \div width
        IN  IF h.exts[i].type # type \/ in <= 0 THEN <<>>
            ELSE SubSeq(h.exts[i].items, 1, IF in < Len(h.exts[i].items) THEN in ELSE Len(h.exts[i].items))])

NoPrint == <<>>
Parse(h, have) ==
    IF have < 38 \/ have <= CompressAt(h) THEN NoPrint
    ELSE << NotGrease(h.ciphers),
            NotGrease([k \in DOMAIN SeenExts(h, have) |-> h.exts[SeenExts(h, have)[k]].type]),
            NotGrease(SeenItems(h, have, Groups, 2, 2)),
            SeenItems(h, have, Formats, 1, 1) >>

-----------------------------------------------------------------------------

LooksEncrypted(p) == p.tls \/ (p.len >= EncryptedLen /\ p.entropy >= EncryptedEntropy)

(* analyze_payload *)
Matches(p) == IF LooksEncrypted(p) THEN {} ELSE p.matches

VARIABLES
    ja3,       \* the fingerprint noted for the flow
    hits,      \* _payload_hits of the flow: patterns matched by the initiator's payloads
    samples,   \* fwd_payloads: the first payloads of the initiator
    hello,     \* the last ClientHello that was fingerprinted, and how much of it its packet held (history)
    inspected  \* payloads and their directions (history)

inspectVars == <<ja3, hits, samples, hello, inspected>>

Init == ja3 = NoPrint /\ hits = {} /\ samples = <<>> /\ hello = <<>> /\ inspected = <<>>

Room == Len(inspected) < MaxInspected

Sampled(p) == IF Len(samples) < MaxPayloads THEN Append(samples, p) ELSE samples

(* A ClientHello of the initiator, whole or up to the end of its first segment; a second one of the flow replaces the first. *)
HelloSegment(h, have) ==
    LET record == [tls |-> TRUE, len |-> 9 + have, entropy |-> 0, matches |-> {}, control |-> 0]
    IN  /\ Room /\ inspected' = Append(inspected, [pkt |-> record, forward |-> TRUE])
        /\ samples' = Sampled(record)
        /\ IF Parse(h, have) = NoPrint THEN UNCHANGED <<ja3, hello>>
           ELSE ja3' = Parse(h, have) /\ hello' = <<h, have>>
        /\ UNCHANGED hits

(* Any other payload, the rest of a record among them; what the responder sends is *)
(* looked at, and neither noted nor sampled.                                       *)
Inspect(p, forward) ==
    /\ Room /\ inspected' = Append(inspected, [pkt |-> p, forward |-> forward])
    /\ hits' = IF forward THEN hits \cup Matches(p) ELSE hits
    /\ samples' = IF forward THEN Sampled(p) ELSE samples
    /\ UNCHANGED <<ja3, hello>>

Next ==
    \/ \E h \in Hellos : \E have \in 0..BodyLength(h) : HelloSegment(h, have)
    \/ \E p \in Payloads, forward \in BOOLEAN : Inspect(p, forward)

Spec == Init /\ [][Next]_inspectVars

(* extract_payload_features: the patterns are looked for again, whatever the sample looks like. *)
PayloadFeatures ==
    LET flags == UNION {samples[i].matches : i \in DOMAIN samples}
        total(f(_)) == FoldSeq(LAMBDA p, acc : f(p) + acc, 0, samples)
    IN  [flags |-> flags, count |-> Cardinality(flags),
         entropy |-> IF samples = <<>> THEN 0 ELSE Max({samples[i].entropy : i \in DOMAIN samples}),
         length |-> <<total(LAMBDA p : p.len), Len(samples)>>,
         suspicious |-> <<total(LAMBDA p : p.control), total(LAMBDA p : p.len)>>]

-----------------------------------------------------------------------------

TypesOf(h) == [i \in DOMAIN h.exts |-> h.exts[i].type]
ItemsOf(h, type) == FlattenSeq([i \in DOMAIN h.exts |-> IF h.exts[i].type = type THEN h.exts[i].items ELSE <<>>])

(* The JA3 of a ClientHello, by its definition. *)
Ja3Of(h) == <<NotGrease(h.ciphers), NotGrease(TypesOf(h)), NotGrease(ItemsOf(h, Groups)), ItemsOf(h, Formats)>>

(***************************************************************************)
(* A flow has the fingerprint of its last ClientHello if one segment held  *)
(* it whole, and otherwise one with all of its ciphers and the first of    *)
(* its extensions: never ciphers that were cut.                            *)
(***************************************************************************)
FingerprintOfHello ==
    ja3 # NoPrint =>
        LET h == hello[1]
            j == Ja3Of(h)
        IN  /\ hello[2] = BodyLength(h) => ja3 = j
            /\ ja3[1] = j[1] /\ \A i \in 2..4 : IsPrefix(ja3[i], j[i])

(***************************************************************************)
(* The rules and the model read the same payloads: a pattern only the      *)
(* model sees comes from a payload that looks encrypted, and the rules see *)
(* none that the model does not, unless the initiator sent more payloads   *)
(* than are sampled.  What the responder sends convicts nobody.            *)
(***************************************************************************)
ReadersOfPayloadsAgree ==
    LET of(ok(_)) == UNION {inspected[i].pkt.matches : i \in {k \in DOMAIN inspected : ok(inspected[k])}}
        flags == PayloadFeatures.flags
    IN  /\ flags \ hits \subseteq of(LAMBDA x : x.forward /\ LooksEncrypted(x.pkt))
        /\ Cardinality({k \in DOMAIN inspected : inspected[k].forward}) <= MaxPayloads => hits \subseteq flags
        /\ hits \cup flags \subseteq of(LAMBDA x : x.forward)
=============================================================================
