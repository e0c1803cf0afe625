---------------------------- MODULE ScrubbedText ----------------------------
(***************************************************************************)
(* What a language model is shown of stored alerts                         *)
(* (src/src/mcp_server/sanitize.py and the views of queries.py): texts an  *)
(* attacker may have written are bounded and lose the delimiters that end  *)
(* the structure around them, and the fields they are in are named.  Texts *)
(* are short sequences of characters, as the order of the replacements is  *)
(* what matters.                                                           *)
(***************************************************************************)
EXTENDS Integers, Sequences, SequencesExt, FiniteSets

CONSTANTS
    AlertTexts,   \* what a field of an alert may hold
    AskedTexts,   \* addresses as a model may spell them
    IpForms,      \* well-formed addresses -> their normal form
    HashForms,    \* well-formed JA3 hashes -> their lower case
    Canonical,    \* JA3 strings of canonical syntax
    TextBounds    \* the max_len of each kind of text: "label", "title", "ja3", "free", "summary", "malformed"

Absent == <<"None">>
Control == {"esc"}                       \* _CONTROL_CHARS
Blank   == {" "}
Cut == "[truncated]"
MalformedIp == "[malformed-ip]"
MalformedHash == "[malformed-ja3-hash]"
OtherJa3 == "[non-canonical-ja3]"

(* Runs of three backticks or more become three quotes. *)
Unfenced(text) ==
    LET flush(s) == s.out \o IF s.ticks >= 3 THEN <<"quote", "quote", "quote">> ELSE [i \in 1..s.ticks |-> "tick"]
        step(s, c) == IF c = "tick" THEN [s EXCEPT !.ticks = @ + 1] ELSE [out |-> Append(flush(s), c), ticks |-> 0]
    IN  flush(FoldLeft(step, [out |-> <<>>, ticks |-> 0], text))

Visible(text) == SelectSeq(text, LAMBDA c : c \notin Control)

Escaped(text) ==
    FlattenSeq([i \in DOMAIN text |->
        CASE text[i] = "<" -> <<"&", "l", "t", ";">> [] text[i] = ">" -> <<"&", "g", "t", ";">> [] OTHER -> <<text[i]>>])

Bounded(text, max) == IF Len(text) <= max THEN text ELSE Append(SubSeq(text, 1, max), Cut)

Neutral(text) == Escaped(Unfenced(Visible(text)))

ScrubText(text, max) == IF text = Absent THEN Absent ELSE Bounded(Neutral(text), max)

(* str.strip() *)
Stripped(text) ==
    LET solid(c) == c \notin Blank
    IN  IF SelectInSeq(text, solid) = 0 THEN <<>>
        ELSE SubSeq(text, SelectInSeq(text, solid), SelectLastInSeq(text, solid))

ScrubIp(text) ==
    IF text = Absent THEN Absent
    ELSE IF Stripped(text) \in DOMAIN IpForms THEN IpForms[Stripped(text)]
    ELSE <<MalformedIp>> \o ScrubText(text, TextBounds["malformed"])

ScrubHash(text) ==
    IF text = Absent THEN Absent
    ELSE IF Stripped(text) \in DOMAIN HashForms THEN HashForms[Stripped(text)]
    ELSE <<MalformedHash>> \o ScrubText(Stripped(text), TextBounds["malformed"])

ScrubJa3(text) ==
    IF text = Absent THEN Absent
    ELSE IF Stripped(text) \in Canonical THEN Stripped(text)
    ELSE <<OtherJa3>> \o ScrubText(Stripped(text), TextBounds["ja3"])

-----------------------------------------------------------------------------
(* The texts of each answer, and how each is scrubbed.                       *)

AlertFields == {"src_ip", "dst_ip", "attack_type", "ja3_hash", "ja3_string", "notes"}   \* _ALERT_UNTRUSTED

(* What an alert is shown with and passes no scrubber: names of rules, and patterns *)
(* or, of an alert of logwatch, lines of the log.                                   *)
AsStored(view) ==
    CASE view = "list_alerts" -> {"triggered_rules"}
      [] view = "get_alert" -> {"triggered_rules", "payload_matches"}
      [] OTHER -> {}

(* The profile of a host: its address, the commonest labels of its alerts and what *)
(* the Guardian did to it.                                                         *)
ProfileFields == {"src_ip", "attack_type", "triggered_rules", "ja3_hash", "reason"}

Views ==
    [list_alerts |-> {"src_ip", "dst_ip", "attack_type"} \cup AsStored("list_alerts"),
     get_alert |-> AlertFields \cup AsStored("get_alert"), get_ip_profile |-> ProfileFields,
     list_mitigation_actions |-> {"src_ip", "reason"}, agent_triage |-> {"summary"},
     list_suppression_rules |-> {"src_ip", "dst_ip", "attack_type", "reason"},
     list_incidents |-> {"title", "description", "assigned_to"}]
Fields == UNION {Views[v] : v \in DOMAIN Views}

MaxLen(f) ==
    TextBounds[CASE f \in {"src_ip", "dst_ip", "ja3_hash"} -> "malformed"
                 [] f \in {"attack_type", "triggered_rules", "assigned_to"} -> "label"
                 [] f = "title" -> "title" [] f = "ja3_string" -> "ja3" [] f = "summary" -> "summary"
                 [] OTHER -> "free"]

Scrub(f, text) ==
    CASE f \in {"src_ip", "dst_ip"} -> ScrubIp(text)
      [] f = "ja3_hash" -> ScrubHash(text)
      [] f = "ja3_string" -> ScrubJa3(text)
      [] OTHER -> ScrubText(text, MaxLen(f))

VARIABLES
    texts,   \* the stored texts, by field
    shown,   \* the last answer: view, texts, fields named as untrusted
    asked    \* the last address asked about, and whether its alerts were looked for

textVars == <<texts, shown, asked>>

Nothing == [view |-> "none"]

(* One field may hold anything, the others are ordinary or absent. *)
Init ==
    /\ \E f \in Fields, t \in AlertTexts, rest \in {Absent, CHOOSE a \in DOMAIN IpForms : IpForms[a] = a} :
           texts = [g \in Fields |-> IF g = f THEN t ELSE rest]
    /\ shown = Nothing /\ asked = Nothing

(* tag_untrusted: what is present is named. *)
Untrusted(view, out) ==
    LET named == CASE view \in {"list_alerts", "get_alert"} -> AlertFields [] view = "get_ip_profile" -> {"src_ip"} [] OTHER -> {}
    IN  {f \in named \cap DOMAIN out : out[f] # Absent}

(* The profile is of an address that was asked for, and so well-formed. *)
Answer(view) ==
    LET out == [f \in Views[view] |-> IF f \in AsStored(view) THEN texts[f] ELSE Scrub(f, texts[f])]
    IN  /\ view = "get_ip_profile" => texts["src_ip"] \in DOMAIN IpForms
        /\ shown' = [view |-> view, texts |-> out, untrusted |-> Untrusted(view, out)]
        /\ UNCHANGED <<texts, asked>>

(* _validate_ip, then the alerts of exactly that text. *)
Ask(text) ==
    /\ asked' = [view |-> "asked", text |-> text, refused |-> Stripped(text) \notin DOMAIN IpForms,
                 found |-> Stripped(text) = texts["src_ip"]]
    /\ UNCHANGED <<texts, shown>>

Next == (\E v \in DOMAIN Views : shown = asked /\ Answer(v)) \/ (\E t \in AskedTexts : shown = asked /\ Ask(t))

Spec == Init /\ [][Next]_textVars

-----------------------------------------------------------------------------

Tags == {MalformedIp, MalformedHash, OtherJa3}
Body(t) == IF t # <<>> /\ Head(t) \in Tags THEN Tail(t) ELSE t

(***************************************************************************)
(* Of the texts that pass a scrubber (not the rules and matches of         *)
(* AsStored, which are shown as they are): no control character, angle     *)
(* bracket or code fence is shown, whatever the replacements before it     *)
(* left; nothing but canonical values goes on beyond its bound; an         *)
(* address, hash or JA3 string that is none is marked; a text with nothing *)
(* to remove is shown as it is; and exactly the texts of an alert that are *)
(* shown are named as untrusted.                                           *)
(***************************************************************************)
ShownTextIsNeutral ==
    shown # Nothing => \A f \in DOMAIN shown.texts \ AsStored(shown.view) :
        LET t    == shown.texts[f]
            kept == Body(t)
        IN  /\ ToSet(kept) \cap (Control \cup {"<", ">"}) = {}
            /\ ~\E i \in DOMAIN kept : i + 2 <= Len(kept) /\ \A j \in i..i + 2 : kept[j] = "tick"
            /\ Len(kept) <= MaxLen(f) + 1 \/ kept \in Canonical
            /\ t = Absent <=> texts[f] = Absent
            /\ f \in {"src_ip", "dst_ip"} /\ t = kept /\ t # Absent => \E a \in DOMAIN IpForms : t = IpForms[a]
            /\ f \in {"reason", "notes"} /\ Len(texts[f]) <= MaxLen(f) /\ ToSet(texts[f]) \subseteq {"a", " "} => t = texts[f]
            /\ shown.view \in {"list_alerts", "get_alert"} => (f \in shown.untrusted <=> t # Absent)

(***************************************************************************)
(* A question about a host finds its alerts or is refused, so that an      *)
(* empty answer is an all-clear: except when the address is spelled in     *)
(* another form than the one alerts are stored with.                       *)
(***************************************************************************)
NoFalseAllClear ==
    asked # Nothing =>
        LET text == Stripped(asked.text)
        IN  IF text \notin DOMAIN IpForms THEN asked.refused
            ELSE ~asked.refused /\ (IpForms[text] = texts["src_ip"] => asked.found \/ text # IpForms[text])
=============================================================================
