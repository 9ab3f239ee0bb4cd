----------------------------- MODULE MCProjection -----------------------------
(* Small instances of Projection for TLC. *)
EXTENDS Projection

CONSTANTS t1, tag, member, guest, weekdays

OneText     == {t1}
OneTag      == {tag}
OneMember   == {member}
OneStranger == {guest}
BothNatives == {Plain, weekdays}
OneAndTwo   == {1, 2}

(* Midnight where EventKit is, six hours behind UTC, and another time. *)
SixBehind == -6
Times     == {6, 9}

(* None, a simple rule, one with days, and two at once. *)
Recurrences ==
    LET days == [Simple("weekly") EXCEPT !.native = weekdays]
    IN  {{}, {Simple("daily")}, {days}, {Simple("daily"), days}}

(* What a user of HA writes: a text, with a prefix or without; keys with values
   of their own or emptied; keys in a mapping that does not decode.  Priority
   and notes, which the merge treats alike, come and go together. *)
Written ==
    [Assignee : {None, member, guest}, Tags : {{}, {tag}},
     Priority : {"None", "High"}, Notes : {NoNotes, [text |-> t1, padded |-> TRUE]},
     Frequency : {"once", "weekly", "other"}]

KeySets == {K \in SUBSET Keys : K # {} /\ ("Notes" \in K <=> "Priority" \in K)}

Descriptions ==
    {PlainText(NoNotes, "None")}
    \cup {PlainText([text |-> t1, padded |-> b], p) :
            b \in BOOLEAN, p \in {"None", "High"}}
    \cup {Typed(K, w, TRUE) : K \in KeySets,
            w \in {v \in Written : v.Notes = NoNotes <=> v.Priority = "None"}}
    \cup {Typed(K, Nothing, FALSE) : K \in KeySets}

(* Start: with notes, a priority and a tag; due at midnight, or never. *)
SmallInit ==
    /\ Init
    /\ rem.notes = [text |-> t1, padded |-> TRUE]
    /\ rem.prio = "High" /\ rem.tags = {tag} /\ rem.due # 9

SmallSpec == SmallInit /\ [][Next \/ UnreadPass]_vars
===============================================================================
