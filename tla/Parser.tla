------------------------------- MODULE Parser -------------------------------
(***************************************************************************)
(* parse_syslog() of sylo/parser.py and to_line() of                       *)
(* sylo/receiver/envelope.py.                                              *)
(*                                                                         *)
(* A payload is [pri, text]: the number between < and > at its start, or   *)
(* NoPri, and the characters that follow.  A character is "a" (a letter),  *)
(* "1" (a digit), one of the punctuation marks the parser looks for, or    *)
(*   "sp"     a space            "nl"     a line feed or carriage return   *)
(*   "q"      a quotation mark   "esc"    a backslash                      *)
(*   "stamp"  a whole RFC 3164 timestamp, only at the start of a text      *)
(*   "bad"    a byte that is not UTF-8                                     *)
(*   "fffd"   the replacement character, three bytes long                  *)
(* Other spaces (tabs) are left out.  The regular expressions have only    *)
(* one way to match, so they are read from left to right.                  *)
(*                                                                         *)
(* Definitions whose names begin with Bad are faulty variants, used only   *)
(* to see properties of module Recovery fail.                              *)
(***************************************************************************)
EXTENDS Integers, Sequences, SequencesExt

CONSTANT TagMax     \* longest RFC 3164 tag, in bytes

NoPri == -1
None == <<"none">>

Chars == {"a", "1", "-", ":", "[", "]", "q", "esc", "sp", "nl", "stamp", "bad",
          "fffd"}

IsSpace(c) == c \in {"sp", "nl"}

\* s from position i on, and the field from i to before j.
From(s, i) == SubSeq(s, i, Len(s))
Field(s, i, j) == SubSeq(s, i, j - 1)

\* The first position from i on whose character is in stops, or the one after
\* the last.
Find(s, i, stops) == Min({j \in i..Len(s) : s[j] \in stops} \cup {Len(s) + 1})

\* Faulty: drops whatever comes first.
BadDropSpace(s) == IF s # <<>> THEN Tail(s) ELSE s

DropSpace(s) == IF s # <<>> /\ Head(s) = "sp" THEN Tail(s) ELSE s

_decode(s) == [i \in DOMAIN s |-> IF s[i] = "bad" THEN "fffd" ELSE s[i]]

Bytes(s) == Len(s) + 2 * Cardinality({i \in DOMAIN s : s[i] = "fffd"})

-----------------------------------------------------------------------------
(***************************************************************************)
(* RFC 5424.                                                               *)
(***************************************************************************)

\* Where the SD-ELEMENT that i is inside ends: the position after its bracket,
\* or 0 if it does not end.
ElementEnd(s) ==
    LET end[i \in 1..(Len(s) + 2)] == [quoted \in BOOLEAN |->
            IF i > Len(s) THEN 0
            ELSE IF quoted
                 THEN IF s[i] = "esc" THEN end[i + 2][TRUE]
                                      ELSE end[i + 1][s[i] # "q"]
                 ELSE IF s[i] = "]" THEN i + 1 ELSE end[i + 1][s[i] = "q"]]
    IN end

\* Where the elements that begin at i end, or 0.
DataEnd(s) ==
    LET end[i \in 1..(Len(s) + 1)] ==
            IF i > Len(s) \/ s[i] # "[" THEN i
            ELSE LET j == ElementEnd(s)[i + 1][FALSE]
                 IN IF j = 0 THEN 0 ELSE end[j]
    IN end

\* Faulty: nothing but the first space ends the data.
Bad_split_structured_data(s) ==
    From(s, Min({Find(s, 1, {"sp"}), Len(s)}) + 1)

\* What follows the structured data; all of s if that is not well-formed.
_split_structured_data(s) ==
    CASE s = <<>> -> s
      [] s # <<>> /\ Head(s) = "-" -> DropSpace(Tail(s))
      [] s # <<>> /\ Head(s) # "-" ->
            IF Head(s) # "[" \/ DataEnd(s)[1] = 0
            THEN s
            ELSE DropSpace(From(s, DataEnd(s)[1]))

\* Where the k-th field after the version begins, or 0 if the header ends
\* before.
FieldStart(s) ==
    LET start[k \in 1..6] ==
            IF k = 1 THEN IF Len(s) >= 2 /\ s[1] = "1" /\ s[2] = "sp" THEN 3 ELSE 0
            ELSE LET i == start[k - 1]
                     j == Find(s, i, {"sp", "nl"})
                 IN IF i # 0 /\ j > i /\ j <= Len(s) /\ s[j] = "sp" THEN j + 1 ELSE 0
    IN start

Has5424Header(s) == FieldStart(s)[6] # 0

\* A field of the header; a hyphen stands for nothing.
Named(s) == IF s = <<"-">> THEN None ELSE _decode(s)

Fields5424(s) ==
    LET start == FieldStart(s)
    IN [host |-> Named(Field(s, start[2], start[3] - 1)),
        tag |-> Named(Field(s, start[3], start[4] - 1)),
        message |-> _decode(_split_structured_data(From(s, start[6])))]

-----------------------------------------------------------------------------
(***************************************************************************)
(* RFC 3164.                                                               *)
(***************************************************************************)

HostEnd(s) == Find(s, 3, {"sp", "nl"})

Has3164Header(s) ==
    /\ Len(s) >= 2
    /\ s[1] = "stamp"
    /\ IsSpace(s[2])
    /\ 3 < HostEnd(s)
    /\ HostEnd(s) <= Len(s)

TagEnd(s) == Find(s, 1, {":", "[", "sp", "nl"})

\* Where the colon after the tag, and after [pid] if there is one, must be.
Colon(s) ==
    LET i == TagEnd(s)
        j == Find(s, i + 1, Chars \ {"1"})
    IN IF i <= Len(s) /\ s[i] = "[" /\ j <= Len(s) /\ s[j] = "]" /\ j > i + 1
       THEN j + 1 ELSE i

HasTag(s) ==
    /\ Bytes(Field(s, 1, TagEnd(s))) \in 1..TagMax
    /\ Colon(s) <= Len(s)
    /\ s[Colon(s)] = ":"

\* What follows the colon, without one space of any kind.
AfterColon(s) ==
    LET rest == From(s, Colon(s) + 1)
    IN IF rest # <<>> /\ IsSpace(Head(rest)) THEN Tail(rest) ELSE rest

Fields3164(s) ==
    LET rest == From(s, HostEnd(s) + 1)
    IN [host |-> _decode(Field(s, 3, HostEnd(s))),
        tag |-> IF HasTag(rest) THEN _decode(Field(rest, 1, TagEnd(rest))) ELSE None,
        message |-> _decode(IF HasTag(rest) THEN AfterColon(rest) ELSE rest)]

-----------------------------------------------------------------------------
(***************************************************************************)
(* parse_syslog(), and the line of a message in its day file.              *)
(***************************************************************************)

\* A number above 191 is not a priority: < and > stay part of the message.
PriOk(pri) == pri # NoPri /\ pri <= 191

_parse_syslog(raw) ==
    LET s == raw.text
        header == raw.pri = NoPri \/ PriOk(raw.pri)
        fields == CASE header /\ Has5424Header(s) -> Fields5424(s)
                    [] header /\ ~Has5424Header(s) /\ Has3164Header(s) -> Fields3164(s)
                    [] OTHER -> [host |-> None, tag |-> None, message |-> _decode(s)]
    IN [facility |-> IF PriOk(raw.pri) THEN raw.pri \div 8 ELSE NoPri,
        severity |-> IF PriOk(raw.pri) THEN raw.pri % 8 ELSE NoPri,
        pri |-> IF header THEN NoPri ELSE raw.pri,
        host |-> fields.host,
        tag |-> fields.tag,
        message |-> fields.message,
        malformed |-> ~ /\ PriOk(raw.pri)
                        /\ Has5424Header(s) \/ Has3164Header(s)]

\* Faulty: only the end of the text is stripped of line breaks.
Bad_flatten(s) ==
    [i \in DOMAIN s |-> IF s[i] = "nl" /\ i = Len(s) THEN "sp" ELSE _decode(s)[i]]

\* to_line(): decoded, with line breaks as spaces.
_flatten(s) == [i \in DOMAIN s |-> IF s[i] = "nl" THEN "sp" ELSE _decode(s)[i]]

to_line(raw) == [raw EXCEPT !.text = _flatten(@)]
=============================================================================
