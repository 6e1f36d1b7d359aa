------------------------------ MODULE SyslogText ------------------------------
(***************************************************************************)
(* What devices send: messages put together by the grammars of RFC 5424    *)
(* and RFC 3164, each with the fields its sender meant, and texts that     *)
(* follow no grammar.  This is the reference the parser is compared with;  *)
(* nothing here is code of the repository.                                 *)
(***************************************************************************)
EXTENDS Parser

\* The texts of at most two pieces.
UpToTwo(pieces) == {<<>>} \cup pieces \cup {p \o q : p, q \in pieces}

\* PARAM-VALUE: an escaped quotation mark, backslash or bracket, or any other
\* character but these.
ValuePieces == {<<"esc", "q">>, <<"esc", "esc">>, <<"esc", "]">>, <<"sp">>, <<"[">>}

Params == {<<"sp", "a", "q">> \o v \o <<"q">> : v \in UpToTwo(ValuePieces)}

Elements == {<<"[", "a">> \o p \o <<"]">> : p \in {<<>>} \cup Params}

\* STRUCTURED-DATA: nothing, one element, or one after another.
StructuredData ==
    {<<"-">>} \cup Elements
    \cup {<<"[", "a", "]", "[", "a", "sp", "a", "q">> \o v \o <<"q", "]">> :
              v \in ValuePieces}

Message5424(pri, host, tag, data, msg) ==
    [raw |-> [pri |-> pri,
              text |-> <<"1", "sp", "a", "sp">> \o host \o <<"sp">> \o tag
                       \o <<"sp", "a", "sp", "-", "sp">> \o data
                       \o (IF msg = <<>> THEN <<>> ELSE <<"sp">> \o msg)],
     host |-> IF host = <<"-">> THEN None ELSE host,
     tag |-> IF tag = <<"-">> THEN None ELSE tag,
     msg |-> msg]

Message3164(pri, host, tag, pid, msg) ==
    [raw |-> [pri |-> pri,
              text |-> <<"stamp", "sp">> \o host \o <<"sp">> \o tag \o pid
                       \o <<":", "sp">> \o msg],
     host |-> host, tag |-> tag, msg |-> msg]

\* A text whose sender meant nothing in particular.
Junk(pri, text) == [raw |-> [pri |-> pri, text |-> text]]

\* The fields a message should be read as.
Meant(m) ==
    [facility |-> m.raw.pri \div 8, severity |-> m.raw.pri % 8, pri |-> NoPri,
     host |-> m.host, tag |-> m.tag, message |-> m.msg, malformed |-> FALSE]
=============================================================================
