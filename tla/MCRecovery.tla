----------------------------- MODULE MCRecovery -----------------------------
(* The messages of the recovery run. *)
EXTENDS Recovery

MCMonthOf == [day \in Days |-> day]

\* One device has an IPv4 address, the other an IPv6 address.
MCAddress ==
    [d \in Devices |-> IF d = 1 THEN <<"1", ".", "1">> ELSE <<"1", ":", ":", "1">>]

MCCutAt == {InStamp, 4}

Regular ==
    {Message5424(34, <<"a">>, <<"-">>, data, msg) :
        data \in StructuredData, msg \in {<<>>, <<"[", "a", "nl">>}}
    \cup {Message5424(191, host, tag, <<"-">>, <<"sp", "a">>) :
        host, tag \in {<<"-">>, <<"a", "1">>}}
    \cup {Message3164(pri, <<"a">>, tag, pid, msg) :
        pri \in {0, 191}, tag \in {<<"-", "q">>},
        pid \in {<<>>, <<"[", "1", "1", "]">>},
        msg \in {<<>>, <<"a", ":">>, <<"a", "nl", "a">>}}

\* Regular texts with one character too many, too few, or another.
Spoilt ==
    LET header == <<"1", "sp", "a", "sp", "a", "sp", "a", "sp", "a", "sp", "-", "sp">>
        old == <<"stamp", "sp", "a", "sp">>
    IN {Junk(pri, text) : pri \in {NoPri, 34, 192},
            text \in {<<>>, <<"a", "nl">>, <<"nl">>, header, old,
                      header \o <<"[", "a">>, header \o <<"[", "]", "[">>,
                      header \o <<"-", "nl", "a">>, header \o <<"a", "q">>,
                      header \o <<"[", "]", "nl", "a">>, header \o <<"[", "]", "a", "a">>,
                      header \o <<"[", "q", "]", "sp", "esc">>,
                      [header EXCEPT ![6] = "nl"] \o <<"-", "sp", "a">>,
                      [header EXCEPT ![4] = "bad"],
                      old \o <<"a", "a", "a", "a", ":">>,
                      old \o <<"a", "[", "a", "]", ":">>,
                      old \o <<"a", "[", "1", "]", "a">>,
                      old \o <<"a", ":", "nl", "nl">>,
                      old \o <<"bad", "bad", ":", "a">>}}

\* What makes a difference to a line or to its row, once each.
Few == {Message3164(13, <<"a">>, <<"a">>, <<>>, <<"a">>),
        Message3164(13, <<"a">>, <<"a">>, <<>>, <<"nl", "a">>),
        Junk(NoPri, <<>>)}

Ordinary == Message3164(34, <<"a">>, <<"-">>, <<>>, <<"1">>)

Comes(d, day, m) == [device |-> d, day |-> day, is |-> m]

\* Any text alone; one of the few and another message in its file, or after one
\* of the other device in its month or the month before; three lines of a file.
MCCorpus ==
    {<<Comes(1, 1, m)>> : m \in Regular \cup Spoilt}
    \cup {<<Comes(1, 1, m), Comes(1, 1, Ordinary)>> : m \in Few}
    \cup {<<Comes(2, 1, Ordinary), Comes(1, day, Ordinary)>> : day \in Days}
    \cup {<<Comes(1, 1, Ordinary), Comes(1, 1, Ordinary), Comes(1, 1, Ordinary)>>}
=============================================================================
