------------------------------- MODULE UrlParser -------------------------------
(* Utils::Network::UrlParser (Network/src/UrlParser.cpp). A URL is a sequence *)
(* of symbols: the two characters the parser looks for, and words, which      *)
(* stand for any text without them. "https" and the port numbers are words.   *)
EXTENDS Integers, Sequences, FiniteSetsExt

CONSTANT Words

ASSUME WordsAssumption == Words \cap {":", "/"} = {}

Symbols == Words \cup {":", "/"}

npos == 0

\* std::string::find: where `part` occurs first in `text`.
Find(text, part) ==
    LET at == {i \in 1..(Len(text) - Len(part) + 1) :
                   SubSeq(text, i, i + Len(part) - 1) = part}
    IN IF at = {} THEN npos ELSE Min(at)

Before(text, i) == SubSeq(text, 1, i - 1)
From(text, i) == SubSeq(text, i, Len(text))

Separator == <<":", "/", "/">>

\* The constructor throws.
Invalid == [protocol |-> <<>>, host |-> <<>>, port |-> <<>>, target |-> <<>>]

DefaultPort(protocol) == IF protocol = <<"https">> THEN <<"443">> ELSE <<"80">>

\* host and port: what precedes the first "/" is split at its first ":".
Split(protocol, authority, target) ==
    LET portStart == Find(authority, <<":">>)
    IN [protocol |-> protocol, target |-> target,
        host |-> IF portStart = npos THEN authority ELSE Before(authority, portStart),
        port |-> IF portStart = npos THEN DefaultPort(protocol)
                                     ELSE From(authority, portStart + 1)]

SlashLost(rest, hostEnd) == From(rest, hostEnd + 1)
Target(rest, hostEnd) == From(rest, hostEnd)

Parse(url) ==
    LET protocolEnd == Find(url, Separator)
        protocol == Before(url, protocolEnd)
        rest == From(url, protocolEnd + 3)
        hostEnd == Find(rest, <<"/">>)
    IN CASE protocolEnd = npos -> Invalid
         [] protocolEnd # npos /\ hostEnd = npos -> Split(protocol, rest, <<"/">>)
         [] OTHER -> Split(protocol, Before(rest, hostEnd), Target(rest, hostEnd))

-------------------------------------------------------------------------------
\* What a URL may be made of, read the other way: the texts that begin with the
\* parts in their order, where the port and the target may be left out.
Occurs(part, text) == Find(text, part) # npos

Spellings(parts) ==
    LET named == parts.protocol \o Separator \o parts.host
        ports == {<<":">> \o parts.port}
                    \cup (IF parts.port = DefaultPort(parts.protocol) THEN {<<>>} ELSE {})
        targets == {parts.target} \cup (IF parts.target = <<"/">> THEN {<<>>} ELSE {})
    IN {named \o port \o target : port \in ports, target \in targets}

\* The parts of a URL put together again give the URL; only a text without
\* "://" is refused. No part holds the character that ends it.
SplitsBack(url) ==
    LET parts == Parse(url)
    IN IF parts = Invalid THEN ~Occurs(Separator, url)
       ELSE /\ url \in Spellings(parts)
            /\ ~Occurs(Separator, parts.protocol \o <<":", "/">>)
            /\ ~Occurs(<<":">>, parts.host) /\ ~Occurs(<<"/">>, parts.host)
            /\ ~Occurs(<<"/">>, parts.port)
            /\ parts.target # <<>> /\ Head(parts.target) = "/"
===============================================================================
