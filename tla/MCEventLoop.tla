---------------------------- MODULE MCEventLoop ----------------------------
(* What the clients of the small instances send. *)
EXTENDS EventLoop

CONSTANTS c1, c2, c3

Sends(segments, cmds, stays, clean) ==
    [segments |-> segments, cmds |-> cmds, stays |-> stays, clean |-> clean]
Bytewise(bytes) == [i \in DOMAIN bytes |-> <<bytes[i]>>]

Ping  == <<<<"PING">>>>
Quit  == <<<<"QUIT">>>>
Echo(word) == <<<<"echo">>, word>>
Inline(word) == <<word>> \o CRLF

\* Byte by byte: arrays with an argument that holds a CR LF, an empty one and
\* an unknown name, then an inline command with more blanks than it needs.
Arrays == <<Echo(CRLF), <<<<"x">>, << >>>>>>
LongTalk(stays) ==
    Sends(Bytewise(FlattenSeq([i \in 1 .. 2 |-> RespArray(Arrays[i])])
                   \o <<" ", "ECHO", " ", " ", "x">> \o CRLF),
          Arrays \o <<<<<<"ECHO">>, <<"x">>>>>>, stays, TRUE)

\* Byte by byte: a command, then bytes that are no command.
Garbled(stays) ==
    Sends(Bytewise(Inline("PING") \o <<"*", "0">> \o CRLF), <<Ping>>, stays, FALSE)

Pings(n, stays) ==
    Sends([i \in 1 .. n |-> Inline("PING")], [i \in 1 .. n |-> Ping], stays, TRUE)
PingQuit(stays) ==
    Sends(<<Inline("PING"), Inline("QUIT")>>, <<Ping, Quit>>, stays, FALSE)

\* One client bytewise; two at a time, one of them leaving; three on two
\* descriptors, the first one holding its own for good.
MCTalks ==
    {[c \in {c1} |-> talk] : talk \in {LongTalk(TRUE), Garbled(TRUE), Garbled(FALSE)}}
    \cup {[c \in {c1, c2} |-> IF c = c1 THEN Pings(2, TRUE) ELSE PingQuit(FALSE)],
          [c \in Conns |-> IF c = c2 THEN Pings(2, FALSE)
                           ELSE Pings(IF c = c1 THEN 0 ELSE 1, TRUE)]}

MCQuit == {[c \in {c1} |-> PingQuit(TRUE)]}
=============================================================================
