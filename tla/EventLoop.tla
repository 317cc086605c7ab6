----------------------------- MODULE EventLoop -----------------------------
(***************************************************************************)
(* server_run and its handlers: one thread that waits for ready sockets,   *)
(* accepts, reads, parses, executes, answers and closes, one system call   *)
(* or one command per step, while clients and the network go on.           *)
(*                                                                         *)
(* The loop does not look into what it sends: a unit of a write buffer is  *)
(* a whole reply.  Only the connection commands are executed here, every   *)
(* other name answers "unknown" (the keyspace commands are Keyspace's).    *)
(* A client writes segments, of one byte where their grouping matters.  An *)
(* epoll event that is readable and writable is two events here, as it is  *)
(* for kqueue, and events are handled in any order.  There are fewer than  *)
(* MAX_EVENTS sockets.                                                     *)
(***************************************************************************)
EXTENDS Resp, Replies, FiniteSets

CONSTANTS
    Conns,          \* connections, one per client
    FDs,            \* the descriptors accept may return
    Nil,            \* no client, no connection
    RecvMax,        \* bytes one recv may return (4096)
    Room,           \* replies the kernel holds between send and the reader
    MaxSignals,     \* SIGCHLDs that may hit between a failed call and errno
    Scenarios       \* what the clients send (see script)

ASSUME Bounds == /\ FDs \subseteq Nat \ {0} /\ Nil \notin Conns
                 /\ RecvMax \in Nat \ {0} /\ Room \in Nat \ {0}
                 /\ MaxSignals \in Nat

VARIABLES
    \* the server
    pc,             \* "wait", "next", "recv", "parse", "send" or dead
    cur,            \* the descriptor the handler works on
    batch,          \* events epoll_wait returned and not yet handled
    clients,        \* descriptors with a Client in s->clients
    rbuf, wbuf,     \* their read_buf and write_buf, empty for others
    \* the kernel
    want,           \* descriptors registered for EPOLLOUT
    sock,           \* open descriptors -> connection
    backlog,        \* connections to be accepted
    \* the clients
    peer,           \* connection -> its client's side
    \* history
    script,         \* who connects in this scenario -> what it sends
    executed,       \* connection -> commands dispatched for it
    signals         \* errno values lost to the SIGCHLD handler

buffers == <<clients, rbuf, wbuf>>
server == <<pc, cur, batch, buffers, want>>
history == <<script, executed, signals>>
vars == <<server, sock, backlog, peer, history>>

Open == {fd \in FDs : sock[fd] # Nil}

\* st: "new", "open" or "gone" (closed its socket); wire: bytes on the way to
\* the server; inbox: replies on the way to the client; fin, rst: it shut down
\* its side, its kernel answers with a reset; hup: the server closed.
NewPeer == [st |-> "new", sent |-> 0, wire |-> << >>, fin |-> FALSE,
            rst |-> FALSE, inbox |-> << >>, got |-> << >>, hup |-> FALSE]

Init ==
    /\ pc = "wait" /\ cur = Nil /\ batch = {}
    /\ clients = {} /\ want = {}
    /\ rbuf = [fd \in FDs |-> << >>] /\ wbuf = [fd \in FDs |-> << >>]
    /\ sock = [fd \in FDs |-> Nil] /\ backlog = << >>
    /\ peer = [c \in Conns |-> NewPeer]
    /\ script \in Scenarios
    /\ executed = [c \in Conns |-> << >>]
    /\ signals = 0

-----------------------------------------------------------------------------
(* Connection commands *)

Lower == [b \in {"PING", "ECHO", "QUIT", "SELECT"} |->
             CASE b = "PING" -> "ping" [] b = "ECHO" -> "echo"
               [] b = "QUIT" -> "quit" [] b = "SELECT" -> "select"]
CommandName(args) == [i \in DOMAIN args[1] |->
    IF args[1][i] \in DOMAIN Lower THEN Lower[args[1][i]] ELSE args[1][i]]

\* dispatch_command with ping, echo, select and quit.
Answer(args) ==
    LET name == CommandName(args)
    IN  CASE name = <<"ping">> -> IF Len(args) = 1 THEN Simple("PONG")
                                  ELSE Bulk(args[2])
          [] name = <<"echo">> -> IF Len(args) < 2 THEN Simple("wrong number")
                                  ELSE Bulk(args[2])
          [] name \in {<<"select">>, <<"quit">>} -> OK
          [] OTHER -> Reply("unknown", 0, <<name>>, {})
Closing(args) == CommandName(args) = <<"quit">>
Answers(cmds) == [i \in DOMAIN cmds |-> Answer(cmds[i])]

-----------------------------------------------------------------------------
(* Waiting and accepting *)

Listening == <<0, "r">>        \* 0 stands for listen_fd
Readable(c) == peer[c].wire # << >> \/ peer[c].fin \/ peer[c].rst
Writable(c) == Len(peer[c].inbox) < Room \/ peer[c].rst
Ready == {<<fd, "r">> : fd \in {f \in Open : Readable(sock[f])}}
    \cup {<<fd, "w">> : fd \in {f \in Open \cap want : Writable(sock[f])}}
    \cup (IF backlog # << >> THEN {Listening} ELSE {})

EventWait ==
    /\ pc = "wait" /\ Ready # {}
    /\ batch' = Ready /\ pc' = "next"
    /\ UNCHANGED <<cur, buffers, want, sock, backlog, peer, history>>

EndOfBatch ==
    /\ pc = "next" /\ batch = {}
    /\ pc' = "wait"
    /\ UNCHANGED <<cur, batch, buffers, want, sock, backlog, peer, history>>

\* Client::Client.
NewClient(fd) == /\ clients' = clients \cup {fd}
                 /\ rbuf' = [rbuf EXCEPT ![fd] = << >>]
                 /\ wbuf' = [wbuf EXCEPT ![fd] = << >>]

\* handle_accept: the lowest free descriptor, or EMFILE and the connection
\* stays in the backlog.
HandleAccept ==
    /\ pc = "next" /\ Listening \in batch
    /\ batch' = batch \ {Listening}
    /\ \/ /\ backlog = << >> \/ Open = FDs
          /\ UNCHANGED <<buffers, sock, backlog>>
       \/ /\ backlog # << >>
          /\ \E fd \in FDs \ Open :
                /\ \A other \in FDs \ Open : fd <= other
                /\ NewClient(fd)
                /\ sock' = [sock EXCEPT ![fd] = Head(backlog)]
                /\ backlog' = Tail(backlog)
    /\ UNCHANGED <<pc, cur, want, peer, history>>

\* The next event goes to its handler; handle_write is called for clients
\* that are still there.
NextEvent(fd) ==
    /\ pc = "next"
    /\ \/ /\ <<fd, "r">> \in batch /\ batch' = batch \ {<<fd, "r">>}
          /\ pc' = "recv" /\ cur' = fd
       \/ /\ <<fd, "w">> \in batch /\ batch' = batch \ {<<fd, "w">>}
          /\ IF fd \notin clients THEN UNCHANGED <<pc, cur>>
             ELSE pc' = "send" /\ cur' = fd
    /\ UNCHANGED <<buffers, want, sock, backlog, peer, history>>

-----------------------------------------------------------------------------
(* Closing *)

\* The handler returns to the loop over the events.
Return == pc' = "next" /\ cur' = Nil

\* The server's side of c is closed.  If bytes of c were never received the
\* kernel resets the connection and replies on their way may be lost.
HungUp(c) ==
    LET p == [peer[c] EXCEPT !.hup = TRUE, !.wire = << >>]
    IN  {p} \cup (IF peer[c].wire = << >> THEN {}
                  ELSE {[p EXCEPT !.inbox = << >>]})

\* ~Client: whatever is in the two buffers is lost.
DropClient(fd) == /\ clients' = clients \ {fd}
                  /\ rbuf' = [rbuf EXCEPT ![fd] = << >>]
                  /\ wbuf' = [wbuf EXCEPT ![fd] = << >>]

\* BUG: the client goes, its descriptor stays open.
CloseLeaksDescriptor(fd) ==
    /\ DropClient(fd)
    /\ want' = want \ {fd}
    /\ Return
    /\ UNCHANGED <<batch, sock, peer, backlog, script>>

\* client_close.
Close(fd) ==
    /\ DropClient(fd)
    /\ want' = want \ {fd}
    /\ Return
    /\ sock' = [sock EXCEPT ![fd] = Nil]
    /\ IF sock[fd] = Nil THEN UNCHANGED peer
       ELSE \E p \in HungUp(sock[fd]) : peer' = [peer EXCEPT ![sock[fd]] = p]
    /\ UNCHANGED <<batch, backlog, script>>

\* The SIGCHLD handler runs between a call that failed with EAGAIN and the
\* look at errno, which then holds waitpid's ECHILD: the client is closed.
Unlucky(fd) == /\ signals < MaxSignals /\ signals' = signals + 1
               /\ Close(fd) /\ UNCHANGED executed

-----------------------------------------------------------------------------
(* handle_read *)

\* recv gets bytes.  (A client that was null would be dereferenced.)
RecvBytes ==
    LET c == sock[cur]
        n == Min({RecvMax, Len(peer[c].wire)})
    IN  /\ pc = "recv" /\ c # Nil /\ peer[c].wire # << >>
        /\ IF cur \notin clients THEN pc' = "crashed" /\ UNCHANGED rbuf
           ELSE /\ rbuf' = [rbuf EXCEPT ![cur] = @ \o SubSeq(peer[c].wire, 1, n)]
                /\ UNCHANGED pc
        /\ peer' = [peer EXCEPT ![c].wire = SubSeq(@, n + 1, Len(@))]
        /\ UNCHANGED <<cur, batch, clients, wbuf, want, sock, backlog, history>>

\* BUG: the end of the stream is taken for an empty read.
RecvEndIgnored ==
    LET c == sock[cur]
    IN  /\ pc = "recv"
        /\ c # Nil => peer[c].wire = << >> /\ (peer[c].fin \/ peer[c].rst)
        /\ pc' = "parse"
        /\ UNCHANGED <<cur, batch, buffers, want, sock, backlog, peer, history>>

\* recv returns 0 or fails (ECONNRESET; EBADF on a stale event): commands
\* received in this very loop are never looked at.
RecvEnd ==
    LET c == sock[cur]
    IN  /\ pc = "recv"
        /\ c # Nil => peer[c].wire = << >> /\ (peer[c].fin \/ peer[c].rst)
        /\ Close(cur) /\ UNCHANGED <<executed, signals>>

\* EAGAIN: everything that has arrived is in the read buffer.
RecvAgain ==
    LET c == sock[cur]
    IN  /\ pc = "recv" /\ c # Nil
        /\ peer[c].wire = << >> /\ ~peer[c].fin /\ ~peer[c].rst
        /\ \/ /\ pc' = IF cur \notin clients THEN "crashed" ELSE "parse"
              /\ UNCHANGED <<cur, batch, buffers, want, sock, backlog, peer, history>>
           \/ Unlucky(cur)

\* BUG: one command per readiness event.
ExecuteOnlyOne(r) ==
    /\ pc = "parse" /\ r.status = "OK" /\ ~Closing(r.args)
    /\ rbuf' = [rbuf EXCEPT ![cur] = SubSeq(@, r.next, Len(@))]
    /\ wbuf' = [wbuf EXCEPT ![cur] = Append(@, Answer(r.args))]
    /\ want' = want \cup {cur} /\ Return
    /\ executed' = [executed EXCEPT ![sock[cur]] = Append(@, r.args)]
    /\ UNCHANGED <<batch, clients, sock, backlog, peer, script, signals>>

\* A whole command: dispatched, answered into the buffer, erased.
Execute(r) ==
    /\ pc = "parse" /\ r.status = "OK" /\ ~Closing(r.args)
    /\ rbuf' = [rbuf EXCEPT ![cur] = SubSeq(@, r.next, Len(@))]
    /\ wbuf' = [wbuf EXCEPT ![cur] = Append(@, Answer(r.args))]
    /\ executed' = [executed EXCEPT ![sock[cur]] = Append(@, r.args)]
    /\ UNCHANGED <<pc, cur, batch, clients, want, sock, backlog, peer, script,
                   signals>>

\* QUIT: its OK and every other answer still in the buffer go with the client.
ExecuteQuit(r) ==
    /\ pc = "parse" /\ r.status = "OK" /\ Closing(r.args)
    /\ executed' = [executed EXCEPT ![sock[cur]] = Append(@, r.args)]
    /\ Close(cur) /\ UNCHANGED signals

\* A protocol error: so does its error message.
Reject(r) == /\ pc = "parse" /\ r.status = "ERROR"
             /\ Close(cur) /\ UNCHANGED <<executed, signals>>

\* No whole command is left; answers wait for a write event.
ReadDone(r) ==
    /\ pc = "parse" /\ r.status = "INCOMPLETE"
    /\ want' = IF wbuf[cur] # << >> THEN want \cup {cur} ELSE want
    /\ Return
    /\ UNCHANGED <<batch, buffers, sock, backlog, peer, history>>

Parse == /\ pc = "parse"
         /\ \E r \in {RespParse(rbuf[cur])} :
               Execute(r) \/ ExecuteQuit(r) \/ Reject(r) \/ ReadDone(r)
HandleRead == RecvBytes \/ RecvEnd \/ RecvAgain \/ Parse

-----------------------------------------------------------------------------
(* handle_write *)

Sending == pc = "send" /\ wbuf[cur] # << >>

\* BUG: a partial send is taken for a full one.
SendForgetsRest ==
    LET c == sock[cur]
        n == Min({Room - Len(peer[c].inbox), Len(wbuf[cur])})
    IN  /\ Sending /\ ~peer[c].rst /\ n > 0
        /\ wbuf' = [wbuf EXCEPT ![cur] = << >>]
        /\ peer' = [peer EXCEPT ![c].inbox = @ \o SubSeq(wbuf[cur], 1, n)]
        /\ UNCHANGED <<pc, cur, batch, clients, rbuf, want, sock, backlog, history>>

\* BUG: the socket is a blocking one and send takes everything.
SendAll ==
    LET c == sock[cur]
    IN  /\ Sending /\ ~peer[c].rst
        /\ wbuf' = [wbuf EXCEPT ![cur] = << >>]
        /\ peer' = [peer EXCEPT ![c].inbox = @ \o wbuf[cur]]
        /\ UNCHANGED <<pc, cur, batch, clients, rbuf, want, sock, backlog, history>>

\* send takes what there is room for, whether or not the client still reads.
SendSome ==
    LET c == sock[cur]
        n == Min({Room - Len(peer[c].inbox), Len(wbuf[cur])})
    IN  /\ Sending /\ ~peer[c].rst /\ n > 0
        /\ wbuf' = [wbuf EXCEPT ![cur] = SubSeq(@, n + 1, Len(@))]
        /\ peer' = [peer EXCEPT ![c].inbox = @ \o SubSeq(wbuf[cur], 1, n)]
        /\ UNCHANGED <<pc, cur, batch, clients, rbuf, want, sock, backlog, history>>

\* BUG: a full socket ends the interest in writing.
SendAgainDisarms ==
    LET c == sock[cur]
    IN  /\ Sending /\ ~peer[c].rst /\ Len(peer[c].inbox) = Room
        /\ Return /\ want' = want \ {cur}
        /\ UNCHANGED <<batch, buffers, sock, backlog, peer, history>>

\* EAGAIN: the rest waits for the next write event.
SendAgain ==
    LET c == sock[cur]
    IN  /\ Sending /\ ~peer[c].rst /\ Len(peer[c].inbox) = Room
        /\ \/ /\ Return
              /\ UNCHANGED <<batch, buffers, want, sock, backlog, peer, history>>
           \/ Unlucky(cur)

\* After a reset send fails with ECONNRESET; if the client had shut down its
\* side before, with EPIPE, and SIGPIPE, which nobody handles, ends the server.
SendFails ==
    /\ Sending /\ peer[sock[cur]].rst
    /\ IF peer[sock[cur]].fin
       THEN /\ pc' = "killed"
            /\ UNCHANGED <<cur, batch, buffers, want, sock, backlog, peer, script>>
       ELSE Close(cur)
    /\ UNCHANGED <<executed, signals>>

WriteDone ==
    /\ pc = "send" /\ wbuf[cur] = << >>
    /\ want' = want \ {cur} /\ Return
    /\ UNCHANGED <<batch, buffers, sock, backlog, peer, history>>

HandleWrite == SendSome \/ SendAgain \/ SendFails \/ WriteDone

Server == \/ EventWait \/ EndOfBatch \/ HandleAccept
          \/ \E fd \in FDs : NextEvent(fd)
          \/ HandleRead \/ HandleWrite

-----------------------------------------------------------------------------
(* Clients and their kernels *)

ClientStep(c, p) ==
    /\ peer' = [peer EXCEPT ![c] = p]
    /\ UNCHANGED <<server, sock, history>>

Connect(c) ==
    /\ c \in DOMAIN script /\ peer[c].st = "new"
    /\ backlog' = Append(backlog, c)
    /\ ClientStep(c, [peer[c] EXCEPT !.st = "open"])

SendSegment(c) ==
    LET p == peer[c]
    IN  /\ p.st = "open" /\ ~p.fin /\ ~p.hup
        /\ p.sent < Len(script[c].segments)
        /\ ClientStep(c, [p EXCEPT !.sent = @ + 1,
                              !.wire = @ \o script[c].segments[p.sent + 1]])
        /\ UNCHANGED backlog

ReadReply(c) ==
    LET p == peer[c]
    IN  /\ p.st = "open" /\ p.inbox # << >>
        /\ ClientStep(c, [p EXCEPT !.got = Append(@, Head(p.inbox)),
                                   !.inbox = Tail(@)])
        /\ UNCHANGED backlog

\* shutdown(SHUT_WR): the client has no more to say.
ShutDown(c) ==
    LET p == peer[c]
    IN  /\ p.st = "open" /\ ~script[c].stays /\ ~p.fin /\ ~p.hup
        /\ ClientStep(c, [p EXCEPT !.fin = TRUE])
        /\ UNCHANGED backlog

\* close: unread replies make it a reset.  What the client knew goes with it.
Leave(c) ==
    LET p == peer[c]
    IN  /\ p.st = "open" /\ ~script[c].stays
        /\ ClientStep(c, [NewPeer EXCEPT !.st = "gone", !.wire = p.wire,
                              !.hup = p.hup, !.fin = p.fin \/ p.inbox = << >>,
                              !.rst = p.inbox # << >>])
        /\ UNCHANGED backlog

\* A reply reaches a socket that is closed: it is answered with a reset.
Refuse(c) ==
    LET p == peer[c]
    IN  /\ p.st = "gone" /\ p.inbox # << >>
        /\ ClientStep(c, [p EXCEPT !.rst = TRUE, !.inbox = << >>])
        /\ UNCHANGED backlog

Client(c) == Connect(c) \/ SendSegment(c) \/ ReadReply(c) \/ ShutDown(c)
             \/ Leave(c) \/ Refuse(c)

Next == Server \/ \E c \in Conns : Client(c)

\* The server's thread runs; clients that have something to say or to read go
\* on saying and reading it.
Spec == /\ Init /\ [][Next]_vars
        /\ WF_vars(Server)
        /\ WF_vars(\E c \in Conns : SendSegment(c) \/ ReadReply(c))

-----------------------------------------------------------------------------
(* Properties *)

Attached(c) == \E fd \in FDs : sock[fd] = c
FdOf(c) == CHOOSE fd \in FDs : sock[fd] = c
Dead == pc \in {"killed", "crashed"}

\* The types of the variables; descriptors of interest are open ones.
TypeOK ==
    /\ pc \in {"wait", "next", "recv", "parse", "send", "killed", "crashed"}
    /\ cur \in FDs \cup {Nil} /\ want \subseteq FDs
    /\ batch \subseteq (FDs \X {"r", "w"}) \cup {Listening}
    /\ sock \in [FDs -> Conns \cup {Nil}]
    /\ clients \subseteq FDs
    /\ DOMAIN rbuf = FDs /\ DOMAIN wbuf = FDs
    /\ \A c \in Conns : peer[c].st \in {"new", "open", "gone"}
    /\ \A c \in Conns : Len(peer[c].inbox) <= Room
    /\ signals \in 0 .. MaxSignals

\* However its bytes were cut up on the way, and whatever other clients did,
\* what the server has executed for a client is an initial part of the
\* commands it sent, each with the arguments it had.
ExecutedInOrder == \A c \in DOMAIN script : IsPrefix(executed[c], script[c].cmds)

\* A client is answered its own commands, once each and in their order, also
\* when a descriptor is used again; nothing is lost while it is connected.
RepliesInOrder ==
    \A c \in Conns :
        LET all == Answers(executed[c])
            out == peer[c].got \o peer[c].inbox
                   \o (IF Attached(c) THEN wbuf[FdOf(c)] ELSE << >>)
        IN  /\ IsPrefix(peer[c].got, all)
            /\ Attached(c) /\ peer[c].st = "open" => out = all

\* s->clients, the open descriptors and the interest set agree, and no handler
\* meets a null client: the three are changed by different calls.
ClientsAreOpen ==
    /\ pc # "crashed"
    /\ clients = Open
    /\ want \subseteq Open
    /\ \A fd, gd \in Open : sock[fd] = sock[gd] => fd = gd

\* When the server goes to sleep nothing is left undone that no event will
\* bring up again: no whole command (or error) is in a read buffer, and the
\* sockets with answers left are exactly those whose room will wake it.
NothingForgotten ==
    pc = "wait" => \A fd \in Open :
        /\ RespParse(rbuf[fd]).status = "INCOMPLETE"
        /\ (fd \in want) <=> (wbuf[fd] # << >>)

\* A connected client that stays and whose commands are well formed and do not
\* include QUIT gets all its answers, unless the server died or a signal cost
\* some client its connection.
Polite(c) == c \in DOMAIN script /\ script[c].stays /\ script[c].clean
Answered ==
    \A c \in Conns : Polite(c) /\ Attached(c)
        ~> (\/ Polite(c) /\ peer[c].got = Answers(script[c].cmds)
            \/ Dead \/ signals > 0)

\* The descriptor of a client that has left or shut down its side is closed.
Released ==
    \A c \in Conns : Attached(c) /\ (peer[c].fin \/ peer[c].rst)
        ~> (~Attached(c) \/ Dead)

\* The README's "QUIT: close the connection, OK": a client that stays and has
\* read all there was when the server closed has the answer to its QUIT.
QuitAnswered ==
    \A c \in DOMAIN script :
        LET p == peer[c]
            quits == executed[c] # << >> /\ Closing(Last(executed[c]))
        IN  p.hup /\ p.inbox = << >> /\ script[c].stays /\ quits
                => p.got = Answers(executed[c])
=============================================================================
