-------------------------- MODULE EventLoopProofs --------------------------
(***************************************************************************)
(* Proofs about the event loop, for any clients saying anything, any       *)
(* number of descriptors and any sizes of the kernel's buffers.            *)
(*                                                                         *)
(* The inductive invariant has four parts: the shape of the variables,     *)
(* the agreement of the loop's tables (Descriptors), the backlog (Queue)   *)
(* and the account of replies (Talk): while a client is connected, what it *)
(* has read, what is on the way and what is in its write buffer are, in    *)
(* this order, the answers to its commands; afterwards what it has read    *)
(* and what is on the way begin them.  Pending, proved on top of it, says  *)
(* of each descriptor what may be left undone there while a handler is at  *)
(* work.                                                                   *)
(***************************************************************************)
EXTENDS EventLoop, SequenceLemmas

PeerFields == {"st", "sent", "wire", "fin", "rst", "inbox", "got", "hup"}
Waiting(c) == \E i \in 1 .. Len(backlog) : backlog[i] = c

Shape ==
    /\ pc \in {"wait", "next", "recv", "parse", "send", "killed"}
    /\ cur \in FDs \cup {Nil}
    /\ batch \subseteq (FDs \X {"r", "w"}) \cup {Listening}
    /\ DOMAIN rbuf = FDs /\ DOMAIN wbuf = FDs
    /\ sock \in [FDs -> Conns \cup {Nil}]
    /\ DOMAIN peer = Conns /\ DOMAIN executed = Conns
    /\ \A c \in Conns : /\ DOMAIN peer[c] = PeerFields
                        /\ peer[c].st \in {"new", "open", "gone"}
    /\ signals \in 0 .. MaxSignals

Descriptors ==
    /\ clients = Open
    /\ want \subseteq Open
    /\ \A fd, gd \in Open : sock[fd] = sock[gd] => fd = gd
    /\ pc \in {"parse", "send"} => cur \in Open
    /\ pc = "recv" => cur \in FDs

Queue ==
    /\ backlog \in Seq(Conns)
    /\ \A i, j \in 1 .. Len(backlog) : backlog[i] = backlog[j] => i = j
    /\ \A c \in Conns : Waiting(c) => peer[c].st # "new" /\ ~Attached(c)
    /\ \A fd \in Open : peer[sock[fd]].st # "new"

\* What has left the server for c.
Out(c) == peer[c].got \o peer[c].inbox

TalkOf(c) ==
    /\ IsSeq(executed[c]) /\ IsSeq(peer[c].got) /\ IsSeq(peer[c].inbox)
    /\ Len(peer[c].inbox) <= Room
    /\ peer[c].st = "new" \/ Waiting(c) =>
          executed[c] = << >> /\ peer[c].got = << >> /\ peer[c].inbox = << >>
    /\ peer[c].st = "gone" => peer[c].got = << >>
    /\ peer[c].st = "open" => IsPrefix(Out(c), Answers(executed[c]))

TalkOn(fd) ==
    /\ IsSeq(wbuf[fd])
    /\ fd \in Open /\ peer[sock[fd]].st = "open" =>
          Out(sock[fd]) \o wbuf[fd] = Answers(executed[sock[fd]])

Talk == (\A c \in Conns : TalkOf(c)) /\ (\A fd \in FDs : TalkOn(fd))

Inv == Shape /\ Descriptors /\ Queue /\ Talk

-----------------------------------------------------------------------------
(* Answers *)

\* The answers to commands are as many, and one more command has one more.
LEMMA AnswersGrow ==
    ASSUME NEW cmds, NEW a, IsSeq(cmds)
    PROVE  /\ IsSeq(Answers(cmds)) /\ IsSeq(Append(cmds, a))
           /\ Answers(Append(cmds, a)) = Answers(cmds) \o <<Answer(a)>>
  <1> DEFINE S == Range(cmds) \cup {a}
             R == {Answer(x) : x \in S}
             new == Append(cmds, a)
  <1>1. cmds \in Seq(S) /\ a \in S
    BY SeqMonotonic DEF IsSeq
  <1>2. \A x \in S : Answer(x) \in R
    OBVIOUS
  <1> HIDE DEF S, R
  <1>3. ASSUME NEW s \in Seq(S)
        PROVE  /\ Answers(s) \in Seq(R) /\ Len(Answers(s)) = Len(s)
               /\ \A i \in 1 .. Len(s) : Answers(s)[i] = Answer(s[i])
    <2>1. Len(s) \in Nat /\ DOMAIN s = 1 .. Len(s)
          /\ \A i \in 1 .. Len(s) : s[i] \in S
      BY LenProperties, ElementOfSeq
    <2>2. Answers(s) \in [1 .. Len(s) -> R]
      BY <1>2, <2>1 DEF Answers
    <2>3. Answers(s) \in Seq(R) /\ Len(Answers(s)) = Len(s)
      BY <2>1, <2>2
    <2> QED
      BY <2>1, <2>3 DEF Answers
  <1>4. /\ new \in Seq(S) /\ Len(new) = Len(cmds) + 1 /\ Len(cmds) \in Nat
        /\ \A i \in 1 .. Len(cmds) : new[i] = cmds[i]
        /\ new[Len(cmds) + 1] = a
    BY <1>1, AppendProperties, LenProperties
  <1>5. /\ Answers(cmds) \in Seq(R) /\ Len(Answers(cmds)) = Len(cmds)
        /\ \A i \in 1 .. Len(cmds) : Answers(cmds)[i] = Answer(cmds[i])
    BY <1>1, <1>3
  <1>6. /\ Answers(new) \in Seq(R) /\ Len(Answers(new)) = Len(new)
        /\ \A i \in 1 .. Len(new) : Answers(new)[i] = Answer(new[i])
    BY <1>3, <1>4
  <1>7. /\ Append(Answers(cmds), Answer(a)) \in Seq(R)
        /\ Len(Append(Answers(cmds), Answer(a))) = Len(cmds) + 1
        /\ \A i \in 1 .. Len(cmds) :
              Append(Answers(cmds), Answer(a))[i] = Answers(cmds)[i]
        /\ Append(Answers(cmds), Answer(a))[Len(cmds) + 1] = Answer(a)
    BY <1>1, <1>2, <1>5, AppendProperties
  <1>8. Answers(new) = Append(Answers(cmds), Answer(a))
    <2> HIDE DEF new
    <2>1. ASSUME NEW i \in 1 .. Len(new)
          PROVE  Answers(new)[i] = Append(Answers(cmds), Answer(a))[i]
      <3>1. CASE i \in 1 .. Len(cmds)
        BY <3>1, <1>4, <1>5, <1>6, <1>7
      <3>2. CASE i = Len(cmds) + 1
        BY <3>2, <1>4, <1>6, <1>7
      <3>3. i \in 1 .. Len(cmds) \/ i = Len(cmds) + 1
        BY <1>4
      <3> QED
        BY <3>1, <3>2, <3>3
    <2> QED
      BY <2>1, <1>4, <1>6, <1>7, SeqEqual
  <1> QED
    BY <1>4, <1>5, <1>8, IsSeqOver, AppendIsSeq

\* No commands, no answers.
LEMMA NoAnswers == Answers(<< >>) = << >>
  BY DEF Answers

-----------------------------------------------------------------------------
(* Steps of the server that move no bytes *)

\* Steps that only change where the handler is and what it waits for.
LEMMA MoveStep ==
    ASSUME Inv, UNCHANGED <<clients, rbuf, wbuf, sock, backlog, peer, executed, signals>>,
           pc' \in {"wait", "next", "recv", "parse", "send", "killed"},
           cur' \in FDs \cup {Nil},
           batch' \subseteq (FDs \X {"r", "w"}) \cup {Listening},
           want' \subseteq Open,
           pc' \in {"parse", "send"} => cur' \in Open,
           pc' = "recv" => cur' \in FDs
    PROVE  Inv'
  <1>1. Shape'
    BY DEF Inv, Shape, Listening
  <1>2. Descriptors'
    BY DEF Inv, Descriptors, Open
  <1>3. Queue'
    BY DEF Inv, Queue, Waiting, Attached, Open
  <1>4. Talk'
    BY DEF Inv, Talk, TalkOf, TalkOn, Out, Open, Waiting
  <1> QED
    BY <1>1, <1>2, <1>3, <1>4 DEF Inv

\* event_wait returns the descriptors that are ready.
LEMMA EventWaitStep == ASSUME Inv, EventWait PROVE Inv'
  <1>1. Ready \subseteq (FDs \X {"r", "w"}) \cup {Listening}
    BY DEF Ready, Open
  <1> QED
    BY <1>1, MoveStep DEF EventWait, Inv, Shape, Descriptors, buffers, history

\* The loop over the events ends.
LEMMA EndOfBatchStep == ASSUME Inv, EndOfBatch PROVE Inv'
  BY MoveStep DEF EndOfBatch, Inv, Shape, Descriptors, buffers, history

\* An event, perhaps of a socket that is closed by now, goes to its handler.
LEMMA NextEventStep == ASSUME Inv, NEW fd \in FDs, NextEvent(fd) PROVE Inv'
  BY MoveStep DEF NextEvent, Inv, Shape, Descriptors, buffers, history

\* handle_read asks for a write event.
LEMMA ReadDoneStep == ASSUME Inv, NEW r, ReadDone(r) PROVE Inv'
  BY MoveStep DEF ReadDone, Return, Inv, Shape, Descriptors, buffers, history

\* handle_write no longer does.
LEMMA WriteDoneStep == ASSUME Inv, WriteDone PROVE Inv'
  BY MoveStep DEF WriteDone, Return, Inv, Shape, Descriptors, buffers, history

-----------------------------------------------------------------------------
(* Accepting and closing *)

\* A connection leaves the backlog for a free descriptor with empty buffers.
LEMMA HandleAcceptStep == ASSUME Inv, HandleAccept PROVE Inv'
  <1>1. CASE UNCHANGED <<buffers, sock, backlog>>
    BY <1>1, MoveStep DEF HandleAccept, Inv, Shape, Descriptors, buffers, history
  <1>2. ASSUME backlog # << >>,
               NEW fd \in FDs \ Open,
               NewClient(fd),
               sock' = [sock EXCEPT ![fd] = Head(backlog)],
               backlog' = Tail(backlog)
        PROVE  Inv'
    <2>1. /\ pc' = pc /\ cur' = cur /\ want' = want /\ peer' = peer
          /\ executed' = executed /\ signals' = signals
          /\ pc = "next" /\ batch' \subseteq batch
      BY DEF HandleAccept, history
    <2>2. PICK c \in Conns :
          /\ c = Head(backlog) /\ c = backlog[1] /\ Waiting(c)
          /\ backlog' \in Seq(Conns)
          /\ Len(backlog') = Len(backlog) - 1 /\ Len(backlog) \in Nat \ {0}
          /\ \A i \in 1 .. Len(backlog') : backlog'[i] = backlog[i + 1]
      BY <1>2, HeadTailProperties, EmptySeq DEF Inv, Queue, Waiting
    <2>3. c # Nil /\ peer[c].st # "new" /\ ~Attached(c)
      BY <2>2, Bounds DEF Inv, Queue
    <2>4. Open' = Open \cup {fd} /\ sock' \in [FDs -> Conns \cup {Nil}]
          /\ sock'[fd] = c /\ \A gd \in Open : sock'[gd] = sock[gd] /\ sock[gd] # c
      BY <1>2, <2>2, <2>3 DEF Open, Inv, Shape, Attached
    <2>5. Shape'
      BY <1>2, <2>1, <2>4 DEF Inv, Shape, NewClient, Listening
    <2>6. Descriptors'
      BY <1>2, <2>1, <2>4 DEF Inv, Descriptors, NewClient
    <2>7. \A d \in Conns : Waiting(d)' => Waiting(d) /\ d # c
      <3>1. ASSUME NEW i \in 1 .. Len(backlog')
            PROVE  /\ i + 1 \in 1 .. Len(backlog) /\ 1 \in 1 .. Len(backlog)
                   /\ i + 1 # 1
        BY <2>2
      <3> QED
        BY <2>2, <3>1 DEF Waiting, Inv, Queue
    <2>8. Queue'
      <3>1. \A i, j \in 1 .. Len(backlog') : backlog'[i] = backlog'[j] => i = j
        BY <2>2 DEF Inv, Queue
      <3>2. \A d \in Conns : Waiting(d)' => peer'[d].st # "new" /\ ~Attached(d)'
        BY <1>2, <2>1, <2>7, <2>4, <2>3 DEF Inv, Queue, Attached, Open
      <3>3. \A gd \in Open' : peer'[sock'[gd]].st # "new"
        BY <2>1, <2>3, <2>4 DEF Inv, Queue
      <3> QED
        BY <2>2, <3>1, <3>2, <3>3 DEF Queue
    <2>9. \A d \in Conns : TalkOf(d)'
      BY <2>1, <2>7 DEF Inv, Talk, TalkOf, Out
    <2>10. ASSUME NEW gd \in FDs PROVE TalkOn(gd)'
      <3>1. CASE gd = fd
        <4>1. Out(c)' = << >> /\ Answers(executed'[c]) = << >> /\ wbuf'[fd] = << >>
          <5>1. peer[c].got = << >> /\ peer[c].inbox = << >> /\ executed[c] = << >>
            BY <2>2 DEF Inv, Talk, TalkOf
          <5>2. wbuf'[fd] = << >>
            BY <1>2 DEF NewClient, Inv, Shape
          <5> QED
            BY <2>1, <5>1, <5>2, NoAnswers, EmptyIsSeq, ConcatEmpty DEF Out
        <4> QED
          BY <2>4, <3>1, <4>1, EmptyIsSeq, ConcatEmpty DEF TalkOn
      <3>2. CASE gd # fd
        <4>1. wbuf'[gd] = wbuf[gd] /\ sock'[gd] = sock[gd] /\ (gd \in Open' <=> gd \in Open)
          BY <1>2, <2>4, <3>2 DEF NewClient, Inv, Shape
        <4>2. TalkOn(gd) /\ UNCHANGED <<peer, executed>>
          BY <2>1 DEF Inv, Talk
        <4> QED
          BY <4>1, <4>2 DEF TalkOn, Out
      <3> QED
        BY <3>1, <3>2
    <2> QED
      BY <2>5, <2>6, <2>8, <2>9, <2>10 DEF Inv, Talk
  <1> QED
    BY <1>1, <1>2 DEF HandleAccept

\* What a client still has to read begins the answers to its commands.
LEMMA OutBegins ==
    ASSUME NEW got, NEW inbox, NEW rest, IsSeq(got), IsSeq(inbox), IsSeq(rest)
    PROVE  /\ IsPrefix(got \o inbox, (got \o inbox) \o rest)
           /\ IsPrefix(got, (got \o inbox) \o rest)
           /\ got \o << >> = got
  <1>1. IsSeq(got \o inbox) /\ IsSeq(inbox \o rest)
    BY ConcatIsSeq
  <1>2. (got \o inbox) \o rest = got \o (inbox \o rest)
    BY ConcatAssoc
  <1> QED
    BY <1>1, <1>2, PrefixOfConcat, ConcatEmpty

\* A prefix stays one when the sequence grows.
LEMMA PrefixGrows ==
    ASSUME NEW s, NEW t, NEW u, IsSeq(s), IsSeq(t), IsSeq(u), IsPrefix(s, t)
    PROVE  IsPrefix(s, t \o u)
  <1>1. PICK v : IsSeq(v) /\ t = s \o v
    BY PrefixSplits
  <1>2. t \o u = s \o (v \o u) /\ IsSeq(v \o u)
    BY <1>1, ConcatAssoc, ConcatIsSeq
  <1> QED
    BY <1>2, PrefixOfConcat

\* The first part of a prefix is a prefix.
LEMMA PrefixShrinks ==
    ASSUME NEW s, NEW t, NEW u, IsSeq(s), IsSeq(t), IsSeq(u), IsPrefix(s \o t, u)
    PROVE  IsPrefix(s, u)
  <1>1. PICK v : IsSeq(v) /\ u = (s \o t) \o v
    BY PrefixSplits, ConcatIsSeq
  <1> QED
    BY <1>1, OutBegins

\* Closing may cut replies on their way, and a command may have been executed
\* just before: what is left still begins the answers.
LEMMA CloseStep ==
    ASSUME Inv, NEW fd \in FDs, Close(fd), NEW a,
           \/ executed' = executed
           \/ fd \in Open /\ executed' = [executed EXCEPT ![sock[fd]] = Append(@, a)],
           signals' \in 0 .. MaxSignals
    PROVE  Inv'
  <1>1. /\ pc' = "next" /\ cur' = Nil /\ batch' = batch /\ backlog' = backlog
        /\ want' = want \ {fd} /\ sock' = [sock EXCEPT ![fd] = Nil]
        /\ clients' = clients \ {fd} /\ wbuf' = [wbuf EXCEPT ![fd] = << >>]
        /\ rbuf' = [rbuf EXCEPT ![fd] = << >>]
    BY DEF Close, Return, DropClient
  <1>2. Open' = Open \ {fd} /\ \A gd \in Open' : sock'[gd] = sock[gd]
    BY <1>1 DEF Open, Inv, Shape
  <1>3. /\ DOMAIN peer' = Conns
        /\ \A c \in Conns :
              /\ DOMAIN peer'[c] = PeerFields
              /\ peer'[c].st = peer[c].st /\ peer'[c].got = peer[c].got
              /\ \/ peer'[c].inbox = peer[c].inbox
                 \/ peer'[c].inbox = << >>
              /\ c # sock[fd] => peer'[c] = peer[c]
    <2>1. CASE peer' = peer
      BY <2>1 DEF Inv, Shape
    <2>2. ASSUME sock[fd] # Nil, NEW p \in HungUp(sock[fd]),
                 peer' = [peer EXCEPT ![sock[fd]] = p]
          PROVE  <1>3!:
      <3> DEFINE c == sock[fd]
      <3>1. c \in Conns /\ DOMAIN peer[c] = PeerFields
        BY <2>2 DEF Inv, Shape
      <3>2. /\ DOMAIN p = PeerFields /\ p.st = peer[c].st /\ p.got = peer[c].got
            /\ p.inbox = peer[c].inbox \/ p.inbox = << >>
        BY <2>2, <3>1 DEF HungUp, PeerFields
      <3> HIDE DEF c
      <3> QED
        BY <2>2, <3>1, <3>2 DEF Inv, Shape, c
    <2> QED
      BY <2>1, <2>2 DEF Close
  <1>4. /\ DOMAIN executed' = Conns
        /\ \A c \in Conns : c # sock[fd] => executed'[c] = executed[c]
        /\ \A c \in Conns : c = sock[fd] =>
              executed'[c] = executed[c] \/ executed'[c] = Append(executed[c], a)
    BY DEF Inv, Shape
  <1>5. Shape'
    BY <1>1, <1>2, <1>3, <1>4 DEF Inv, Shape, Listening
  <1>6. Descriptors'
    BY <1>1, <1>2 DEF Inv, Descriptors
  <1>7. \A c \in Conns : (Waiting(c)' <=> Waiting(c)) /\ (Attached(c)' => Attached(c))
    BY <1>1, Bounds DEF Waiting, Attached, Inv, Shape
  <1>8. Queue'
    <2>1. backlog' \in Seq(Conns)
          /\ \A i, j \in 1 .. Len(backlog') : backlog'[i] = backlog'[j] => i = j
      BY <1>1 DEF Inv, Queue
    <2>2. \A c \in Conns : Waiting(c)' => peer'[c].st # "new" /\ ~Attached(c)'
      BY <1>3, <1>7 DEF Inv, Queue
    <2>3. \A gd \in Open' : sock[gd] \in Conns /\ peer[sock[gd]].st # "new"
      BY <1>2 DEF Inv, Queue, Open, Shape
    <2>4. \A gd \in Open' : peer'[sock'[gd]].st # "new"
      BY <1>2, <1>3, <2>3
    <2> QED
      BY <2>1, <2>2, <2>4 DEF Queue
  <1>9. ASSUME NEW c \in Conns PROVE TalkOf(c)'
    <2> DEFINE got == peer[c].got
               inbox == peer[c].inbox
               all == Answers(executed[c])
    <2>1. TalkOf(c) /\ IsSeq(got) /\ IsSeq(inbox) /\ IsSeq(executed[c])
      BY DEF Inv, Talk, TalkOf
    <2>2. IsSeq(all) /\ IsSeq(got \o inbox)
      BY <2>1, AnswersGrow, ConcatIsSeq
    <2>3. /\ IsSeq(executed'[c])
          /\ \/ Answers(executed'[c]) = all
             \/ Answers(executed'[c]) = all \o <<Answer(a)>>
          /\ IsSeq(<<Answer(a)>>)
      <3>1. IsSeq(<<Answer(a)>>)
        BY AppendIsSeq, EmptyIsSeq
      <3>2. executed'[c] = executed[c] \/ executed'[c] = Append(executed[c], a)
        BY <1>4
      <3>3. /\ IsSeq(Append(executed[c], a))
            /\ Answers(Append(executed[c], a)) = all \o <<Answer(a)>>
        BY <2>1, AnswersGrow
      <3> QED
        BY <2>1, <3>1, <3>2, <3>3
    <2>4. /\ IsSeq(peer'[c].inbox) /\ Len(peer'[c].inbox) <= Room
          /\ peer'[c].got = got
      BY <1>3, <2>1, EmptyIsSeq, Bounds DEF TalkOf
    <2>5. peer[c].st = "new" \/ Waiting(c) => ~Attached(c)
      BY Bounds DEF Inv, Queue, Attached, Open, Shape
    <2>6. ~Attached(c) => executed'[c] = executed[c]
      BY <1>4 DEF Attached
    <2>7. peer[c].st = "open" => IsPrefix(Out(c)', Answers(executed'[c]))
      <3> SUFFICES ASSUME peer[c].st = "open"
                   PROVE  IsPrefix(Out(c)', Answers(executed'[c]))
        OBVIOUS
      <3>1. IsPrefix(got \o inbox, all) /\ IsPrefix(got, all) /\ got \o << >> = got
        BY <2>1, <2>2, PrefixShrinks, ConcatEmpty DEF TalkOf, Out
      <3>2. IsPrefix(got \o inbox, Answers(executed'[c]))
            /\ IsPrefix(got, Answers(executed'[c]))
        <4>1. /\ IsPrefix(got \o inbox, all \o <<Answer(a)>>)
              /\ IsPrefix(got, all \o <<Answer(a)>>)
          BY <2>1, <2>2, <2>3, <3>1, PrefixGrows
        <4> QED
          BY <2>3, <3>1, <4>1
      <3>3. Out(c)' = got \o inbox \/ Out(c)' = got \o << >>
        BY <1>3 DEF Out
      <3> QED
        BY <3>1, <3>2, <3>3
    <2> QED
      BY <1>3, <1>7, <2>1, <2>3, <2>4, <2>5, <2>6, <2>7 DEF TalkOf
  <1>10. ASSUME NEW gd \in FDs PROVE TalkOn(gd)'
    <2>1. CASE gd \in Open'
      <3>1. gd # fd /\ gd \in Open /\ sock'[gd] = sock[gd] /\ sock[gd] \in Conns
        BY <1>2, <2>1 DEF Open, Inv, Shape
      <3>2. sock[gd] # sock[fd] /\ wbuf'[gd] = wbuf[gd]
        BY <1>1, <3>1, Bounds DEF Inv, Descriptors, Open, Shape
      <3>3. peer'[sock[gd]] = peer[sock[gd]] /\ executed'[sock[gd]] = executed[sock[gd]]
        BY <1>3, <1>4, <3>1, <3>2
      <3> QED
        BY <3>1, <3>2, <3>3 DEF Inv, Talk, TalkOn, Out
    <2>2. CASE gd \notin Open'
      BY <1>1, <2>2, EmptyIsSeq DEF Inv, Talk, TalkOn, Shape
    <2> QED
      BY <2>1, <2>2
  <1> QED
    BY <1>5, <1>6, <1>8, <1>9, <1>10 DEF Inv, Talk

\* The ways into client_close.
LEMMA UnluckyStep == ASSUME Inv, NEW fd \in FDs, Unlucky(fd) PROVE Inv'
  <1>1. signals' \in 0 .. MaxSignals
    BY Bounds DEF Unlucky, Inv, Shape
  <1> QED
    BY <1>1, CloseStep DEF Unlucky

\* The end of the stream, also on a descriptor that is closed already.
LEMMA RecvEndStep == ASSUME Inv, RecvEnd PROVE Inv'
  BY CloseStep DEF RecvEnd, Inv, Shape, Descriptors

\* A protocol error.
LEMMA RejectStep == ASSUME Inv, NEW r, Reject(r) PROVE Inv'
  <1>1. cur \in FDs /\ signals' \in 0 .. MaxSignals
    BY DEF Reject, Inv, Shape, Descriptors, Open
  <1> QED
    BY <1>1, CloseStep DEF Reject

\* QUIT, which is executed and never answered.
LEMMA ExecuteQuitStep == ASSUME Inv, NEW r, ExecuteQuit(r) PROVE Inv'
  <1>1. cur \in FDs /\ cur \in Open /\ signals' \in 0 .. MaxSignals
    BY DEF ExecuteQuit, Inv, Shape, Descriptors, Open
  <1> QED
    BY <1>1, CloseStep DEF ExecuteQuit

\* A reset ends the client, or SIGPIPE the server.
LEMMA SendFailsStep == ASSUME Inv, SendFails PROVE Inv'
  <1>1. cur \in FDs /\ signals' \in 0 .. MaxSignals
    BY DEF SendFails, Sending, Inv, Shape, Descriptors, Open
  <1>2. CASE Close(cur)
    BY <1>1, <1>2, CloseStep DEF SendFails
  <1>3. CASE pc' = "killed" /\ UNCHANGED <<cur, batch, buffers, want, sock, backlog, peer>>
    BY <1>3, MoveStep DEF SendFails, Inv, Shape, Descriptors, buffers
  <1> QED
    BY <1>2, <1>3 DEF SendFails

\* Nothing more has arrived.
LEMMA RecvAgainStep == ASSUME Inv, RecvAgain PROVE Inv'
  <1>1. cur \in FDs
    BY DEF RecvAgain, Inv, Descriptors
  <1>2. CASE Unlucky(cur)
    BY <1>1, <1>2, UnluckyStep
  <1>3. CASE ~Unlucky(cur)
    <2>1. cur \in Open /\ cur \in clients
      BY <1>1 DEF RecvAgain, Inv, Descriptors, Open
    <2> QED
      BY <1>1, <1>3, <2>1, MoveStep
      DEF RecvAgain, Inv, Shape, Descriptors, buffers, history
  <1> QED
    BY <1>2, <1>3

\* The kernel has no more room.
LEMMA SendAgainStep == ASSUME Inv, SendAgain PROVE Inv'
  <1>1. cur \in FDs
    BY DEF SendAgain, Sending, Inv, Descriptors, Open
  <1>2. CASE Unlucky(cur)
    BY <1>1, <1>2, UnluckyStep
  <1>3. CASE ~Unlucky(cur)
    BY <1>3, MoveStep
    DEF SendAgain, Sending, Return, Inv, Shape, Descriptors, buffers, history
  <1> QED
    BY <1>2, <1>3

-----------------------------------------------------------------------------
(* Steps of one client's side *)

\* A step that changes one client's side, its read buffer and perhaps its
\* write buffer: what is left to show is the account of that client.
LEMMA PeerStep ==
    ASSUME Inv, NEW c \in Conns, NEW p, DOMAIN p = PeerFields,
           p.st \in {"new", "open", "gone"},
           p.st = "new" => peer[c].st = "new",
           peer' = [peer EXCEPT ![c] = p],
           UNCHANGED <<pc, cur, batch, clients, want, sock, backlog, executed, signals>>,
           DOMAIN rbuf' = FDs, DOMAIN wbuf' = FDs,
           \A fd \in FDs : sock[fd] # c => wbuf'[fd] = wbuf[fd],
           TalkOf(c)', \A fd \in FDs : sock[fd] = c => TalkOn(fd)'
    PROVE  Inv'
  <1>1. peer'[c] = p /\ DOMAIN peer' = Conns
        /\ \A d \in Conns : d # c => peer'[d] = peer[d]
    BY DEF Inv, Shape
  <1>2. Shape'
    BY <1>1 DEF Inv, Shape, Listening
  <1>3. Descriptors'
    BY DEF Inv, Descriptors, Open
  <1>4. Queue'
    <2>1. \A d \in Conns : peer[d].st # "new" => peer'[d].st # "new"
      BY <1>1
    <2>2. \A d \in Conns : (Waiting(d)' <=> Waiting(d)) /\ (Attached(d)' <=> Attached(d))
      BY DEF Waiting, Attached
    <2>3. Open' = Open /\ \A fd \in Open : sock[fd] \in Conns
      BY DEF Open, Inv, Shape
    <2> QED
      BY <2>1, <2>2, <2>3 DEF Inv, Queue
  <1>5. ASSUME NEW d \in Conns PROVE TalkOf(d)'
    <2>1. CASE d = c
      BY <2>1
    <2>2. CASE d # c
      BY <1>1, <2>2 DEF Inv, Talk, TalkOf, Waiting, Out
    <2> QED
      BY <2>1, <2>2
  <1>6. ASSUME NEW fd \in FDs PROVE TalkOn(fd)'
    <2>1. CASE sock[fd] = c
      BY <2>1
    <2>2. CASE sock[fd] # c
      <3>1. fd \in Open => sock[fd] \in Conns
        BY DEF Open, Inv, Shape
      <3>2. wbuf'[fd] = wbuf[fd] /\ (fd \in Open' <=> fd \in Open)
            /\ TalkOn(fd)
        BY <2>2 DEF Inv, Talk, Open
      <3>3. fd \in Open => peer'[sock[fd]] = peer[sock[fd]]
        BY <1>1, <2>2, <3>1
      <3> QED
        BY <3>2, <3>3 DEF TalkOn, Out
    <2> QED
      BY <2>1, <2>2
  <1> QED
    BY <1>2, <1>3, <1>4, <1>5, <1>6 DEF Inv, Talk

\* In particular one that leaves replies alone.
LEMMA QuietStep ==
    ASSUME Inv, NEW c \in Conns, NEW p, DOMAIN p = PeerFields,
           p.st = peer[c].st, p.got = peer[c].got, p.inbox = peer[c].inbox,
           peer' = [peer EXCEPT ![c] = p],
           UNCHANGED <<pc, cur, batch, clients, wbuf, want, sock, backlog, executed, signals>>,
           DOMAIN rbuf' = FDs
    PROVE  Inv'
  <1>1. peer'[c] = p
    BY DEF Inv, Shape
  <1>2. TalkOf(c)'
    BY <1>1 DEF Inv, Talk, TalkOf, Out, Waiting
  <1>3. \A fd \in FDs : sock[fd] = c => TalkOn(fd)'
    BY <1>1 DEF Inv, Talk, TalkOn, Out, Open
  <1>4. DOMAIN wbuf' = FDs /\ p.st \in {"new", "open", "gone"}
    BY DEF Inv, Shape
  <1> QED
    BY <1>2, <1>3, <1>4, PeerStep

\* Bytes pass into the read buffer, which is there.
LEMMA RecvBytesStep == ASSUME Inv, RecvBytes PROVE Inv'
  <1> DEFINE c == sock[cur]
             n == Min({RecvMax, Len(peer[c].wire)})
             p == [peer[c] EXCEPT !.wire = SubSeq(@, n + 1, Len(@))]
  <1>1. c \in Conns /\ cur \in Open /\ cur \in clients
    BY DEF RecvBytes, Inv, Shape, Descriptors, Open
  <1>2. DOMAIN p = PeerFields /\ p.st = peer[c].st /\ p.got = peer[c].got
        /\ p.inbox = peer[c].inbox
    BY <1>1 DEF Inv, Shape, PeerFields
  <1>3. peer' = [peer EXCEPT ![c] = p]
    BY DEF RecvBytes
  <1>4. DOMAIN rbuf' = FDs
    BY <1>1 DEF RecvBytes, Inv, Shape
  <1>5. UNCHANGED <<pc, cur, batch, clients, wbuf, want, sock, backlog, executed, signals>>
    BY <1>1 DEF RecvBytes, history
  <1> HIDE DEF p
  <1> QED
    BY <1>1, <1>2, <1>3, <1>4, <1>5, QuietStep

\* A client writes.
LEMMA SendSegmentStep == ASSUME Inv, NEW c \in Conns, SendSegment(c) PROVE Inv'
  <1> DEFINE p == [peer[c] EXCEPT !.sent = @ + 1,
                       !.wire = @ \o script[c].segments[peer[c].sent + 1]]
  <1>1. DOMAIN p = PeerFields /\ p.st = peer[c].st /\ p.got = peer[c].got
        /\ p.inbox = peer[c].inbox
    BY DEF Inv, Shape, PeerFields
  <1>2. peer' = [peer EXCEPT ![c] = p]
    BY DEF SendSegment, ClientStep
  <1>3. UNCHANGED <<pc, cur, batch, clients, wbuf, want, sock, backlog, executed, signals>>
        /\ DOMAIN rbuf' = FDs
    BY DEF SendSegment, ClientStep, server, buffers, history, Inv, Shape
  <1> HIDE DEF p
  <1> QED
    BY <1>1, <1>2, <1>3, QuietStep

\* It shuts down its side.
LEMMA ShutDownStep == ASSUME Inv, NEW c \in Conns, ShutDown(c) PROVE Inv'
  <1> DEFINE p == [peer[c] EXCEPT !.fin = TRUE]
  <1>1. DOMAIN p = PeerFields /\ p.st = peer[c].st /\ p.got = peer[c].got
        /\ p.inbox = peer[c].inbox
    BY DEF Inv, Shape, PeerFields
  <1>2. peer' = [peer EXCEPT ![c] = p]
    BY DEF ShutDown, ClientStep
  <1>3. UNCHANGED <<pc, cur, batch, clients, wbuf, want, sock, backlog, executed, signals>>
        /\ DOMAIN rbuf' = FDs
    BY DEF ShutDown, ClientStep, server, buffers, history, Inv, Shape
  <1> HIDE DEF p
  <1> QED
    BY <1>1, <1>2, <1>3, QuietStep

\* A client that is gone has read nothing and is owed nothing.
LEMMA GoneStep ==
    ASSUME Inv, NEW c \in Conns, NEW p, DOMAIN p = PeerFields,
           p.st = "gone", p.got = << >>, p.inbox = << >>,
           peer' = [peer EXCEPT ![c] = p],
           UNCHANGED <<pc, cur, batch, clients, rbuf, wbuf, want, sock, backlog, executed, signals>>
    PROVE  Inv'
  <1>1. peer'[c] = p
    BY DEF Inv, Shape
  <1>2. TalkOf(c)'
    BY <1>1, EmptyIsSeq, Bounds DEF Inv, Talk, TalkOf, Out, Waiting
  <1>3. \A fd \in FDs : sock[fd] = c => TalkOn(fd)'
    BY <1>1 DEF Inv, Talk, TalkOn, Open
  <1>4. DOMAIN wbuf' = FDs /\ DOMAIN rbuf' = FDs
    BY DEF Inv, Shape
  <1> QED
    BY <1>2, <1>3, <1>4, PeerStep

\* It closes its socket.
LEMMA LeaveStep == ASSUME Inv, NEW c \in Conns, Leave(c) PROVE Inv'
  <1> DEFINE q == peer[c]
             p == [NewPeer EXCEPT !.st = "gone", !.wire = q.wire,
                       !.hup = q.hup, !.fin = q.fin \/ q.inbox = << >>,
                       !.rst = q.inbox # << >>]
  <1>1. DOMAIN p = PeerFields /\ p.st = "gone" /\ p.got = << >> /\ p.inbox = << >>
    BY DEF NewPeer, PeerFields
  <1>2. peer' = [peer EXCEPT ![c] = p]
    BY DEF Leave, ClientStep
  <1>3. UNCHANGED <<pc, cur, batch, clients, rbuf, wbuf, want, sock, backlog, executed, signals>>
    BY DEF Leave, ClientStep, server, buffers, history
  <1> HIDE DEF p
  <1> QED
    BY <1>1, <1>2, <1>3, GoneStep

\* Its kernel answers a reply with a reset.
LEMMA RefuseStep == ASSUME Inv, NEW c \in Conns, Refuse(c) PROVE Inv'
  <1> DEFINE p == [peer[c] EXCEPT !.rst = TRUE, !.inbox = << >>]
  <1>1. DOMAIN p = PeerFields /\ p.st = "gone" /\ p.got = << >> /\ p.inbox = << >>
    BY DEF Refuse, Inv, Shape, PeerFields, Talk, TalkOf
  <1>2. peer' = [peer EXCEPT ![c] = p]
    BY DEF Refuse, ClientStep
  <1>3. UNCHANGED <<pc, cur, batch, clients, rbuf, wbuf, want, sock, backlog, executed, signals>>
    BY DEF Refuse, ClientStep, server, buffers, history
  <1> HIDE DEF p
  <1> QED
    BY <1>1, <1>2, <1>3, GoneStep

\* A new connection waits at the end of the backlog.
LEMMA ConnectStep == ASSUME Inv, NEW c \in Conns, Connect(c) PROVE Inv'
  <1> DEFINE p == [peer[c] EXCEPT !.st = "open"]
  <1>1. /\ backlog' = Append(backlog, c) /\ peer' = [peer EXCEPT ![c] = p]
        /\ peer[c].st = "new"
        /\ UNCHANGED <<pc, cur, batch, clients, rbuf, wbuf, want, sock, executed, signals>>
    BY DEF Connect, ClientStep, server, buffers, history
  <1>2. DOMAIN p = PeerFields /\ p.st = "open" /\ p.got = peer[c].got
        /\ p.inbox = peer[c].inbox
    BY DEF Inv, Shape, PeerFields
  <1> HIDE DEF p
  <1>3. peer'[c] = p /\ DOMAIN peer' = Conns
        /\ \A d \in Conns : d # c => peer'[d] = peer[d]
    BY <1>1 DEF Inv, Shape
  <1>4. ~Waiting(c) /\ ~Attached(c)
    <2>1. ~Waiting(c)
      BY <1>1 DEF Inv, Queue
    <2>2. ~Attached(c)
      BY <1>1, Bounds DEF Inv, Queue, Attached, Open
    <2> QED
      BY <2>1, <2>2
  <1>5. /\ backlog' \in Seq(Conns) /\ Len(backlog') = Len(backlog) + 1
        /\ Len(backlog) \in Nat /\ backlog'[Len(backlog) + 1] = c
        /\ \A i \in 1 .. Len(backlog) : backlog'[i] = backlog[i]
    BY <1>1, AppendProperties, LenProperties DEF Inv, Queue
  <1>6. \A i \in 1 .. Len(backlog') : i \in 1 .. Len(backlog) \/ i = Len(backlog) + 1
    BY <1>5
  <1>7. \A d \in Conns : d # c /\ Waiting(d)' => Waiting(d)
    BY <1>5, <1>6 DEF Waiting
  <1>8. Shape'
    BY <1>1, <1>2, <1>3 DEF Inv, Shape, Listening
  <1>9. Descriptors'
    BY <1>1 DEF Inv, Descriptors, Open
  <1>10. Queue'
    <2>1. \A i, j \in 1 .. Len(backlog') : backlog'[i] = backlog'[j] => i = j
      BY <1>4, <1>5, <1>6 DEF Waiting, Inv, Queue
    <2>2. \A d \in Conns : Waiting(d)' => peer'[d].st # "new" /\ ~Attached(d)'
      BY <1>1, <1>2, <1>3, <1>4, <1>7 DEF Inv, Queue, Attached
    <2>3. \A fd \in Open' : peer'[sock'[fd]].st # "new"
      <3>1. \A fd \in Open : sock[fd] \in Conns /\ sock[fd] # c
        BY <1>4 DEF Attached, Open, Inv, Shape
      <3> QED
        BY <1>1, <1>3, <3>1 DEF Inv, Queue, Open
    <2> QED
      BY <1>5, <2>1, <2>2, <2>3 DEF Queue
  <1>11. ASSUME NEW d \in Conns PROVE TalkOf(d)'
    <2>1. CASE d # c
      BY <1>1, <1>3, <1>7, <2>1 DEF Inv, Talk, TalkOf, Out
    <2>2. CASE d = c
      <3>1. /\ executed[c] = << >> /\ peer[c].got = << >> /\ peer[c].inbox = << >>
            /\ TalkOf(c)
        BY <1>1 DEF Inv, Talk, TalkOf
      <3>2. IsPrefix(<< >> \o << >>, Answers(<< >>))
        BY NoAnswers, EmptyPrefix, EmptyIsSeq, ConcatEmpty
      <3> QED
        BY <1>1, <1>2, <1>3, <2>2, <3>1, <3>2 DEF TalkOf, Out
    <2> QED
      BY <2>1, <2>2
  <1>12. ASSUME NEW fd \in FDs PROVE TalkOn(fd)'
    <2>1. fd \in Open => sock[fd] \in Conns /\ sock[fd] # c
      BY <1>4 DEF Attached, Open, Inv, Shape
    <2>2. TalkOn(fd) /\ (fd \in Open' <=> fd \in Open)
      BY <1>1 DEF Inv, Talk, Open
    <2> QED
      BY <1>1, <1>3, <2>1, <2>2 DEF TalkOn, Out
  <1> QED
    BY <1>8, <1>9, <1>10, <1>11, <1>12 DEF Inv, Talk

\* A reply that is read passes from the way to the client.
LEMMA ReadReplyStep == ASSUME Inv, NEW c \in Conns, ReadReply(c) PROVE Inv'
  <1> DEFINE got == peer[c].got
             inbox == peer[c].inbox
             p == [peer[c] EXCEPT !.got = Append(@, Head(inbox)), !.inbox = Tail(@)]
  <1>1. /\ peer' = [peer EXCEPT ![c] = p] /\ peer[c].st = "open" /\ inbox # << >>
        /\ UNCHANGED <<pc, cur, batch, clients, rbuf, wbuf, want, sock, backlog, executed, signals>>
    BY DEF ReadReply, ClientStep, server, buffers, history
  <1>2. DOMAIN p = PeerFields /\ p.st = "open" /\ p.got = Append(got, Head(inbox))
        /\ p.inbox = Tail(inbox)
    BY <1>1 DEF Inv, Shape, PeerFields
  <1>3. IsSeq(got) /\ IsSeq(inbox) /\ TalkOf(c)
    BY DEF Inv, Talk, TalkOf
  <1>4. /\ IsSeq(Append(got, Head(inbox))) /\ IsSeq(Tail(inbox))
        /\ Len(Tail(inbox)) = Len(inbox) - 1 /\ Len(inbox) \in Nat
        /\ Append(got, Head(inbox)) \o Tail(inbox) = got \o inbox
    <2>1. /\ Append(got, Head(inbox)) = got \o <<Head(inbox)>>
          /\ IsSeq(Append(got, Head(inbox))) /\ IsSeq(<<Head(inbox)>>)
      BY <1>3, AppendIsSeq
    <2>2. /\ <<Head(inbox)>> \o Tail(inbox) = inbox /\ IsSeq(Tail(inbox))
          /\ Len(Tail(inbox)) = Len(inbox) - 1
      BY <1>1, <1>3, HeadAndTail
    <2>3. (got \o <<Head(inbox)>>) \o Tail(inbox) = got \o (<<Head(inbox)>> \o Tail(inbox))
      <3> DEFINE first == <<Head(inbox)>>
                 rest == Tail(inbox)
      <3>1. IsSeq(got) /\ IsSeq(first) /\ IsSeq(rest)
        BY <1>3, <2>1, <2>2
      <3>2. (got \o first) \o rest = got \o (first \o rest)
        <4> HIDE DEF got, first, rest
        <4> QED
          BY <3>1, ConcatAssoc
      <3> QED
        BY <3>2
    <2>4. Len(inbox) \in Nat
      BY <1>3, LenProperties DEF IsSeq
    <2> QED
      BY <2>1, <2>2, <2>3, <2>4
  <1> HIDE DEF p
  <1>5. peer'[c] = p
    BY <1>1 DEF Inv, Shape
  <1>6. Out(c)' = Out(c)
    BY <1>2, <1>4, <1>5 DEF Out
  <1>7. TalkOf(c)'
    <2>1. ~(peer'[c].st = "new" \/ Waiting(c)')
      <3>1. ~Waiting(c)
        BY <1>1, <1>3 DEF TalkOf
      <3> QED
        BY <1>1, <1>2, <1>5, <3>1 DEF Waiting
    <2>2. Len(Tail(inbox)) <= Room
      BY <1>3, <1>4, Bounds DEF TalkOf
    <2> QED
      BY <1>1, <1>2, <1>3, <1>4, <1>5, <1>6, <2>1, <2>2 DEF TalkOf
  <1>8. \A fd \in FDs : sock[fd] = c => TalkOn(fd)'
    BY <1>1, <1>6 DEF Inv, Talk, TalkOn, Open
  <1>9. DOMAIN wbuf' = FDs /\ DOMAIN rbuf' = FDs
    BY <1>1 DEF Inv, Shape
  <1> QED
    BY <1>1, <1>2, <1>7, <1>8, <1>9, PeerStep

-----------------------------------------------------------------------------
(* Executing and sending *)

\* A command executed is a command answered.
LEMMA ExecuteStep == ASSUME Inv, NEW r, Execute(r) PROVE Inv'
  <1>1. PICK c \in Conns : c = sock[cur] /\ cur \in Open /\ cur \in FDs
    BY DEF Execute, Inv, Shape, Descriptors, Open
  <1> DEFINE a == Answer(r.args)
             all == Answers(executed[c])
  <1>2. /\ executed' = [executed EXCEPT ![c] = Append(@, r.args)]
        /\ wbuf' = [wbuf EXCEPT ![cur] = Append(@, a)]
        /\ DOMAIN rbuf' = FDs
        /\ UNCHANGED <<pc, cur, batch, clients, want, sock, backlog, peer, signals>>
    BY <1>1 DEF Execute, Inv, Shape
  <1>3. /\ executed'[c] = Append(executed[c], r.args) /\ DOMAIN executed' = Conns
        /\ \A d \in Conns : d # c => executed'[d] = executed[d]
        /\ wbuf'[cur] = Append(wbuf[cur], a) /\ DOMAIN wbuf' = FDs
        /\ \A fd \in FDs : fd # cur => wbuf'[fd] = wbuf[fd]
    BY <1>1, <1>2 DEF Inv, Shape
  <1>4. TalkOf(c) /\ TalkOn(cur) /\ IsSeq(executed[c]) /\ IsSeq(wbuf[cur])
        /\ IsSeq(peer[c].got) /\ IsSeq(peer[c].inbox)
    BY <1>1 DEF Inv, Talk, TalkOf, TalkOn
  <1>5. /\ IsSeq(all) /\ IsSeq(executed'[c])
        /\ Answers(executed'[c]) = all \o <<a>>
    BY <1>3, <1>4, AnswersGrow
  <1>6. /\ IsSeq(wbuf'[cur]) /\ IsSeq(<<a>>) /\ wbuf'[cur] = wbuf[cur] \o <<a>>
    BY <1>3, <1>4, AppendIsSeq
  <1>7. IsSeq(Out(c))
    BY <1>4, ConcatIsSeq DEF Out
  <1>8. ~(peer[c].st = "new" \/ Waiting(c))
    BY <1>1, Bounds DEF Inv, Queue, Attached
  <1> HIDE DEF a, all
  <1>9. Shape'
    BY <1>2, <1>3 DEF Inv, Shape, Listening
  <1>10. Descriptors'
    BY <1>2 DEF Inv, Descriptors, Open
  <1>11. Queue'
    BY <1>2 DEF Inv, Queue, Waiting, Attached, Open
  <1>12. ASSUME NEW d \in Conns PROVE TalkOf(d)'
    <2>1. CASE d # c
      BY <1>2, <1>3, <2>1 DEF Inv, Talk, TalkOf, Waiting, Out
    <2>2. CASE d = c
      <3>1. peer[c].st = "open" => IsPrefix(Out(c), all \o <<a>>)
        BY <1>4, <1>5, <1>6, <1>7, PrefixGrows DEF TalkOf, all
      <3>2. Out(c)' = Out(c) /\ (Waiting(c)' <=> Waiting(c)) /\ peer' = peer
        BY <1>2 DEF Out, Waiting
      <3> QED
        BY <1>4, <1>5, <1>8, <2>2, <3>1, <3>2 DEF TalkOf
    <2> QED
      BY <2>1, <2>2
  <1>13. ASSUME NEW fd \in FDs PROVE TalkOn(fd)'
    <2>1. Out(c)' = Out(c) /\ Open' = Open /\ sock' = sock /\ peer' = peer
      BY <1>2 DEF Out, Open
    <2>2. CASE fd = cur
      <3>1. peer[c].st = "open" => Out(c) \o wbuf[cur] = all
        BY <1>1, <1>4 DEF TalkOn, all
      <3>2. (Out(c) \o wbuf[cur]) \o <<a>> = Out(c) \o wbuf'[cur]
        <4> DEFINE one == <<a>>
                   before == wbuf[cur]
        <4>1. IsSeq(Out(c)) /\ IsSeq(before) /\ IsSeq(one)
          BY <1>4, <1>6, <1>7
        <4>2. (Out(c) \o before) \o one = Out(c) \o (before \o one)
          <5> HIDE DEF one, before
          <5> QED
            BY <4>1, ConcatAssoc
        <4> QED
          BY <1>6, <4>2
      <3>3. peer[c].st = "open" => Out(c) \o wbuf'[cur] = Answers(executed'[c])
        BY <1>5, <3>1, <3>2
      <3>4. sock'[fd] = c
        BY <1>1, <2>1, <2>2
      <3> QED
        BY <1>6, <2>1, <2>2, <3>3, <3>4 DEF TalkOn
    <2>3. CASE fd # cur
      <3>1. fd \in Open => sock[fd] \in Conns /\ sock[fd] # c
        BY <1>1, <2>3 DEF Inv, Descriptors, Open, Shape
      <3>2. wbuf'[fd] = wbuf[fd] /\ TalkOn(fd)
        BY <1>3, <2>3 DEF Inv, Talk
      <3>3. fd \in Open => executed'[sock[fd]] = executed[sock[fd]]
        BY <1>3, <3>1
      <3> QED
        BY <2>1, <3>2, <3>3 DEF TalkOn, Out
    <2> QED
      BY <2>2, <2>3
  <1> QED
    BY <1>9, <1>10, <1>11, <1>12, <1>13 DEF Inv, Talk

\* The least of two numbers.
LEMMA MinOfTwo ==
    ASSUME NEW a \in Int, NEW b \in Int
    PROVE  Min({a, b}) \in {a, b} /\ Min({a, b}) <= a /\ Min({a, b}) <= b
  <1>1. \E x \in {a, b} : \A y \in {a, b} : x <= y
    OBVIOUS
  <1> QED
    BY <1>1 DEF Min

\* What send takes passes from the write buffer to the way to the client.
LEMMA SendSomeStep == ASSUME Inv, SendSome PROVE Inv'
  <1>1. PICK c \in Conns : c = sock[cur] /\ cur \in Open /\ cur \in FDs
    BY DEF SendSome, Sending, Inv, Shape, Descriptors, Open
  <1>2. PICK n : n = Min({Room - Len(peer[c].inbox), Len(wbuf[cur])})
    OBVIOUS
  <1> DEFINE inbox == peer[c].inbox
             sent == SubSeq(wbuf[cur], 1, n)
             rest == SubSeq(wbuf[cur], n + 1, Len(wbuf[cur]))
             p == [peer[c] EXCEPT !.inbox = @ \o sent]
  <1>3. /\ n > 0 /\ wbuf' = [wbuf EXCEPT ![cur] = rest]
        /\ peer' = [peer EXCEPT ![c] = p]
        /\ UNCHANGED <<pc, cur, batch, clients, rbuf, want, sock, backlog, executed, signals>>
    BY <1>1, <1>2 DEF SendSome, history
  <1>4. TalkOf(c) /\ TalkOn(cur) /\ IsSeq(wbuf[cur]) /\ IsSeq(inbox)
        /\ IsSeq(peer[c].got) /\ IsSeq(executed[c]) /\ Len(inbox) <= Room
    BY <1>1 DEF Inv, Talk, TalkOf, TalkOn
  <1>5. n \in 0 .. Len(wbuf[cur]) /\ Len(inbox) + n <= Room
        /\ Len(inbox) \in Nat /\ n \in Nat
    <2>1. Len(inbox) \in Nat /\ Len(wbuf[cur]) \in Nat /\ Room \in Nat
      BY <1>4, LenProperties, Bounds DEF IsSeq
    <2>2. n \in {Room - Len(inbox), Len(wbuf[cur])}
          /\ n <= Room - Len(inbox) /\ n <= Len(wbuf[cur])
      <3>1. Room - Len(inbox) \in Int /\ Len(wbuf[cur]) \in Int
        BY <2>1
      <3> QED
        BY <1>2, <3>1, MinOfTwo
    <2> QED
      BY <1>3, <2>1, <2>2
  <1>6. IsSeq(sent) /\ IsSeq(rest) /\ Len(sent) = n /\ sent \o rest = wbuf[cur]
    BY <1>4, <1>5, Cut
  <1>7. /\ DOMAIN p = PeerFields /\ p.st = peer[c].st /\ p.got = peer[c].got
        /\ p.inbox = inbox \o sent
    BY DEF Inv, Shape, PeerFields
  <1> HIDE DEF sent, rest, p
  <1>8. IsSeq(inbox \o sent) /\ Len(inbox \o sent) <= Room
    <2>1. PICK S : inbox \in Seq(S) /\ sent \in Seq(S)
      BY <1>4, <1>6, Together
    <2>2. Len(inbox \o sent) = Len(inbox) + Len(sent)
      BY <2>1, ConcatProperties
    <2> QED
      BY <1>4, <1>5, <1>6, <2>2, ConcatIsSeq
  <1>9. /\ peer'[c] = p /\ wbuf'[cur] = rest /\ DOMAIN wbuf' = FDs
        /\ \A fd \in FDs : fd # cur => wbuf'[fd] = wbuf[fd]
    BY <1>1, <1>3 DEF Inv, Shape
  <1>10. /\ Out(c)' \o rest = Out(c) \o wbuf[cur]
         /\ IsSeq(Out(c)')
    <2>1. Out(c)' = peer[c].got \o (inbox \o sent)
      BY <1>7, <1>9 DEF Out
    <2>2. peer[c].got \o (inbox \o sent) = Out(c) \o sent
      <3> DEFINE got == peer[c].got
      <3>1. IsSeq(got) /\ IsSeq(inbox) /\ IsSeq(sent)
        BY <1>4, <1>6
      <3>2. (got \o inbox) \o sent = got \o (inbox \o sent)
        <4> HIDE DEF got, inbox
        <4> QED
          BY <3>1, ConcatAssoc
      <3> QED
        BY <3>2 DEF Out
    <2>3. IsSeq(Out(c))
      BY <1>4, ConcatIsSeq DEF Out
    <2>4. (Out(c) \o sent) \o rest = Out(c) \o (sent \o rest)
      <3>1. IsSeq(Out(c)) /\ IsSeq(sent) /\ IsSeq(rest)
        BY <1>6, <2>3
      <3> QED
        BY <3>1, ConcatAssoc
    <2>5. IsSeq(Out(c) \o sent)
      BY <1>6, <2>3, ConcatIsSeq
    <2> QED
      BY <1>6, <2>1, <2>2, <2>4, <2>5
  <1>11. TalkOf(c)'
    <2>1. ~(peer[c].st = "new" \/ Waiting(c)) /\ (Waiting(c)' <=> Waiting(c))
      BY <1>1, <1>3, Bounds DEF Inv, Queue, Attached, Waiting
    <2>2. peer[c].st = "open" => IsPrefix(Out(c)', Answers(executed[c]))
      <3>1. peer[c].st = "open" => Out(c)' \o rest = Answers(executed[c])
        BY <1>1, <1>4, <1>10 DEF TalkOn
      <3>2. IsPrefix(Out(c)', Out(c)' \o rest)
        BY <1>6, <1>10, PrefixOfConcat
      <3> QED
        BY <3>1, <3>2
    <2> QED
      BY <1>3, <1>4, <1>7, <1>8, <1>9, <2>1, <2>2 DEF TalkOf
  <1>12. \A fd \in FDs : sock[fd] = c => TalkOn(fd)' /\ fd = cur
    <2>1. ASSUME NEW fd \in FDs, sock[fd] = c PROVE fd = cur
      BY <1>1, <2>1, Bounds DEF Inv, Descriptors, Open
    <2>2. Out(c)' \o rest = Answers(executed[c]) \/ peer[c].st # "open"
      BY <1>1, <1>4, <1>10 DEF TalkOn
    <2>3. sock'[cur] = c /\ executed' = executed /\ peer'[c].st = peer[c].st
      BY <1>1, <1>3, <1>7, <1>9
    <2>4. TalkOn(cur)'
      BY <1>3, <1>6, <1>9, <2>2, <2>3 DEF TalkOn
    <2> QED
      BY <1>3, <2>1, <2>4
  <1>13. \A fd \in FDs : sock[fd] # c => wbuf'[fd] = wbuf[fd]
    BY <1>1, <1>9
  <1>14. DOMAIN rbuf' = FDs /\ p.st \in {"new", "open", "gone"}
    BY <1>3, <1>7 DEF Inv, Shape
  <1> QED
    BY <1>3, <1>7, <1>9, <1>11, <1>12, <1>13, <1>14, PeerStep

-----------------------------------------------------------------------------
(* The specification *)

\* At first nobody is connected.
LEMMA InitInv == ASSUME Init PROVE Inv
  <1>1. Shape
    BY Bounds DEF Init, Shape, NewPeer, PeerFields
  <1>2. Descriptors
    BY DEF Init, Descriptors, Open
  <1>3. Queue
    BY EmptySeq DEF Init, Queue, Waiting, Open
  <1>4. ASSUME NEW c \in Conns PROVE TalkOf(c)
    BY EmptyIsSeq, EmptySeq, Bounds DEF Init, TalkOf, NewPeer
  <1>5. ASSUME NEW fd \in FDs PROVE TalkOn(fd)
    BY EmptyIsSeq DEF Init, TalkOn, Open
  <1> QED
    BY <1>1, <1>2, <1>3, <1>4, <1>5 DEF Inv, Talk

\* Every action keeps the invariant.
LEMMA StepInv == Inv /\ [Next]_vars => Inv'
  <1> SUFFICES ASSUME Inv, [Next]_vars PROVE Inv'
    OBVIOUS
  <1>1. CASE EventWait \/ EndOfBatch \/ HandleAccept \/ \E fd \in FDs : NextEvent(fd)
    BY <1>1, EventWaitStep, EndOfBatchStep, HandleAcceptStep, NextEventStep
  <1>2. CASE HandleRead
    BY <1>2, RecvBytesStep, RecvEndStep, RecvAgainStep, ExecuteStep,
       ExecuteQuitStep, RejectStep, ReadDoneStep DEF HandleRead, Parse
  <1>3. CASE HandleWrite
    BY <1>3, SendSomeStep, SendAgainStep, SendFailsStep, WriteDoneStep DEF HandleWrite
  <1>4. ASSUME NEW c \in Conns, Client(c) PROVE Inv'
    BY <1>4, ConnectStep, SendSegmentStep, ReadReplyStep, ShutDownStep,
       LeaveStep, RefuseStep DEF Client
  <1>5. CASE UNCHANGED vars
    BY <1>5, MoveStep DEF vars, server, buffers, history, Inv, Shape, Descriptors
  <1> QED
    BY <1>1, <1>2, <1>3, <1>4, <1>5 DEF Next, Server

\* The variables keep their types, and the kernel never holds more than it
\* has room for.
THEOREM TypeCorrect == Spec => []TypeOK
  <1>1. Inv => TypeOK
    BY DEF Inv, Shape, Descriptors, Talk, TalkOf, TypeOK, Open
  <1> QED
    BY <1>1, InitInv, StepInv, PTL DEF Spec

\* The client map, the descriptors and the interest set agree, and no handler
\* meets a null client (server.cpp:105-129, 263-266).
THEOREM TablesAgree == Spec => []ClientsAreOpen
  <1>1. Inv => ClientsAreOpen
    BY DEF Inv, Shape, Descriptors, ClientsAreOpen
  <1> QED
    BY <1>1, InitInv, StepInv, PTL DEF Spec

\* Whatever parts of it send takes, a client is answered its commands once
\* each, in order and nothing else, and is owed nothing that is not on its way
\* while it is connected.
THEOREM RepliesAreInOrder == Spec => []RepliesInOrder
  <1>1. ASSUME Inv, NEW c \in Conns PROVE IsPrefix(peer[c].got, Answers(executed[c]))
    <2>1. TalkOf(c) /\ IsSeq(peer[c].got) /\ IsSeq(peer[c].inbox) /\ IsSeq(executed[c])
      BY <1>1 DEF Inv, Talk, TalkOf
    <2>2. IsSeq(Answers(executed[c]))
      BY <2>1, AnswersGrow
    <2>3. CASE peer[c].got = << >>
      BY <2>2, <2>3, EmptyPrefix
    <2>4. CASE peer[c].st = "open"
      BY <2>1, <2>2, <2>4, PrefixShrinks DEF TalkOf, Out
    <2> QED
      BY <1>1, <2>1, <2>3, <2>4 DEF TalkOf, Inv, Shape
  <1>2. ASSUME Inv, NEW c \in Conns, Attached(c), peer[c].st = "open"
        PROVE  Out(c) \o wbuf[FdOf(c)] = Answers(executed[c])
    <2>1. FdOf(c) \in FDs /\ sock[FdOf(c)] = c
      BY <1>2 DEF Attached, FdOf
    <2> HIDE DEF FdOf
    <2> QED
      BY <1>2, <2>1, Bounds DEF Inv, Talk, TalkOn, Open
  <1>3. ASSUME Inv, NEW c \in Conns, Attached(c), peer[c].st = "open"
        PROVE  peer[c].got \o peer[c].inbox \o wbuf[FdOf(c)] = Answers(executed[c])
    BY <1>2, <1>3 DEF Out
  <1>4. Inv => RepliesInOrder
    BY <1>1, <1>3 DEF RepliesInOrder
  <1> QED
    BY <1>4, InitInv, StepInv, PTL DEF Spec

-----------------------------------------------------------------------------
(* Sleeping *)

\* What is left undone at a descriptor is the current handler's business.
Pending(fd) ==
    /\ \/ fd = cur /\ pc \in {"recv", "parse"}
       \/ RespParse(rbuf[fd]).status = "INCOMPLETE"
    /\ \/ fd = cur /\ pc \in {"recv", "parse", "send", "killed"}
       \/ (fd \in want) <=> (wbuf[fd] # << >>)
    /\ fd = cur /\ pc \in {"recv", "parse"} => (fd \in want => wbuf[fd] # << >>)
    /\ fd = cur /\ pc = "send" => (wbuf[fd] # << >> => fd \in want)

AllPending == \A fd \in Open : Pending(fd)

\* An empty buffer holds no command.
LEMMA EmptyIsIncomplete == RespParse(<< >>).status = "INCOMPLETE"
  <1>1. Len(<< >>) = 0
    OBVIOUS
  <1>2. {i \in 1 .. Len(<< >>) - 1 : SubSeq(<< >>, i, i + 1) = CRLF} = {}
    BY <1>1
  <1>3. FindCrlf(<< >>, 1) = 0
    BY <1>2 DEF FindCrlf
  <1> QED
    BY <1>3 DEF RespParse, Incomplete, Parsed

\* A handler that closes its descriptor leaves nothing undone there.
LEMMA ClosePending ==
    ASSUME Inv, AllPending, NEW fd \in FDs, fd = cur, Close(fd)
    PROVE  AllPending'
  <1>1. /\ pc' = "next" /\ want' = want \ {fd} /\ sock' = [sock EXCEPT ![fd] = Nil]
        /\ wbuf' = [wbuf EXCEPT ![fd] = << >>] /\ rbuf' = [rbuf EXCEPT ![fd] = << >>]
    BY DEF Close, Return, DropClient
  <1>2. ASSUME NEW gd \in Open'
        PROVE  /\ gd # fd /\ gd \in Open
               /\ rbuf'[gd] = rbuf[gd] /\ wbuf'[gd] = wbuf[gd]
               /\ gd \in want' <=> gd \in want
    BY <1>1 DEF Open, Inv, Shape
  <1> QED
    BY <1>1, <1>2 DEF AllPending, Pending

\* A new client has nothing to be done.
LEMMA HandleAcceptPending == ASSUME Inv, AllPending, HandleAccept PROVE AllPending'
  <1>1. pc = "next" /\ pc' = "next" /\ UNCHANGED <<cur, want>>
    BY DEF HandleAccept
  <1>2. CASE UNCHANGED <<buffers, sock>>
    BY <1>1, <1>2 DEF AllPending, Pending, Open, buffers
  <1>3. ASSUME NEW fd \in FDs \ Open, NewClient(fd), NEW c, sock' = [sock EXCEPT ![fd] = c]
        PROVE  AllPending'
    <2>1. rbuf'[fd] = << >> /\ wbuf'[fd] = << >> /\ fd \notin want'
      BY <1>1, <1>3 DEF NewClient, Inv, Shape, Descriptors
    <2>2. ASSUME NEW gd \in Open', gd # fd
          PROVE  gd \in Open /\ rbuf'[gd] = rbuf[gd] /\ wbuf'[gd] = wbuf[gd]
      BY <1>3, <2>2 DEF NewClient, Open, Inv, Shape
    <2>3. ASSUME NEW gd \in Open' PROVE Pending(gd)'
      <3>1. CASE gd = fd
        BY <1>1, <2>1, <3>1, EmptyIsIncomplete DEF Pending
      <3>2. CASE gd # fd
        BY <1>1, <2>2, <3>2 DEF AllPending, Pending
      <3> QED
        BY <3>1, <3>2
    <2> QED
      BY <2>3 DEF AllPending
  <1> QED
    BY <1>2, <1>3 DEF HandleAccept

\* What a handler leaves undone is done or armed when it returns.
LEMMA ServerPending ==
    ASSUME Inv, AllPending, Server
    PROVE  AllPending'
  <1>1. CASE EventWait
    BY <1>1 DEF EventWait, AllPending, Pending, Open, buffers
  <1>2. CASE EndOfBatch
    BY <1>2 DEF EndOfBatch, AllPending, Pending, Open, buffers
  <1>3. CASE HandleAccept
    BY <1>3, HandleAcceptPending
  <1>4. ASSUME NEW fd \in FDs, NextEvent(fd) PROVE AllPending'
    BY <1>4 DEF NextEvent, AllPending, Pending, Open, buffers
  <1>5. pc \in {"recv", "parse", "send"} => cur \in FDs
    BY DEF Inv, Descriptors, Open
  <1>6. ASSUME pc \in {"recv", "parse", "send"}, Close(cur) PROVE AllPending'
    BY <1>5, <1>6, ClosePending
  <1>7. CASE RecvBytes
    <2>1. cur \in clients
      BY <1>7 DEF RecvBytes, Inv, Descriptors, Open
    <2>2. /\ pc' = "recv" /\ pc = "recv" /\ UNCHANGED <<cur, wbuf, want, sock>>
          /\ \A fd \in FDs : fd # cur => rbuf'[fd] = rbuf[fd]
      BY <1>7, <2>1 DEF RecvBytes, Inv, Shape
    <2> QED
      BY <2>2 DEF AllPending, Pending, Open
  <1>8. CASE RecvEnd
    BY <1>6, <1>8 DEF RecvEnd
  <1>9. CASE RecvAgain
    <2>1. CASE Unlucky(cur)
      BY <1>6, <1>9, <2>1 DEF Unlucky, RecvAgain
    <2>2. CASE ~Unlucky(cur)
      <3>1. cur \in clients
        BY <1>9 DEF RecvAgain, Inv, Descriptors, Open
      <3> QED
        BY <1>9, <2>2, <3>1 DEF RecvAgain, AllPending, Pending, Open, buffers
    <2> QED
      BY <2>1, <2>2
  <1>10. ASSUME NEW r, r = RespParse(rbuf[cur]),
                Execute(r) \/ ExecuteQuit(r) \/ Reject(r) \/ ReadDone(r)
         PROVE  AllPending'
    <2>1. CASE ExecuteQuit(r) \/ Reject(r)
      BY <1>6, <2>1 DEF ExecuteQuit, Reject
    <2>2. CASE Execute(r)
      <3>1. /\ pc = "parse" /\ pc' = "parse" /\ UNCHANGED <<cur, want, sock>>
            /\ \A fd \in FDs : fd # cur => rbuf'[fd] = rbuf[fd] /\ wbuf'[fd] = wbuf[fd]
            /\ wbuf'[cur] = Append(wbuf[cur], Answer(r.args)) /\ IsSeq(wbuf[cur])
        BY <1>5, <2>2 DEF Execute, Inv, Shape, Talk, TalkOn
      <3>2. wbuf'[cur] # << >>
        <4>1. PICK S : wbuf[cur] \in Seq(S) /\ Answer(r.args) \in S
          <5>1. wbuf[cur] \in Seq(Range(wbuf[cur]) \cup {Answer(r.args)})
            BY <3>1, SeqMonotonic DEF IsSeq
          <5> QED
            BY <5>1
        <4> QED
          BY <3>1, <4>1, AppendProperties
      <3> QED
        BY <3>1, <3>2 DEF AllPending, Pending, Open
    <2>3. CASE ReadDone(r)
      <3>1. /\ pc = "parse" /\ pc' = "next" /\ UNCHANGED <<rbuf, wbuf, sock>>
            /\ RespParse(rbuf[cur]).status = "INCOMPLETE"
            /\ want' = IF wbuf[cur] # << >> THEN want \cup {cur} ELSE want
        BY <1>10, <2>3 DEF ReadDone, Return, buffers
      <3> QED
        BY <3>1 DEF AllPending, Pending, Open
    <2> QED
      BY <1>10, <2>1, <2>2, <2>3
  <1>11. CASE SendSome
    <2>1. /\ pc = "send" /\ pc' = "send" /\ UNCHANGED <<cur, want, sock, rbuf>>
          /\ wbuf[cur] # << >>
          /\ \A fd \in FDs : fd # cur => wbuf'[fd] = wbuf[fd]
      BY <1>11 DEF SendSome, Sending, Inv, Shape
    <2> QED
      BY <2>1 DEF AllPending, Pending, Open
  <1>12. CASE SendAgain
    <2>1. CASE Unlucky(cur)
      BY <1>6, <1>12, <2>1 DEF Unlucky, SendAgain, Sending
    <2>2. CASE ~Unlucky(cur)
      BY <1>12, <2>2 DEF SendAgain, Sending, Return, AllPending, Pending, Open, buffers
    <2> QED
      BY <2>1, <2>2
  <1>13. CASE SendFails
    <2>1. CASE Close(cur)
      BY <1>6, <1>13, <2>1 DEF SendFails, Sending
    <2>2. CASE pc' = "killed" /\ UNCHANGED <<cur, buffers, want, sock>> /\ pc = "send"
      BY <2>2 DEF AllPending, Pending, Open, buffers
    <2> QED
      BY <1>13, <2>1, <2>2 DEF SendFails, Sending
  <1>14. CASE WriteDone
    BY <1>14 DEF WriteDone, Return, AllPending, Pending, Open, buffers
  <1> QED
    BY <1>1, <1>2, <1>3, <1>4, <1>7, <1>8, <1>9, <1>10, <1>11, <1>12, <1>13, <1>14
    DEF Server, HandleRead, HandleWrite, Parse

\* When the loop sleeps there is no whole command in a read buffer, and it is
\* woken for exactly the sockets that answers wait for (server.cpp:148-175,
\* 178-196).
THEOREM NothingIsForgotten == Spec => []NothingForgotten
  <1>1. Init => AllPending
    BY DEF Init, AllPending, Open
  <1>2. Inv /\ AllPending /\ [Next]_vars => AllPending'
    <2> SUFFICES ASSUME Inv, AllPending, [Next]_vars PROVE AllPending'
      OBVIOUS
    <2>1. ASSUME NEW c \in Conns, Client(c) PROVE AllPending'
      <3>1. UNCHANGED <<pc, cur, buffers, want, sock>>
        BY <2>1 DEF Client, Connect, SendSegment, ReadReply, ShutDown, Leave,
                    Refuse, ClientStep, server
      <3> QED
        BY <3>1 DEF AllPending, Pending, Open, buffers
    <2>2. CASE UNCHANGED vars
      BY <2>2 DEF vars, server, AllPending, Pending, Open, buffers
    <2> QED
      BY <2>1, <2>2, ServerPending DEF Next
  <1>3. AllPending => NothingForgotten
    BY DEF AllPending, Pending, NothingForgotten
  <1> QED
    BY <1>1, <1>2, <1>3, InitInv, StepInv, PTL DEF Spec
=============================================================================
