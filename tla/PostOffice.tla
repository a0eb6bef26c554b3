------------------------------ MODULE PostOffice -----------------------------
(***************************************************************************)
(* Mail between NachOS machines: the network device (machine/network.cc)   *)
(* over a datagram socket per machine (lib/sysdep.cc), the post office     *)
(* with its postal worker and mailboxes (network/post.cc), and programs    *)
(* that use it, Kernel::NetworkTest above all.                             *)
(*                                                                         *)
(* Each host is a process of its own.  On a host any thread that can run   *)
(* may run next, and a scheduled interrupt may come between any two steps; *)
(* the time to it is left out.  Semaphores and the mailboxes' SynchLists   *)
(* are atomic (Synch and SynchList show that they are).                    *)
(*                                                                         *)
(* A thread in PostOfficeOutput::Send is at "acquire" (sendLock), "send"   *)
(* (network->Send), "wait" (messageSent->P) and "release".  The worker is  *)
(* at "wait" (messageAvailable->P), "receive" and "put".                   *)
(***************************************************************************)
EXTENDS Integers, Sequences, FiniteSets

CONSTANTS Hosts, NumBoxes,
          Programs,    \* functions from threads to [host, ops]
          NoPacket     \* inHdr.length = 0: nothing is buffered

ASSUME BoxesAssumption == NumBoxes \in Nat \ {0}

Boxes == 0 .. NumBoxes - 1

\* What goes over the network, PacketHeader and MailHeader flattened, and the calls.
Packets == [from : Hosts, to : Hosts, mailHdr : [to : Boxes, from : Boxes],
            data : (UNION {DOMAIN p : p \in Programs}) \X Nat]
Calls == [op : {"send"}, to : Hosts, box : Boxes, from : Boxes]
           \union [op : {"receive"}, box : Boxes] \union [op : {"ack"}, from : Boxes]

ASSUME NoPacketAssumption == NoPacket \notin Packets

\* What programs are: the boxes are those the ASSERTs of post.cc ask for, and what is
\* answered by an "ack" has been received.
Answers(ops) ==
  \A i \in DOMAIN ops : ops[i].op = "ack" => \E j \in 1 .. i - 1 : ops[j].op = "receive"
IsProgram(p) ==
  /\ p \in [DOMAIN p -> [host : Hosts, ops : Seq(Calls)]]
  /\ \A t \in DOMAIN p : Answers(p[t].ops)

ASSUME ProgramsAssumption == \A p \in Programs : IsProgram(p)

VARIABLES office,      \* of each host: its post office and network device
          prog,        \* of each thread: [host, ops], the calls it has still to make
          stage,       \* of each thread: where in Send it is
          mail,        \* of each thread: the last mail it received
          wire,        \* every packet that entered the host's socket
          delivered,   \* every packet the host's worker put into a mailbox
          taken,       \* what was taken from each mailbox of the host
          lost         \* how many packets were dropped

vars == <<office, prog, stage, mail, wire, delivered, taken, lost>>

Threads == DOMAIN prog
Office(t) == office[prog[t].host]
Op(t) == Head(prog[t].ops)

-----------------------------------------------------------------------------
(***************************************************************************)
(* The device and the post office's part of its interrupts.                *)
(***************************************************************************)

\* The socket of a host: a queue of packets, which others find once it has a name.
\* Without one SendToSocket tries ten times and drops the packet.
AssignNameToSocket(o) == [o EXCEPT !.up = TRUE]
PollSocket(o) == o.sock # <<>>
ReadFromSocket(o) == [o EXCEPT !.inHdr = Head(o.sock), !.sock = Tail(@)]
SendToSocket(offices, packet) ==
  IF offices[packet.to].up THEN [offices EXCEPT ![packet.to].sock = Append(@, packet)] ELSE offices

\* NetworkInput::CallBack: the next poll is scheduled first; then a packet is read
\* if none is buffered and one has arrived, and PostOfficeInput::CallBack is told.
CallBack(o) ==
  LET polled == [o EXCEPT !.recvInt = TRUE]
  IN IF o.inHdr # NoPacket \/ ~PollSocket(o) THEN polled
     ELSE [ReadFromSocket(polled) EXCEPT !.messageAvailable = @ + 1]

\* NetworkOutput::CallBack and PostOfficeOutput::CallBack.  sendBusy is set nowhere.
SendCallBack(o) == [o EXCEPT !.sendInt = FALSE, !.messageSent = @ + 1]

\* NetworkInput::Receive empties the buffer, whatever it held.
NetworkReceive(o) == [o EXCEPT !.buffer = o.inHdr, !.inHdr = NoPacket]

\* NetworkOutput::Send schedules its interrupt before it may lose the packet.
NetworkSend_after_loss(o, lose) == IF lose THEN o ELSE [o EXCEPT !.sendInt = TRUE]
NetworkSend(o, lose) == [o EXCEPT !.sendInt = TRUE]

CanAcquire_always(o) == TRUE
CanAcquire(o) == ~o.sendLock

BoxOf_reply(packet) == packet.mailHdr.from
BoxOf(packet) == packet.mailHdr.to

\* The mailbox Receive looks in.
Wanted(op) == op.box

-----------------------------------------------------------------------------
\* The kernel of h starts: its socket gets a name and is polled from now on.
Boot(h) ==
  /\ ~office[h].up
  /\ office' = [office EXCEPT ![h] = [AssignNameToSocket(@) EXCEPT !.recvInt = TRUE]]
  /\ UNCHANGED <<prog, stage, mail, wire, delivered, taken, lost>>

RecvInterrupt(h) ==
  /\ office[h].recvInt
  /\ office' = [office EXCEPT ![h] = CallBack(@)]
  /\ UNCHANGED <<prog, stage, mail, wire, delivered, taken, lost>>

SendInterrupt(h) ==
  /\ office[h].sendInt
  /\ office' = [office EXCEPT ![h] = SendCallBack(@)]
  /\ UNCHANGED <<prog, stage, mail, wire, delivered, taken, lost>>

\* PostOfficeInput::PostalDelivery: P, then Receive, then MailBox::Put.
PostalDelivery(h) ==
  /\ office[h].up
  /\ \/ /\ office[h].worker = "wait" /\ office[h].messageAvailable > 0
        /\ office' = [office EXCEPT ![h].worker = "receive", ![h].messageAvailable = @ - 1]
        /\ UNCHANGED delivered
     \/ /\ office[h].worker = "receive"
        /\ office' = [office EXCEPT ![h] = [NetworkReceive(@) EXCEPT !.worker = "put"]]
        /\ UNCHANGED delivered
     \/ /\ office[h].worker = "put"
        /\ LET p == office[h].buffer
           IN /\ office' = [office EXCEPT ![h].boxes[BoxOf(p)] = Append(@, p),
                                          ![h].worker = "wait", ![h].buffer = NoPacket]
              /\ delivered' = [delivered EXCEPT ![h] = Append(@, p)]
  /\ UNCHANGED <<prog, stage, mail, wire, taken, lost>>

-----------------------------------------------------------------------------
\* Kernel::NetworkTest on host h: a message to box 0 of the other host, the message
\* from there, an acknowledgment to the box it names, and the other's to box 1.
SendTo(h, box) == [op |-> "send", to |-> h, box |-> box, from |-> 1]
ReceiveFrom(box) == [op |-> "receive", box |-> box]
NetworkTest(h) ==
  [host |-> h,
   ops |-> <<SendTo(1 - h, 0), ReceiveFrom(0), [op |-> "ack", from |-> 1], ReceiveFrom(1)>>]

Sends(t) == prog[t].ops # <<>> /\ Op(t).op # "receive"

\* The packet of t's call.  An "ack" answers the mail received last, to the box its
\* header names; the reply box in its own header is the one of the first message.
Packet(t) ==
  LET to == IF Op(t).op = "ack" THEN mail[t].from ELSE Op(t).to
      box == IF Op(t).op = "ack" THEN BoxOf_reply(mail[t]) ELSE Op(t).box
  IN [from |-> prog[t].host, to |-> to, mailHdr |-> [to |-> box, from |-> Op(t).from],
      data |-> <<t, Len(prog[t].ops)>>]

Acquire(t) ==
  /\ Sends(t) /\ stage[t] = "acquire" /\ Office(t).up /\ CanAcquire(Office(t))
  /\ office' = [office EXCEPT ![prog[t].host].sendLock = TRUE]
  /\ stage' = [stage EXCEPT ![t] = "send"]
  /\ UNCHANGED <<prog, mail, wire, delivered, taken, lost>>

\* NetworkOutput::Send: the packet may be lost by the simulated network, or dropped
\* by SendToSocket after ten tries when the other socket does not exist.
Send(t) ==
  /\ stage[t] = "send"
  /\ \E lose \in BOOLEAN :
       LET h == prog[t].host
           p == Packet(t)
           sent == [office EXCEPT ![h] = NetworkSend(@, lose)]
       IN /\ office' = IF lose THEN sent ELSE SendToSocket(sent, p)
          /\ IF lose \/ ~office[p.to].up
             THEN lost' = lost + 1 /\ UNCHANGED wire
             ELSE wire' = [wire EXCEPT ![p.to] = Append(@, p)] /\ UNCHANGED lost
  /\ stage' = [stage EXCEPT ![t] = "wait"]
  /\ UNCHANGED <<prog, mail, delivered, taken>>

WaitSent(t) ==
  /\ stage[t] = "wait" /\ Office(t).messageSent > 0
  /\ office' = [office EXCEPT ![prog[t].host].messageSent = @ - 1]
  /\ stage' = [stage EXCEPT ![t] = "release"]
  /\ UNCHANGED <<prog, mail, wire, delivered, taken, lost>>

Release(t) ==
  /\ stage[t] = "release"
  /\ office' = [office EXCEPT ![prog[t].host].sendLock = FALSE]
  /\ stage' = [stage EXCEPT ![t] = "acquire"]
  /\ prog' = [prog EXCEPT ![t].ops = Tail(@)]
  /\ UNCHANGED <<mail, wire, delivered, taken, lost>>

\* PostOfficeInput::Receive, MailBox::Get: waits while the mailbox is empty.
Receive(t) ==
  /\ prog[t].ops # <<>> /\ Op(t).op = "receive"
  /\ LET h == prog[t].host
         b == Wanted(Op(t))
     IN /\ office[h].boxes[b] # <<>>
        /\ mail' = [mail EXCEPT ![t] = Head(office[h].boxes[b])]
        /\ office' = [office EXCEPT ![h].boxes[b] = Tail(@)]
        /\ taken' = [taken EXCEPT ![h][b] = Append(@, Head(office[h].boxes[b]))]
  /\ prog' = [prog EXCEPT ![t].ops = Tail(@)]
  /\ UNCHANGED <<stage, wire, delivered, lost>>

Step(t) == Acquire(t) \/ Send(t) \/ WaitSent(t) \/ Release(t) \/ Receive(t)

Init ==
  /\ office = [h \in Hosts |->
       [up |-> FALSE, sock |-> <<>>, inHdr |-> NoPacket, recvInt |-> FALSE, sendInt |-> FALSE,
        messageAvailable |-> 0, messageSent |-> 0, sendLock |-> FALSE,
        boxes |-> [b \in Boxes |-> <<>>], worker |-> "wait", buffer |-> NoPacket]]
  /\ prog \in Programs
  /\ stage = [t \in DOMAIN prog |-> "acquire"] /\ mail = [t \in DOMAIN prog |-> NoPacket]
  /\ wire = [h \in Hosts |-> <<>>] /\ delivered = [h \in Hosts |-> <<>>]
  /\ taken = [h \in Hosts |-> [b \in Boxes |-> <<>>]]
  /\ lost = 0

Next ==
  \/ \E h \in Hosts : Boot(h) \/ RecvInterrupt(h) \/ SendInterrupt(h) \/ PostalDelivery(h)
  \/ \E t \in Threads : Step(t)

\* Both machines are started, every scheduled interrupt comes, and the scheduler
\* runs every thread that can run.
Spec ==
  /\ Init /\ [][Next]_vars
  /\ \A h \in Hosts : /\ WF_vars(Boot(h)) /\ WF_vars(RecvInterrupt(h))
                      /\ WF_vars(SendInterrupt(h)) /\ WF_vars(PostalDelivery(h))
  /\ WF_vars(\E t \in Threads : Step(t))

-----------------------------------------------------------------------------
Held(p) == IF p = NoPacket THEN <<>> ELSE <<p>>

\* Where among what h's worker delivered the packets for box b are, and what that
\* box got, the mail already taken out first.
For(h, b) == {i \in DOMAIN delivered[h] : delivered[h][i].mailHdr.to = b}
Got(h, b) == taken[h][b] \o office[h].boxes[b]

\* Once in a socket a packet is neither lost, nor doubled, nor overtaken: what was
\* sent to a host is what the worker delivered, holds, and finds in the buffer and
\* the socket, in that order, and each mailbox hands on its share in that order
\* (the test of inHdr.length keeps a poll from overwriting a buffered packet).
InOrderOnce ==
  \A h \in Hosts :
    /\ wire[h] = delivered[h] \o Held(office[h].buffer) \o Held(office[h].inHdr) \o office[h].sock
    /\ \A b \in Boxes :
         /\ Len(Got(h, b)) = Cardinality(For(h, b))
         /\ \A i \in For(h, b) :
              Got(h, b)[Cardinality({j \in For(h, b) : j <= i})] = delivered[h][i]

\* The device sends one packet at a time, which sendLock alone ensures (sendBusy is
\* never set), and its interrupt is meant for the thread that waits for it.
OneSendAtATime ==
  \A h \in Hosts :
    LET inside == {t \in Threads : prog[t].host = h /\ stage[t] # "acquire"}
    IN /\ Cardinality(inside) <= 1 /\ (inside # {} <=> office[h].sendLock)
       /\ office[h].sendInt \/ office[h].messageSent > 0 => \E t \in inside : stage[t] = "wait"

\* The programs end: NetworkTest has its message and its acknowledgment on both
\* hosts.  A lost packet holds up nobody but those who wait for mail: Send returns
\* all the same, and the next sender has its turn ("Called even if the previous
\* packet was dropped", post.cc).
ProgramsEnd ==
  <>[](\A t \in Threads : prog[t].ops # <<>> =>
         lost > 0 /\ Head(prog[t].ops).op = "receive")
=============================================================================
