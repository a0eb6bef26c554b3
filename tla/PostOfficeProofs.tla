-------------------------- MODULE PostOfficeProofs ---------------------------
(***************************************************************************)
(* Proofs about PostOffice, for any hosts, any number of mailboxes and any *)
(* programs: a host's device has one packet to send at a time, and what    *)
(* entered a socket reaches the mailboxes once and in order.               *)
(*                                                                         *)
(* The sending half (LockInv) and the receiving half (WorkerInv, WireInv,  *)
(* BoxInv) of an office do not touch each other's fields, so each action   *)
(* is proved for the half it works on, and the SameX lemmas do the rest.   *)
(***************************************************************************)
EXTENDS PostOffice, FiniteSetTheorems, TLAPS

Stages == {"acquire", "send", "wait", "release"}
Offices ==
  [up : BOOLEAN, sock : Seq(Packets), inHdr : Packets \union {NoPacket}, recvInt : BOOLEAN,
   sendInt : BOOLEAN, messageAvailable : Nat, messageSent : Nat, sendLock : BOOLEAN,
   boxes : [Boxes -> Seq(Packets)], worker : {"wait", "receive", "put"},
   buffer : Packets \union {NoPacket}]

PostType ==
  /\ office \in [Hosts -> Offices]
  /\ prog \in [Threads -> [host : Hosts, ops : Seq(Calls)]]
  /\ Threads \subseteq UNION {DOMAIN p : p \in Programs}
  /\ stage \in [Threads -> Stages]
  /\ mail \in [Threads -> Packets \union {NoPacket}]
  /\ wire \in [Hosts -> Seq(Packets)] /\ delivered \in [Hosts -> Seq(Packets)]
  /\ taken \in [Hosts -> [Boxes -> Seq(Packets)]]

\* Who is inside Send has a call of Send to make, and whoever answers has mail.
CallInv ==
  \A t \in Threads : /\ stage[t] # "acquire" => Sends(t)
                     /\ mail[t] # NoPacket \/ Answers(prog[t].ops)

Inside(h) == {t \in Threads : prog[t].host = h /\ stage[t] # "acquire"}

\* The interrupts of sent packets that have not been waited for.
Pending(h) == office[h].messageSent + (IF office[h].sendInt THEN 1 ELSE 0)

\* sendLock is held by the one thread inside, and its interrupt, scheduled or taken,
\* is there exactly while that thread waits: a second one would let the next sender
\* go on before its own packet has gone.
LockInv ==
  \A h \in Hosts :
    /\ \A t, u \in Inside(h) : t = u
    /\ Inside(h) # {} <=> office[h].sendLock
    /\ Pending(h) = IF \E t \in Inside(h) : stage[t] = "wait" THEN 1 ELSE 0

\* messageAvailable counts the buffered packet, until the worker takes it.
WorkerInv ==
  \A h \in Hosts :
    /\ office[h].worker = "put" <=> office[h].buffer # NoPacket
    /\ office[h].messageAvailable + (IF office[h].worker = "receive" THEN 1 ELSE 0)
         = IF office[h].inHdr = NoPacket THEN 0 ELSE 1

WireInv ==
  \A h \in Hosts :
    wire[h] = delivered[h] \o Held(office[h].buffer) \o Held(office[h].inHdr) \o office[h].sock

\* Of the packets d, those for box b are the sequence g.
Share(d, b) == {i \in DOMAIN d : d[i].mailHdr.to = b}
Filed(g, d, b) ==
  /\ Len(g) = Cardinality(Share(d, b))
  /\ \A i \in Share(d, b) : g[Cardinality({j \in Share(d, b) : j <= i})] = d[i]

BoxInv == \A h \in Hosts, b \in Boxes : Filed(Got(h, b), delivered[h], b)

IInv == PostType /\ CallInv /\ LockInv /\ WorkerInv /\ WireInv /\ BoxInv

-----------------------------------------------------------------------------
SameSender ==
  \A g \in Hosts : /\ office'[g].sendLock = office[g].sendLock
                   /\ office'[g].sendInt = office[g].sendInt
                   /\ office'[g].messageSent = office[g].messageSent
SameBuffers ==
  \A g \in Hosts : /\ office'[g].inHdr = office[g].inHdr
                   /\ office'[g].buffer = office[g].buffer
SameWorker ==
  /\ SameBuffers
  /\ \A g \in Hosts : /\ office'[g].worker = office[g].worker
                      /\ office'[g].messageAvailable = office[g].messageAvailable
SameSockets == \A g \in Hosts : office'[g].sock = office[g].sock
SameBoxes == \A g \in Hosts : office'[g].boxes = office[g].boxes

\* One host's office changes, the others stay as they are.
LEMMA OfficeUpdate ==
  ASSUME office \in [Hosts -> Offices], NEW h \in Hosts, NEW r \in Offices,
         office' = [office EXCEPT ![h] = r]
  PROVE  /\ office' \in [Hosts -> Offices]
         /\ office'[h] = r
         /\ \A g \in Hosts : g # h => office'[g] = office[g]
OBVIOUS

\* Steps that leave the threads and the fields of the sending half alone keep what
\* is said of sendLock and its interrupt.
LEMMA SenderKeeps ==
  ASSUME LockInv, CallInv, SameSender, UNCHANGED <<prog, stage, mail>>
  PROVE  LockInv' /\ CallInv'
<1>1. \A h : Inside(h)' = Inside(h)
  BY Zenon DEF Inside, Threads
<1>2. \A h \in Hosts : Pending(h)' = Pending(h)
  BY Zenon DEF Pending, SameSender
<1>3. LockInv'
  BY Zenon, <1>1, <1>2 DEF LockInv, SameSender
<1>4. CallInv'
  BY Zenon DEF CallInv, Sends, Op, Threads
<1> QED
  BY Zenon, <1>3, <1>4

\* What leaves the postal worker and its buffer alone keeps what is said of them.
LEMMA WorkerKeeps ==
  ASSUME WorkerInv, SameWorker
  PROVE  WorkerInv'
BY DEF WorkerInv, SameBuffers, SameWorker

\* What leaves the network and the buffers alone keeps every packet in its place.
LEMMA WireKeeps ==
  ASSUME WireInv, SameBuffers, SameSockets, UNCHANGED <<wire, delivered>>
  PROVE  WireInv'
BY ZenonT(30) DEF WireInv, SameBuffers, SameSockets, Held

\* What leaves the mailboxes alone keeps what is said of them.
LEMMA BoxesKeep ==
  ASSUME BoxInv, SameBoxes, UNCHANGED <<delivered, taken>>
  PROVE  BoxInv'
<1>1. \A h \in Hosts, b \in Boxes : Got(h, b)' = Got(h, b)
  BY ZenonT(30) DEF Got, SameBoxes
<1> QED
  BY Zenon, <1>1 DEF BoxInv

\* A queue is what comes before its first packet, that packet and the rest.
LEMMA HeadTail ==
  ASSUME NEW S, NEW d \in Seq(S), NEW s \in Seq(S), s # <<>>
  PROVE  d \o s = d \o <<Head(s)>> \o Tail(s) /\ d \o <<>> \o s = d \o s
OBVIOUS

\* One more packet is put at the end of the box it is for.
LEMMA FiledAppend ==
  ASSUME NEW d \in Seq(Packets), NEW g \in Seq(Packets), NEW p \in Packets, NEW b,
         Filed(g, d, b)
  PROVE  /\ p.mailHdr.to = b => Filed(Append(g, p), Append(d, p), b)
         /\ p.mailHdr.to # b => Filed(g, Append(d, p), b)
<1> DEFINE n == Len(d)
           S == Share(d, b)
           T == Share(Append(d, p), b)
           Upto(i) == {j \in S : j <= i}
<1>0. n \in Nat /\ DOMAIN d = 1 .. n
  OBVIOUS
<1> HIDE DEF n
<1>1. S \subseteq 1 .. n /\ n + 1 \notin S
  <2>1. S \subseteq 1 .. n
    BY Zenon, <1>0 DEF Share
  <2>2. n + 1 \notin 1 .. n
    BY <1>0
  <2> QED
    BY Zenon, <2>1, <2>2
<1>2. IsFiniteSet(S)
  <2>1. IsFiniteSet(1 .. n)
    BY <1>0, FS_Interval
  <2> HIDE DEF S
  <2> QED
    BY ZenonT(30), <1>1, <2>1, FS_Subset
<1>3. /\ DOMAIN Append(d, p) = 1 .. n + 1 /\ Append(d, p)[n + 1] = p
      /\ \A i \in 1 .. n : Append(d, p)[i] = d[i]
  BY DEF n
<1>4. p.mailHdr.to = b => T = S \union {n + 1}
  BY <1>0, <1>1, <1>3 DEF Share
<1>5. p.mailHdr.to # b => T = S
  BY <1>0, <1>1, <1>3 DEF Share
<1>6. Len(g) = Cardinality(S) /\ \A i \in S : g[Cardinality(Upto(i))] = d[i]
  BY ZenonT(30) DEF Filed
<1>7. \A i \in S : Cardinality(Upto(i)) \in 1 .. Len(g)
  <2> TAKE i \in S
  <2>1. Upto(i) \subseteq S /\ i \in Upto(i)
    BY <1>0, <1>1
  <2>2. IsFiniteSet(Upto(i)) /\ Cardinality(Upto(i)) <= Cardinality(S)
    BY Zenon, <1>2, <2>1, FS_Subset
  <2>3. Cardinality(Upto(i)) \in Nat /\ Cardinality(Upto(i)) # 0
    BY Zenon, <2>1, <2>2, FS_CardinalityType, FS_EmptySet
  <2> QED
    BY <1>6, <2>2, <2>3
<1>8. ASSUME p.mailHdr.to # b
      PROVE  Filed(g, Append(d, p), b)
  <2>1. \A i \in S : g[Cardinality({j \in S : j <= i})] = Append(d, p)[i]
    BY Zenon, <1>0, <1>1, <1>3, <1>6
  <2> QED
    BY ZenonT(30), <1>5, <1>6, <1>8, <2>1 DEF Filed
<1>9. ASSUME p.mailHdr.to = b
      PROVE  Filed(Append(g, p), Append(d, p), b)
  <2>1. Cardinality(T) = Cardinality(S) + 1
    BY ZenonT(60), <1>0, <1>1, <1>2, <1>4, <1>9, FS_AddElement
  <2>2. Len(Append(g, p)) = Cardinality(T)
    BY <1>6, <2>1
  <2>3. ASSUME NEW i \in S
        PROVE  Append(g, p)[Cardinality({j \in T : j <= i})] = Append(d, p)[i]
    <3>1. {j \in T : j <= i} = Upto(i)
      BY <1>0, <1>1, <1>4, <1>9
    <3> HIDE DEF Upto
    <3>2. Append(g, p)[Cardinality(Upto(i))] = g[Cardinality(Upto(i))]
      BY <1>7
    <3> QED
      BY ZenonT(30), <1>1, <1>3, <1>6, <3>1, <3>2
  <2>4. Append(g, p)[Cardinality({j \in T : j <= n + 1})] = Append(d, p)[n + 1]
    <3>1. \A j \in T : j <= n + 1
      BY <1>0, <1>1, <1>4, <1>9
    <3>2. {j \in T : j <= n + 1} = T
      BY Zenon, <3>1
    <3>3. Append(g, p)[Len(g) + 1] = p
      OBVIOUS
    <3> HIDE DEF S, T
    <3> QED
      BY ZenonT(30), <1>3, <1>6, <2>1, <3>2, <3>3
  <2> HIDE DEF S
  <2>5. \A i \in T : Append(g, p)[Cardinality({j \in T : j <= i})] = Append(d, p)[i]
    BY ZenonT(30), <1>4, <1>9, <2>3, <2>4
  <2> QED
    BY ZenonT(30), <2>2, <2>5 DEF Filed
<1> QED
  BY Zenon, <1>8, <1>9

\* The element List::RemoveFront returns and the list it leaves.
LEMMA HeadIn ==
  ASSUME NEW S, NEW s \in Seq(S), s # <<>>
  PROVE  Head(s) \in S /\ Tail(s) \in Seq(S)
OBVIOUS

\* Putting a mail at the end of a mailbox is appending it to all that went through.
LEMMA AppendConcat ==
  ASSUME NEW S, NEW k \in Seq(S), NEW m \in Seq(S), NEW p \in S
  PROVE  k \o m \in Seq(S) /\ k \o Append(m, p) = Append(k \o m, p)
OBVIOUS

-----------------------------------------------------------------------------
\* The device and the worker.
LEMMA BootKeeps ==
  ASSUME IInv, NEW h \in Hosts, Boot(h)
  PROVE  IInv'
<1> DEFINE r == [office[h] EXCEPT !.up = TRUE, !.recvInt = TRUE]
<1>0. office[h] \in Offices
  BY Zenon DEF IInv, PostType
<1>1. r \in Offices
  BY ZenonT(30), <1>0 DEF Offices
<1>2. office' = [office EXCEPT ![h] = r]
  BY Zenon DEF Boot, AssignNameToSocket
<1>3. /\ r.sendLock = office[h].sendLock /\ r.sendInt = office[h].sendInt
      /\ r.messageSent = office[h].messageSent /\ r.worker = office[h].worker
      /\ r.messageAvailable = office[h].messageAvailable /\ r.inHdr = office[h].inHdr
      /\ r.buffer = office[h].buffer /\ r.sock = office[h].sock /\ r.boxes = office[h].boxes
  BY Zenon, <1>0 DEF Offices
<1> HIDE DEF r
<1>4. /\ office' \in [Hosts -> Offices]
      /\ SameSender /\ SameWorker /\ SameSockets /\ SameBoxes
  BY Zenon, <1>1, <1>2, <1>3, OfficeUpdate
  DEF IInv, PostType, SameSender, SameBuffers, SameWorker, SameSockets, SameBoxes
<1>5. UNCHANGED <<prog, stage, mail, wire, delivered, taken>>
  BY Zenon DEF Boot
<1>6. PostType'
  BY Zenon, <1>4, <1>5 DEF IInv, PostType, Threads
<1> QED
  BY Zenon, <1>4, <1>5, <1>6, SenderKeeps, WorkerKeeps, WireKeeps, BoxesKeep DEF IInv, SameWorker

\* A poll moves the first packet of the socket into an empty buffer and tells the
\* worker; a packet that is still there is left alone (NetworkInput::CallBack).
LEMMA RecvInterruptKeeps ==
  ASSUME IInv, NEW h \in Hosts, RecvInterrupt(h)
  PROVE  IInv'
<1> DEFINE o == office[h]
           r == CallBack(o)
<1>1. o \in Offices /\ office' = [office EXCEPT ![h] = r]
  BY Zenon DEF IInv, PostType, RecvInterrupt
<1>5. UNCHANGED <<prog, stage, mail, wire, delivered, taken>>
  BY Zenon DEF RecvInterrupt
<1>2. CASE o.inHdr # NoPacket \/ ~PollSocket(o)
  <2>1. r = [o EXCEPT !.recvInt = TRUE]
    BY Zenon, <1>2 DEF CallBack
  <2>2. /\ r \in Offices
        /\ r.sendLock = o.sendLock /\ r.sendInt = o.sendInt /\ r.messageSent = o.messageSent
        /\ r.worker = o.worker /\ r.messageAvailable = o.messageAvailable
        /\ r.inHdr = o.inHdr /\ r.buffer = o.buffer /\ r.sock = o.sock /\ r.boxes = o.boxes
    BY ZenonT(30), <1>1, <2>1 DEF Offices
  <2> HIDE DEF r
  <2>4. /\ office' \in [Hosts -> Offices]
        /\ SameSender /\ SameWorker /\ SameSockets /\ SameBoxes
    BY Zenon, <1>1, <2>2, OfficeUpdate
    DEF IInv, PostType, SameSender, SameBuffers, SameWorker, SameSockets, SameBoxes
  <2>6. PostType'
    BY Zenon, <2>4, <1>5 DEF IInv, PostType, Threads
  <2> QED
    BY Zenon, <2>4, <1>5, <2>6, SenderKeeps, WorkerKeeps, WireKeeps, BoxesKeep DEF IInv, SameWorker
<1>3. CASE ~(o.inHdr # NoPacket \/ ~PollSocket(o))
  <2> DEFINE n == o.messageAvailable + 1
  <2>0. n \in Nat
    BY <1>1 DEF Offices
  <2>1. r = [o EXCEPT !.recvInt = TRUE, !.inHdr = Head(o.sock), !.sock = Tail(o.sock),
                      !.messageAvailable = n]
    BY Zenon, <1>1, <1>3 DEF CallBack, ReadFromSocket, Offices
  <2>2. o.sock # <<>> /\ o.sock \in Seq(Packets) /\ o.inHdr = NoPacket
    BY Zenon, <1>1, <1>3 DEF PollSocket, Offices
  <2>3. /\ Head(o.sock) \in Packets /\ Tail(o.sock) \in Seq(Packets)
        /\ <<Head(o.sock)>> \o Tail(o.sock) = o.sock
    BY <2>2
  <2> HIDE DEF r, n
  <2>4. /\ r \in Offices
        /\ r.sendLock = o.sendLock /\ r.sendInt = o.sendInt /\ r.messageSent = o.messageSent
        /\ r.worker = o.worker /\ r.messageAvailable = n
        /\ r.inHdr = Head(o.sock) /\ r.buffer = o.buffer /\ r.sock = Tail(o.sock)
        /\ r.boxes = o.boxes
    BY ZenonT(30), <1>1, <2>0, <2>1, <2>3 DEF Offices
  <2>5. /\ office' \in [Hosts -> Offices] /\ office'[h] = r
        /\ \A g \in Hosts : g # h => office'[g] = office[g]
        /\ SameSender /\ SameBoxes
    BY Zenon, <1>1, <2>4, OfficeUpdate DEF IInv, PostType, SameSender, SameBoxes
  <2>6. PostType'
    BY Zenon, <2>5, <1>5 DEF IInv, PostType, Threads
  <2>7. Head(o.sock) # NoPacket
    BY Zenon, <2>3, NoPacketAssumption
  <2>8. WorkerInv'
    <3> SUFFICES ASSUME NEW g \in Hosts
                 PROVE  /\ office'[g].worker = "put" <=> office'[g].buffer # NoPacket
                        /\ office'[g].messageAvailable
                             + (IF office'[g].worker = "receive" THEN 1 ELSE 0)
                             = IF office'[g].inHdr = NoPacket THEN 0 ELSE 1
      BY Zenon DEF WorkerInv
    <3>1. CASE g # h
      BY Zenon, <3>1, <2>5 DEF IInv, WorkerInv
    <3>2. CASE g = h
      <4>1. o.messageAvailable \in Nat
        BY Zenon, <1>1 DEF Offices
      <4>2. o.messageAvailable + (IF o.worker = "receive" THEN 1 ELSE 0) = 0
        BY Zenon, <2>2 DEF IInv, WorkerInv
      <4> QED
        BY <3>2, <2>4, <2>5, <2>7, <4>1, <4>2 DEF IInv, WorkerInv, n
    <3> QED
      BY Zenon, <3>1, <3>2
  <2>9. WireInv'
    <3> SUFFICES ASSUME NEW g \in Hosts
                 PROVE  wire[g] = delivered[g] \o Held(office'[g].buffer)
                                    \o Held(office'[g].inHdr) \o office'[g].sock
      BY ZenonT(30), <1>5 DEF WireInv, Held
    <3>1. CASE g # h
      BY ZenonT(30), <3>1, <2>5 DEF IInv, WireInv
    <3>2. CASE g = h
      <4> DEFINE d == delivered[h] \o Held(o.buffer)
      <4>1. d \in Seq(Packets)
        BY <1>1 DEF IInv, PostType, Held, Offices
      <4>2. wire[h] = d \o <<>> \o o.sock
        BY ZenonT(30), <2>2 DEF IInv, WireInv, Held
      <4>3. Held(r.inHdr) = <<Head(o.sock)>>
        BY Zenon, <2>4, <2>7 DEF Held
      <4> SUFFICES wire[h] = d \o <<Head(o.sock)>> \o Tail(o.sock)
        BY ZenonT(30), <3>2, <2>4, <2>5, <4>3
      <4> DEFINE q == o.sock
      <4>4. q \in Seq(Packets) /\ q # <<>>
        BY Zenon, <2>2
      <4> HIDE DEF d, q
      <4>5. d \o <<>> \o q = d \o <<Head(q)>> \o Tail(q)
        BY SMTT(60), <4>1, <4>4, HeadTail
      <4> QED
        BY ZenonT(30), <4>2, <4>5 DEF q
    <3> QED
      BY ZenonT(30), <3>1, <3>2
  <2> QED
    BY Zenon, <2>5, <2>6, <2>8, <2>9, <1>5, SenderKeeps, BoxesKeep DEF IInv
<1> QED
  BY Zenon, <1>2, <1>3

\* The interrupt of a sent packet turns into a count of messageSent.
LEMMA SendInterruptKeeps ==
  ASSUME IInv, NEW h \in Hosts, SendInterrupt(h)
  PROVE  IInv'
<1> DEFINE o == office[h]
           n == o.messageSent + 1
           r == [o EXCEPT !.sendInt = FALSE, !.messageSent = n]
<1>1. o \in Offices /\ o.sendInt /\ office' = [office EXCEPT ![h] = r]
  BY Zenon DEF IInv, PostType, SendInterrupt, SendCallBack
<1>0. n \in Nat
  BY <1>1 DEF Offices
<1> HIDE DEF n
<1>2. /\ r \in Offices
      /\ r.sendLock = o.sendLock /\ r.sendInt = FALSE /\ r.messageSent = n
      /\ r.worker = o.worker /\ r.messageAvailable = o.messageAvailable
      /\ r.inHdr = o.inHdr /\ r.buffer = o.buffer /\ r.sock = o.sock /\ r.boxes = o.boxes
  BY ZenonT(30), <1>0, <1>1 DEF Offices
<1> HIDE DEF r
<1>3. UNCHANGED <<prog, stage, mail, wire, delivered, taken>>
  BY Zenon DEF SendInterrupt
<1>4. /\ office' \in [Hosts -> Offices] /\ office'[h] = r
      /\ \A g \in Hosts : g # h => office'[g] = office[g]
      /\ SameWorker /\ SameSockets /\ SameBoxes
  BY Zenon, <1>1, <1>2, OfficeUpdate DEF IInv, PostType, SameBuffers, SameWorker, SameSockets, SameBoxes
<1>5. PostType'
  BY Zenon, <1>3, <1>4 DEF IInv, PostType, Threads
<1>6. CallInv'
  BY Zenon, <1>3 DEF IInv, CallInv, Sends, Op, Threads
<1>7. LockInv'
  <2>1. \A g : Inside(g)' = Inside(g)
    BY Zenon, <1>3 DEF Inside, Threads
  <2>2. o.messageSent \in Nat
    BY Zenon, <1>1 DEF Offices
  <2>3. \A g \in Hosts : Pending(g)' = Pending(g) /\ office'[g].sendLock = office[g].sendLock
    BY <1>1, <1>2, <1>4, <2>2 DEF Pending, n
  <2> QED
    BY Zenon, <1>3, <2>1, <2>3 DEF IInv, LockInv
<1> QED
  BY Zenon, <1>3, <1>4, <1>5, <1>6, <1>7, WorkerKeeps, WireKeeps, BoxesKeep DEF IInv, SameWorker

\* The worker waits for a packet: messageAvailable counts what it now holds.
LEMMA WorkerWaitKeeps ==
  ASSUME IInv, NEW h \in Hosts, office[h].worker = "wait", PostalDelivery(h)
  PROVE  IInv'
<1> DEFINE o == office[h]
           n == o.messageAvailable - 1
           r == [o EXCEPT !.worker = "receive", !.messageAvailable = n]
<1>0. o.messageAvailable > 0 /\ UNCHANGED <<prog, stage, mail, wire, delivered, taken>>
  BY Zenon DEF PostalDelivery
<1>1. o \in Offices /\ office' = [office EXCEPT ![h] = r]
  BY ZenonT(30) DEF IInv, PostType, PostalDelivery
<1>2. n \in Nat /\ o.messageAvailable \in Nat /\ o.messageAvailable = n + 1
  BY <1>0, <1>1 DEF Offices
<1> HIDE DEF n
<1>3. /\ r \in Offices
      /\ r.sendLock = o.sendLock /\ r.sendInt = o.sendInt /\ r.messageSent = o.messageSent
      /\ r.worker = "receive" /\ r.messageAvailable = n
      /\ r.inHdr = o.inHdr /\ r.buffer = o.buffer /\ r.sock = o.sock /\ r.boxes = o.boxes
  BY ZenonT(30), <1>1, <1>2 DEF Offices
<1> HIDE DEF r
<1>4. /\ office' \in [Hosts -> Offices] /\ office'[h] = r
      /\ \A g \in Hosts : g # h => office'[g] = office[g]
      /\ SameSender /\ SameSockets /\ SameBoxes
  BY Zenon, <1>1, <1>3, OfficeUpdate DEF IInv, PostType, SameSender, SameSockets, SameBoxes
<1>5. PostType'
  BY Zenon, <1>0, <1>4 DEF IInv, PostType, Threads
<1>6. WorkerInv'
  <2> SUFFICES ASSUME NEW g \in Hosts
               PROVE  /\ office'[g].worker = "put" <=> office'[g].buffer # NoPacket
                      /\ office'[g].messageAvailable
                           + (IF office'[g].worker = "receive" THEN 1 ELSE 0)
                           = IF office'[g].inHdr = NoPacket THEN 0 ELSE 1
    BY Zenon DEF WorkerInv
  <2>1. CASE g # h
    BY Zenon, <2>1, <1>4 DEF IInv, WorkerInv
  <2>2. CASE g = h
    BY <2>2, <1>2, <1>3, <1>4 DEF IInv, WorkerInv
  <2> QED
    BY Zenon, <2>1, <2>2
<1>7. SameBuffers
  BY Zenon, <1>3, <1>4 DEF SameBuffers
<1> QED
  BY Zenon, <1>0, <1>4, <1>5, <1>6, <1>7, SenderKeeps, WireKeeps, BoxesKeep DEF IInv

\* It takes the packet out of the device's buffer, which cannot be empty: the poll
\* that counted it has filled it and no later one has touched it.
LEMMA WorkerReceiveKeeps ==
  ASSUME IInv, NEW h \in Hosts, office[h].worker = "receive", PostalDelivery(h)
  PROVE  IInv'
<1> DEFINE o == office[h]
           r == [o EXCEPT !.buffer = o.inHdr, !.inHdr = NoPacket, !.worker = "put"]
<1>0. UNCHANGED <<prog, stage, mail, wire, delivered, taken>>
  BY Zenon DEF PostalDelivery
<1>1. o \in Offices
  BY Zenon DEF IInv, PostType
<1>2. office' = [office EXCEPT ![h] = r]
  BY Zenon, <1>1 DEF NetworkReceive, Offices, PostalDelivery
<1>3. /\ r \in Offices
      /\ r.sendLock = o.sendLock /\ r.sendInt = o.sendInt /\ r.messageSent = o.messageSent
      /\ r.worker = "put" /\ r.messageAvailable = o.messageAvailable
      /\ r.inHdr = NoPacket /\ r.buffer = o.inHdr /\ r.sock = o.sock /\ r.boxes = o.boxes
  BY ZenonT(30), <1>1 DEF Offices
<1> HIDE DEF r
<1>4. /\ office' \in [Hosts -> Offices] /\ office'[h] = r
      /\ \A g \in Hosts : g # h => office'[g] = office[g]
      /\ SameSender /\ SameSockets /\ SameBoxes
  BY Zenon, <1>1, <1>2, <1>3, OfficeUpdate DEF IInv, PostType, SameSender, SameSockets, SameBoxes
<1>5. PostType'
  BY Zenon, <1>0, <1>4 DEF IInv, PostType, Threads
<1>6. o.inHdr # NoPacket /\ o.messageAvailable = 0 /\ o.buffer = NoPacket
  <2>1. o.messageAvailable \in Nat
    BY Zenon, <1>1 DEF Offices
  <2>2. o.messageAvailable + 1 = IF o.inHdr = NoPacket THEN 0 ELSE 1
    BY Zenon DEF IInv, WorkerInv
  <2> QED
    BY <2>1, <2>2 DEF IInv, WorkerInv
<1>7. WorkerInv'
  <2> SUFFICES ASSUME NEW g \in Hosts
               PROVE  /\ office'[g].worker = "put" <=> office'[g].buffer # NoPacket
                      /\ office'[g].messageAvailable
                           + (IF office'[g].worker = "receive" THEN 1 ELSE 0)
                           = IF office'[g].inHdr = NoPacket THEN 0 ELSE 1
    BY Zenon DEF WorkerInv
  <2>1. CASE g # h
    BY Zenon, <2>1, <1>4 DEF IInv, WorkerInv
  <2>2. CASE g = h
    <3>1. /\ office'[g].worker = "put" /\ office'[g].buffer # NoPacket
          /\ office'[g].messageAvailable = 0 /\ office'[g].inHdr = NoPacket
      BY Zenon, <2>2, <1>3, <1>4, <1>6
    <3> QED
      BY <3>1
  <2> QED
    BY Zenon, <2>1, <2>2
<1>8. WireInv'
  <2> SUFFICES ASSUME NEW g \in Hosts
               PROVE  wire[g] = delivered[g] \o Held(office'[g].buffer)
                                  \o Held(office'[g].inHdr) \o office'[g].sock
    BY ZenonT(30), <1>0 DEF WireInv, Held
  <2>1. CASE g # h
    BY ZenonT(30), <2>1, <1>4 DEF IInv, WireInv
  <2>2. CASE g = h
    <3> DEFINE d == delivered[h]
               q == o.sock
    <3>1. d \in Seq(Packets) /\ q \in Seq(Packets) /\ o.inHdr \in Packets
      BY Zenon, <1>1, <1>6 DEF IInv, PostType, Offices
    <3>2. wire[h] = d \o <<>> \o <<o.inHdr>> \o q
      BY ZenonT(30), <1>6 DEF IInv, WireInv, Held
    <3>3. Held(r.buffer) = <<o.inHdr>> /\ Held(r.inHdr) = <<>>
      BY Zenon, <1>3, <1>6 DEF Held
    <3> SUFFICES wire[h] = d \o <<o.inHdr>> \o <<>> \o q
      BY ZenonT(30), <2>2, <1>3, <1>4, <3>3
    <3> HIDE DEF d, q
    <3> QED
      BY <3>1, <3>2
  <2> QED
    BY ZenonT(30), <2>1, <2>2
<1> QED
  BY Zenon, <1>0, <1>4, <1>5, <1>7, <1>8, SenderKeeps, BoxesKeep DEF IInv

\* It puts the packet into the mailbox its header names, behind the mail already
\* there.
LEMMA WorkerPutKeeps ==
  ASSUME IInv, NEW h \in Hosts, office[h].worker = "put", PostalDelivery(h)
  PROVE  IInv'
<1> DEFINE o == office[h]
           p == o.buffer
           c == p.mailHdr.to
           bs == [o.boxes EXCEPT ![c] = Append(@, p)]
           r == [o EXCEPT !.boxes = bs, !.worker = "wait", !.buffer = NoPacket]
<1>0. UNCHANGED <<prog, stage, mail, wire, taken>>
  BY ZenonT(60) DEF PostalDelivery
<1>1. o \in Offices
  BY Zenon DEF IInv, PostType
<1>2. p \in Packets /\ p # NoPacket
  BY Zenon, <1>1 DEF IInv, WorkerInv, Offices
<1>3. c \in Boxes
  BY Zenon, <1>2 DEF Packets
<1>31. delivered' = [delivered EXCEPT ![h] = Append(@, p)]
  BY ZenonT(60) DEF PostalDelivery
<1>33. office' = [office EXCEPT ![h] = r]
  BY ZenonT(30), <1>1 DEF BoxOf, Offices, PostalDelivery
<1>32. office[h].buffer = p /\ p.mailHdr.to = c
  OBVIOUS
<1> HIDE DEF c, p
<1>4. /\ bs \in [Boxes -> Seq(Packets)] /\ bs[c] = Append(o.boxes[c], p)
      /\ \A b \in Boxes : b # c => bs[b] = o.boxes[b]
  BY <1>1, <1>2, <1>3 DEF Offices
<1> HIDE DEF bs
<1>6. /\ r \in Offices
      /\ r.sendLock = o.sendLock /\ r.sendInt = o.sendInt /\ r.messageSent = o.messageSent
      /\ r.worker = "wait" /\ r.messageAvailable = o.messageAvailable
      /\ r.inHdr = o.inHdr /\ r.buffer = NoPacket /\ r.sock = o.sock /\ r.boxes = bs
  BY ZenonT(30), <1>1, <1>4 DEF Offices
<1> HIDE DEF r
<1>7. /\ office' \in [Hosts -> Offices] /\ office'[h] = r
      /\ \A g \in Hosts : g # h => office'[g] = office[g]
      /\ SameSender /\ SameSockets
  BY Zenon, <1>1, <1>33, <1>6, OfficeUpdate DEF IInv, PostType, SameSender, SameSockets
<1>8. /\ delivered' \in [Hosts -> Seq(Packets)] /\ delivered'[h] = Append(delivered[h], p)
      /\ \A g \in Hosts : g # h => delivered'[g] = delivered[g]
  BY <1>2, <1>31 DEF IInv, PostType
<1>9. PostType'
  BY Zenon, <1>0, <1>7, <1>8 DEF IInv, PostType, Threads
<1>10. WorkerInv'
  <2> SUFFICES ASSUME NEW g \in Hosts
               PROVE  /\ office'[g].worker = "put" <=> office'[g].buffer # NoPacket
                      /\ office'[g].messageAvailable
                           + (IF office'[g].worker = "receive" THEN 1 ELSE 0)
                           = IF office'[g].inHdr = NoPacket THEN 0 ELSE 1
    BY Zenon DEF WorkerInv
  <2>1. CASE g # h
    BY Zenon, <2>1, <1>7 DEF IInv, WorkerInv
  <2>2. CASE g = h
    <3>1. /\ office'[g].worker = "wait" /\ office'[g].buffer = NoPacket
          /\ office'[g].messageAvailable = o.messageAvailable /\ office'[g].inHdr = o.inHdr
      BY Zenon, <2>2, <1>6, <1>7
    <3>2. o.messageAvailable + 0 = IF o.inHdr = NoPacket THEN 0 ELSE 1
      BY Zenon DEF IInv, WorkerInv
    <3> QED
      BY Zenon, <3>1, <3>2
  <2> QED
    BY Zenon, <2>1, <2>2
<1>11. WireInv'
  <2> SUFFICES ASSUME NEW g \in Hosts
               PROVE  wire[g] = delivered'[g] \o Held(office'[g].buffer)
                                  \o Held(office'[g].inHdr) \o office'[g].sock
    BY ZenonT(30), <1>0 DEF WireInv, Held
  <2>1. CASE g # h
    BY ZenonT(30), <2>1, <1>7, <1>8 DEF IInv, WireInv
  <2>2. CASE g = h
    <3> DEFINE d == delivered[h]
               q == Held(o.inHdr) \o o.sock
    <3>1. /\ d \in Seq(Packets) /\ o.sock \in Seq(Packets)
          /\ Held(o.inHdr) \in Seq(Packets) /\ q \in Seq(Packets)
      BY <1>1 DEF IInv, PostType, Offices, Held
    <3>2. wire[h] = d \o <<p>> \o Held(o.inHdr) \o o.sock
      BY ZenonT(30), <1>2, <1>32 DEF IInv, WireInv, Held
    <3>3. Held(r.buffer) = <<>> /\ Held(r.inHdr) = Held(o.inHdr)
      BY Zenon, <1>6 DEF Held
    <3> SUFFICES wire[h] = Append(d, p) \o <<>> \o Held(o.inHdr) \o o.sock
      BY ZenonT(30), <2>2, <1>6, <1>7, <1>8, <3>3
    <3>4. d \o <<p>> = Append(d, p) \o <<>>
      BY <1>2, <3>1
    <3> QED
      BY ZenonT(30), <3>2, <3>4
  <2> QED
    BY ZenonT(30), <2>1, <2>2
<1>12. BoxInv'
  <2> SUFFICES ASSUME NEW g \in Hosts, NEW b \in Boxes
               PROVE  Filed(taken[g][b] \o office'[g].boxes[b], delivered'[g], b)
    BY Zenon, <1>0 DEF BoxInv, Got
  <2>1. Filed(taken[g][b] \o office[g].boxes[b], delivered[g], b)
    BY Zenon DEF IInv, BoxInv, Got
  <2>2. CASE g # h
    BY Zenon, <2>1, <2>2, <1>7, <1>8
  <2>3. CASE g = h
    <3> DEFINE k == taken[h][b]
               m == o.boxes[b]
    <3>1. k \in Seq(Packets) /\ m \in Seq(Packets) /\ delivered[h] \in Seq(Packets)
      BY Zenon, <1>1 DEF IInv, PostType, Offices
    <3> HIDE DEF k, m
    <3>2. k \o m \in Seq(Packets) /\ k \o Append(m, p) = Append(k \o m, p)
      BY <3>1, <1>2, AppendConcat
    <3>3. /\ c = b => Filed(Append(k \o m, p), Append(delivered[h], p), b)
          /\ c # b => Filed(k \o m, Append(delivered[h], p), b)
      BY ZenonT(30), <2>1, <2>3, <3>1, <3>2, <1>2, <1>32, FiledAppend DEF k, m
    <3>4. office'[h].boxes[b] = IF c = b THEN Append(m, p) ELSE m
      BY ZenonT(30), <1>4, <1>6, <1>7 DEF m
    <3> QED
      BY ZenonT(30), <2>3, <3>2, <3>3, <3>4, <1>8 DEF k
  <2> QED
    BY Zenon, <2>2, <2>3
<1> QED
  BY SMTT(30), <1>0, <1>7, <1>9, <1>10, <1>11, <1>12, SenderKeeps DEF IInv

\* The loop of PostOfficeInput::PostalDelivery, at each of its three points.
LEMMA PostalDeliveryKeeps ==
  ASSUME IInv, NEW h \in Hosts, PostalDelivery(h)
  PROVE  IInv'
<1>1. office[h].worker \in {"wait", "receive", "put"}
  BY ZenonT(30) DEF PostalDelivery
<1> QED
  BY Zenon, <1>1, WorkerWaitKeeps, WorkerReceiveKeeps, WorkerPutKeeps

-----------------------------------------------------------------------------
(***************************************************************************)
(* The threads.                                                            *)
(***************************************************************************)
\* A thread t that is alone inside Send, or enters it when nobody is there, moves on:
\* the lock and its interrupt have to be as its new stage s says.
LEMMA LockStep ==
  ASSUME PostType, LockInv, NEW t \in Threads, NEW s \in Stages,
         stage' = [stage EXCEPT ![t] = s], Threads' = Threads,
         \A u \in Threads : prog'[u].host = prog[u].host,
         NEW h \in Hosts, h = prog[t].host, Inside(h) \subseteq {t},
         \A g \in Hosts \ {h} : /\ office'[g].sendLock = office[g].sendLock
                                /\ office'[g].sendInt = office[g].sendInt
                                /\ office'[g].messageSent = office[g].messageSent,
         office'[h].sendLock <=> s # "acquire",
         Pending(h)' = IF s = "wait" THEN 1 ELSE 0
  PROVE  LockInv'
<1>1. stage'[t] = s /\ \A u \in Threads \ {t} : stage'[u] = stage[u]
  BY Zenon DEF PostType
<1>2. Inside(h)' = IF s = "acquire" THEN {} ELSE {t}
  BY Zenon, <1>1 DEF Inside
<1>3. \A g \in Hosts \ {h} : Inside(g)' = Inside(g) /\ t \notin Inside(g)
  BY <1>1 DEF Inside
<1>4. \A g \in Hosts \ {h} : Pending(g)' = Pending(g)
  BY Zenon DEF Pending
<1> SUFFICES ASSUME NEW g \in Hosts
             PROVE  /\ \A u, v \in Inside(g)' : u = v
                    /\ Inside(g)' # {} <=> office'[g].sendLock
                    /\ Pending(g)' = IF \E u \in Inside(g)' : stage'[u] = "wait" THEN 1 ELSE 0
  BY Zenon DEF LockInv
<1>5. CASE g = h
  BY Zenon, <1>1, <1>2, <1>5
<1>6. CASE g # h
  <2>1. \A u \in Inside(g) : stage'[u] = stage[u]
    BY Zenon, <1>1, <1>3, <1>6 DEF Inside
  <2> QED
    BY <1>3, <1>4, <1>6, <2>1 DEF LockInv
<1> QED
  BY Zenon, <1>5, <1>6

\* What a thread inside Send knows: it is alone, sendLock is held, and an interrupt is
\* pending just if it waits for one.
LEMMA InsideAlone ==
  ASSUME PostType, LockInv, NEW t \in Threads, stage[t] # "acquire",
         NEW h \in Hosts, h = prog[t].host
  PROVE  /\ Inside(h) = {t} /\ office[h].sendLock = TRUE
         /\ Pending(h) = IF stage[t] = "wait" THEN 1 ELSE 0
<1>1. t \in Inside(h)
  BY Zenon DEF Inside
<1>2. Inside(h) = {t}
  BY <1>1 DEF LockInv
<1>3. office[h].sendLock \in BOOLEAN
  BY Zenon DEF PostType, Offices
<1> QED
  BY Zenon, <1>2, <1>3 DEF LockInv

\* A thread belongs to a host, which has an office.
LEMMA HostOf ==
  ASSUME PostType, NEW t \in Threads
  PROVE  /\ prog[t].host \in Hosts /\ prog[t].ops \in Seq(Calls)
         /\ office[prog[t].host] \in Offices
BY Zenon DEF PostType

\* Steps that move t to stage s, of a thread with a call of Send to make.
LEMMA CallStep ==
  ASSUME PostType, CallInv, NEW t \in Threads, Sends(t), NEW s,
         stage' = [stage EXCEPT ![t] = s], UNCHANGED <<prog, mail>>
  PROVE  CallInv'
BY Zenon DEF PostType, CallInv, Sends, Op, Threads

\* PostOfficeOutput::Send takes sendLock when no other thread has it.
LEMMA AcquireKeeps ==
  ASSUME IInv, NEW t \in Threads, Acquire(t)
  PROVE  IInv'
<1> DEFINE h == prog[t].host
           o == office[h]
           r == [o EXCEPT !.sendLock = TRUE]
<1>1. h \in Hosts /\ o \in Offices
  BY Zenon, HostOf DEF IInv
<1>2. /\ office' = [office EXCEPT ![h] = r] /\ stage' = [stage EXCEPT ![t] = "send"]
      /\ UNCHANGED <<prog, mail, wire, delivered, taken>> /\ ~o.sendLock /\ Sends(t)
  BY Zenon DEF Acquire, Office, CanAcquire
<1>3. /\ r \in Offices
      /\ r.sendLock = TRUE /\ r.sendInt = o.sendInt /\ r.messageSent = o.messageSent
      /\ r.worker = o.worker /\ r.messageAvailable = o.messageAvailable
      /\ r.inHdr = o.inHdr /\ r.buffer = o.buffer /\ r.sock = o.sock /\ r.boxes = o.boxes
  BY ZenonT(30), <1>1 DEF Offices
<1>4. Inside(h) = {} /\ Pending(h) = 0
  BY ZenonT(60), <1>1, <1>2 DEF IInv, LockInv
<1> HIDE DEF r
<1>5. /\ office' \in [Hosts -> Offices] /\ office'[h] = r
      /\ \A g \in Hosts : g # h => office'[g] = office[g]
      /\ SameWorker /\ SameSockets /\ SameBoxes
  BY SMTT(60), ZenonT(60), <1>1, <1>2, <1>3, OfficeUpdate
  DEF IInv, PostType, SameBuffers, SameWorker, SameSockets, SameBoxes
<1>6. PostType'
  BY Zenon, <1>2, <1>5 DEF IInv, PostType, Threads, Stages
<1>7. Pending(h)' = 0
  BY Zenon, <1>1, <1>2, <1>3, <1>4, <1>5 DEF Pending
<1>8. LockInv'
  <2>1. /\ "send" \in Stages /\ Threads' = Threads /\ Inside(h) \subseteq {t}
        /\ office'[h].sendLock = TRUE /\ UNCHANGED prog
    BY Zenon, <1>2, <1>3, <1>4, <1>5 DEF Threads, Stages
  <2>2. \A g \in Hosts \ {h} : office'[g] = office[g]
    BY Zenon, <1>5
  <2> HIDE DEF h
  <2> QED
    BY ZenonT(30), <1>1, <1>2, <1>7, <2>1, <2>2, LockStep DEF IInv, h
<1>9. CallInv'
  BY ZenonT(30), <1>2, CallStep DEF IInv
<1> QED
  BY Zenon, <1>2, <1>5, <1>6, <1>8, <1>9, WorkerKeeps, WireKeeps, BoxesKeep DEF IInv, SameWorker

\* Send goes on past messageSent->P() once its packet has left.
LEMMA WaitSentKeeps ==
  ASSUME IInv, NEW t \in Threads, WaitSent(t)
  PROVE  IInv'
<1> DEFINE h == prog[t].host
           o == office[h]
           n == o.messageSent - 1
           r == [o EXCEPT !.messageSent = n]
<1>1. h \in Hosts /\ o \in Offices
  BY Zenon, HostOf DEF IInv
<1>2. /\ office' = [office EXCEPT ![h] = r] /\ stage' = [stage EXCEPT ![t] = "release"]
      /\ UNCHANGED <<prog, mail, wire, delivered, taken>> /\ o.messageSent > 0
      /\ stage[t] = "wait"
  BY Zenon DEF WaitSent, Office
<1>0. n \in Nat /\ o.messageSent \in Nat /\ o.messageSent = n + 1
  BY <1>1, <1>2 DEF Offices
<1> HIDE DEF n
<1>3. /\ r \in Offices
      /\ r.sendLock = o.sendLock /\ r.sendInt = o.sendInt /\ r.messageSent = n
      /\ r.worker = o.worker /\ r.messageAvailable = o.messageAvailable
      /\ r.inHdr = o.inHdr /\ r.buffer = o.buffer /\ r.sock = o.sock /\ r.boxes = o.boxes
  BY ZenonT(30), <1>0, <1>1 DEF Offices
<1>4. Inside(h) = {t} /\ o.sendLock = TRUE /\ Pending(h) = 1
  BY ZenonT(30), <1>1, <1>2, InsideAlone DEF IInv
<1>10. Sends(t)
  BY Zenon, <1>2 DEF IInv, CallInv
<1> HIDE DEF r
<1>5. /\ office' \in [Hosts -> Offices] /\ office'[h] = r
      /\ \A g \in Hosts : g # h => office'[g] = office[g]
      /\ SameWorker /\ SameSockets /\ SameBoxes
  BY ZenonT(60), <1>1, <1>2, <1>3, OfficeUpdate
  DEF IInv, PostType, SameBuffers, SameWorker, SameSockets, SameBoxes
<1>6. PostType'
  BY Zenon, <1>2, <1>5 DEF IInv, PostType, Threads, Stages
<1>7. Pending(h)' = 0
  <2>1. n + 1 + (IF o.sendInt THEN 1 ELSE 0) = 1
    BY Zenon, <1>0, <1>4 DEF Pending
  <2>2. Pending(h)' = n + (IF o.sendInt THEN 1 ELSE 0)
    BY Zenon, <1>2, <1>3, <1>5 DEF Pending
  <2> QED
    BY <1>0, <2>1, <2>2
<1>8. LockInv'
  BY ZenonT(30), <1>1, <1>2, <1>3, <1>4, <1>5, <1>7, LockStep DEF IInv, Threads, Stages
<1>9. CallInv'
  BY ZenonT(30), <1>2, <1>10, CallStep DEF IInv
<1> QED
  BY Zenon, <1>2, <1>5, <1>6, <1>8, <1>9, WorkerKeeps, WireKeeps, BoxesKeep DEF IInv, SameWorker

\* A call that receives nothing is over: what is left is still received before it is
\* answered.
LEMMA AnswersTail ==
  ASSUME NEW ops \in Seq(Calls), ops # <<>>, Head(ops).op # "receive", Answers(ops)
  PROVE  Answers(Tail(ops))
<1> SUFFICES ASSUME NEW i \in DOMAIN Tail(ops), Tail(ops)[i].op = "ack"
             PROVE  \E j \in 1 .. i - 1 : Tail(ops)[j].op = "receive"
  BY Zenon DEF Answers
<1>1. /\ Len(ops) \in Nat \ {0} /\ DOMAIN ops = 1 .. Len(ops)
      /\ DOMAIN Tail(ops) = 1 .. Len(ops) - 1
      /\ \A k \in 1 .. Len(ops) - 1 : Tail(ops)[k] = ops[k + 1]
  OBVIOUS
<1>2. i + 1 \in DOMAIN ops /\ ops[i + 1].op = "ack" /\ i \in Nat
  BY <1>1
<1>3. PICK j \in 1 .. i : ops[j].op = "receive"
  BY <1>1, <1>2 DEF Answers
<1>4. j # 1
  BY <1>3
<1>5. j - 1 \in 1 .. i - 1 /\ Tail(ops)[j - 1] = ops[j]
  BY <1>1, <1>2, <1>3, <1>4
<1> QED
  BY Zenon, <1>3, <1>5

\* Send gives sendLock up and returns to the program.
LEMMA ReleaseKeeps ==
  ASSUME IInv, NEW t \in Threads, Release(t)
  PROVE  IInv'
<1>0. PICK h \in Hosts : h = prog[t].host
  BY Zenon, HostOf DEF IInv
<1> DEFINE o == office[h]
           r == [o EXCEPT !.sendLock = FALSE]
           q == [prog[t] EXCEPT !.ops = Tail(@)]
<1>1. h \in Hosts /\ o \in Offices /\ prog[t].ops \in Seq(Calls)
  BY Zenon, <1>0, HostOf DEF IInv
<1>2. /\ office' = [office EXCEPT ![h] = r] /\ stage' = [stage EXCEPT ![t] = "acquire"]
      /\ prog' = [prog EXCEPT ![t] = q]
      /\ UNCHANGED <<mail, wire, delivered, taken>> /\ stage[t] = "release"
  BY Zenon, <1>0 DEF Release
<1>3. /\ r \in Offices
      /\ r.sendLock = FALSE /\ r.sendInt = o.sendInt /\ r.messageSent = o.messageSent
      /\ r.worker = o.worker /\ r.messageAvailable = o.messageAvailable
      /\ r.inHdr = o.inHdr /\ r.buffer = o.buffer /\ r.sock = o.sock /\ r.boxes = o.boxes
  BY ZenonT(30), <1>1 DEF Offices
<1>4. Inside(h) = {t} /\ Pending(h) = 0
  BY ZenonT(30), <1>0, <1>1, <1>2, InsideAlone DEF IInv
<1>10. Sends(t)
  BY Zenon, <1>2 DEF IInv, CallInv
<1>11. /\ q \in [host : Hosts, ops : Seq(Calls)]
       /\ q.host = h /\ q.ops = Tail(prog[t].ops)
  <2>1. Tail(prog[t].ops) \in Seq(Calls) /\ prog[t] \in [host : Hosts, ops : Seq(Calls)]
    BY <1>1, <1>10 DEF IInv, PostType, Sends
  <2> QED
    BY Zenon, <1>0, <2>1
<1> HIDE DEF r, q
<1>5. /\ office' \in [Hosts -> Offices] /\ office'[h] = r
      /\ \A g \in Hosts : g # h => office'[g] = office[g]
      /\ SameWorker /\ SameSockets /\ SameBoxes
  BY ZenonT(60), <1>1, <1>2, <1>3, OfficeUpdate
  DEF IInv, PostType, SameBuffers, SameWorker, SameSockets, SameBoxes
<1>12. /\ Threads' = Threads /\ prog' \in [Threads -> [host : Hosts, ops : Seq(Calls)]]
       /\ prog'[t] = q /\ \A u \in Threads \ {t} : prog'[u] = prog[u]
  BY Zenon, <1>2, <1>11 DEF IInv, PostType, Threads
<1>6. PostType'
  BY ZenonT(60), <1>2, <1>5, <1>12 DEF IInv, PostType, Stages
<1>7. Pending(h)' = 0
  <2>1. office'[h].messageSent = office[h].messageSent /\ office'[h].sendInt = office[h].sendInt
    BY Zenon, <1>3, <1>5
  <2> QED
    BY Zenon, <1>4, <2>1 DEF Pending
<1>8. LockInv'
  <2>1. /\ "acquire" \in Stages /\ Threads' = Threads /\ Inside(h) \subseteq {t}
        /\ office'[h].sendLock = FALSE
        /\ \A u \in Threads : prog'[u].host = prog[u].host
    BY Zenon, <1>0, <1>3, <1>4, <1>5, <1>11, <1>12 DEF Stages
  <2>2. \A g \in Hosts \ {h} : office'[g] = office[g]
    BY Zenon, <1>5
  <2> QED
    BY ZenonT(30), <1>0, <1>2, <1>7, <2>1, <2>2, LockStep DEF IInv
<1>9. CallInv'
  <2>1. stage'[t] = "acquire" /\ \A u \in Threads \ {t} : stage'[u] = stage[u]
    BY Zenon, <1>2 DEF IInv, PostType
  <2>2. mail[t] # NoPacket \/ Answers(prog'[t].ops)
    BY ZenonT(30), <1>1, <1>10, <1>11, <1>12, AnswersTail DEF IInv, CallInv, Sends, Op
  <2>3. \A u \in Threads \ {t} : Sends(u)' = Sends(u)
    BY Zenon, <1>12 DEF Sends, Op
  <2> QED
    BY Zenon, <1>2, <1>12, <2>1, <2>2, <2>3 DEF IInv, CallInv
<1> QED
  BY Zenon, <1>2, <1>5, <1>6, <1>8, <1>9, WorkerKeeps, WireKeeps, BoxesKeep DEF IInv, SameWorker

\* MailBox::Get hands out the oldest mail of the box: what was taken and what is left
\* are still the packets for this box, in order.
LEMMA ReceiveKeeps ==
  ASSUME IInv, NEW t \in Threads, Receive(t)
  PROVE  IInv'
<1> DEFINE h == prog[t].host
           o == office[h]
           b == Op(t).box
           m == o.boxes[b]
           bs == [o.boxes EXCEPT ![b] = Tail(m)]
           r == [o EXCEPT !.boxes = bs]
           q == [prog[t] EXCEPT !.ops = Tail(@)]
<1>1. h \in Hosts /\ o \in Offices /\ prog[t].ops \in Seq(Calls)
  BY Zenon, HostOf DEF IInv
<1>2. /\ office' = [office EXCEPT ![h] = r] /\ mail' = [mail EXCEPT ![t] = Head(m)]
      /\ taken' = [taken EXCEPT ![h][b] = Append(@, Head(m))]
      /\ prog' = [prog EXCEPT ![t] = q]
      /\ UNCHANGED <<stage, wire, delivered>>
      /\ prog[t].ops # <<>> /\ Op(t).op = "receive" /\ m # <<>>
  BY ZenonT(30), <1>1 DEF Receive, Wanted, Offices
<1>3. Op(t) \in Calls
  BY ZenonT(30), <1>1, <1>2, HeadIn DEF Op
<1>4. b \in Boxes
  BY ZenonT(30), <1>2, <1>3 DEF Calls
<1>5. stage[t] = "acquire"
  BY ZenonT(30), <1>2 DEF IInv, CallInv, Sends
<1>6. o.boxes \in [Boxes -> Seq(Packets)]
  BY Zenon, <1>1 DEF Offices
<1>7. m \in Seq(Packets) /\ Head(m) \in Packets /\ Tail(m) \in Seq(Packets)
  <2>1. m \in Seq(Packets) /\ m # <<>>
    BY ZenonT(30), <1>2, <1>4, <1>6
  <2> HIDE DEF m
  <2> QED
    BY Zenon, <2>1, HeadIn
<1>8. /\ bs \in [Boxes -> Seq(Packets)] /\ bs[b] = Tail(m)
      /\ \A c \in Boxes : c # b => bs[c] = o.boxes[c]
  BY ZenonT(60), <1>4, <1>6, <1>7
<1> HIDE DEF bs
<1>9. /\ r \in Offices
      /\ r.sendLock = o.sendLock /\ r.sendInt = o.sendInt /\ r.messageSent = o.messageSent
      /\ r.worker = o.worker /\ r.messageAvailable = o.messageAvailable
      /\ r.inHdr = o.inHdr /\ r.buffer = o.buffer /\ r.sock = o.sock /\ r.boxes = bs
  BY ZenonT(30), <1>1, <1>8 DEF Offices
<1>10. /\ q \in [host : Hosts, ops : Seq(Calls)]
       /\ q.host = h /\ q.ops = Tail(prog[t].ops)
  <2>1. Tail(prog[t].ops) \in Seq(Calls) /\ prog[t] \in [host : Hosts, ops : Seq(Calls)]
    BY Zenon, <1>1, <1>2, HeadIn DEF IInv, PostType
  <2> QED
    BY Zenon, <2>1
<1> HIDE DEF r, q, m, b
<1>11. /\ office' \in [Hosts -> Offices] /\ office'[h] = r
       /\ \A g \in Hosts : g # h => office'[g] = office[g]
       /\ SameSender /\ SameWorker /\ SameSockets
  BY ZenonT(60), <1>1, <1>2, <1>9, OfficeUpdate
  DEF IInv, PostType, SameBuffers, SameSender, SameWorker, SameSockets
<1>12. /\ Threads' = Threads /\ prog' \in [Threads -> [host : Hosts, ops : Seq(Calls)]]
       /\ prog'[t] = q /\ \A u \in Threads \ {t} : prog'[u] = prog[u]
  BY Zenon, <1>2, <1>10 DEF IInv, PostType, Threads
<1>13. /\ taken' \in [Hosts -> [Boxes -> Seq(Packets)]]
       /\ taken'[h][b] = Append(taken[h][b], Head(m))
       /\ \A g \in Hosts, c \in Boxes : g # h \/ c # b => taken'[g][c] = taken[g][c]
  <2>1. taken \in [Hosts -> [Boxes -> Seq(Packets)]] /\ taken[h][b] \in Seq(Packets)
    BY Zenon, <1>1, <1>4 DEF IInv, PostType
  <2> DEFINE k == Append(taken[h][b], Head(m))
  <2>2. k \in Seq(Packets) /\ taken' = [taken EXCEPT ![h][b] = k]
    BY <1>2, <1>7, <2>1
  <2> HIDE DEF k, h
  <2>3. taken' \in [Hosts -> [Boxes -> Seq(Packets)]]
    BY Zenon, <1>1, <1>4, <2>1, <2>2 DEF h
  <2>4. taken'[h][b] = k
    BY Zenon, <1>1, <1>4, <2>1, <2>2 DEF h
  <2>5. \A g \in Hosts, c \in Boxes : g # h \/ c # b => taken'[g][c] = taken[g][c]
    BY Zenon, <1>1, <1>4, <2>1, <2>2 DEF h
  <2> QED
    BY Zenon, <2>3, <2>4, <2>5 DEF k
<1>14. mail' \in [Threads -> Packets \union {NoPacket}]
  BY SMTT(30), <1>2, <1>7 DEF IInv, PostType
<1>15. PostType'
  BY ZenonT(60), <1>2, <1>11, <1>12, <1>13, <1>14 DEF IInv, PostType
<1>16. LockInv'
  <2>1. \A u \in Threads : prog'[u].host = prog[u].host
    BY Zenon, <1>10, <1>12
  <2>2. \A g : Inside(g)' = Inside(g)
    BY Zenon, <1>2, <1>12, <2>1 DEF Inside
  <2>3. \A g \in Hosts : Pending(g)' = Pending(g) /\ office'[g].sendLock = office[g].sendLock
    BY Zenon, <1>11 DEF Pending, SameSender
  <2> QED
    BY Zenon, <1>2, <2>2, <2>3 DEF IInv, LockInv
<1>17. CallInv'
  <2>1. mail'[t] = Head(m) /\ \A u \in Threads \ {t} : mail'[u] = mail[u]
    BY Zenon, <1>2 DEF IInv, PostType
  <2>2. mail'[t] # NoPacket
    BY Zenon, <1>7, <2>1, NoPacketAssumption
  <2>3. \A u \in Threads \ {t} : Sends(u)' = Sends(u)
    BY Zenon, <1>12 DEF Sends, Op
  <2> QED
    BY Zenon, <1>2, <1>5, <1>12, <2>1, <2>2, <2>3 DEF IInv, CallInv
<1>18. BoxInv'
  <2> SUFFICES ASSUME NEW g \in Hosts, NEW c \in Boxes
               PROVE  taken'[g][c] \o office'[g].boxes[c] = taken[g][c] \o office[g].boxes[c]
    BY ZenonT(30), <1>2 DEF IInv, BoxInv, Got
  <2>1. CASE g = h /\ c = b
    <3> DEFINE k == taken[h][b]
    <3>1. k \in Seq(Packets)
      BY Zenon, <1>1, <1>4 DEF IInv, PostType
    <3> HIDE DEF k
    <3>2. Append(k, Head(m)) \o Tail(m) = k \o m
      BY <1>2, <1>7, <3>1
    <3> QED
      BY ZenonT(30), <2>1, <1>8, <1>9, <1>11, <1>13, <3>2 DEF k, m
  <2>2. CASE g # h \/ c # b
    BY ZenonT(30), <2>2, <1>8, <1>9, <1>11, <1>13
  <2> QED
    BY ZenonT(30), <2>1, <2>2
<1> QED
  BY Zenon, <1>2, <1>11, <1>15, <1>16, <1>17, <1>18, WorkerKeeps, WireKeeps DEF IInv, SameWorker

\* What Send is asked to send is a packet: an answer goes where the mail it answers
\* came from, to the box that mail names.
LEMMA PacketType ==
  ASSUME PostType, CallInv, NEW t \in Threads, Sends(t)
  PROVE  Packet(t) \in Packets
<1>1. /\ prog[t].host \in Hosts /\ prog[t].ops \in Seq(Calls) /\ prog[t].ops # <<>>
      /\ Op(t).op # "receive" /\ mail[t] \in Packets \union {NoPacket}
  BY Zenon, HostOf DEF Sends, PostType
<1>2. Op(t) \in Calls /\ Len(prog[t].ops) \in Nat
  BY <1>1, HeadIn DEF Op
<1>3. <<t, Len(prog[t].ops)>> \in (UNION {DOMAIN p : p \in Programs}) \X Nat
  BY Zenon, <1>2 DEF PostType
<1>4. CASE Op(t).op = "ack"
  <2>1. Op(t).from \in Boxes
    BY Zenon, <1>1, <1>2, <1>4 DEF Calls
  <2>2. mail[t] \in Packets
    <3>1. ~Answers(prog[t].ops)
      <4>1. 1 \in DOMAIN prog[t].ops /\ prog[t].ops[1].op = "ack"
        BY <1>1, <1>4 DEF Op
      <4> QED
        BY <4>1 DEF Answers
    <3> QED
      BY Zenon, <1>1, <3>1 DEF CallInv
  <2>3. mail[t].from \in Hosts /\ mail[t].mailHdr.from \in Boxes
    BY Zenon, <2>2 DEF Packets
  <2> QED
    BY Zenon, <1>1, <1>3, <1>4, <2>1, <2>3 DEF Packet, BoxOf_reply, Packets
<1>5. CASE Op(t).op = "send"
  <2>1. Op(t).from \in Boxes /\ Op(t).to \in Hosts /\ Op(t).box \in Boxes
    BY Zenon, <1>1, <1>2, <1>5 DEF Calls
  <2> QED
    BY Zenon, <1>1, <1>3, <1>5, <2>1 DEF Packet, Packets
<1> QED
  BY Zenon, <1>1, <1>2, <1>4, <1>5 DEF Calls

\* NetworkOutput::Send and SendToSocket: the packet is lost, or it is the last in the
\* socket of the host it is for, which may be the sender's own.
PacketGoes(p, h) ==
  /\ office' \in [Hosts -> Offices]
  /\ SameWorker /\ SameBoxes
  /\ \A g \in Hosts : /\ office'[g].sendLock = office[g].sendLock
                      /\ office'[g].messageSent = office[g].messageSent
                      /\ office'[g].sendInt = IF g = h THEN TRUE ELSE office[g].sendInt
  /\ \/ SameSockets /\ UNCHANGED wire
     \/ /\ wire' = [wire EXCEPT ![p.to] = Append(@, p)]
        /\ \A g \in Hosts : office'[g].sock = IF g = p.to THEN Append(office[g].sock, p)
                                              ELSE office[g].sock

\* NetworkOutput::Send: the packet is lost or reaches the socket of its host.
LEMMA SendEffect ==
  ASSUME IInv, NEW t \in Threads, Send(t), NEW p, p = Packet(t), p \in Packets,
         NEW h \in Hosts, h = prog[t].host
  PROVE  PacketGoes(p, h)
<1> DEFINE r == [office[h] EXCEPT !.sendInt = TRUE]
           sent == [office EXCEPT ![h] = r]
           c == p.to
<1>1. PICK lose \in BOOLEAN :
        /\ office' = IF lose THEN sent ELSE SendToSocket(sent, p)
        /\ IF lose \/ ~office[c].up THEN UNCHANGED wire
           ELSE wire' = [wire EXCEPT ![c] = Append(@, p)]
  BY Zenon DEF Send, NetworkSend
<1>2. office \in [Hosts -> Offices] /\ office[h] \in Offices /\ c \in Hosts
  BY Zenon DEF IInv, PostType, Packets
<1>3. /\ r \in Offices
      /\ r.sendLock = office[h].sendLock /\ r.sendInt = TRUE
      /\ r.messageSent = office[h].messageSent /\ r.worker = office[h].worker
      /\ r.messageAvailable = office[h].messageAvailable /\ r.inHdr = office[h].inHdr
      /\ r.buffer = office[h].buffer /\ r.sock = office[h].sock /\ r.boxes = office[h].boxes
      /\ r.up = office[h].up
  BY ZenonT(30), <1>2 DEF Offices
<1> HIDE DEF r
<1>4. /\ sent \in [Hosts -> Offices] /\ sent[h] = r
      /\ \A g \in Hosts : g # h => sent[g] = office[g]
  BY Zenon, <1>2, <1>3
<1> HIDE DEF sent, c
<1>5. \A g \in Hosts :
        /\ sent[g].sendLock = office[g].sendLock /\ sent[g].messageSent = office[g].messageSent
        /\ sent[g].worker = office[g].worker /\ sent[g].inHdr = office[g].inHdr
        /\ sent[g].messageAvailable = office[g].messageAvailable
        /\ sent[g].buffer = office[g].buffer /\ sent[g].boxes = office[g].boxes
        /\ sent[g].sock = office[g].sock /\ sent[g].up = office[g].up
  BY ZenonT(60), <1>3, <1>4
<1>51. \A g \in Hosts : sent[g].sendInt = IF g = h THEN TRUE ELSE office[g].sendInt
  BY ZenonT(30), <1>3, <1>4
<1>6. CASE lose \/ ~office[c].up
  <2>1. office' = sent /\ UNCHANGED wire
    BY Zenon, <1>1, <1>2, <1>5, <1>6 DEF SendToSocket, c
  <2> QED
    BY ZenonT(30), <1>4, <1>5, <1>51, <2>1 DEF PacketGoes, SameBuffers, SameWorker, SameBoxes, SameSockets
<1>7. CASE ~(lose \/ ~office[c].up)
  <2> DEFINE o == sent[c]
             n == Append(o.sock, p)
             x == [o EXCEPT !.sock = n]
  <2>1. office' = [sent EXCEPT ![c] = x] /\ wire' = [wire EXCEPT ![c] = Append(@, p)]
    BY Zenon, <1>1, <1>2, <1>5, <1>7 DEF SendToSocket, c
  <2>2. o \in Offices /\ o.sock \in Seq(Packets)
    BY ZenonT(60), <1>2, <1>4 DEF Offices
  <2>3. n \in Seq(Packets) /\ n = Append(office[c].sock, p)
    <3>1. o.sock = office[c].sock
      BY Zenon, <1>2, <1>5
    <3>2. n \in Seq(Packets)
      BY <2>2
    <3> QED
      BY Zenon, <3>1, <3>2
  <2> HIDE DEF n
  <2>4. /\ x \in Offices
        /\ x.sendLock = o.sendLock /\ x.sendInt = o.sendInt /\ x.messageSent = o.messageSent
        /\ x.worker = o.worker /\ x.messageAvailable = o.messageAvailable
        /\ x.inHdr = o.inHdr /\ x.buffer = o.buffer /\ x.sock = n /\ x.boxes = o.boxes
    BY ZenonT(30), <2>2, <2>3 DEF Offices
  <2> HIDE DEF x
  <2>5. /\ office' \in [Hosts -> Offices] /\ office'[c] = x
        /\ \A g \in Hosts : g # c => office'[g] = sent[g]
    BY Zenon, <1>2, <1>4, <2>1, <2>4
  <2>51. \A g \in Hosts :
           /\ office'[g].sendLock = sent[g].sendLock /\ office'[g].sendInt = sent[g].sendInt
           /\ office'[g].messageSent = sent[g].messageSent
           /\ office'[g].worker = sent[g].worker /\ office'[g].inHdr = sent[g].inHdr
           /\ office'[g].messageAvailable = sent[g].messageAvailable
           /\ office'[g].buffer = sent[g].buffer /\ office'[g].boxes = sent[g].boxes
    <3> TAKE g \in Hosts
    <3>1. CASE g = c
      BY Zenon, <3>1, <2>4, <2>5
    <3>2. CASE g # c
      BY Zenon, <3>2, <2>5
    <3> QED
      BY Zenon, <3>1, <3>2
  <2>6. SameWorker /\ SameBoxes
    BY <1>5, <2>51 DEF SameBuffers, SameWorker, SameBoxes
  <2>7. ASSUME NEW g \in Hosts
        PROVE  /\ office'[g].sendLock = office[g].sendLock
               /\ office'[g].messageSent = office[g].messageSent
               /\ office'[g].sendInt = IF g = h THEN TRUE ELSE office[g].sendInt
    <3>1. office'[g].sendLock = office[g].sendLock /\ office'[g].messageSent = office[g].messageSent
      BY Zenon, <1>5, <2>51
    <3>2. office'[g].sendInt = IF g = h THEN TRUE ELSE office[g].sendInt
      BY ZenonT(30), <1>51, <2>51
    <3> QED
      BY Zenon, <3>1, <3>2
  <2>8. \A g \in Hosts : office'[g].sock = IF g = c THEN Append(office[g].sock, p)
                                           ELSE office[g].sock
    <3> TAKE g \in Hosts
    <3>1. CASE g = c
      BY Zenon, <3>1, <2>3, <2>4, <2>5
    <3>2. CASE g # c
      BY Zenon, <3>2, <1>5, <2>5
    <3> QED
      BY Zenon, <3>1, <3>2
  <2> QED
    BY ZenonT(30), <2>1, <2>5, <2>6, <2>7, <2>8 DEF c, PacketGoes
<1> QED
  BY Zenon, <1>6, <1>7

\* The interrupt is scheduled whether or not the packet is lost, so the thread that
\* goes on to wait will be woken once.
LEMMA SendKeeps ==
  ASSUME IInv, NEW t \in Threads, Send(t)
  PROVE  IInv'
<1>1. PICK h \in Hosts : h = prog[t].host
  BY Zenon, HostOf DEF IInv
<1>2. /\ stage[t] = "send" /\ stage' = [stage EXCEPT ![t] = "wait"]
      /\ UNCHANGED <<prog, mail, delivered, taken>>
  BY ZenonT(60) DEF Send
<1>3. Sends(t)
  BY Zenon, <1>2 DEF IInv, CallInv
<1>4. PICK p : p = Packet(t)
  OBVIOUS
<1>5. p \in Packets
  BY Zenon, <1>3, <1>4, PacketType DEF IInv
<1>60. PacketGoes(p, h)
  BY Zenon, <1>1, <1>4, <1>5, SendEffect
<1>6. /\ office' \in [Hosts -> Offices]
      /\ SameWorker /\ SameBoxes
      /\ \A g \in Hosts : /\ office'[g].sendLock = office[g].sendLock
                          /\ office'[g].messageSent = office[g].messageSent
                          /\ office'[g].sendInt = IF g = h THEN TRUE ELSE office[g].sendInt
      /\ \/ SameSockets /\ UNCHANGED wire
         \/ /\ wire' = [wire EXCEPT ![p.to] = Append(@, p)]
            /\ \A g \in Hosts : office'[g].sock = IF g = p.to THEN Append(office[g].sock, p)
                                                  ELSE office[g].sock
  BY ZenonT(30), <1>60 DEF PacketGoes
<1>7. p.to \in Hosts
  BY Zenon, <1>5 DEF Packets
<1>8. wire' \in [Hosts -> Seq(Packets)]
  <2>1. wire \in [Hosts -> Seq(Packets)] /\ Append(wire[p.to], p) \in Seq(Packets)
    BY <1>5, <1>7 DEF IInv, PostType
  <2> QED
    BY ZenonT(30), <1>6, <1>7, <2>1
<1>9. PostType'
  BY Zenon, <1>2, <1>6, <1>8 DEF IInv, PostType, Threads, Stages
<1>10. CallInv'
  BY ZenonT(30), <1>2, <1>3, CallStep DEF IInv
<1>11. LockInv'
  <2>1. Inside(h) = {t} /\ office[h].sendLock = TRUE /\ Pending(h) = 0
    BY ZenonT(30), <1>1, <1>2, InsideAlone DEF IInv
  <2>2. office[h].messageSent \in Nat
    BY ZenonT(60) DEF IInv, PostType, Offices
  <2>3. office[h].messageSent = 0
    BY <2>1, <2>2 DEF Pending
  <2>31. office'[h].messageSent = 0 /\ office'[h].sendInt = TRUE
    BY ZenonT(30), <1>6, <2>3
  <2>4. Pending(h)' = 1
    BY <2>31 DEF Pending
  <2>5. "wait" \in Stages /\ Threads' = Threads
    BY Zenon, <1>2 DEF Stages, Threads
  <2> QED
    BY ZenonT(30), <1>1, <1>2, <1>6, <2>1, <2>4, <2>5, LockStep DEF IInv
<1>12. WireInv'
  <2>1. CASE SameSockets /\ UNCHANGED wire
    BY Zenon, <1>2, <1>6, <2>1, WireKeeps DEF IInv, SameWorker
  <2>2. CASE /\ wire' = [wire EXCEPT ![p.to] = Append(@, p)]
             /\ \A g \in Hosts : office'[g].sock = IF g = p.to THEN Append(office[g].sock, p)
                                                   ELSE office[g].sock
    <3> SUFFICES ASSUME NEW g \in Hosts
                 PROVE  wire'[g] = delivered[g] \o Held(office[g].buffer)
                                     \o Held(office[g].inHdr) \o office'[g].sock
      BY ZenonT(30), <1>2, <1>6 DEF WireInv, Held, SameWorker, SameBuffers
    <3> DEFINE d == delivered[g] \o Held(office[g].buffer) \o Held(office[g].inHdr)
               q == office[g].sock
    <3>1. wire[g] = d \o q
      BY ZenonT(30) DEF IInv, WireInv
    <3>2. d \in Seq(Packets) /\ q \in Seq(Packets)
      <4>1. office[g] \in Offices /\ delivered[g] \in Seq(Packets)
        BY Zenon DEF IInv, PostType
      <4>2. Held(office[g].buffer) \in Seq(Packets) /\ Held(office[g].inHdr) \in Seq(Packets)
        BY <4>1 DEF Offices, Held
      <4> QED
        BY <4>1, <4>2 DEF Offices
    <3>3. wire'[g] = IF g = p.to THEN Append(d \o q, p) ELSE d \o q
      BY ZenonT(30), <2>2, <3>1 DEF IInv, PostType
    <3>4. office'[g].sock = IF g = p.to THEN Append(q, p) ELSE q
      BY Zenon, <2>2
    <3> HIDE DEF d, q
    <3>5. d \o Append(q, p) = Append(d \o q, p)
      BY <1>5, <3>2, AppendConcat
    <3> QED
      BY ZenonT(30), <3>3, <3>4, <3>5 DEF d
  <2> QED
    BY Zenon, <1>6, <2>1, <2>2
<1> QED
  BY ZenonT(60), <1>2, <1>6, <1>9, <1>10, <1>11, <1>12, WorkerKeeps, BoxesKeep DEF IInv

-----------------------------------------------------------------------------
\* The offices start empty and no call is under way.
LEMMA InitInv ==
  ASSUME Init
  PROVE  IInv
<1> DEFINE o == [up |-> FALSE, sock |-> <<>>, inHdr |-> NoPacket, recvInt |-> FALSE,
                 sendInt |-> FALSE, messageAvailable |-> 0, messageSent |-> 0,
                 sendLock |-> FALSE, boxes |-> [b \in Boxes |-> <<>>], worker |-> "wait",
                 buffer |-> NoPacket]
<1>1. /\ office = [h \in Hosts |-> o] /\ prog \in Programs
      /\ stage = [t \in DOMAIN prog |-> "acquire"] /\ mail = [t \in DOMAIN prog |-> NoPacket]
      /\ wire = [h \in Hosts |-> <<>>] /\ delivered = [h \in Hosts |-> <<>>]
      /\ taken = [h \in Hosts |-> [b \in Boxes |-> <<>>]]
  BY Zenon DEF Init
<1>2. o \in Offices
  BY DEF Offices
<1>3. /\ o.sendLock = FALSE /\ o.sendInt = FALSE /\ o.messageSent = 0 /\ o.worker = "wait"
      /\ o.messageAvailable = 0 /\ o.inHdr = NoPacket /\ o.buffer = NoPacket /\ o.sock = <<>>
      /\ \A b \in Boxes : o.boxes[b] = <<>>
  OBVIOUS
<1> HIDE DEF o
<1>4. PostType
  <2>1. prog \in [Threads -> [host : Hosts, ops : Seq(Calls)]]
    BY Zenon, <1>1, ProgramsAssumption DEF Threads, IsProgram
  <2>2. Threads \subseteq UNION {DOMAIN p : p \in Programs}
    BY Zenon, <1>1 DEF Threads
  <2>3. office \in [Hosts -> Offices]
    BY Zenon, <1>1, <1>2
  <2> QED
    BY <1>1, <2>1, <2>2, <2>3 DEF PostType, Threads, Stages
<1>5. CallInv
  <2>1. \A t \in Threads : stage[t] = "acquire" /\ Answers(prog[t].ops)
    BY Zenon, <1>1, ProgramsAssumption DEF Threads, IsProgram
  <2> QED
    BY Zenon, <2>1 DEF CallInv
<1>6. LockInv
  <2>1. \A h \in Hosts : Inside(h) = {}
    BY Zenon, <1>1 DEF Inside, Threads
  <2>2. \A h \in Hosts : Pending(h) = 0 /\ office[h].sendLock = FALSE
    BY <1>1, <1>3 DEF Pending
  <2> QED
    BY Zenon, <2>1, <2>2 DEF LockInv
<1>7. WorkerInv
  BY <1>1, <1>3 DEF WorkerInv
<1>8. WireInv
  <2>1. \A h \in Hosts : /\ wire[h] = <<>> /\ delivered[h] = <<>> /\ office[h].sock = <<>>
                         /\ Held(office[h].buffer) = <<>> /\ Held(office[h].inHdr) = <<>>
    BY Zenon, <1>1, <1>3 DEF Held
  <2>2. <<>> = <<>> \o <<>> \o <<>> \o <<>>
    OBVIOUS
  <2> QED
    BY ZenonT(30), <2>1, <2>2 DEF WireInv
<1>9. BoxInv
  <2> SUFFICES ASSUME NEW h \in Hosts, NEW b \in Boxes
               PROVE  Filed(Got(h, b), delivered[h], b)
    BY Zenon DEF BoxInv
  <2>1. Got(h, b) = <<>> /\ delivered[h] = <<>>
    BY <1>1, <1>3 DEF Got
  <2>2. Share(delivered[h], b) = {}
    BY <2>1 DEF Share
  <2> QED
    BY ZenonT(30), <2>1, <2>2, FS_EmptySet DEF Filed
<1> QED
  BY Zenon, <1>4, <1>5, <1>6, <1>7, <1>8, <1>9 DEF IInv

\* A step that changes nothing keeps the invariant.
LEMMA StutterKeeps ==
  ASSUME IInv, UNCHANGED vars
  PROVE  IInv'
<1>1. PostType' /\ CallInv'
  BY Zenon DEF IInv, vars, PostType, CallInv, Threads, Sends, Op
<1>2. LockInv' /\ WorkerInv'
  BY DEF IInv, vars, LockInv, WorkerInv, Inside, Pending, Threads
<1>3. WireInv' /\ BoxInv'
  BY ZenonT(30) DEF IInv, vars, WireInv, BoxInv, Got
<1> QED
  BY Zenon, <1>1, <1>2, <1>3 DEF IInv

\* Every step of the threads, the workers and the network keeps the invariant.
LEMMA NextKeeps ==
  ASSUME IInv, [Next]_vars
  PROVE  IInv'
<1>1. CASE UNCHANGED vars
  BY Zenon, <1>1, StutterKeeps
<1>2. ASSUME NEW h \in Hosts, Boot(h) \/ RecvInterrupt(h) \/ SendInterrupt(h) \/ PostalDelivery(h)
      PROVE  IInv'
  BY Zenon, <1>2, BootKeeps, RecvInterruptKeeps, SendInterruptKeeps, PostalDeliveryKeeps
<1>3. ASSUME NEW t \in Threads, Step(t)
      PROVE  IInv'
  BY Zenon, <1>3, AcquireKeeps, SendKeeps, WaitSentKeeps, ReleaseKeeps, ReceiveKeeps DEF Step
<1> QED
  BY Zenon, <1>1, <1>2, <1>3 DEF Next

\* In every reachable state the calls, the lock, the worker, the packets under way
\* and the mailboxes of PostOfficeInput and PostOfficeOutput fit together as IInv says.
THEOREM Invariant == Spec => []IInv
BY InitInv, NextKeeps, PTL DEF Spec

\* Of any number of threads of a host only one is between sendLock's Acquire and
\* Release, and the interrupt of the device and the count of messageSent are meant for
\* it: a lost packet leaves neither behind for the next sender (PostOfficeOutput::Send).
THEOREM OneSendAtATimeCorrect == Spec => []OneSendAtATime
<1>1. ASSUME IInv
      PROVE  OneSendAtATime
  <2> SUFFICES ASSUME NEW h \in Hosts
               PROVE  /\ Cardinality(Inside(h)) <= 1 /\ (Inside(h) # {} <=> office[h].sendLock)
                      /\ office[h].sendInt \/ office[h].messageSent > 0
                           => \E t \in Inside(h) : stage[t] = "wait"
    BY Zenon DEF OneSendAtATime, Inside
  <2>1. Inside(h) = {} \/ \E t \in Inside(h) : Inside(h) = {t}
    BY Zenon, <1>1 DEF IInv, LockInv
  <2>2. Cardinality(Inside(h)) <= 1
    <3>1. CASE Inside(h) = {}
      BY <3>1, FS_EmptySet
    <3>2. ASSUME NEW t \in Inside(h), Inside(h) = {t}
          PROVE  Cardinality(Inside(h)) <= 1
      BY <3>2, FS_Singleton
    <3> QED
      BY Zenon, <2>1, <3>1, <3>2
  <2>3. office[h].messageSent \in Nat
    BY Zenon, <1>1 DEF IInv, PostType, Offices
  <2>4. office[h].sendInt \/ office[h].messageSent > 0 => Pending(h) # 0
    BY <2>3 DEF Pending
  <2> QED
    BY Zenon, <1>1, <2>2, <2>4 DEF IInv, LockInv
<1> QED
  BY <1>1, Invariant, PTL

\* Once in a host's socket a packet is neither lost, nor doubled, nor overtaken on its
\* way through the device's buffer and the worker to its mailbox, and each mailbox
\* hands out its packets in the order they came (NetworkInput::CallBack, Receive,
\* PostalDelivery, MailBox::Put and Get).
THEOREM InOrderOnceCorrect == Spec => []InOrderOnce
<1>1. ASSUME IInv
      PROVE  InOrderOnce
  <2>1. \A h \in Hosts, b \in Boxes : For(h, b) = Share(delivered[h], b)
    BY Zenon DEF For, Share
  <2>2. \A h \in Hosts, b \in Boxes :
          /\ Len(Got(h, b)) = Cardinality(For(h, b))
          /\ \A i \in For(h, b) :
               Got(h, b)[Cardinality({j \in For(h, b) : j <= i})] = delivered[h][i]
    BY <1>1, <2>1 DEF IInv, BoxInv, Filed
  <2> QED
    BY ZenonT(30), <1>1, <2>2 DEF IInv, WireInv, InOrderOnce
<1> QED
  BY <1>1, Invariant, PTL
=============================================================================
