----------------------------- MODULE PostOffice -----------------------------
(***************************************************************************)
(* Mail between Nachos machines: machine/network.cc, network/post.cc and   *)
(* the test of network/nettest.cc.  Each machine has a network device with *)
(* room for one packet that arrived, a postal worker thread that moves it  *)
(* to a mailbox, and threads that call PostOffice::Send and Receive: one   *)
(* runs MailTest, others (Clerk) send one message each to box 2, which     *)
(* nobody reads.  A mailbox is a SynchList, whose operations are taken as  *)
(* atomic (module SynchList).                                              *)
(***************************************************************************)
EXTENDS Integers, Sequences, FiniteSets

CONSTANTS
    NetMachine,     \* the machines
    Clerk           \* threads with one more message to send

ASSUME PostOfficeAssumption ==
    /\ \A m \in NetMachine : \E f \in NetMachine : f # m
    /\ "free" \notin Clerk

(* farAddr of MailTest. *)
Far(m) == CHOOSE f \in NetMachine : f # m

Box == 0..2

VARIABLES
    reliable,           \* FALSE if the network may lose packets
    mailTest,           \* where in MailTest the thread of each machine is
    clerk,              \* and where the clerks are
    sendLock,           \* owner, or "free"
    messageSent,        \* semaphores of the post office
    messageAvailable,
    sendDone,           \* NetworkSendDone interrupts scheduled
    socket,             \* packets to be read by each machine
    inHdr,              \* the packet that is buffered, as a sequence of 0 or 1
    worker,             \* the packet the postal worker is delivering
    boxes,
    sent, put,          \* all packets sent (not lost) to, put in each box
    inMail              \* what the MailTest thread received last

poVars == <<reliable, mailTest, clerk, sendLock, messageSent, messageAvailable, sendDone, socket,
            inHdr, worker, boxes, sent, put, inMail>>

NoMail == [from |-> "nobody"]

PostOfficeInit ==
    /\ reliable \in BOOLEAN
    /\ mailTest = [m \in NetMachine |-> "hello"]
    /\ clerk = [c \in Clerk \X NetMachine |-> "ready"]
    /\ sendLock = [m \in NetMachine |-> "free"]
    /\ messageSent = [m \in NetMachine |-> 0]
    /\ messageAvailable = [m \in NetMachine |-> 0]
    /\ sendDone = [m \in NetMachine |-> 0]
    /\ socket = [m \in NetMachine |-> <<>>]
    /\ inHdr = [m \in NetMachine |-> <<>>]
    /\ worker = [m \in NetMachine |-> <<>>]
    /\ boxes = [m \in NetMachine |-> [b \in Box |-> <<>>]]
    /\ sent = [m \in NetMachine |-> <<>>]
    /\ put = [m \in NetMachine |-> <<>>]
    /\ inMail = [m \in NetMachine |-> NoMail]

Up(m) == mailTest[m] # "halted"

-----------------------------------------------------------------------------
(* Mutant of StartSend: sendLock is not waited for. *)
StartSendAtOnce(m, s, to, mail) ==
    /\ Up(m)
    /\ sendLock' = [sendLock EXCEPT ![m] = s]
    /\ sendDone' = [sendDone EXCEPT ![m] = @ + 1]
    /\ socket' = [socket EXCEPT ![to] = Append(@, mail)]
    /\ sent' = [sent EXCEPT ![to] = Append(@, mail)]
    /\ UNCHANGED <<messageSent, messageAvailable, inHdr, worker, boxes, put, inMail>>

(* PostOffice::Send under sendLock, to network->Send: the interrupt is      *)
(* scheduled, and then the packet may be lost.                              *)
StartSend(m, s, to, mail) ==
    /\ Up(m)
    /\ sendLock[m] = "free"
    /\ sendLock' = [sendLock EXCEPT ![m] = s]
    /\ sendDone' = [sendDone EXCEPT ![m] = @ + 1]
    /\ \/ /\ socket' = [socket EXCEPT ![to] = Append(@, mail)]
          /\ sent' = [sent EXCEPT ![to] = Append(@, mail)]
       \/ ~reliable /\ UNCHANGED <<socket, sent>>
    /\ UNCHANGED <<messageSent, messageAvailable, inHdr, worker, boxes, put, inMail>>

(* messageSent->P returns and sendLock is released. *)
EndSend(m, s) ==
    /\ Up(m)
    /\ sendLock[m] = s
    /\ messageSent[m] > 0
    /\ messageSent' = [messageSent EXCEPT ![m] = @ - 1]
    /\ sendLock' = [sendLock EXCEPT ![m] = "free"]
    /\ UNCHANGED <<messageAvailable, sendDone, socket, inHdr, worker, boxes, sent, put, inMail>>

(* PostOffice::Receive, MailBox::Get. *)
GetMail(m, box) ==
    /\ boxes[m][box] # <<>>
    /\ inMail' = [inMail EXCEPT ![m] = Head(boxes[m][box])]
    /\ boxes' = [boxes EXCEPT ![m][box] = Tail(@)]
    /\ UNCHANGED <<sendLock, messageSent, messageAvailable, sendDone, socket, inHdr, worker,
                   sent, put>>

-----------------------------------------------------------------------------
(* MailTest, by its steps; the reply goes to the box of the message. *)
Hello(m) == [from |-> m, box |-> 0, reply |-> 1, text |-> "hello"]
Ack(m) == [from |-> m, box |-> inMail[m].reply, reply |-> 1, text |-> "ack"]

Goto(m, from, to) == mailTest[m] = from /\ mailTest' = [mailTest EXCEPT ![m] = to]

(* Mutant of MailTest: the acknowledgement is sent without waiting. *)
MailTestAckFirst(m) ==
    /\ \/ Goto(m, "hello", "helloSent") /\ StartSend(m, "MailTest", Far(m), Hello(m))
       \/ Goto(m, "helloSent", "ack") /\ EndSend(m, "MailTest")
       \/ /\ Goto(m, "ack", "ackSent")
          /\ StartSend(m, "MailTest", Far(m), [Hello(m) EXCEPT !.box = 1])
       \/ Goto(m, "ackSent", "receive1") /\ EndSend(m, "MailTest")
       \/ Goto(m, "receive1", "halted") /\ GetMail(m, 1)
    /\ UNCHANGED clerk

(* Mutant of MailTest: each machine waits for the other to begin. *)
MailTestReceiveFirst(m) ==
    /\ \/ Goto(m, "hello", "ack") /\ GetMail(m, 0)
       \/ Goto(m, "ack", "ackSent") /\ StartSend(m, "MailTest", Far(m), Hello(m))
       \/ Goto(m, "ackSent", "halted") /\ EndSend(m, "MailTest")
    /\ UNCHANGED clerk

MailTest(m) ==
    /\ \/ Goto(m, "hello", "helloSent") /\ StartSend(m, "MailTest", Far(m), Hello(m))
       \/ Goto(m, "helloSent", "receive0") /\ EndSend(m, "MailTest")
       \/ Goto(m, "receive0", "ack") /\ GetMail(m, 0)
       \/ Goto(m, "ack", "ackSent") /\ StartSend(m, "MailTest", inMail[m].from, Ack(m))
       \/ Goto(m, "ackSent", "receive1") /\ EndSend(m, "MailTest")
       \/ Goto(m, "receive1", "halted") /\ GetMail(m, 1)
    /\ UNCHANGED clerk

ClerkSends(c, m) ==
    /\ \/ /\ clerk[<<c, m>>] = "ready"
          /\ clerk' = [clerk EXCEPT ![<<c, m>>] = "sending"]
          /\ StartSend(m, c, Far(m),
                [from |-> m, box |-> 2, reply |-> 2, text |-> c])
       \/ /\ clerk[<<c, m>>] = "sending"
          /\ clerk' = [clerk EXCEPT ![<<c, m>>] = "done"]
          /\ EndSend(m, c)
    /\ UNCHANGED mailTest

(* Network::SendDone, PostOffice::PacketSent. *)
SendDone(m) ==
    /\ Up(m) /\ sendDone[m] > 0
    /\ sendDone' = [sendDone EXCEPT ![m] = @ - 1]
    /\ messageSent' = [messageSent EXCEPT ![m] = @ + 1]
    /\ UNCHANGED <<mailTest, clerk, sendLock, messageAvailable, socket, inHdr, worker, boxes,
                   sent, put, inMail>>

(* Mutant of CheckPktAvail: a packet that finds another one is dropped. *)
CheckPktAvailDrops(m) ==
    /\ Up(m)
    /\ socket[m] # <<>>
    /\ inHdr' = [inHdr EXCEPT ![m] = IF @ = <<>> THEN <<Head(socket[m])>> ELSE @]
    /\ socket' = [socket EXCEPT ![m] = Tail(@)]
    /\ messageAvailable' = [messageAvailable EXCEPT ![m] = 1]
    /\ UNCHANGED <<mailTest, clerk, sendLock, messageSent, sendDone, worker, boxes, sent, put,
                   inMail>>

(* Network::CheckPktAvail, PostOffice::IncomingPacket. *)
CheckPktAvail(m) ==
    /\ Up(m)
    /\ inHdr[m] = <<>>
    /\ socket[m] # <<>>
    /\ inHdr' = [inHdr EXCEPT ![m] = <<Head(socket[m])>>]
    /\ socket' = [socket EXCEPT ![m] = Tail(@)]
    /\ messageAvailable' = [messageAvailable EXCEPT ![m] = @ + 1]
    /\ UNCHANGED <<mailTest, clerk, sendLock, messageSent, sendDone, worker, boxes, sent, put,
                   inMail>>

(* The postal worker: messageAvailable->P, Network::Receive... *)
ReceivePacket(m) ==
    /\ Up(m) /\ worker[m] = <<>>
    /\ messageAvailable[m] > 0
    /\ messageAvailable' = [messageAvailable EXCEPT ![m] = @ - 1]
    /\ worker' = [worker EXCEPT ![m] = inHdr[m]]
    /\ inHdr' = [inHdr EXCEPT ![m] = <<>>]
    /\ UNCHANGED <<mailTest, clerk, sendLock, messageSent, sendDone, socket, boxes, sent, put,
                   inMail>>

(* ...and MailBox::Put. *)
PutMail(m) ==
    /\ Up(m) /\ worker[m] # <<>>
    /\ boxes' = [boxes EXCEPT ![m][worker[m][1].box] = @ \o worker[m]]
    /\ put' = [put EXCEPT ![m] = @ \o worker[m]]
    /\ worker' = [worker EXCEPT ![m] = <<>>]
    /\ UNCHANGED <<mailTest, clerk, sendLock, messageSent, messageAvailable, sendDone, socket,
                   inHdr, sent, inMail>>

Deliver(m) == SendDone(m) \/ CheckPktAvail(m) \/ ReceivePacket(m) \/ PutMail(m)

PostOfficeNext ==
    /\ \E m \in NetMachine : MailTest(m) \/ Deliver(m) \/ \E c \in Clerk : ClerkSends(c, m)
    /\ UNCHANGED reliable

PostOfficeSpec == PostOfficeInit /\ [][PostOfficeNext]_poVars

-----------------------------------------------------------------------------
(* "Only one message can be sent to the network at any one time": from      *)
(* network->Send to the interrupt and its semaphore there is one message,   *)
(* and its sender holds sendLock.                                           *)
OneMessageAtATime ==
    \A m \in NetMachine :
        sendDone[m] + messageSent[m] = (IF sendLock[m] = "free" THEN 0 ELSE 1)

(* Every packet that the network did not lose is delivered once and in      *)
(* order: what was put in the boxes, what the worker holds, what is         *)
(* buffered and what is in the socket make up what was sent.                *)
DeliveredOnce ==
    \A m \in NetMachine : sent[m] = put[m] \o worker[m] \o inHdr[m] \o socket[m]

(* MailTest halts its machine only after the message it sent arrived: an    *)
(* acknowledgement is an acknowledgement of that message, also when         *)
(* packets are lost.                                                        *)
HaltedMeansReceived ==
    \A m \in NetMachine : mailTest[m] = "halted" =>
        \E k \in DOMAIN put[Far(m)] : put[Far(m)][k] = Hello(m)

(* The inductive invariant behind these: what may be in the variables, ... *)
Letter == [from : NetMachine, box : Box, reply : {1, 2},
           text : {"hello", "ack"} \cup Clerk]

NetTypeOK ==
    /\ sendLock \in [NetMachine -> Clerk \cup {"free", "MailTest"}]
    /\ messageSent \in [NetMachine -> Nat]
    /\ messageAvailable \in [NetMachine -> Nat]
    /\ sendDone \in [NetMachine -> Nat]
    /\ socket \in [NetMachine -> Seq(Letter)]
    /\ inHdr \in [NetMachine -> Seq(Letter)]
    /\ worker \in [NetMachine -> Seq(Letter)]
    /\ boxes \in [NetMachine -> [Box -> Seq(Letter)]]
    /\ sent \in [NetMachine -> Seq(Letter)]
    /\ put \in [NetMachine -> Seq(Letter)]
    /\ inMail \in [NetMachine -> Letter \cup {NoMail}]

POTypeOK ==
    /\ NetTypeOK
    /\ mailTest \in [NetMachine -> {"hello", "helloSent", "receive0", "ack", "ackSent",
                                    "receive1", "halted"}]
    /\ clerk \in [Clerk \X NetMachine -> {"ready", "sending", "done"}]

Letters(s) == {s[k] : k \in DOMAIN s}

(* ... a letter in box 0 is a Hello to its machine, and one in box 1 was   *)
(* sent after the Hello of its machine was put in a box, ...               *)
SentHonest ==
    \A m \in NetMachine : \A x \in Letters(sent[m]) :
        /\ x.box = 0 => x = Hello(x.from) /\ Far(x.from) = m
        /\ x.box = 1 => Hello(m) \in Letters(put[Far(m)])

(* ... a box holds letters to it that were put there, ... *)
BoxesHonest ==
    \A m \in NetMachine, b \in Box : \A x \in Letters(boxes[m][b]) :
        x.box = b /\ x \in Letters(put[m])

(* ... MailTest acknowledges a letter from box 0, ... *)
AckHonest ==
    \A m \in NetMachine : mailTest[m] = "ack" =>
        inMail[m] \in Letters(put[m]) /\ inMail[m].box = 0

(* ... and the device and the worker have room for one packet each. *)
RoomForOne ==
    \A m \in NetMachine : Len(worker[m]) <= 1 /\ Len(inHdr[m]) <= 1

MailHonest == SentHonest /\ BoxesHonest /\ AckHonest /\ RoomForOne

POInv == POTypeOK /\ OneMessageAtATime /\ DeliveredOnce /\ MailHonest /\ HaltedMeansReceived

(* If no packet is lost, both machines finish the test. *)
MailTestEnds == reliable ~> (\A m \in NetMachine : mailTest[m] = "halted")
=============================================================================
