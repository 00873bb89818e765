-------------------------------- MODULE IpcUdp --------------------------------
(***************************************************************************)
(* src/src/xipcmsg.c, ipcmsg_send and ipcmsg_recv: messages of any length  *)
(* from several clients to one server over UDP.  A message is sent as two  *)
(* datagrams, the header with the length and the data; the server receives *)
(* one of them, allocates, and receives the next as the data.  A datagram  *)
(* that is longer than what recvfrom asks for is cut.                      *)
(*                                                                         *)
(* The path of a datagram keeps the order (all is one host), and may lose. *)
(***************************************************************************)
EXTENDS Integers, Sequences, FiniteSets

CONSTANTS
  Clients,
  Messages,
  Length,     \* the length of every message, in bytes
  ReadAs,     \* the number that its first bytes are, taken for a header
  HeaderLen,  \* sizeof(ipcmsg_hdr_t)
  Lossy,      \* datagrams may be lost
  NoOne      \* no message, no address

ASSUME UdpAssumption ==
  /\ Length \in [Messages -> Nat \ {0}]
  /\ ReadAs \in [Messages -> Nat]
  /\ HeaderLen \in Nat \ {0}
  /\ Lossy \in BOOLEAN
  /\ NoOne \notin Clients \cup Messages

VARIABLES
  socket,   \* the datagrams that have arrived at the server
  unsent,   \* the messages nobody has sent
  sending,  \* the message whose data a client is about to send
  order,    \* the messages in the order of their headers (a ghost)
  intact,   \* nothing was lost so far (a ghost)
  caddr,    \* the sender ipcmsg_recv has seen, NoOne outside of a call
  wanted,   \* the length it has allocated
  served    \* the messages that were returned to the server, with the sender

udpVars == <<socket, unsent, sending, order, intact, caddr, wanted, served>>

Datagrams == [from : Clients, part : {"header", "data"}, msg : Messages]

UdpInit ==
  /\ socket = <<>> /\ unsent = Messages /\ order = <<>> /\ intact = TRUE
  /\ sending = [c \in Clients |-> NoOne]
  /\ caddr = NoOne /\ wanted = 0 /\ served = <<>>

\* sendmsg.  That it fails is printed, and the call goes on.
Deliver(c, part, m) ==
  \E lost \in IF Lossy THEN BOOLEAN ELSE {FALSE} :
    /\ socket' = IF lost THEN socket
                         ELSE Append(socket, [from |-> c, part |-> part, msg |-> m])
    /\ intact' = (intact /\ ~ lost)

\* Mutant: two threads of a client send at once.
SendHeaderAtOnce(c, m) ==
  /\ m \in unsent
  /\ Deliver(c, "header", m)
  /\ sending' = [sending EXCEPT ![c] = m]
  /\ unsent' = unsent \ {m}
  /\ order' = Append(order, m)
  /\ UNCHANGED <<caddr, wanted, served>>

SendHeader(c, m) ==
  /\ sending[c] = NoOne /\ m \in unsent
  /\ Deliver(c, "header", m)
  /\ sending' = [sending EXCEPT ![c] = m]
  /\ unsent' = unsent \ {m}
  /\ order' = Append(order, m)
  /\ UNCHANGED <<caddr, wanted, served>>

SendData(c) ==
  /\ sending[c] # NoOne
  /\ Deliver(c, "data", sending[c])
  /\ sending' = [sending EXCEPT ![c] = NoOne]
  /\ UNCHANGED <<unsent, order, caddr, wanted, served>>

-----------------------------------------------------------------------------
SizeOf(d) == IF d.part = "header" THEN HeaderLen ELSE Length[d.msg]
\* The length that a datagram says when it is taken for a header.
LengthIn(d) == IF d.part = "header" THEN Length[d.msg] ELSE ReadAs[d.msg]

\* The first recvfrom: any datagram of at least its size passes for a header.
RecvHdr(d) ==
  /\ caddr = NoOne /\ socket # <<>> /\ d = Head(socket)
  /\ SizeOf(d) >= HeaderLen
  /\ caddr' = d.from
  /\ wanted' = LengthIn(d)
  /\ socket' = Tail(socket)
  /\ UNCHANGED <<unsent, sending, order, intact, served>>

\* "recv ipcmsg hdr error"
RecvShort(d) ==
  /\ caddr = NoOne /\ socket # <<>> /\ d = Head(socket)
  /\ SizeOf(d) < HeaderLen
  /\ socket' = Tail(socket)
  /\ UNCHANGED <<unsent, sending, order, intact, caddr, wanted, served>>

\* The second recvfrom, of whoever comes next; a shorter one is an error.
RecvBody(d) ==
  /\ caddr # NoOne /\ socket # <<>> /\ d = Head(socket)
  /\ served' = IF SizeOf(d) < wanted THEN served ELSE
                 Append(served, [from |-> caddr, datagram |-> d, length |-> wanted])
  /\ caddr' = NoOne /\ wanted' = 0
  /\ socket' = Tail(socket)
  /\ UNCHANGED <<unsent, sending, order, intact>>

\* malloc returns NULL: the data stays in the socket.
RecvNoMemory ==
  /\ caddr # NoOne /\ Lossy
  /\ caddr' = NoOne /\ wanted' = 0
  /\ intact' = FALSE
  /\ UNCHANGED <<socket, unsent, sending, order, served>>

UdpNext ==
  \/ \E c \in Clients : SendData(c) \/ \E m \in Messages : SendHeader(c, m)
  \/ \E d \in Datagrams : RecvHdr(d) \/ RecvShort(d) \/ RecvBody(d)
  \/ RecvNoMemory

UdpSpec == UdpInit /\ [][UdpNext]_udpVars

-----------------------------------------------------------------------------
(* Properties *)

\* With one client, and until something is lost, every message arrives whole
\* and in order, though no datagram says which part it is.
ServedAsSent ==
  intact =>
    \A i \in 1 .. Len(served) :
      LET d == served[i].datagram
      IN  d.part = "data" /\ d.msg = order[i] /\ served[i].length = Length[d.msg]

\* "the server should be able to tell the sender, and to give the result back
\* to the right one" (xipcmsg.c): the address that comes with a message is its
\* sender's.
KnowsTheSender == \A i \in 1 .. Len(served) : served[i].from = served[i].datagram.from
=============================================================================
