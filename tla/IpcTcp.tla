-------------------------------- MODULE IpcTcp --------------------------------
(***************************************************************************)
(* src/src/xipcmsg.c, ipcmsg_tcp_send and ipcmsg_tcp_recv: messages with a *)
(* header (a magic number and the length) over one TCP connection, in one  *)
(* of its directions.  The stream is made of words of four bytes; a recv   *)
(* may return any part of what has arrived, and a send any part of what it *)
(* was given (ipcmsg_tcp_connect sets a timeout for it).                   *)
(*                                                                         *)
(* The callers are outside of the repository.  A sender whose call failed  *)
(* closes the connection; a receiver may also call again.  The magic       *)
(* number occurs in no payload, and no payload is empty.                   *)
(***************************************************************************)
EXTENDS Integers, Sequences, SequencesExt

CONSTANTS
  Lengths,   \* the lengths of the messages, in words, in the order of sending
  bufflen    \* what the receiver's buffer can take

ASSUME TcpAssumption == Lengths \in Seq(Nat \ {0}) /\ bufflen \in Nat

VARIABLES
  stream,    \* the words sent and not yet received
  sent,      \* how many messages ipcmsg_tcp_send has sent
  sender,    \* "open", "failed" once a call returned -1, "closed"
  nleft,     \* what ipcmsg_tcp_recv is to receive of a payload, 0 outside
  buffer,    \* the part of the payload it has
  received,  \* the messages it has returned
  errors,    \* how often it has returned -1
  ended      \* it has returned 0, or the connection was reset

tcpVars == <<stream, sent, sender, nleft, buffer, received, errors, ended>>

HeaderSize == 2

\* The words of the n-th message, each told apart by its place.
MsgWords(n) == [i \in 1 .. HeaderSize + Lengths[n] |-> <<n, i>>]
Payload(n) == SubSeq(MsgWords(n), HeaderSize + 1, HeaderSize + Lengths[n])

TcpInit ==
  /\ stream = <<>> /\ sent = 0 /\ sender = "open"
  /\ nleft = 0 /\ buffer = <<>> /\ received = <<>>
  /\ errors = 0 /\ ended = FALSE

-----------------------------------------------------------------------------
(* ipcmsg_tcp_send, ipcmsg_close *)

Send ==
  /\ sender = "open" /\ sent < Len(Lengths)
  /\ stream' = stream \o MsgWords(sent + 1)
  /\ sent' = sent + 1
  /\ UNCHANGED <<sender, nleft, buffer, received, errors, ended>>

\* send returns less than it was given (the timeout), or -1; or malloc fails.
SendFails ==
  /\ sender = "open" /\ sent < Len(Lengths)
  /\ \E k \in 0 .. HeaderSize + Lengths[sent + 1] - 1 :
       stream' = stream \o SubSeq(MsgWords(sent + 1), 1, k)
  /\ sender' = "failed"
  /\ UNCHANGED <<sent, nleft, buffer, received, errors, ended>>

CloseSender ==
  /\ sender # "closed"
  /\ sender' = "closed"
  /\ UNCHANGED <<stream, sent, nleft, buffer, received, errors, ended>>

-----------------------------------------------------------------------------
(* ipcmsg_tcp_recv.  A receiver that got 0, or whose connection was reset, *)
(* closes; after any other error it may call again.                        *)

MayCall == nleft = 0 /\ ~ ended
AtEnd == stream = <<>> /\ sender = "closed"

\* recv: the first k words.
Take(k) == stream' = SubSeq(stream, k + 1, Len(stream))

\* The call returns -1; what it has of a payload is lost.
ReturnError ==
  /\ errors' = errors + 1
  /\ nleft' = 0
  /\ buffer' = <<>>
  /\ UNCHANGED <<sent, sender, received>>

\* The magic number, and the word behind it, are those of message n.
IsHeaderOf(words, n) == words = SubSeq(MsgWords(n), 1, HeaderSize)
\* recv returns a whole header, of message n.
HeaderOf(n) ==
  Len(stream) >= HeaderSize /\ IsHeaderOf(SubSeq(stream, 1, HeaderSize), n)

RecvHeader(n) ==
  /\ MayCall /\ HeaderOf(n)
  /\ Lengths[n] <= bufflen
  /\ nleft' = Lengths[n]
  /\ Take(HeaderSize)
  /\ UNCHANGED <<sent, sender, buffer, received, errors, ended>>

\* "Message too long": its payload stays in the stream.
RecvTooLong(n) ==
  /\ MayCall /\ HeaderOf(n)
  /\ Lengths[n] > bufflen
  /\ Take(HeaderSize)
  /\ ReturnError
  /\ UNCHANGED ended

\* "Message incomplete": only a part of the header had arrived.
RecvPartOfHeader ==
  /\ MayCall
  /\ \E k \in 1 .. HeaderSize - 1 : k <= Len(stream) /\ Take(k)
  /\ ReturnError
  /\ UNCHANGED ended

\* "Magic error"
RecvNoHeader ==
  /\ MayCall
  /\ Len(stream) >= HeaderSize
  /\ \A n \in 1 .. Len(Lengths) : ~ HeaderOf(n)
  /\ Take(HeaderSize)
  /\ ReturnError
  /\ UNCHANGED ended

\* Mutant: what one recv returns is taken for the whole payload.
RecvPayloadOnce(k) ==
  /\ k <= nleft /\ k <= Len(stream)
  /\ Take(k)
  /\ nleft' = 0
  /\ received' = Append(received, buffer \o SubSeq(stream, 1, k))
  /\ buffer' = <<>>
  /\ UNCHANGED <<sent, sender, errors, ended>>

\* One pass of the loop; the last one returns the message.
RecvPayload(k) ==
  /\ k <= nleft /\ k <= Len(stream)
  /\ Take(k)
  /\ nleft' = nleft - k
  /\ LET got == buffer \o SubSeq(stream, 1, k)
     IN  IF k = nleft
           THEN received' = Append(received, got) /\ buffer' = <<>>
           ELSE buffer' = got /\ UNCHANGED received
  /\ UNCHANGED <<sent, sender, errors, ended>>

\* recv returns 0, between messages or within one, and so does the call.
RecvEnd ==
  /\ ~ ended /\ AtEnd
  /\ ended' = TRUE
  /\ nleft' = 0 /\ buffer' = <<>>
  /\ UNCHANGED <<stream, sent, sender, received, errors>>

\* recv returns -1: the connection was reset, with what was under way.
RecvFails ==
  /\ ~ ended /\ sender = "closed"
  /\ stream' = <<>>
  /\ ended' = TRUE
  /\ ReturnError

TcpNext ==
  \/ Send \/ SendFails \/ CloseSender
  \/ \E n \in 1 .. Len(Lengths) : RecvHeader(n) \/ RecvTooLong(n)
  \/ RecvPartOfHeader \/ RecvNoHeader
  \/ \E k \in 1 .. nleft : RecvPayload(k)
  \/ RecvEnd \/ RecvFails

TcpSpec == TcpInit /\ [][TcpNext]_tcpVars

-----------------------------------------------------------------------------
(* Properties *)

\* The message that a received payload is of.
NumberOf(words) == words[1][1]

\* What ipcmsg_tcp_recv returns is a whole message that was sent, in the order
\* of sending, each once; and none is skipped in silence, there is an error for
\* each that is missing before one that was received.  Also when a send broke
\* off, a header came in two parts, a message was too long, and the receiver
\* called again after the error.
MessagesAreKept ==
  /\ \A i \in 1 .. Len(received) :
       /\ NumberOf(received[i]) <= sent
       /\ received[i] = Payload(NumberOf(received[i]))
       /\ i > 1 => NumberOf(received[i - 1]) < NumberOf(received[i])
  /\ received # <<>> => NumberOf(Last(received)) <= Len(received) + errors
=============================================================================
