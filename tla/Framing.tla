------------------------------- MODULE Framing -------------------------------
(***************************************************************************)
(* The byte stream from a compute unit to the router.  Worker threads of  *)
(* the compute unit call TCPClient::notifyHost, one send() of a whole     *)
(* message (TCPMetaInfo header followed by the payload) with MSG_DONTWAIT *)
(* and no lock; the result is ignored.  The router's receive thread for   *)
(* that client (clientInfoReceiveCallback in TCPServer.cpp) recv()s into  *)
(* its buffer after the unprocessed bytes and calls                       *)
(* Utility::extractItemsModifyBuffer, which runs the callback of every    *)
(* complete message and moves the incomplete rest to the buffer's start.  *)
(*                                                                         *)
(* A byte is abstracted to the message it belongs to and its offset in it *)
(* (the header is HL bytes), so that reading a header at the wrong offset *)
(* is visible.  A send() on a stream socket appends its bytes as one run; *)
(* with MSG_DONTWAIT and a full socket buffer it appends only a prefix,   *)
(* possibly none, which the model allows when MayTruncate holds.  What   *)
(* the parser does once it reads a header at a wrong offset depends on   *)
(* the payload bytes it misreads; the model records it as desync and     *)
(* stops parsing there.                                                    *)
(***************************************************************************)
EXTENDS Naturals, Sequences, SequencesExt

CONSTANTS
    Senders,     \* worker threads that call notifyHost
    Work,        \* Work[s]: the messages thread s sends, in order
    Payload,     \* Payload[f]: payload_size of message f
    HL,          \* sizeof(TCPMetaInfo)
    Cap,         \* MAX_DATA_SIZE of the receive buffer
    MayTruncate  \* a send() may be cut short (socket buffer full)

Frames == DOMAIN Payload

ASSUME /\ Work \in [Senders -> Seq(Frames)] /\ HL \in Nat \ {0} /\ Cap \in Nat \ {0}
       /\ MayTruncate \in BOOLEAN

VARIABLES
    pending,    \* pending[s]: messages thread s has still to send
    sent,       \* messages in the order of their notifyHost calls
    wire,       \* bytes sent and not yet recv()d
    buf,        \* msg_buffer[0 .. unprocessed_bytes)
    delivered,  \* messages whose callback ran, in order
    rstate,     \* "run" or "aborted" (client->abort set)
    desync      \* a header was read at a byte that does not start one

vars == <<pending, sent, wire, buf, delivered, rstate, desync>>

-----------------------------------------------------------------------------
(* serializeItemToMemory: the header, then payload_size bytes;            *)
(* bytesize() = sizeof(TCPMetaInfo) + payload_size.                        *)
Size(f) == HL + Payload[f]
Byte == UNION {[f : {f}, k : 0..Size(f) - 1] : f \in Frames}

FrameBytes(f) == [j \in 1..Size(f) |-> [f |-> f, k |-> j - 1]]

(* send(serverHandle, data, len, MSG_NOSIGNAL | MSG_DONTWAIT): how many   *)
(* of the message's bytes the socket takes.                                *)
SendLen(f) == IF MayTruncate THEN 0..Size(f) ELSE {Size(f)}

(* notifyHost: one send() of the whole message, result ignored.           *)
NotifyHost(s) ==
    /\ pending[s] # <<>>
    /\ LET f == Head(pending[s])
       IN /\ \E n \in SendLen(f) : wire' = wire \o SubSeq(FrameBytes(f), 1, n)
          /\ sent' = Append(sent, f)
    /\ pending' = [pending EXCEPT ![s] = Tail(@)]
    /\ UNCHANGED <<buf, delivered, rstate, desync>>

-----------------------------------------------------------------------------
(* The delimiter scan and memcpy of the TCPMetaInfo: the header is read   *)
(* correctly only at the first byte of a message.                          *)
HeaderAt(s) == \A j \in 1..HL : s[j] = [f |-> s[1].f, k |-> j - 1]

\* Mutant: a message that ends exactly at the last received byte is kept.
RECURSIVE ExtractFromStrict(_, _)
ExtractFromStrict(s, done) ==
    IF Len(s) < HL THEN [rest |-> s, out |-> done, bad |-> FALSE]
    ELSE IF ~HeaderAt(s) THEN [rest |-> s, out |-> done, bad |-> TRUE]
    ELSE IF Size(s[1].f) >= Len(s) THEN [rest |-> s, out |-> done, bad |-> FALSE]
    ELSE ExtractFromStrict(SubSeq(s, Size(s[1].f) + 1, Len(s)), Append(done, s[1].f))

(* extractItemsModifyBuffer: while bytesize() <= remaining_bytes, run the *)
(* callback and step past the message; fewer than HL bytes left can never *)
(* hold a bytesize() that fits.  rest is what memmove keeps.               *)
RECURSIVE ExtractFrom(_, _)
ExtractFrom(s, done) ==
    IF Len(s) < HL THEN [rest |-> s, out |-> done, bad |-> FALSE]
    ELSE IF ~HeaderAt(s) THEN [rest |-> s, out |-> done, bad |-> TRUE]
    ELSE IF Size(s[1].f) > Len(s) THEN [rest |-> s, out |-> done, bad |-> FALSE]
    ELSE ExtractFrom(SubSeq(s, Size(s[1].f) + 1, Len(s)), Append(done, s[1].f))

\* Mutant: the space offered to recv() forgets the unprocessed bytes.
ReceiveFullSpace ==
    /\ rstate = "run"
    /\ Len(buf) < Cap
    /\ wire # <<>>
    /\ \E n \in 1..Min({Cap, Len(wire)}) :
          LET r == ExtractFrom(buf \o SubSeq(wire, 1, n), <<>>)
          IN /\ buf' = r.rest
             /\ delivered' = delivered \o r.out
             /\ desync' = (desync \/ r.bad)
             /\ wire' = SubSeq(wire, n + 1, Len(wire))
    /\ UNCHANGED <<pending, sent, rstate>>

\* Mutant: the unprocessed tail is not kept (out_unprocessed_bytes = 0).
ReceiveDropRest ==
    /\ rstate = "run"
    /\ Len(buf) < Cap
    /\ wire # <<>>
    /\ \E n \in 1..Min({Cap - Len(buf), Len(wire)}) :
          LET r == ExtractFrom(buf \o SubSeq(wire, 1, n), <<>>)
          IN /\ buf' = <<>>
             /\ delivered' = delivered \o r.out
             /\ desync' = (desync \/ r.bad)
             /\ wire' = SubSeq(wire, n + 1, Len(wire))
    /\ UNCHANGED <<pending, sent, rstate>>

(* One turn of the receive loop with data: recv() of up to available_space *)
(* bytes after the unprocessed ones, then extractItemsModifyBuffer over    *)
(* all of them.  Poll timeouts, EINTR and EAGAIN only loop again.          *)
Receive ==
    /\ rstate = "run"
    /\ Len(buf) < Cap
    /\ wire # <<>>
    /\ \E n \in 1..Min({Cap - Len(buf), Len(wire)}) :
          LET r == ExtractFrom(buf \o SubSeq(wire, 1, n), <<>>)
          IN /\ buf' = r.rest
             /\ delivered' = delivered \o r.out
             /\ desync' = (desync \/ r.bad)
             /\ wire' = SubSeq(wire, n + 1, Len(wire))
    /\ UNCHANGED <<pending, sent, rstate>>

(* available_space == 0: "Buffer overflow risk detected", abort.          *)
Overflow ==
    /\ rstate = "run"
    /\ Len(buf) = Cap
    /\ rstate' = "aborted"
    /\ UNCHANGED <<pending, sent, wire, buf, delivered, desync>>

Init ==
    /\ pending = Work
    /\ sent = <<>>
    /\ wire = <<>>
    /\ buf = <<>>
    /\ delivered = <<>>
    /\ rstate = "run"
    /\ desync = FALSE

Next == (\E s \in Senders : NotifyHost(s)) \/ Receive \/ Overflow

(* The receive thread polls with a 200 ms timeout and reads whenever data *)
(* is there; a worker thread that has a message makes its call.           *)
Spec == Init /\ [][Next]_vars /\ WF_vars(Receive) /\ WF_vars(Overflow)
                /\ \A s \in Senders : WF_vars(NotifyHost(s))

-----------------------------------------------------------------------------
TypeOK ==
    /\ pending \in [Senders -> Seq(Frames)]
    /\ sent \in Seq(Frames)
    /\ wire \in Seq(Byte)
    /\ buf \in Seq(Byte) /\ Len(buf) <= Cap
    /\ delivered \in Seq(Frames)
    /\ rstate \in {"run", "aborted"}
    /\ desync \in BOOLEAN

(* The documented contract of extractItemsModifyBuffer, across any split *)
(* of the stream into recv() results: the parser never reads a header at *)
(* a wrong offset; the messages handed to callbacks, then the buffer,     *)
(* then the bytes still in the socket are exactly the bytes sent; the     *)
(* buffer holds only the start of one message that is not yet complete;   *)
(* and the receive thread gives up only on a message larger than its     *)
(* buffer.                                                                 *)
StreamAligned ==
    /\ ~desync
    /\ FlattenSeq([i \in 1..Len(delivered) |-> FrameBytes(delivered[i])]) \o buf \o wire
         = FlattenSeq([i \in 1..Len(sent) |-> FrameBytes(sent[i])])
    /\ buf # <<>> => Len(buf) < Size(buf[1].f)
    /\ rstate = "aborted" => Size(buf[1].f) > Cap

(* The connection implements a reliable ordered channel of whole          *)
(* messages (FrameChannel): every message handed to notifyHost reaches    *)
(* its callback once, in order, unless the receive thread gave up.       *)
Channel == INSTANCE FrameChannel
           WITH q <- SubSeq(sent, Len(delivered) + 1, Len(sent)),
                out <- delivered,
                open <- (rstate = "run")

WireRefinesChannel == Channel!Spec
====
