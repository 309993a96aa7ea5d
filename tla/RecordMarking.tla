---------------------------- MODULE RecordMarking ----------------------------
(* Record marking over one TCP connection, src/rpc/rpc.py: pop_record with    *)
(* add_record_marks and flush_pipe of the Pipe that sends, recv_records of    *)
(* the Pipe that receives, and the connection between them, which delivers    *)
(* bytes in order and in pieces of any size until the sender closes it.       *)
(*                                                                           *)
(* Each of the two polling loops touches only its own pipe.  Which thread     *)
(* pushes a record, and when, is in PollLoop; here a record is pushed when    *)
(* pop_record takes it.  A turn of a loop that cuts or joins is a step.       *)
(*                                                                           *)
(* The bounds are MaxRecords and MaxLen.                                      *)
EXTENDS Naturals, Sequences, SequencesExt

CONSTANTS
  Wsize,      \* ConnectionHandler.wsize: bytes in a fragment
  Rsize,      \* ConnectionHandler.rsize: bytes read at a time
  Closes,     \* whether the sender closes the connection
  MaxRecords, \* bound: records pushed
  MaxLen      \* bound: bytes in a record

ASSUME MarkingAssumption ==
  /\ Wsize \in Nat \ {0} /\ Rsize \in Nat \ {0}
  /\ Closes \in BOOLEAN /\ MaxRecords \in Nat /\ MaxLen \in Nat

VARIABLES
  pushed,    \* history: the records pushed
  marking,   \* the i and out of add_record_marks, or Idle while it is not running
  writeBuf,  \* Pipe._write_buf of the sender
  stream,    \* the bytes on their way
  closed,    \* whether the sender has closed its end
  readBuf,   \* Pipe._read_buf of the receiver
  packetBuf, \* Pipe._packet_buf
  out,       \* the records found by the call of recv_records that is running
  receiver,  \* "select", "parse" (in recv_records) or "closed"
  delivered  \* history: the records given to threads

sender == <<pushed, marking, writeBuf>>
vars == <<pushed, marking, writeBuf, stream, closed, readBuf, packetBuf, out, receiver, delivered>>

(* A byte of a record is the number of the record and its place.  A mark is   *)
(* four bytes, each of which stands for the whole 32 bits.                    *)
MarkLen == 4
Byte(n, i) == [last |-> FALSE, len |-> 0, data |-> <<n, i>>]
Mark(last, len) == [i \in 1..MarkLen |-> [last |-> last, len |-> len, data |-> <<0, i>>]]
Record(n, len) == [i \in 1..len |-> Byte(n, i)]

Idle == [i |-> 0, out |-> <<>>, on |-> FALSE]
Marking(i, marked) == [i |-> i, out |-> marked, on |-> TRUE]

Init ==
  /\ pushed = <<>> /\ marking = Idle /\ writeBuf = <<>>
  /\ stream = <<>> /\ closed = FALSE
  /\ readBuf = <<>> /\ packetBuf = <<>> /\ out = <<>>
  /\ receiver = "select" /\ delivered = <<>>

-----------------------------------------------------------------------------
(* The sender                                                                 *)

PopRecord(len) ==
  /\ ~closed /\ ~marking.on
  /\ Len(pushed) < MaxRecords
  /\ pushed' = Append(pushed, Record(Len(pushed) + 1, len))
  /\ marking' = Marking(0, <<>>)
  /\ UNCHANGED <<writeBuf, stream, closed, readBuf, packetBuf, out, receiver, delivered>>

\* Mutant: every fragment is marked as the last.
EveryFragmentLast(i, len) == TRUE

\* The fragment at i is the last; the empty record is one empty fragment.
LastAt(i, len) == i + Wsize >= len

(* A turn of add_record_marks: another fragment of Wsize bytes, or the rest,  *)
(* and at the end all of them go to the write buffer.                         *)
AddMark ==
  /\ marking.on
  /\ LET record == Last(pushed)
         last == LastAt(marking.i, Len(record))
         chunk == SubSeq(record, marking.i + 1,
                         IF marking.i + Wsize < Len(record) THEN marking.i + Wsize
                         ELSE Len(record))
         marked == marking.out \o Mark(last, Len(chunk)) \o chunk
     IN /\ marking' = IF last THEN Idle ELSE Marking(marking.i + Wsize, marked)
        /\ writeBuf' = IF last THEN writeBuf \o marked ELSE writeBuf
  /\ UNCHANGED <<pushed, stream, closed, readBuf, packetBuf, out, receiver, delivered>>

\* send() takes any part of the buffer
FlushPipe(n) ==
  /\ ~closed /\ ~marking.on
  /\ stream' = stream \o SubSeq(writeBuf, 1, n)
  /\ writeBuf' = SubSeq(writeBuf, n + 1, Len(writeBuf))
  /\ UNCHANGED <<pushed, marking, closed, readBuf, packetBuf, out, receiver, delivered>>

Close ==
  /\ Closes /\ ~closed /\ ~marking.on
  /\ closed' = TRUE
  /\ UNCHANGED <<sender, stream, readBuf, packetBuf, out, receiver, delivered>>

-----------------------------------------------------------------------------
(* The receiver: recv_records, one turn of its loop a step                    *)

Recv(n) ==
  /\ receiver = "select" /\ stream # <<>>
  /\ readBuf' = readBuf \o SubSeq(stream, 1, n)
  /\ stream' = SubSeq(stream, n + 1, Len(stream))
  /\ out' = <<>> /\ receiver' = "parse"
  /\ UNCHANGED <<sender, closed, packetBuf, delivered>>

\* recv() returns nothing: the caller closes the connection
RecvEnd ==
  /\ receiver = "select" /\ stream = <<>> /\ closed
  /\ receiver' = "closed"
  /\ UNCHANGED <<sender, stream, closed, readBuf, packetBuf, out, delivered>>

\* Mutant: a packet is taken when more than it has come.
MoreThanPacket(buf) == Len(buf) >= MarkLen /\ Len(buf) > Head(buf).len + MarkLen

\* There is a full packet in the buffer.
FullPacket(buf) == Len(buf) >= MarkLen /\ Len(buf) >= Head(buf).len + MarkLen

\* _packet_buf is kept joined here, as it is once its record is complete
Packet ==
  /\ receiver = "parse" /\ FullPacket(readBuf)
  /\ LET packetlen == Head(readBuf).len + MarkLen
         packets == packetBuf \o SubSeq(readBuf, MarkLen + 1, packetlen)
     IN /\ packetBuf' = IF Head(readBuf).last THEN <<>> ELSE packets
        /\ out' = IF Head(readBuf).last THEN Append(out, packets) ELSE out
        /\ readBuf' = SubSeq(readBuf, packetlen + 1, Len(readBuf))
  /\ UNCHANGED <<sender, stream, closed, receiver, delivered>>

\* No full packet is left: the records go to _event_read.
Deliver ==
  /\ receiver = "parse" /\ ~FullPacket(readBuf)
  /\ delivered' = delivered \o out
  /\ out' = <<>> /\ receiver' = "select"
  /\ UNCHANGED <<sender, stream, closed, readBuf, packetBuf>>

Flush == \E n \in 1..Len(writeBuf) : FlushPipe(n)
Receive ==
  \/ \E n \in 1..Rsize : n <= Len(stream) /\ Recv(n)
  \/ RecvEnd \/ Packet \/ Deliver

Next == (\E len \in 0..MaxLen : PopRecord(len)) \/ AddMark \/ Flush \/ Close \/ Receive

Spec == Init /\ [][Next]_vars

\* Both polling loops run; TCP delivers what it has taken.
FairSpec == Spec /\ WF_vars(AddMark \/ Flush) /\ WF_vars(Receive)

-----------------------------------------------------------------------------
(* Properties                                                                 *)

(* The records that come out are the records that went in, in their order and *)
(* byte for byte, however TCP cuts the stream and wherever the connection     *)
(* ends: a record that did not come whole is not delivered at all.            *)
RecordsIntact == IsPrefix(delivered \o out, pushed)

(* Every record is delivered, the empty one too, unless the connection ends.  *)
RecordsArrive ==
  \A n \in 1..MaxRecords : Len(pushed) >= n ~> Len(delivered) >= n \/ closed
=============================================================================
