------------------------------ MODULE Protocol ------------------------------
(***************************************************************************)
(* One direction of a connection: frames are encoded, sent byte by byte    *)
(* into a TCP stream of bounded capacity, and read back by recvFrame.      *)
(* Either end may go at any point, and what is on its way may be damaged.  *)
(*                                                                         *)
(* The stream carries cells, each a tuple that begins with its kind: the   *)
(* magic number with the version, the header's type and length, a byte of  *)
(* the payload, the checksum.  A checksum is what it was computed over:    *)
(* collisions are left out.                                                *)
(***************************************************************************)
EXTENDS Wire

CONSTANTS
  MessageTypes,       \* the types message_type_from_byte knows
  NoType,             \* a byte that is none
  Formats,            \* type -> format of its body
  Bodies,             \* what the sender has to say: [type, values]
  MaxFramePayload,    \* kMaxFramePayload
  MaxInFlight,        \* capacity of the stream
  MaxFrames,          \* bound on the frames sent
  MaxDamage           \* bound on the cells damaged

ASSUME ProtocolAssumption ==
  /\ NoType \notin MessageTypes
  /\ \A b \in Bodies : b.type \in MessageTypes /\ Fits(Formats[b.type], b.values)
  /\ MaxFramePayload \in Nat /\ MaxInFlight \in Nat \ {0}
  /\ MaxFrames \in Nat /\ MaxDamage \in Nat

VARIABLES
  alive,        \* whether the sender's end is open
  sent,         \* frames handed to sendFrame
  outbox,       \* cells of the latest that are not yet in the stream
  stream,       \* cells on their way
  damage,       \* cells damaged so far
  persists,     \* ah-worker reads on after an error, the coordinator leaves
  listening,    \* whether the reader's end is open
  buf,          \* the cells recvFrame has
  claim,        \* the payload length the header claims
  delivered     \* frames recvFrame has returned

senderVars == <<alive, sent, outbox>>
readerVars == <<listening, buf, claim, delivered>>
vars == <<senderVars, stream, damage, persists, readerVars>>

HeaderSize == 2
CrcSize == 1

Magic == <<"magic">>
Noise == <<"noise">>
Crc(cells) == <<"crc", cells>>

-----------------------------------------------------------------------------
(* Encoding *)

Frame(b) == [type |-> b.type, payload |-> Written(Formats[b.type], b.values)]

EncodeFrame(f) ==
  LET covered == <<Magic, <<"head", f.type, Len(f.payload)>>>>
                   \o [i \in 1 .. Len(f.payload) |-> <<"byte", f.payload[i]>>]
  IN  Append(covered, Crc(covered))

(* The Writer throws on a string that is too long, encodeFrame on a payload. *)
Encodable(b) ==
  Writable(Formats[b.type], b.values) /\ Len(Frame(b).payload) <= MaxFramePayload

(* Variant: the checksum is not compared. *)
DecodeFrameTrusting(cells, len) ==
  IF Len(cells) < HeaderSize THEN "NEED_MORE"
  ELSE IF cells[1] # Magic \/ cells[2][1] # "head" \/ cells[2][2] \notin MessageTypes
    THEN "MALFORMED"
  ELSE IF len > MaxFramePayload THEN "MALFORMED"
  ELSE IF Len(cells) < HeaderSize + len + CrcSize THEN "NEED_MORE"
  ELSE "OK"

(* decodeFrame, for a header that claims len bytes of payload. *)
DecodeFrame(cells, len) ==
  LET total == HeaderSize + len + CrcSize IN
  IF Len(cells) < HeaderSize THEN "NEED_MORE"
  ELSE IF cells[1] # Magic \/ cells[2][1] # "head" \/ cells[2][2] \notin MessageTypes
    THEN "MALFORMED"
  ELSE IF len > MaxFramePayload THEN "MALFORMED"
  ELSE IF Len(cells) < total THEN "NEED_MORE"
  ELSE IF cells[total] # Crc(SubSeq(cells, 1, total - CrcSize)) THEN "MALFORMED"
  ELSE "OK"

(* The frame decodeFrame puts together from cells it has found to be OK. *)
Decoded(cells, len) ==
  [type |-> cells[2][2], payload |-> [i \in 1 .. len |-> cells[HeaderSize + i][2]]]

-----------------------------------------------------------------------------
(* The sender *)

SendFrame(b) ==
  /\ alive /\ outbox = <<>> /\ Len(sent) < MaxFrames
  /\ Encodable(b)
  /\ sent' = Append(sent, Frame(b))
  /\ outbox' = EncodeFrame(Frame(b))
  /\ UNCHANGED <<alive, stream, damage, persists, readerVars>>

(* The exception ends the thread or the program before anything is sent. *)
SendTooLarge(b) ==
  /\ alive /\ outbox = <<>>
  /\ ~Encodable(b)
  /\ alive' = FALSE
  /\ UNCHANGED <<sent, outbox, stream, damage, persists, readerVars>>

(* Variant: nothing is sent until the whole rest of the frame fits. *)
PushAtOnce ==
  /\ alive /\ outbox # <<>> /\ listening
  /\ Len(stream) + Len(outbox) <= MaxInFlight
  /\ stream' = stream \o outbox
  /\ outbox' = <<>>
  /\ UNCHANGED <<alive, sent, damage, persists, readerVars>>

(* One send(): it blocks while the stream is full. *)
Push ==
  /\ alive /\ outbox # <<>> /\ listening
  /\ Len(stream) < MaxInFlight
  /\ stream' = Append(stream, Head(outbox))
  /\ outbox' = Tail(outbox)
  /\ UNCHANGED <<alive, sent, damage, persists, readerVars>>

(* A send() to a peer that has closed fails, or kills the process by a signal. *)
PushFails ==
  /\ alive /\ outbox # <<>> /\ ~listening
  /\ alive' = FALSE /\ outbox' = <<>>
  /\ UNCHANGED <<sent, stream, damage, persists, readerVars>>

(* The sender goes, between two frames or amid one; what it sent last may be   *)
(* lost with it.                                                               *)
Die ==
  /\ alive
  /\ alive' = FALSE /\ outbox' = <<>>
  /\ \E n \in 0 .. Len(stream) : stream' = SubSeq(stream, 1, n)
  /\ UNCHANGED <<sent, damage, persists, readerVars>>

-----------------------------------------------------------------------------
(* The stream *)

Damaged(cell) ==
  IF cell[1] = "head"
    THEN {<<"head", t, n>> : t \in MessageTypes \cup {NoType}, n \in 0 .. MaxFramePayload + 1}
           \ {cell}
    ELSE {Noise}

Damage ==
  /\ damage < MaxDamage
  /\ \E i \in 1 .. Len(stream) : \E cell \in Damaged(stream[i]) :
       stream' = [stream EXCEPT ![i] = cell]
  /\ damage' = damage + 1
  /\ UNCHANGED <<senderVars, persists, readerVars>>

-----------------------------------------------------------------------------
(* recvFrame: the header, then as many cells as it claims, then decodeFrame.   *)
(* One recv() takes one cell: a longer one is several.                         *)

(* recvFrame returns false: one reader leaves, the other calls it again. *)
Refuse ==
  /\ buf' = <<>>
  /\ listening' = persists

(* The length a header claims.  One that begins amid a frame claims anything. *)
Claims(cell) == IF cell[1] = "head" THEN {cell[3]} ELSE 0 .. MaxFramePayload + 1

RecvHeader ==
  /\ listening /\ stream # <<>>
  /\ Len(buf) < HeaderSize
  /\ stream' = Tail(stream)
  /\ IF Len(buf) + 1 < HeaderSize
       THEN buf' = Append(buf, Head(stream)) /\ UNCHANGED <<claim, listening>>
       ELSE \E n \in Claims(Head(stream)) :
              /\ claim' = n
              /\ IF n > MaxFramePayload THEN Refuse
                 ELSE buf' = Append(buf, Head(stream)) /\ UNCHANGED listening
  /\ UNCHANGED <<senderVars, damage, persists, delivered>>

RecvRest ==
  /\ listening /\ stream # <<>>
  /\ Len(buf) \in HeaderSize .. HeaderSize + claim
  /\ stream' = Tail(stream)
  /\ buf' = Append(buf, Head(stream))
  /\ UNCHANGED <<senderVars, damage, persists, listening, claim, delivered>>

Decode ==
  /\ listening
  /\ Len(buf) = HeaderSize + claim + CrcSize
  /\ IF DecodeFrame(buf, claim) = "OK"
       THEN /\ delivered' = Append(delivered, Decoded(buf, claim))
            /\ buf' = <<>>
            /\ UNCHANGED listening
       ELSE Refuse /\ UNCHANGED delivered
  /\ UNCHANGED <<senderVars, stream, damage, persists, claim>>

(* Variant: a recv() of 0 amid a frame is taken for a slow peer. *)
PeerClosedBetweenFrames ==
  /\ listening /\ stream = <<>> /\ ~alive
  /\ buf = <<>>
  /\ listening' = FALSE
  /\ UNCHANGED <<senderVars, stream, damage, persists, buf, claim, delivered>>

(* recv() returns 0, or less: peerClosed.  Every later call returns the same. *)
PeerClosed ==
  /\ listening /\ stream = <<>> /\ ~alive
  /\ Len(buf) # HeaderSize + claim + CrcSize
  /\ listening' = FALSE /\ buf' = <<>>
  /\ UNCHANGED <<senderVars, stream, damage, persists, claim, delivered>>

(* The reader goes, wherever it is: its program dies, or its thread throws.    *)
Leave ==
  /\ listening
  /\ listening' = FALSE /\ buf' = <<>>
  /\ UNCHANGED <<senderVars, stream, damage, persists, claim, delivered>>

-----------------------------------------------------------------------------
Init ==
  /\ alive = TRUE /\ sent = <<>> /\ outbox = <<>> /\ stream = <<>> /\ damage = 0
  /\ persists \in BOOLEAN
  /\ listening = TRUE /\ buf = <<>> /\ claim = 0 /\ delivered = <<>>

SenderStep == Push \/ PushFails
ReaderStep == RecvHeader \/ RecvRest \/ Decode \/ PeerClosed

Next ==
  \/ \E b \in Bodies : SendFrame(b) \/ SendTooLarge(b)
  \/ SenderStep \/ Die
  \/ Damage
  \/ ReaderStep \/ Leave

(* A call of send() or recv() that can return does. *)
Spec == Init /\ [][Next]_vars /\ WF_vars(SenderStep) /\ WF_vars(ReaderStep)

-----------------------------------------------------------------------------
(* What the reader reads of a body that was sent, and of each beginning of it. *)
ReadAs(b, data) == ReadBody(Formats[b.type], data)

(* A body that was delivered is read back field by field as it was written,    *)
(* and no beginning of it is taken for a body: the error state outlives the    *)
(* reads that follow the one that failed.                                      *)
BodiesAreAllOrNothing ==
  \A i \in 1 .. Len(delivered) : \E b \in Bodies :
    LET payload == delivered[i].payload IN
    /\ delivered[i] = Frame(b)
    /\ ~ReadAs(b, payload).fail /\ ReadAs(b, payload).values = b.values
    /\ \A n \in 0 .. Len(payload) - 1 : ReadAs(b, SubSeq(payload, 1, n)).fail

Chan == INSTANCE Channel WITH Frames <- {Frame(b) : b \in Bodies}

(* However the bytes of frames are cut up, damaged or lost with their sender,  *)
(* and from wherever a reader that persists reads on, recvFrame returns only   *)
(* frames that were sent, in order and once.                                   *)
ImplementsChannel == Chan!Spec

(* What is sent arrives, unless it was damaged or an end has gone: no capacity *)
(* of the stream makes sender and reader wait for each other.                  *)
UndamagedArrives ==
  \A n \in 1 .. MaxFrames :
    Len(sent) = n ~> Len(delivered) >= n \/ damage > 0 \/ ~alive \/ ~listening

(* A reader notices that its peer has gone, also amid a frame whose length was *)
(* damaged.  While the peer lives it waits: no call has a timeout.             *)
DeadPeerNoticed == ~alive ~> ~listening
=============================================================================
