--------------------------- MODULE ProtocolProofs ---------------------------
(***************************************************************************)
(* The framing implements the channel, and bodies are read back whole.     *)
(*                                                                         *)
(* Every cell between sender and reader is labelled with the number of the *)
(* frame it belongs to.  Labels never fall along the pipe, a checksum is   *)
(* that of the frame it is labelled with, and no damage makes one: so what *)
(* recvFrame accepts is the frame of its last label, whatever the cells    *)
(* before it were.  The second half is about the bytes of a body.          *)
(***************************************************************************)
EXTENDS Protocol, TLAPS, SequenceTheorems, WellFoundedInduction

-----------------------------------------------------------------------------
(* Frames, and the cells that carry them *)

Bytes == 0 .. Base - 1
FrameType == [type : MessageTypes, payload : Seq(Bytes)]

Plain ==
  {Magic, Noise} \cup ({"head"} \X (MessageTypes \cup {NoType}) \X Nat) \cup ({"byte"} \X Bytes)
Cells == Plain \cup {Crc(c) : c \in Seq(Plain)}
IsCrc(cell) == cell[1] = "crc"

(* The cells of a frame that its checksum covers: all the others. *)
Covered(f) ==
  <<Magic, <<"head", f.type, Len(f.payload)>>>>
    \o [i \in 1 .. Len(f.payload) |-> <<"byte", f.payload[i]>>]

(* Which cells are checksums, and that a checksum tells what it is of. *)
LEMMA CellKinds ==
  /\ \A c \in Plain : ~IsCrc(c)
  /\ \A c \in Cells : c[1] = "head" => c[3] \in Nat
  /\ \A c : IsCrc(Crc(c))
  /\ \A c, d : Crc(c) = Crc(d) => c = d
  /\ Magic \in Cells /\ Noise \in Cells
BY DEF Plain, Cells, IsCrc, Crc, Magic, Noise

(* The cells of a frame, one by one. *)
LEMMA CoveredCells ==
  ASSUME NEW f \in FrameType
  PROVE  /\ Covered(f) \in Seq(Plain) /\ Len(f.payload) \in Nat
         /\ Len(Covered(f)) = HeaderSize + Len(f.payload)
         /\ Covered(f)[1] = Magic /\ Covered(f)[2] = <<"head", f.type, Len(f.payload)>>
         /\ \A i \in 1 .. Len(f.payload) : Covered(f)[HeaderSize + i] = <<"byte", f.payload[i]>>
         /\ EncodeFrame(f) = Append(Covered(f), Crc(Covered(f)))
<1> DEFINE head == <<"head", f.type, Len(f.payload)>>
           front == <<Magic, head>>
           back == [i \in 1 .. Len(f.payload) |-> <<"byte", f.payload[i]>>]
<1>1. f.payload \in Seq(Bytes) /\ f.type \in MessageTypes /\ Len(f.payload) \in Nat
  BY DEF FrameType
<1>2. Magic \in Plain /\ head \in Plain
  BY <1>1 DEF Plain
<1>3. front \in Seq(Plain) /\ Len(front) = 2 /\ front[1] = Magic /\ front[2] = head
  <2> HIDE DEF head
  <2> QED
    BY <1>2
<1>4. \A i \in 1 .. Len(f.payload) : <<"byte", f.payload[i]>> \in Plain
  BY <1>1 DEF Plain
<1>5. back \in Seq(Plain) /\ Len(back) = Len(f.payload)
      /\ \A i \in 1 .. Len(f.payload) : back[i] = <<"byte", f.payload[i]>>
  <2> HIDE DEF Plain
  <2>1. back \in Seq(Plain)
    BY <1>1, <1>4
  <2> QED
    BY <1>1, <2>1
<1>6. Covered(f) = front \o back
  BY DEF Covered
<1>7. EncodeFrame(f) = Append(Covered(f), Crc(Covered(f)))
  BY DEF EncodeFrame, Covered
<1> HIDE DEF front, back, head
<1>8. /\ front \o back \in Seq(Plain) /\ Len(front \o back) = 2 + Len(f.payload)
      /\ \A i \in 1 .. 2 + Len(f.payload) :
           (front \o back)[i] = IF i <= 2 THEN front[i] ELSE back[i - 2]
  <2>1. /\ front \o back \in Seq(Plain) /\ Len(front \o back) = Len(front) + Len(back)
        /\ \A i \in 1 .. Len(front) + Len(back) :
             (front \o back)[i] = IF i <= Len(front) THEN front[i] ELSE back[i - Len(front)]
    BY <1>3, <1>5, ConcatProperties, ZenonT(60)
  <2> QED
    BY <1>3, <1>5, <2>1, Zenon
<1>9. ASSUME NEW i \in 1 .. Len(f.payload)
      PROVE  (front \o back)[2 + i] = <<"byte", f.payload[i]>>
  <2>1. 2 + i \in 1 .. 2 + Len(f.payload) /\ ~(2 + i <= 2) /\ (2 + i) - 2 = i
    BY <1>1
  <2> QED
    BY <1>5, <1>8, <2>1
<1>10. (front \o back)[1] = Magic /\ (front \o back)[2] = head
  <2>1. 1 \in 1 .. 2 + Len(f.payload) /\ 2 \in 1 .. 2 + Len(f.payload)
    BY <1>1
  <2> QED
    BY <1>3, <1>8, <2>1
<1> QED
  BY <1>1, <1>6, <1>7, <1>8, <1>9, <1>10 DEF head, HeaderSize

-----------------------------------------------------------------------------
(* What is on its way *)

(* The cells between sender and reader, those recvFrame holds included. *)
pipe == buf \o stream \o outbox

(* Each cell of P belongs to a frame of S, the one its label tells: labels     *)
(* never fall, rise after a checksum, and a checksum is that of its frame.     *)
Labels(P, S, lab) ==
  /\ lab \in [1 .. Len(P) -> 1 .. Len(S)]
  /\ \A i, j \in 1 .. Len(P) : i < j => lab[i] <= lab[j] /\ (IsCrc(P[i]) => lab[i] < lab[j])
  /\ \A i \in 1 .. Len(P) : IsCrc(P[i]) => P[i] = Crc(Covered(S[lab[i]]))

(* D is S with gaps, and at tells where its elements come from. *)
Places(D, S, at) ==
  /\ at \in [1 .. Len(D) -> 1 .. Len(S)]
  /\ \A i, j \in 1 .. Len(D) : i < j => at[i] < at[j]
  /\ \A i \in 1 .. Len(D) : D[i] = S[at[i]]

Before(D, at, P, lab) == \A i \in 1 .. Len(D), j \in 1 .. Len(P) : at[i] < lab[j]

Traced(P, S, D) ==
  \E lab \in [1 .. Len(P) -> 1 .. Len(S)], at \in [1 .. Len(D) -> 1 .. Len(S)] :
    Labels(P, S, lab) /\ Places(D, S, at) /\ Before(D, at, P, lab)

(* The labels go on where d frames have been delivered and leave none out, a   *)
(* checksum is as far from the first cell of its frame as the frame is long,   *)
(* and while the sender lives the labels go on to its latest frame.            *)
Aligned(P, S, lab, d, al) ==
  /\ P # <<>> => lab[1] = d + 1
  /\ \A j \in 1 .. Len(P) - 1 : lab[j + 1] <= lab[j] + 1
  /\ \A j \in 1 .. Len(P) : IsCrc(P[j]) =>
       LET n == j - Len(Covered(S[lab[j]])) IN n >= 1 /\ lab[n] = lab[j]
  /\ al /\ P # <<>> => lab[Len(P)] = Len(S)

InStep(P, S, D, al) ==
  /\ Len(D) <= Len(S)
  /\ \A i \in 1 .. Len(D) : D[i] = S[i]
  /\ al /\ P = <<>> => Len(D) = Len(S)
  /\ \E lab \in [1 .. Len(P) -> 1 .. Len(S)] :
       Labels(P, S, lab) /\ Aligned(P, S, lab, Len(D), al)

ProtocolTypeOK ==
  /\ alive \in BOOLEAN /\ listening \in BOOLEAN /\ persists \in BOOLEAN
  /\ sent \in Seq(FrameType) /\ delivered \in Seq(FrameType)
  /\ buf \in Seq(Cells) /\ stream \in Seq(Cells) /\ outbox \in Seq(Cells)
  /\ damage \in Nat /\ claim \in Nat

(* What sendFrame may be given. *)
SentFrames == {Frame(b) : b \in {c \in Bodies : Encodable(c)}}

(* The inductive invariant. *)
ProtocolInv ==
  /\ ProtocolTypeOK
  /\ sent \in Seq(SentFrames)
  /\ Traced(pipe, sent, delivered)
  /\ ~persists /\ listening => InStep(pipe, sent, delivered, alive)

-----------------------------------------------------------------------------
(* P1 is P without its first n cells, possibly cut short, and with cells that  *)
(* are no checksums in the place of some.                                      *)
Window(P1, P, n) ==
  /\ Len(P1) + n <= Len(P)
  /\ \A i \in 1 .. Len(P1) : P1[i] = P[i + n] \/ ~IsCrc(P1[i])

AsLong(P1, P) == Len(P1) = Len(P)

(* P1 is P without its first n cells. *)
Rest(P1, P, n) ==
  /\ Len(P1) + n = Len(P)
  /\ \A i \in 1 .. Len(P1) : P1[i] = P[i + n]

(* Cells that are taken away leave a window. *)
LEMMA RestIsWindow ==
  ASSUME NEW P \in Seq(Cells), NEW P1 \in Seq(Cells), NEW n \in Nat, Rest(P1, P, n)
  PROVE  Window(P1, P, n)
BY DEF Rest, Window

(* Labels outlast the loss and the damage of cells. *)
LEMMA LabelsWindow ==
  ASSUME NEW P \in Seq(Cells), NEW P1 \in Seq(Cells), NEW S \in Seq(FrameType), NEW n \in Nat,
         NEW lab, Labels(P, S, lab), Window(P1, P, n)
  PROVE  Labels(P1, S, [i \in 1 .. Len(P1) |-> lab[i + n]])
<1> DEFINE lab1 == [i \in 1 .. Len(P1) |-> lab[i + n]]
<1>1. /\ Len(P) \in Nat /\ Len(P1) \in Nat /\ Len(S) \in Nat
      /\ \A i \in 1 .. Len(P1) : i + n \in 1 .. Len(P) /\ lab1[i] = lab[i + n]
  BY DEF Window
<1>2. lab1 \in [1 .. Len(P1) -> 1 .. Len(S)]
  BY <1>1 DEF Labels
<1>3. ASSUME NEW i \in 1 .. Len(P1), IsCrc(P1[i])
      PROVE  P1[i] = P[i + n] /\ IsCrc(P[i + n])
  BY <1>3 DEF Window
<1> HIDE DEF lab1
<1>4. ASSUME NEW i \in 1 .. Len(P1), NEW j \in 1 .. Len(P1), i < j
      PROVE  lab1[i] <= lab1[j] /\ (IsCrc(P1[i]) => lab1[i] < lab1[j])
  <2>1. i + n \in 1 .. Len(P) /\ j + n \in 1 .. Len(P) /\ i + n < j + n
    BY <1>1, <1>4
  <2> QED
    BY <1>1, <1>3, <2>1 DEF Labels
<1>5. ASSUME NEW i \in 1 .. Len(P1), IsCrc(P1[i])
      PROVE  P1[i] = Crc(Covered(S[lab1[i]]))
  BY <1>1, <1>3, <1>5 DEF Labels
<1>6. Labels(P1, S, lab1)
  BY <1>2, <1>4, <1>5 DEF Labels
<1> QED
  BY <1>6 DEF lab1

(* So does the order of what is delivered, *)
LEMMA TracedWindow ==
  ASSUME NEW P \in Seq(Cells), NEW P1 \in Seq(Cells), NEW S \in Seq(FrameType),
         NEW D \in Seq(FrameType), NEW n \in Nat, Traced(P, S, D), Window(P1, P, n)
  PROVE  Traced(P1, S, D)
<1>1. PICK lab, at : Labels(P, S, lab) /\ Places(D, S, at) /\ Before(D, at, P, lab)
  BY DEF Traced
<1> DEFINE lab1 == [i \in 1 .. Len(P1) |-> lab[i + n]]
<1>2. Labels(P1, S, lab1)
  BY <1>1, LabelsWindow
<1>3. \A j \in 1 .. Len(P1) : j + n \in 1 .. Len(P) /\ lab1[j] = lab[j + n]
  BY DEF Window
<1> HIDE DEF lab1
<1>4. Before(D, at, P1, lab1)
  BY <1>1, <1>3 DEF Before
<1>5. lab1 \in [1 .. Len(P1) -> 1 .. Len(S)] /\ at \in [1 .. Len(D) -> 1 .. Len(S)]
  BY <1>1, <1>2 DEF Labels, Places
<1> QED
  BY <1>1, <1>2, <1>4, <1>5 DEF Traced

(* and that nothing is left out while a reader that leaves listens. *)
LEMMA InStepWindow ==
  ASSUME NEW P \in Seq(Cells), NEW P1 \in Seq(Cells), NEW S \in Seq(FrameType),
         NEW D \in Seq(FrameType), NEW al \in BOOLEAN, NEW al1 \in BOOLEAN,
         InStep(P, S, D, al), Window(P1, P, 0), al1 => al /\ AsLong(P1, P)
  PROVE  InStep(P1, S, D, al1)
<1>1. PICK lab : Labels(P, S, lab) /\ Aligned(P, S, lab, Len(D), al)
  BY DEF InStep
<1> DEFINE lab1 == [i \in 1 .. Len(P1) |-> lab[i]]
<1>2. /\ Len(P) \in Nat /\ Len(P1) \in Nat /\ Len(P1) <= Len(P)
      /\ \A i \in 1 .. Len(P1) : i \in 1 .. Len(P) /\ lab1[i] = lab[i] /\ i + 0 = i
  BY DEF Window
<1>3. Labels(P1, S, lab1)
  <2>1. Labels(P1, S, [i \in 1 .. Len(P1) |-> lab[i + 0]])
    BY <1>1, LabelsWindow
  <2>2. [i \in 1 .. Len(P1) |-> lab[i + 0]] = lab1
    BY <1>2
  <2> QED
    BY <2>1, <2>2
<1>4. ASSUME NEW i \in 1 .. Len(P1), IsCrc(P1[i])
      PROVE  P1[i] = P[i] /\ IsCrc(P[i])
  BY <1>2, <1>4 DEF Window
<1>5. (P1 # <<>> => P # <<>>) /\ (AsLong(P1, P) /\ P1 = <<>> => P = <<>>)
  BY <1>2, EmptySeq DEF AsLong
<1> HIDE DEF lab1
<1>6. P1 # <<>> => lab1[1] = Len(D) + 1
  <2>1. P1 # <<>> => 1 \in 1 .. Len(P1)
    BY <1>2, EmptySeq
  <2> QED
    BY <1>1, <1>2, <1>5, <2>1 DEF Aligned
<1>7. ASSUME NEW j \in 1 .. Len(P1) - 1
      PROVE  lab1[j + 1] <= lab1[j] + 1
  <2>1. j \in 1 .. Len(P1) /\ j + 1 \in 1 .. Len(P1) /\ j \in 1 .. Len(P) - 1
    BY <1>2
  <2>2. lab[j + 1] <= lab[j] + 1
    BY <1>1, <2>1 DEF Aligned
  <2> QED
    BY <1>2, <2>1, <2>2
<1>8. ASSUME NEW j \in 1 .. Len(P1), IsCrc(P1[j])
      PROVE  LET n == j - Len(Covered(S[lab1[j]])) IN n >= 1 /\ lab1[n] = lab1[j]
  <2> DEFINE c == Len(Covered(S[lab[j]]))
  <2>1. j - c >= 1 /\ lab[j - c] = lab[j] /\ lab1[j] = lab[j]
    BY <1>1, <1>2, <1>4, <1>8 DEF Aligned
  <2>2. S[lab[j]] \in FrameType
    BY <1>1, <1>2, SMTT(30) DEF Labels
  <2>3. c \in Nat
    BY <2>2, CoveredCells DEF HeaderSize
  <2> HIDE DEF c
  <2>4. j - c \in 1 .. Len(P1)
    BY <1>2, <2>1, <2>3
  <2>5. lab1[j - c] = lab[j - c]
    BY <1>2, <2>4
  <2> QED
    BY <2>1, <2>5 DEF c
<1>9. al1 /\ P1 # <<>> => lab1[Len(P1)] = Len(S)
  <2>1. P1 # <<>> => Len(P1) \in 1 .. Len(P1)
    BY <1>2, EmptySeq
  <2> QED
    BY <1>1, <1>2, <1>5, <2>1 DEF Aligned, AsLong
<1>10. Aligned(P1, S, lab1, Len(D), al1)
  BY <1>6, <1>7, <1>8, <1>9 DEF Aligned
<1>11. lab1 \in [1 .. Len(P1) -> 1 .. Len(S)]
  BY <1>3 DEF Labels
<1>12. \E l \in [1 .. Len(P1) -> 1 .. Len(S)] :
         Labels(P1, S, l) /\ Aligned(P1, S, l, Len(D), al1)
  BY <1>3, <1>10, <1>11
<1> QED
  BY <1>5, <1>12 DEF InStep

(* A frame joins the cells that are on their way. *)
LEMMA EncodedCells ==
  ASSUME NEW P \in Seq(Cells), NEW f \in FrameType, NEW P1, P1 = P \o EncodeFrame(f)
  PROVE  /\ EncodeFrame(f) \in Seq(Cells) /\ P1 \in Seq(Cells)
         /\ Len(Covered(f)) \in Nat /\ Len(P1) = Len(P) + Len(Covered(f)) + 1
         /\ \A i \in 1 .. Len(P) : P1[i] = P[i]
         /\ \A i \in Len(P) + 1 .. Len(P1) - 1 : ~IsCrc(P1[i])
         /\ P1[Len(P1)] = Crc(Covered(f))
<1> DEFINE C == Covered(f)
           E == Append(C, Crc(C))
<1>1. C \in Seq(Plain) /\ EncodeFrame(f) = E
  BY CoveredCells
<1>2. C \in Seq(Cells) /\ Crc(C) \in Cells
  BY <1>1 DEF Cells
<1>3. /\ \A i \in 1 .. Len(C) : ~IsCrc(C[i])
      /\ Len(C) \in Nat /\ Len(P) \in Nat
  BY <1>1, CellKinds
<1> HIDE DEF C
<1>4. /\ E \in Seq(Cells) /\ Len(E) = Len(C) + 1
      /\ \A i \in 1 .. Len(C) : E[i] = C[i]
      /\ E[Len(C) + 1] = Crc(C)
  BY <1>2, AppendProperties
<1> HIDE DEF E
<1>5. /\ P1 \in Seq(Cells) /\ Len(P1) = Len(P) + Len(E)
      /\ \A i \in 1 .. Len(P) + Len(E) : P1[i] = IF i <= Len(P) THEN P[i] ELSE E[i - Len(P)]
  BY <1>1, <1>4, ConcatProperties
<1>6. Len(P1) = Len(P) + Len(C) + 1
  BY <1>3, <1>4, <1>5
<1>7. ASSUME NEW i \in 1 .. Len(P)
      PROVE  P1[i] = P[i]
  BY <1>3, <1>4, <1>5
<1>8. ASSUME NEW i \in Len(P) + 1 .. Len(P1) - 1
      PROVE  ~IsCrc(P1[i])
  <2>1. i \in 1 .. Len(P) + Len(E) /\ ~(i <= Len(P)) /\ i - Len(P) \in 1 .. Len(C)
    BY <1>3, <1>4, <1>6
  <2>2. P1[i] = C[i - Len(P)]
    BY <1>4, <1>5, <2>1
  <2> QED
    BY <1>3, <2>1, <2>2
<1>9. P1[Len(P1)] = Crc(C)
  <2>1. Len(P1) \in 1 .. Len(P) + Len(E) /\ ~(Len(P1) <= Len(P)) /\ Len(P1) - Len(P) = Len(C) + 1
    BY <1>3, <1>4, <1>6
  <2> QED
    BY <1>4, <1>5, <2>1
<1> QED
  BY <1>1, <1>3, <1>4, <1>5, <1>6, <1>7, <1>8, <1>9 DEF C

(* The cells of a new frame are labelled with its number. *)
LEMMA LabelsSent ==
  ASSUME NEW P \in Seq(Cells), NEW S \in Seq(FrameType), NEW f \in FrameType,
         NEW P1, P1 = P \o EncodeFrame(f), NEW S1, S1 = Append(S, f),
         NEW lab, Labels(P, S, lab)
  PROVE  Labels(P1, S1, [i \in 1 .. Len(P1) |-> IF i <= Len(P) THEN lab[i] ELSE Len(S) + 1])
<1> DEFINE lab1 == [i \in 1 .. Len(P1) |-> IF i <= Len(P) THEN lab[i] ELSE Len(S) + 1]
<1>1. /\ Len(P) \in Nat /\ Len(S) \in Nat /\ Len(P1) \in Nat
      /\ Len(P1) > Len(P) /\ P1[Len(P1)] = Crc(Covered(f))
      /\ \A i \in 1 .. Len(P) : P1[i] = P[i]
      /\ \A i \in Len(P) + 1 .. Len(P1) - 1 : ~IsCrc(P1[i])
  <2>1. /\ P1 \in Seq(Cells) /\ P1[Len(P1)] = Crc(Covered(f))
        /\ Len(Covered(f)) \in Nat /\ Len(P1) = Len(P) + Len(Covered(f)) + 1
        /\ \A i \in 1 .. Len(P) : P1[i] = P[i]
        /\ \A i \in Len(P) + 1 .. Len(P1) - 1 : ~IsCrc(P1[i])
    BY EncodedCells
  <2>2. Len(P) \in Nat /\ Len(S) \in Nat
    OBVIOUS
  <2>3. Len(P1) \in Nat /\ Len(P1) > Len(P)
    BY <2>1, <2>2
  <2> QED
    BY <2>1, <2>2, <2>3
<1>2. /\ S1 \in Seq(FrameType) /\ Len(S1) = Len(S) + 1 /\ S1[Len(S) + 1] = f
      /\ \A k \in 1 .. Len(S) : S1[k] = S[k]
  BY AppendProperties
<1>3. /\ lab \in [1 .. Len(P) -> 1 .. Len(S)]
      /\ \A i \in 1 .. Len(P1) : lab1[i] = IF i <= Len(P) THEN lab[i] ELSE Len(S) + 1
  BY DEF Labels
<1>4. lab1 \in [1 .. Len(P1) -> 1 .. Len(S1)]
  <2>1. ASSUME NEW i \in 1 .. Len(P1)
        PROVE  (IF i <= Len(P) THEN lab[i] ELSE Len(S) + 1) \in 1 .. Len(S1)
    <3>1. i <= Len(P) => i \in 1 .. Len(P)
      BY <1>1
    <3>2. i <= Len(P) => lab[i] \in 1 .. Len(S)
      BY <1>3, <3>1
    <3> QED
      BY <1>1, <1>2, <3>2
  <2> QED
    BY <2>1
<1> HIDE DEF lab1
<1>5. ASSUME NEW i \in 1 .. Len(P1), NEW j \in 1 .. Len(P1), i < j
      PROVE  lab1[i] <= lab1[j] /\ (IsCrc(P1[i]) => lab1[i] < lab1[j])
  <2>1. CASE j <= Len(P)
    <3>1. i \in 1 .. Len(P) /\ j \in 1 .. Len(P) /\ i <= Len(P)
      BY <1>1, <1>5, <2>1
    <3> QED
      BY <1>1, <1>3, <1>5, <2>1, <3>1 DEF Labels
  <2>2. CASE ~(j <= Len(P)) /\ i <= Len(P)
    <3>1. i \in 1 .. Len(P)
      BY <1>1, <2>2
    <3>2. lab1[i] \in 1 .. Len(S) /\ lab1[j] = Len(S) + 1
      BY <1>3, <2>2, <3>1
    <3> QED
      BY <1>1, <3>2
  <2>3. CASE ~(i <= Len(P))
    <3>1. lab1[i] = Len(S) + 1 /\ lab1[j] = Len(S) + 1 /\ i \in Len(P) + 1 .. Len(P1) - 1
      BY <1>1, <1>3, <1>5, <2>3
    <3> QED
      BY <1>1, <3>1
  <2> QED
    BY <2>1, <2>2, <2>3
<1>6. ASSUME NEW i \in 1 .. Len(P1), IsCrc(P1[i])
      PROVE  P1[i] = Crc(Covered(S1[lab1[i]]))
  <2>1. CASE i <= Len(P)
    <3>1. i \in 1 .. Len(P) /\ P1[i] = P[i] /\ lab1[i] = lab[i] /\ lab[i] \in 1 .. Len(S)
      BY <1>1, <1>3, <2>1
    <3> QED
      BY <1>2, <1>6, <3>1 DEF Labels
  <2>2. CASE ~(i <= Len(P))
    <3>1. i = Len(P1)
      <4>1. i # Len(P1) => i \in Len(P) + 1 .. Len(P1) - 1
        BY <1>1, <2>2
      <4> QED
        BY <1>1, <1>6, <4>1
    <3>2. lab1[i] = Len(S) + 1
      BY <1>3, <2>2
    <3> QED
      BY <1>1, <1>2, <3>1, <3>2
  <2> QED
    BY <2>1, <2>2
<1>7. Labels(P1, S1, lab1)
  BY <1>4, <1>5, <1>6 DEF Labels
<1> QED
  BY <1>7 DEF lab1

(* A frame that is sent comes after all that are on their way. *)
LEMMA TracedSent ==
  ASSUME NEW P \in Seq(Cells), NEW S \in Seq(FrameType), NEW D \in Seq(FrameType),
         NEW f \in FrameType, NEW P1, P1 = P \o EncodeFrame(f), NEW S1, S1 = Append(S, f),
         Traced(P, S, D)
  PROVE  Traced(P1, S1, D)
<1>1. PICK lab, at : Labels(P, S, lab) /\ Places(D, S, at) /\ Before(D, at, P, lab)
  BY DEF Traced
<1> DEFINE lab1 == [i \in 1 .. Len(P1) |-> IF i <= Len(P) THEN lab[i] ELSE Len(S) + 1]
<1>2. Labels(P1, S1, lab1)
  BY <1>1, LabelsSent, ZenonT(60)
<1>3. /\ Len(S1) = Len(S) + 1 /\ Len(S) \in Nat /\ Len(P) \in Nat
      /\ \A k \in 1 .. Len(S) : k \in 1 .. Len(S1) /\ S1[k] = S[k]
  BY AppendProperties
<1>4. Places(D, S1, at)
  BY <1>1, <1>3 DEF Places
<1>5. \A j \in 1 .. Len(P1) : lab1[j] = IF j <= Len(P) THEN lab[j] ELSE Len(S) + 1
  OBVIOUS
<1> HIDE DEF lab1
<1>6. ASSUME NEW i \in 1 .. Len(D), NEW j \in 1 .. Len(P1)
      PROVE  at[i] < lab1[j]
  <2>1. at[i] \in 1 .. Len(S)
    BY <1>1 DEF Places
  <2>2. j <= Len(P) => j \in 1 .. Len(P)
    BY <1>3
  <2> QED
    BY <1>1, <1>3, <1>5, <2>1, <2>2 DEF Before
<1>7. lab1 \in [1 .. Len(P1) -> 1 .. Len(S1)] /\ at \in [1 .. Len(D) -> 1 .. Len(S1)]
  BY <1>2, <1>4 DEF Labels, Places
<1>8. Before(D, at, P1, lab1)
  BY <1>6 DEF Before
<1> QED
  BY <1>2, <1>4, <1>7, <1>8 DEF Traced

(* The labels go on to the frame that is sent. *)
LEMMA InStepSent ==
  ASSUME NEW P \in Seq(Cells), NEW S \in Seq(FrameType), NEW D \in Seq(FrameType),
         NEW f \in FrameType, NEW P1, P1 = P \o EncodeFrame(f), NEW S1, S1 = Append(S, f),
         InStep(P, S, D, TRUE)
  PROVE  InStep(P1, S1, D, TRUE)
<1>1. PICK lab : Labels(P, S, lab) /\ Aligned(P, S, lab, Len(D), TRUE)
  BY DEF InStep
<1> DEFINE lab1 == [i \in 1 .. Len(P1) |-> IF i <= Len(P) THEN lab[i] ELSE Len(S) + 1]
           c == Len(Covered(f))
<1>2. Labels(P1, S1, lab1)
  BY <1>1, LabelsSent, ZenonT(60)
<1>3. /\ Len(S1) = Len(S) + 1 /\ Len(S) \in Nat /\ Len(P) \in Nat /\ Len(D) \in Nat
      /\ \A k \in 1 .. Len(S) : k \in 1 .. Len(S1) /\ S1[k] = S[k]
      /\ S1[Len(S) + 1] = f
  BY AppendProperties
<1>4. /\ c \in Nat /\ Len(P1) = Len(P) + c + 1 /\ P1 \in Seq(Cells)
      /\ \A i \in 1 .. Len(P) : P1[i] = P[i]
      /\ \A i \in Len(P) + 1 .. Len(P1) - 1 : ~IsCrc(P1[i])
  BY EncodedCells
<1>5. \A j \in 1 .. Len(P1) : lab1[j] = IF j <= Len(P) THEN lab[j] ELSE Len(S) + 1
  OBVIOUS
<1>6. lab \in [1 .. Len(P) -> 1 .. Len(S)]
  BY <1>1 DEF Labels
<1>7. /\ Len(D) <= Len(S) /\ \A i \in 1 .. Len(D) : D[i] = S[i]
      /\ P = <<>> => Len(D) = Len(S)
  BY DEF InStep
<1>8. (P = <<>> => Len(P) = 0) /\ (P # <<>> => Len(P) >= 1)
  BY <1>3, EmptySeq
<1> HIDE DEF lab1, c
<1>9. lab1[1] = Len(D) + 1
  <2>1. 1 \in 1 .. Len(P1)
    BY <1>3, <1>4
  <2>2. CASE P = <<>>
    BY <1>5, <1>7, <1>8, <2>1, <2>2
  <2>3. CASE P # <<>>
    BY <1>1, <1>5, <1>8, <2>1, <2>3 DEF Aligned
  <2> QED
    BY <2>2, <2>3
<1>10. ASSUME NEW j \in 1 .. Len(P1) - 1
       PROVE  lab1[j + 1] <= lab1[j] + 1
  <2>1. j \in 1 .. Len(P1) /\ j + 1 \in 1 .. Len(P1)
    BY <1>3, <1>4
  <2>2. CASE j < Len(P)
    <3>1. j \in 1 .. Len(P) - 1 /\ j <= Len(P) /\ j + 1 <= Len(P)
      BY <1>3, <2>2
    <3>2. lab[j + 1] <= lab[j] + 1
      BY <1>1, <3>1 DEF Aligned
    <3> QED
      BY <1>5, <2>1, <3>1, <3>2
  <2>3. CASE j = Len(P)
    <3>1. lab[Len(P)] = Len(S)
      <4>1. P # <<>>
        BY <1>8, <2>3
      <4> QED
        BY <1>1, <4>1 DEF Aligned
    <3>2. ~(j + 1 <= Len(P)) /\ j <= Len(P)
      BY <1>3, <2>3
    <3>3. lab1[j + 1] = Len(S) + 1 /\ lab1[j] = Len(S)
      BY <1>5, <2>1, <2>3, <3>1, <3>2
    <3> QED
      BY <1>3, <3>3
  <2>4. CASE j > Len(P)
    <3>1. ~(j + 1 <= Len(P)) /\ ~(j <= Len(P))
      BY <1>3, <2>4
    <3>2. lab1[j + 1] = Len(S) + 1 /\ lab1[j] = Len(S) + 1
      BY <1>5, <2>1, <3>1
    <3> QED
      BY <1>3, <3>2
  <2> QED
    BY <1>3, <2>2, <2>3, <2>4
<1>11. ASSUME NEW j \in 1 .. Len(P1), IsCrc(P1[j])
       PROVE  LET n == j - Len(Covered(S1[lab1[j]])) IN n >= 1 /\ lab1[n] = lab1[j]
  <2>1. CASE j <= Len(P)
    <3> DEFINE k == Len(Covered(S[lab[j]]))
    <3>1. /\ j \in 1 .. Len(P) /\ IsCrc(P[j]) /\ lab1[j] = lab[j] /\ lab[j] \in 1 .. Len(S)
          /\ S1[lab1[j]] = S[lab[j]]
      <4>1. j \in 1 .. Len(P)
        BY <1>3, <2>1
      <4>2. lab1[j] = lab[j] /\ lab[j] \in 1 .. Len(S) /\ P1[j] = P[j]
        BY <1>4, <1>5, <1>6, <2>1, <4>1
      <4> QED
        BY <1>3, <1>11, <4>1, <4>2
    <3>2. j - k >= 1 /\ lab[j - k] = lab[j]
      BY <1>1, <3>1 DEF Aligned
    <3>3. k \in Nat
      <4>1. S[lab[j]] \in FrameType
        BY <3>1
      <4> QED
        BY <4>1, CoveredCells DEF HeaderSize
    <3> HIDE DEF k
    <3>4. j - k \in 1 .. Len(P1) /\ j - k <= Len(P)
      BY <1>3, <1>4, <2>1, <3>2, <3>3
    <3>5. lab1[j - k] = lab[j - k]
      BY <1>5, <3>4
    <3> QED
      BY <3>1, <3>2, <3>5 DEF k
  <2>2. CASE ~(j <= Len(P))
    <3>1. j = Len(P1)
      <4>1. j # Len(P1) => j \in Len(P) + 1 .. Len(P1) - 1
        <5>1. Len(P1) \in Nat /\ Len(P) \in Nat
          BY <1>3, <1>4
        <5> QED
          BY <2>2, <5>1
      <4> QED
        BY <1>4, <1>11, <4>1
    <3>2. lab1[j] = Len(S) + 1
      BY <1>5, <2>2
    <3>3. Len(Covered(S1[lab1[j]])) = c
      BY <1>3, <3>2 DEF c
    <3>4. j - c >= 1 /\ j - c \in 1 .. Len(P1) /\ ~(j - c <= Len(P))
      BY <1>3, <1>4, <3>1
    <3>5. lab1[j - c] = Len(S) + 1
      BY <1>5, <3>4
    <3> QED
      BY <3>2, <3>3, <3>4, <3>5
  <2> QED
    BY <2>1, <2>2
<1>12. lab1[Len(P1)] = Len(S1)
  <2>1. Len(P1) \in 1 .. Len(P1) /\ ~(Len(P1) <= Len(P))
    BY <1>3, <1>4
  <2> QED
    BY <1>3, <1>5, <2>1
<1>13. Aligned(P1, S1, lab1, Len(D), TRUE)
  BY <1>9, <1>10, <1>11, <1>12 DEF Aligned
<1>14. \E l \in [1 .. Len(P1) -> 1 .. Len(S1)] :
         Labels(P1, S1, l) /\ Aligned(P1, S1, l, Len(D), TRUE)
  <2>1. lab1 \in [1 .. Len(P1) -> 1 .. Len(S1)]
    BY <1>2 DEF Labels
  <2> QED
    BY <1>2, <1>13, <2>1
<1>15. P1 # <<>>
  BY <1>3, <1>4, EmptySeq
<1>16. Len(D) <= Len(S1) /\ \A i \in 1 .. Len(D) : D[i] = S1[i]
  BY <1>3, <1>7
<1> QED
  BY <1>14, <1>15, <1>16 DEF InStep

(* A frame is decoded: the cells up to a checksum that is theirs.  They are    *)
(* one frame that was sent, whole.                                             *)
Decodes(P, t, f) ==
  /\ t \in 1 .. Len(P) /\ P[t] = Crc(SubSeq(P, 1, t - 1))
  /\ \A g \in FrameType : Covered(g) = SubSeq(P, 1, t - 1) => f = g

(* Cells that decode are those of the frame their checksum is labelled with. *)
LEMMA DecodesSent ==
  ASSUME NEW P \in Seq(Cells), NEW S \in Seq(FrameType), NEW lab, Labels(P, S, lab),
         NEW t, NEW f, Decodes(P, t, f)
  PROVE  /\ lab[t] \in 1 .. Len(S) /\ S[lab[t]] = f /\ f \in FrameType
         /\ IsCrc(P[t]) /\ Len(Covered(S[lab[t]])) = t - 1
<1>1. t \in 1 .. Len(P) /\ IsCrc(P[t]) /\ P[t] = Crc(SubSeq(P, 1, t - 1))
  BY CellKinds DEF Decodes
<1>2. lab[t] \in 1 .. Len(S) /\ P[t] = Crc(Covered(S[lab[t]]))
  BY <1>1 DEF Labels
<1>3. Covered(S[lab[t]]) = SubSeq(P, 1, t - 1) /\ S[lab[t]] \in FrameType
  <2>1. \A c, d : Crc(c) = Crc(d) => c = d
    BY CellKinds
  <2>2. S[lab[t]] \in FrameType
    BY <1>2
  <2> QED
    BY <1>1, <1>2, <2>1, <2>2, Zenon
<1>4. Len(SubSeq(P, 1, t - 1)) = t - 1
  BY <1>1
<1> QED
  BY <1>1, <1>2, <1>3, <1>4 DEF Decodes

(* The frame that is delivered comes after those before it, and before the rest. *)
LEMMA TracedDelivered ==
  ASSUME NEW P \in Seq(Cells), NEW S \in Seq(FrameType), NEW D \in Seq(FrameType),
         NEW t, NEW f, Decodes(P, t, f), Traced(P, S, D),
         NEW P1 \in Seq(Cells), Rest(P1, P, t), NEW D1, D1 = Append(D, f)
  PROVE  Traced(P1, S, D1)
<1>1. PICK lab, at : Labels(P, S, lab) /\ Places(D, S, at) /\ Before(D, at, P, lab)
  BY DEF Traced
<1> DEFINE lab1 == [i \in 1 .. Len(P1) |-> lab[i + t]]
           at1 == [i \in 1 .. Len(D1) |-> IF i <= Len(D) THEN at[i] ELSE lab[t]]
<1>2. lab[t] \in 1 .. Len(S) /\ S[lab[t]] = f /\ IsCrc(P[t]) /\ f \in FrameType
  BY <1>1, DecodesSent
<1>3. t \in 1 .. Len(P) /\ t \in Nat
  BY DEF Decodes
<1>4. /\ Len(D1) = Len(D) + 1 /\ Len(D) \in Nat /\ D1[Len(D) + 1] = f
      /\ \A i \in 1 .. Len(D) : D1[i] = D[i]
  BY <1>2, AppendProperties
<1>5. Labels(P1, S, lab1)
  BY <1>1, <1>3, RestIsWindow, LabelsWindow
<1>6. \A j \in 1 .. Len(P1) : j + t \in 1 .. Len(P) /\ t < j + t /\ lab1[j] = lab[j + t]
  BY <1>3 DEF Rest
<1>7. \A i \in 1 .. Len(D1) : at1[i] = IF i <= Len(D) THEN at[i] ELSE lab[t]
  OBVIOUS
<1>8. at1 \in [1 .. Len(D1) -> 1 .. Len(S)]
  <2>1. ASSUME NEW i \in 1 .. Len(D1)
        PROVE  (IF i <= Len(D) THEN at[i] ELSE lab[t]) \in 1 .. Len(S)
    <3>1. i <= Len(D) => i \in 1 .. Len(D)
      BY <1>4
    <3> QED
      BY <1>1, <1>2, <3>1 DEF Places
  <2> QED
    BY <2>1
<1> HIDE DEF lab1, at1
<1>9. ASSUME NEW i \in 1 .. Len(D1)
      PROVE  /\ i <= Len(D) => i \in 1 .. Len(D) /\ at1[i] = at[i] /\ at[i] < lab[t]
             /\ ~(i <= Len(D)) => i = Len(D) + 1 /\ at1[i] = lab[t]
  <2>1. (i <= Len(D) => i \in 1 .. Len(D)) /\ (~(i <= Len(D)) => i = Len(D) + 1)
    BY <1>4
  <2> QED
    BY <1>1, <1>3, <1>7, <2>1 DEF Before
<1>10. Places(D1, S, at1)
  <2>1. ASSUME NEW i \in 1 .. Len(D1), NEW j \in 1 .. Len(D1), i < j
        PROVE  at1[i] < at1[j]
    <3>1. i <= Len(D)
      BY <1>4, <2>1
    <3> QED
      BY <1>1, <1>9, <2>1, <3>1 DEF Places
  <2>2. ASSUME NEW i \in 1 .. Len(D1)
        PROVE  D1[i] = S[at1[i]]
    BY <1>1, <1>2, <1>4, <1>9 DEF Places
  <2> QED
    BY <1>8, <2>1, <2>2 DEF Places
<1>11. ASSUME NEW i \in 1 .. Len(D1), NEW j \in 1 .. Len(P1)
       PROVE  at1[i] < lab1[j]
  <2>1. lab[t] < lab[j + t] /\ lab[t] \in Nat /\ lab[j + t] \in Nat
    <3>1. lab[t] < lab[j + t]
      BY <1>1, <1>2, <1>3, <1>6 DEF Labels
    <3>2. lab[j + t] \in 1 .. Len(S) /\ Len(S) \in Nat
      BY <1>1, <1>6 DEF Labels
    <3> QED
      BY <1>2, <3>1, <3>2
  <2>2. at1[i] \in Nat /\ lab[t] \in Nat
    <3>1. at1[i] \in 1 .. Len(S)
      BY <1>8
    <3> QED
      BY <1>2, <3>1
  <2>3. at1[i] <= lab[t]
    <3>1. at1[i] < lab[t] \/ at1[i] = lab[t]
      BY <1>9
    <3> QED
      BY <2>2, <3>1
  <2> QED
    BY <1>6, <2>1, <2>2, <2>3
<1>12. Before(D1, at1, P1, lab1)
  BY <1>11 DEF Before
<1>13. lab1 \in [1 .. Len(P1) -> 1 .. Len(S)]
  BY <1>5 DEF Labels
<1> QED
  BY <1>5, <1>8, <1>10, <1>12, <1>13 DEF Traced

(* It is the next one, as long as none has been left out. *)
LEMMA InStepDelivered ==
  ASSUME NEW P \in Seq(Cells), NEW S \in Seq(FrameType), NEW D \in Seq(FrameType),
         NEW t, NEW f, Decodes(P, t, f), NEW al \in BOOLEAN, InStep(P, S, D, al),
         NEW P1 \in Seq(Cells), Rest(P1, P, t), NEW D1, D1 = Append(D, f)
  PROVE  InStep(P1, S, D1, al)
<1>1. PICK lab : Labels(P, S, lab) /\ Aligned(P, S, lab, Len(D), al)
  BY DEF InStep
<1> DEFINE lab1 == [i \in 1 .. Len(P1) |-> lab[i + t]]
<1>2. /\ lab[t] \in 1 .. Len(S) /\ S[lab[t]] = f /\ IsCrc(P[t]) /\ f \in FrameType
      /\ Len(Covered(S[lab[t]])) = t - 1
  BY <1>1, DecodesSent
<1>3. /\ t \in 1 .. Len(P) /\ t \in Nat /\ Len(P) \in Nat /\ Len(P1) \in Nat
      /\ Len(P1) + t = Len(P)
  BY DEF Decodes, Rest
<1>4. /\ Len(D1) = Len(D) + 1 /\ Len(D) \in Nat /\ D1[Len(D) + 1] = f
      /\ \A i \in 1 .. Len(D) : D1[i] = D[i]
  BY <1>2, AppendProperties
<1>5. Labels(P1, S, lab1)
  BY <1>1, <1>3, RestIsWindow, LabelsWindow
<1>6. \A j \in 1 .. Len(P1) : j + t \in 1 .. Len(P) /\ t < j + t /\ lab1[j] = lab[j + t]
  BY <1>3
<1>7. P # <<>> /\ lab[1] = Len(D) + 1
  <2>1. P # <<>>
    BY <1>3, EmptySeq
  <2> QED
    BY <1>1, <2>1 DEF Aligned
<1>8. lab[t] = Len(D) + 1
  <2>1. t - (t - 1) = 1
    BY <1>3
  <2>2. lab[t - Len(Covered(S[lab[t]]))] = lab[t]
    BY <1>1, <1>2, <1>3 DEF Aligned
  <2> QED
    BY <1>2, <1>7, <2>1, <2>2
<1>9. \A j \in 1 .. Len(P) : lab[j] \in 1 .. Len(S) /\ lab[j] \in Nat
  <2>1. \A j \in 1 .. Len(P) : lab[j] \in 1 .. Len(S)
    BY <1>1 DEF Labels
  <2>2. Len(S) \in Nat
    OBVIOUS
  <2> QED
    BY <2>1, <2>2
<1>10. ASSUME NEW j \in 1 .. Len(P), j > t
       PROVE  lab[j] > lab[t]
  BY <1>1, <1>2, <1>3, <1>10 DEF Labels
<1> HIDE DEF lab1
<1>11. Len(P1) # 0 => lab1[1] = Len(D1) + 1
  <2> SUFFICES ASSUME Len(P1) # 0
               PROVE  lab1[1] = Len(D1) + 1
    OBVIOUS
  <2>1. 1 \in 1 .. Len(P1) /\ t \in 1 .. Len(P) - 1 /\ 1 + t = t + 1 /\ t + 1 \in 1 .. Len(P)
        /\ t + 1 > t
    BY <1>3
  <2>2. lab[t + 1] <= lab[t] + 1
    BY <1>1, <2>1 DEF Aligned
  <2>3. lab[t + 1] > lab[t] /\ lab[t + 1] \in Nat
    BY <1>9, <1>10, <2>1
  <2>4. lab1[1] = lab[t + 1]
    BY <1>6, <2>1
  <2> QED
    BY <1>4, <1>8, <2>2, <2>3, <2>4
<1>12. ASSUME NEW j \in 1 .. Len(P1) - 1
       PROVE  lab1[j + 1] <= lab1[j] + 1
  <2>1. /\ j \in 1 .. Len(P1) /\ j + 1 \in 1 .. Len(P1) /\ j + t \in 1 .. Len(P) - 1
        /\ (j + 1) + t = (j + t) + 1
    BY <1>3
  <2>2. lab[(j + t) + 1] <= lab[j + t] + 1
    BY <1>1, <2>1 DEF Aligned
  <2> QED
    BY <1>6, <2>1, <2>2
<1>13. ASSUME NEW j \in 1 .. Len(P1), IsCrc(P1[j])
       PROVE  LET n == j - Len(Covered(S[lab1[j]])) IN n >= 1 /\ lab1[n] = lab1[j]
  <2> DEFINE k == Len(Covered(S[lab[j + t]]))
             m == (j + t) - k
  <2>1. j + t \in 1 .. Len(P) /\ j + t > t /\ lab1[j] = lab[j + t] /\ IsCrc(P[j + t])
    BY <1>3, <1>6, <1>13 DEF Rest
  <2>2. m >= 1 /\ lab[m] = lab[j + t]
    BY <1>1, <2>1 DEF Aligned
  <2>3. k \in Nat
    <3>1. S[lab[j + t]] \in FrameType
      BY <1>9, <2>1
    <3> QED
      BY <3>1, CoveredCells DEF HeaderSize
  <2> HIDE DEF k
  <2>4. m \in 1 .. Len(P)
    BY <1>3, <2>1, <2>2, <2>3
  <2>5. m > t
    <3>1. lab[m] > lab[t] /\ lab[m] \in Nat /\ lab[t] \in Nat
      <4>1. lab[j + t] > lab[t]
        BY <1>10, <2>1
      <4> QED
        BY <1>3, <1>9, <2>2, <2>4, <4>1
    <3>2. m < t => lab[m] <= lab[t]
      BY <1>1, <1>3, <2>4 DEF Labels
    <3> HIDE DEF m
    <3>3. m # t
      BY <3>1
    <3>4. ~(m < t)
      BY <3>1, <3>2
    <3> QED
      BY <1>3, <2>4, <3>3, <3>4
  <2>6. j - k >= 1 /\ j - k \in 1 .. Len(P1) /\ (j - k) + t = m
    BY <1>3, <2>3, <2>4, <2>5
  <2>7. lab1[j - k] = lab[m]
    BY <1>6, <2>6
  <2> QED
    BY <2>1, <2>2, <2>6, <2>7 DEF k
<1>14. al /\ Len(P1) # 0 => lab1[Len(P1)] = Len(S)
  <2>1. Len(P1) # 0 => Len(P1) \in 1 .. Len(P1) /\ Len(P1) + t = Len(P)
    BY <1>3
  <2> QED
    BY <1>1, <1>6, <1>7, <2>1 DEF Aligned
<1>15. P1 # <<>> <=> Len(P1) # 0
  BY <1>3, EmptySeq
<1>16. Aligned(P1, S, lab1, Len(D1), al)
  BY <1>11, <1>12, <1>13, <1>14, <1>15 DEF Aligned
<1>17. al /\ P1 = <<>> => Len(D1) = Len(S)
  <2>1. Len(P1) = 0 => t = Len(P)
    BY <1>3
  <2> QED
    BY <1>1, <1>4, <1>7, <1>8, <1>15, <2>1 DEF Aligned
<1>18. Len(D1) <= Len(S)
  BY <1>2, <1>4, <1>8
<1>19. ASSUME NEW i \in 1 .. Len(D1)
       PROVE  D1[i] = S[i]
  <2>1. i \in 1 .. Len(D) \/ i = Len(D) + 1
    BY <1>4
  <2> QED
    BY <1>2, <1>4, <1>8, <2>1 DEF InStep
<1>20. lab1 \in [1 .. Len(P1) -> 1 .. Len(S)]
  BY <1>5 DEF Labels
<1>21. \E l \in [1 .. Len(P1) -> 1 .. Len(S)] :
         Labels(P1, S, l) /\ Aligned(P1, S, l, Len(D1), al)
  BY <1>5, <1>16, <1>20
<1> QED
  BY <1>17, <1>18, <1>19, <1>21 DEF InStep

-----------------------------------------------------------------------------
(* Induction and recursion.  A property of all numbers is a set that contains  *)
(* them; of a function that is defined recursively one first shows that there  *)
(* is one.                                                                     *)

(* Induction on the numbers. *)
LEMMA SetInduction ==
  ASSUME NEW G, 0 \in G, \A k \in Nat : k \in G => k + 1 \in G
  PROVE  Nat \subseteq G
<1> SUFFICES ASSUME Nat \ G # {} PROVE FALSE
  OBVIOUS
<1>1. PICK n \in Nat \ G : \A m \in Nat \ G : ~(<<m, n>> \in OpToRel(<, Nat))
  BY NatLessThanWellFounded, WFMin
<1>2. n # 0 /\ n - 1 \in Nat /\ n - 1 < n /\ (n - 1) + 1 = n
  OBVIOUS
<1>3. n - 1 \in G
  BY <1>1, <1>2 DEF OpToRel
<1> QED
  BY <1>2, <1>3

(* FlattenSeq joins its sequences one after the other. *)
LEMMA Flattened ==
  ASSUME NEW B, NEW seqs \in Seq(Seq(B))
  PROVE  \E fl \in [0 .. Len(seqs) -> Seq(B)] :
           /\ fl[0] = <<>> /\ FlattenSeq(seqs) = fl[Len(seqs)]
           /\ \A i \in 1 .. Len(seqs) : fl[i] = fl[i - 1] \o seqs[i]
<1> DEFINE N == Len(seqs)
           Rec(f) == [i \in 1 .. N |-> IF i = 1 THEN seqs[i] ELSE f[i - 1] \o seqs[i]]
           Upto(f, n) == f[0] = <<>> /\ \A i \in 1 .. n : f[i] = f[i - 1] \o seqs[i]
           G == {n \in Nat : n <= N => \E f \in [0 .. N -> Seq(B)] : Upto(f, n)}
<1>1. N \in Nat /\ \A i \in 1 .. N : seqs[i] \in Seq(B)
  OBVIOUS
<1>2. <<>> \in Seq(B)
  OBVIOUS
<1>3. 0 \in G
  <2> DEFINE f == [i \in 0 .. N |-> <<>>]
  <2>1. f \in [0 .. N -> Seq(B)]
    BY <1>2
  <2>2. Upto(f, 0)
    BY <1>1
  <2> HIDE DEF Upto
  <2> QED
    BY <2>1, <2>2
<1> HIDE DEF N
<1>4. ASSUME NEW k \in Nat, k \in G
      PROVE  k + 1 \in G
  <2> SUFFICES ASSUME k + 1 <= N
               PROVE  \E f \in [0 .. N -> Seq(B)] : Upto(f, k + 1)
    <3> HIDE DEF Upto
    <3> QED
      OBVIOUS
  <2>1. PICK f \in [0 .. N -> Seq(B)] : Upto(f, k)
    <3>1. k <= N
      BY <1>1
    <3> HIDE DEF Upto
    <3> QED
      BY <1>4, <3>1
  <2> DEFINE e == f[k] \o seqs[k + 1]
             g == [f EXCEPT ![k + 1] = e]
  <2>2. k + 1 \in 0 .. N /\ k \in 0 .. N /\ seqs[k + 1] \in Seq(B)
    BY <1>1
  <2>3. e \in Seq(B)
    <3>1. f[k] \in Seq(B)
      BY <2>2
    <3> QED
      BY <2>2, <3>1, ConcatProperties
  <2>4. g \in [0 .. N -> Seq(B)] /\ g[k + 1] = e /\ \A i \in 0 .. k : g[i] = f[i]
    <3> HIDE DEF e
    <3> QED
      BY <1>1, <2>2, <2>3
  <2> HIDE DEF g
  <2>5. ASSUME NEW i \in 1 .. k + 1
        PROVE  g[i] = g[i - 1] \o seqs[i]
    <3>1. i - 1 \in 0 .. k /\ (i = k + 1 \/ i \in 1 .. k) /\ (k + 1) - 1 = k
      OBVIOUS
    <3>2. g[i - 1] = f[i - 1]
      BY <2>4, <3>1
    <3>3. CASE i = k + 1
      BY <2>4, <3>1, <3>2, <3>3
    <3>4. CASE i \in 1 .. k
      <4>1. g[i] = f[i]
        BY <2>4, <3>4
      <4> QED
        BY <2>1, <3>2, <3>4, <4>1
    <3> QED
      BY <3>1, <3>3, <3>4
  <2>6. g[0] = <<>>
    BY <2>1, <2>4
  <2>7. Upto(g, k + 1)
    BY <2>5, <2>6
  <2> HIDE DEF Upto
  <2> QED
    BY <2>4, <2>7
<1>5. PICK f \in [0 .. N -> Seq(B)] : Upto(f, N)
  <2> HIDE DEF G
  <2>1. Nat \subseteq G
    BY <1>3, <1>4, SetInduction
  <2>2. N \in G /\ N <= N
    BY <1>1, <2>1
  <2> HIDE DEF Upto
  <2> QED
    BY <2>2 DEF G
<1>6. FlattenSeq(seqs) = f[N]
  <2>1. CASE N = 0
    <3>1. seqs = <<>>
      BY <2>1 DEF N
    <3> QED
      BY <1>5, <2>1, <3>1 DEF FlattenSeq, N
  <2>2. CASE N # 0
    <3> DEFINE r == [i \in 1 .. N |-> f[i]]
               flatten == CHOOSE h : h = Rec(h)
    <3>1. FlattenSeq(seqs) = flatten[N]
      BY <2>2 DEF FlattenSeq, N
    <3>2. ASSUME NEW i \in 1 .. N
          PROVE  r[i] = IF i = 1 THEN seqs[i] ELSE r[i - 1] \o seqs[i]
      <4>1. f[i] = f[i - 1] \o seqs[i] /\ r[i] = f[i]
        BY <1>5
      <4>2. CASE i = 1
        <5>1. f[i - 1] = <<>> /\ seqs[i] \in Seq(B)
          BY <1>1, <1>5, <4>2
        <5> QED
          BY <4>1, <4>2, <5>1, ConcatEmptySeq
      <4>3. CASE i # 1
        <5>1. i - 1 \in 1 .. N
          BY <1>1, <4>3
        <5>2. r[i - 1] = f[i - 1]
          BY <5>1
        <5> QED
          BY <4>1, <4>3, <5>2
      <4> QED
        BY <4>2, <4>3
    <3>3. r = Rec(r)
      BY <3>2
    <3>4. flatten = Rec(flatten)
      BY <3>3
    <3> HIDE DEF flatten, Rec
    <3>5. \A i \in 1 .. N : flatten[i] = IF i = 1 THEN seqs[i] ELSE flatten[i - 1] \o seqs[i]
      BY <3>4 DEF Rec
    <3> DEFINE H == {n \in Nat : n + 1 <= N => flatten[n + 1] = f[n + 1]}
    <3>6. 0 \in H
      <4>1. 1 \in 1 .. N /\ 0 + 1 = 1
        BY <1>1, <2>2
      <4>2. flatten[1] = seqs[1] /\ r[1] = seqs[1] /\ r[1] = f[1]
        BY <3>2, <3>5, <4>1
      <4> QED
        BY <4>1, <4>2
    <3>7. ASSUME NEW k \in Nat, k \in H
          PROVE  k + 1 \in H
      <4> SUFFICES ASSUME (k + 1) + 1 <= N
                   PROVE  flatten[(k + 1) + 1] = f[(k + 1) + 1]
        OBVIOUS
      <4>1. /\ (k + 1) + 1 \in 1 .. N /\ (k + 1) + 1 # 1 /\ ((k + 1) + 1) - 1 = k + 1
            /\ k + 1 <= N
        BY <1>1
      <4>2. flatten[k + 1] = f[k + 1]
        BY <3>7, <4>1
      <4>3. f[(k + 1) + 1] = f[k + 1] \o seqs[(k + 1) + 1]
        BY <1>5, <4>1
      <4>4. flatten[(k + 1) + 1] = flatten[k + 1] \o seqs[(k + 1) + 1]
        BY <3>5, <4>1
      <4> QED
        BY <4>2, <4>3, <4>4
    <3> HIDE DEF H
    <3>8. Nat \subseteq H
      BY <3>6, <3>7, SetInduction
    <3>9. N - 1 \in H /\ (N - 1) + 1 = N /\ N <= N
      BY <1>1, <2>2, <3>8
    <3>10. flatten[N] = f[N]
      BY <3>9 DEF H
    <3> QED
      BY <3>1, <3>10
  <2> QED
    BY <2>1, <2>2
<1> QED
  BY <1>5, <1>6 DEF N

(* The powers of the base. *)
LEMMA Powers ==
  /\ Power[0] = 1
  /\ \A n \in Nat : Power[n] \in Nat \ {0} /\ Power[n + 1] = Base * Power[n]
<1> DEFINE Upto(f, n) == f[0] = 1 /\ \A i \in 0 .. n - 1 : f[i + 1] = Base * f[i]
           G == {n \in Nat : \E f \in [Nat -> Nat \ {0}] : Upto(f, n)}
<1>1. Base \in Nat \ {0}
  BY WireAssumption
<1>2. Nat \subseteq G
  <2>1. 0 \in G
    <3> DEFINE f == [i \in Nat |-> 1]
    <3>1. f \in [Nat -> Nat \ {0}] /\ Upto(f, 0)
      OBVIOUS
    <3> HIDE DEF Upto
    <3> QED
      BY <3>1
  <2>2. ASSUME NEW k \in Nat, k \in G
        PROVE  k + 1 \in G
    <3>1. PICK f \in [Nat -> Nat \ {0}] : Upto(f, k)
      BY <2>2
    <3> DEFINE e == Base * f[k]
               g == [f EXCEPT ![k + 1] = e]
    <3>2. e \in Nat \ {0}
      <4>1. f[k] \in Nat \ {0}
        OBVIOUS
      <4> QED
        BY <1>1, <4>1
    <3>3. g \in [Nat -> Nat \ {0}] /\ g[k + 1] = e /\ \A i \in 0 .. k : g[i] = f[i]
      <4> HIDE DEF e
      <4> QED
        BY <3>2
    <3> HIDE DEF g
    <3>4. ASSUME NEW i \in 0 .. (k + 1) - 1
          PROVE  g[i + 1] = Base * g[i]
      <4>1. i \in 0 .. k /\ (i = k \/ (i \in 0 .. k - 1 /\ i + 1 \in 0 .. k))
        OBVIOUS
      <4> QED
        BY <3>1, <3>3, <4>1
    <3>5. Upto(g, k + 1)
      BY <3>1, <3>3, <3>4
    <3> HIDE DEF Upto
    <3> QED
      BY <3>3, <3>5
  <2> HIDE DEF G
  <2> QED
    BY <2>1, <2>2, SetInduction
<1> DEFINE F(n) == CHOOSE f \in [Nat -> Nat \ {0}] : Upto(f, n)
           pow == [n \in Nat |-> F(n)[n]]
           Rec(f) == [n \in Nat |-> IF n = 0 THEN 1 ELSE Base * f[n - 1]]
<1>3. ASSUME NEW n \in Nat
      PROVE  F(n) \in [Nat -> Nat \ {0}] /\ Upto(F(n), n)
  <2>1. \E f \in [Nat -> Nat \ {0}] : Upto(f, n)
    BY <1>2
  <2> HIDE DEF Upto
  <2> QED
    BY <2>1
<1>4. ASSUME NEW n \in Nat
      PROVE  F(n)[n] = F(n + 1)[n]
  <2> DEFINE a == F(n)
             b == F(n + 1)
             H == {k \in Nat : k <= n => a[k] = b[k]}
  <2>1. Upto(a, n) /\ Upto(b, n + 1)
    <3>1. n + 1 \in Nat
      OBVIOUS
    <3> HIDE DEF F, Upto
    <3> QED
      BY <1>3, <3>1
  <2> HIDE DEF a, b, F
  <2>2. 0 \in H
    BY <2>1
  <2>3. ASSUME NEW k \in Nat, k \in H
        PROVE  k + 1 \in H
    <3>1. k + 1 <= n => k \in 0 .. n - 1 /\ k \in 0 .. (n + 1) - 1 /\ k <= n
      OBVIOUS
    <3> QED
      BY <2>1, <2>3, <3>1
  <2> HIDE DEF H
  <2>4. Nat \subseteq H
    BY <2>2, <2>3, SetInduction
  <2>5. a[n] = b[n]
    BY <2>4 DEF H
  <2> QED
    BY <2>5 DEF a, b
<1>5. ASSUME NEW n \in Nat
      PROVE  pow[n] = IF n = 0 THEN 1 ELSE Base * pow[n - 1]
  <2>1. CASE n = 0
    BY <1>3, <2>1
  <2>2. CASE n # 0
    <3>1. n - 1 \in Nat /\ (n - 1) + 1 = n /\ n - 1 \in 0 .. n - 1
      BY <2>2
    <3>2. F(n)[n] = Base * F(n)[n - 1]
      <4>1. Upto(F(n), n)
        BY <1>3
      <4> HIDE DEF F
      <4> QED
        BY <3>1, <4>1
    <3>3. F(n - 1)[n - 1] = F(n)[n - 1]
      <4> HIDE DEF F
      <4> QED
        BY <1>4, <3>1
    <3> HIDE DEF F
    <3> QED
      BY <2>2, <3>1, <3>2, <3>3
  <2> QED
    BY <2>1, <2>2
<1> HIDE DEF F
<1>6. pow = Rec(pow)
  <2> HIDE DEF pow
  <2>1. pow = [n \in Nat |-> pow[n]]
    BY DEF pow
  <2> QED
    BY <1>5, <2>1
<1> HIDE DEF pow
<1>7. Power = Rec(Power)
  <2>1. Power = CHOOSE f : f = Rec(f)
    BY DEF Power
  <2> HIDE DEF Rec
  <2> QED
    BY <1>6, <2>1
<1> HIDE DEF Rec
<1>8. \A n \in Nat : Power[n] = IF n = 0 THEN 1 ELSE Base * Power[n - 1]
  BY <1>7 DEF Rec
<1>9. Power[0] = 1
  BY <1>8
<1>10. \A n \in Nat : Power[n + 1] = Base * Power[n]
  <2>1. \A n \in Nat : n + 1 \in Nat /\ n + 1 # 0 /\ (n + 1) - 1 = n
    OBVIOUS
  <2> QED
    BY <1>8, <2>1
<1> DEFINE H == {k \in Nat : Power[k] \in Nat \ {0}}
<1>11. 0 \in H
  BY <1>9
<1>12. ASSUME NEW k \in Nat, k \in H
       PROVE  k + 1 \in H
  <2>1. Power[k] \in Nat \ {0} /\ Power[k + 1] = Base * Power[k]
    BY <1>10, <1>12
  <2> QED
    BY <1>1, <2>1
<1> HIDE DEF H
<1>13. Nat \subseteq H
  BY <1>11, <1>12, SetInduction
<1>14. \A n \in Nat : Power[n] \in Nat \ {0}
  BY <1>13 DEF H
<1> QED
  BY <1>9, <1>10, <1>14

-----------------------------------------------------------------------------
(* Every body is a frame. *)

(* store_le stores bytes. *)
LEMMA StoredBytes ==
  ASSUME NEW v \in Nat, NEW w \in Nat
  PROVE  /\ Stored(v, w) \in Seq(Bytes) /\ Len(Stored(v, w)) = w
         /\ \A i \in 1 .. w : Stored(v, w)[i] = (v \div Power[i - 1]) % Base
<1>1. Base \in Nat \ {0}
  BY WireAssumption
<1>2. ASSUME NEW i \in 1 .. w
      PROVE  (v \div Power[i - 1]) % Base \in Bytes
  <2>1. Power[i - 1] \in Nat \ {0}
    <3>1. i - 1 \in Nat
      OBVIOUS
    <3> QED
      BY <3>1, Powers
  <2> DEFINE p == Power[i - 1]
             q == v \div p
  <2> HIDE DEF p
  <2>2. q \in Int
    BY <2>1 DEF p
  <2> HIDE DEF q
  <2>3. q % Base \in 0 .. Base - 1
    BY <1>1, <2>2
  <2> QED
    BY <2>3 DEF q, p, Bytes
<1>3. Stored(v, w) \in Seq(Bytes)
  BY <1>2 DEF Stored
<1> QED
  BY <1>3 DEF Stored

(* The bytes of a field of width w, and of the fields of a body one by one. *)
Part(w, v) == IF w = StringField THEN Stored(Len(v), LengthWidth) \o v ELSE Stored(v, w)
Parts(format, values) == [i \in 1 .. Len(format) |-> Part(format[i], values[i])]

(* The fields of a body are bytes. *)
LEMMA PartsBytes ==
  ASSUME NEW format, NEW values, Fits(format, values)
  PROVE  /\ Parts(format, values) \in Seq(Seq(Bytes))
         /\ Len(Parts(format, values)) = Len(format)
         /\ Written(format, values) = FlattenSeq(Parts(format, values))
<1>1. ASSUME NEW i \in 1 .. Len(format)
      PROVE  Part(format[i], values[i]) \in Seq(Bytes)
  <2>1. format[i] \in Nat /\ LengthWidth \in Nat
    BY WireAssumption DEF Fits
  <2>2. CASE format[i] = StringField
    <3>1. values[i] \in Seq(Bytes) /\ Len(values[i]) \in Nat
      BY <2>2 DEF Fits, Bytes
    <3>2. Stored(Len(values[i]), LengthWidth) \in Seq(Bytes)
      BY <2>1, <3>1, StoredBytes
    <3> QED
      BY <2>2, <3>1, <3>2, ConcatProperties DEF Part
  <2>3. CASE format[i] # StringField
    <3>1. values[i] \in Nat
      <4>1. Power[format[i]] \in Nat
        BY <2>1, Powers
      <4> QED
        BY <2>3, <4>1 DEF Fits
    <3> QED
      BY <2>1, <2>3, <3>1, StoredBytes DEF Part
  <2> QED
    BY <2>2, <2>3
<1>2. Parts(format, values) \in Seq(Seq(Bytes)) /\ Len(Parts(format, values)) = Len(format)
  <2>1. Len(format) \in Nat
    BY DEF Fits
  <2>2. Parts(format, values) \in [1 .. Len(format) -> Seq(Bytes)]
    BY <1>1 DEF Parts
  <2> QED
    BY <2>1, <2>2
<1>3. Written(format, values) = FlattenSeq(Parts(format, values))
  BY DEF Written, Parts, Part
<1> QED
  BY <1>2, <1>3

(* What the sender has to say has the types of its fields. *)
LEMMA BodyFits ==
  ASSUME NEW b \in Bodies
  PROVE  b.type \in MessageTypes /\ Fits(Formats[b.type], b.values)
BY ProtocolAssumption

(* A body makes a frame. *)
LEMMA FrameTyped ==
  ASSUME NEW b \in Bodies
  PROVE  Frame(b) \in FrameType
<1> DEFINE parts == Parts(Formats[b.type], b.values)
<1>1. parts \in Seq(Seq(Bytes)) /\ Written(Formats[b.type], b.values) = FlattenSeq(parts)
  BY BodyFits, PartsBytes
<1> HIDE DEF parts
<1>2. PICK fl \in [0 .. Len(parts) -> Seq(Bytes)] : FlattenSeq(parts) = fl[Len(parts)]
  BY <1>1, Flattened
<1>3. Len(parts) \in 0 .. Len(parts)
  BY <1>1
<1>4. Written(Formats[b.type], b.values) \in Seq(Bytes)
  BY <1>1, <1>2, <1>3
<1> QED
  BY <1>4, BodyFits DEF Frame, FrameType

-----------------------------------------------------------------------------
(* The steps, as they change the cells on their way *)

(* Where the cells of three joined sequences are. *)
LEMMA PipeCells ==
  ASSUME NEW A \in Seq(Cells), NEW B \in Seq(Cells), NEW C \in Seq(Cells),
         NEW P, P = A \o B \o C
  PROVE  /\ P \in Seq(Cells) /\ Len(P) = Len(A) + Len(B) + Len(C)
         /\ Len(A) \in Nat /\ Len(B) \in Nat /\ Len(C) \in Nat
         /\ \A i \in 1 .. Len(A) : P[i] = A[i]
         /\ \A i \in 1 .. Len(B) : P[Len(A) + i] = B[i]
         /\ \A i \in 1 .. Len(C) : P[Len(A) + Len(B) + i] = C[i]
<1> DEFINE Q == A \o B
<1>1. Len(A) \in Nat /\ Len(B) \in Nat /\ Len(C) \in Nat
  OBVIOUS
<1>2. /\ Q \in Seq(Cells) /\ Len(Q) = Len(A) + Len(B)
      /\ \A i \in 1 .. Len(A) + Len(B) : Q[i] = IF i <= Len(A) THEN A[i] ELSE B[i - Len(A)]
  BY ConcatProperties
<1> HIDE DEF Q
<1>3. P = Q \o C
  BY DEF Q
<1>4. /\ P \in Seq(Cells) /\ Len(P) = Len(Q) + Len(C)
      /\ \A i \in 1 .. Len(Q) + Len(C) : P[i] = IF i <= Len(Q) THEN Q[i] ELSE C[i - Len(Q)]
  <2>1. Q \in Seq(Cells)
    BY <1>2
  <2> QED
    BY <1>3, <2>1, ConcatProperties, ZenonT(30)
<1>5. ASSUME NEW i \in 1 .. Len(A)
      PROVE  P[i] = A[i]
  <2>1. i \in 1 .. Len(A) + Len(B) /\ i \in 1 .. Len(Q) + Len(C) /\ i <= Len(A) /\ i <= Len(Q)
    BY <1>1, <1>2
  <2> QED
    BY <1>2, <1>4, <2>1
<1>6. ASSUME NEW i \in 1 .. Len(B)
      PROVE  P[Len(A) + i] = B[i]
  <2>1. /\ Len(A) + i \in 1 .. Len(A) + Len(B) /\ Len(A) + i \in 1 .. Len(Q) + Len(C)
        /\ ~(Len(A) + i <= Len(A)) /\ Len(A) + i <= Len(Q) /\ (Len(A) + i) - Len(A) = i
    BY <1>1, <1>2
  <2> QED
    BY <1>2, <1>4, <2>1
<1>7. ASSUME NEW i \in 1 .. Len(C)
      PROVE  P[Len(A) + Len(B) + i] = C[i]
  <2>1. /\ Len(A) + Len(B) + i \in 1 .. Len(Q) + Len(C) /\ ~(Len(A) + Len(B) + i <= Len(Q))
        /\ (Len(A) + Len(B) + i) - Len(Q) = i
    BY <1>1, <1>2
  <2> QED
    BY <1>4, <2>1
<1>8. Len(P) = Len(A) + Len(B) + Len(C)
  BY <1>2, <1>4
<1> QED
  BY <1>1, <1>4, <1>5, <1>6, <1>7, <1>8

(* A cell that is read moves from one end of a sequence to the other. *)
LEMMA MovedCell ==
  ASSUME NEW A \in Seq(Cells), NEW B \in Seq(Cells), B # <<>>
  PROVE  /\ Append(A, Head(B)) \in Seq(Cells) /\ Tail(B) \in Seq(Cells)
         /\ Append(A, Head(B)) \o Tail(B) = A \o B
<1>1. Head(B) \in Cells /\ Tail(B) \in Seq(Cells)
  BY HeadTailProperties
<1>2. Append(A, Head(B)) = A \o <<Head(B)>> /\ <<Head(B)>> \in Seq(Cells)
  BY <1>1, AppendIsConcat
<1>3. <<Head(B)>> \o Tail(B) = B
  <2> DEFINE h == <<Head(B)>>
             t == Tail(B)
  <2>1. h \in Seq(Cells) /\ Len(h) = 1 /\ h[1] = B[1]
    BY <1>1
  <2>2. t \in Seq(Cells) /\ Len(t) = Len(B) - 1 /\ \A i \in 1 .. Len(t) : t[i] = B[i + 1]
    BY HeadTailProperties
  <2>3. Len(B) \in Nat /\ Len(B) >= 1
    BY EmptySeq
  <2> HIDE DEF h, t
  <2>4. /\ h \o t \in Seq(Cells) /\ Len(h \o t) = Len(h) + Len(t)
        /\ \A i \in 1 .. Len(h) + Len(t) :
             (h \o t)[i] = IF i <= Len(h) THEN h[i] ELSE t[i - Len(h)]
    <3>1. h \in Seq(Cells) /\ t \in Seq(Cells)
      BY <2>1, <2>2
    <3> QED
      BY <3>1, ConcatProperties, Zenon
  <2>5. Len(h \o t) = Len(B)
    BY <2>1, <2>2, <2>3, <2>4
  <2>6. ASSUME NEW i \in 1 .. Len(h \o t)
        PROVE  (h \o t)[i] = B[i]
    <3>1. CASE i = 1
      BY <2>1, <2>2, <2>3, <2>4, <3>1
    <3>2. CASE i # 1
      <4>1. /\ i - 1 \in 1 .. Len(t) /\ ~(i <= Len(h)) /\ i - Len(h) = i - 1
            /\ (i - 1) + 1 = i /\ i \in 1 .. Len(h) + Len(t)
        BY <2>1, <2>2, <2>3, <2>4, <3>2
      <4> QED
        BY <2>2, <2>4, <4>1
    <3> QED
      BY <3>1, <3>2
  <2>7. h \o t = B
    BY <2>4, <2>5, <2>6, SeqEqual
  <2> QED
    BY <2>7 DEF h, t
<1>4. Append(A, Head(B)) \in Seq(Cells)
  BY <1>1, AppendProperties
<1>5. (A \o <<Head(B)>>) \o Tail(B) = A \o (<<Head(B)>> \o Tail(B))
  BY <1>1, <1>2, ConcatAssociative
<1> QED
  BY <1>1, <1>2, <1>3, <1>4, <1>5

(* Cells go: the buffer, with k cells of the stream. *)
LEMMA EmptyBuffer ==
  ASSUME NEW B \in Seq(Cells), NEW C \in Seq(Cells), NEW P, P = <<>> \o B \o C
  PROVE  /\ P \in Seq(Cells) /\ Len(P) = Len(B) + Len(C)
         /\ Len(B) \in Nat /\ Len(C) \in Nat
         /\ \A i \in 1 .. Len(P) : P[i] = IF i <= Len(B) THEN B[i] ELSE C[i - Len(B)]
<1>1. <<>> \o B = B
  BY ConcatEmptySeq
<1>2. P = B \o C
  BY <1>1
<1>3. /\ B \o C \in Seq(Cells) /\ Len(B \o C) = Len(B) + Len(C)
      /\ \A i \in 1 .. Len(B) + Len(C) :
           (B \o C)[i] = IF i <= Len(B) THEN B[i] ELSE C[i - Len(B)]
  BY ConcatProperties
<1>4. Len(B) \in Nat /\ Len(C) \in Nat
  OBVIOUS
<1> QED
  BY <1>2, <1>3, <1>4

(* A first sequence that is dropped leaves a rest. *)
LEMMA DroppedCells ==
  ASSUME NEW A \in Seq(Cells), NEW B \in Seq(Cells), NEW C \in Seq(Cells),
         NEW B1 \in Seq(Cells), NEW k \in Nat, Rest(B1, B, k),
         NEW P, P = A \o B \o C, NEW P1, P1 = <<>> \o B1 \o C
  PROVE  /\ P \in Seq(Cells) /\ P1 \in Seq(Cells) /\ Len(A) + k \in Nat
         /\ Rest(P1, P, Len(A) + k)
<1>1. /\ P \in Seq(Cells) /\ Len(P) = Len(A) + Len(B) + Len(C)
      /\ Len(A) \in Nat /\ Len(B) \in Nat /\ Len(C) \in Nat
      /\ \A i \in 1 .. Len(B) : P[Len(A) + i] = B[i]
      /\ \A i \in 1 .. Len(C) : P[Len(A) + Len(B) + i] = C[i]
  BY PipeCells
<1>2. /\ P1 \in Seq(Cells) /\ Len(P1) = Len(B1) + Len(C) /\ Len(B1) \in Nat
      /\ \A i \in 1 .. Len(P1) : P1[i] = IF i <= Len(B1) THEN B1[i] ELSE C[i - Len(B1)]
  BY EmptyBuffer
<1> DEFINE n == Len(A) + k
<1>7. Len(B1) + k = Len(B) /\ \A i \in 1 .. Len(B1) : B1[i] = B[i + k]
  BY DEF Rest
<1>6. /\ Len(P) = Len(A) + Len(B) + Len(C) /\ Len(P1) = Len(B1) + Len(C)
      /\ Len(A) \in Nat /\ Len(B) \in Nat /\ Len(C) \in Nat /\ Len(B1) \in Nat
  BY <1>1, <1>2
<1>3. /\ n \in Nat /\ Len(P1) + n = Len(P)
      /\ \A i \in 1 .. Len(P1) : ~(i <= Len(B1)) =>
           i - Len(B1) \in 1 .. Len(C) /\ Len(A) + Len(B) + (i - Len(B1)) = i + n
  <2>1. /\ n \in Nat /\ (Len(B1) + Len(C)) + n = Len(A) + Len(B) + Len(C)
        /\ \A i \in 1 .. Len(B1) + Len(C) : ~(i <= Len(B1)) =>
             i - Len(B1) \in 1 .. Len(C) /\ Len(A) + Len(B) + (i - Len(B1)) = i + n
    <3>1. Len(A) \in Nat /\ Len(B) \in Nat /\ Len(C) \in Nat /\ Len(B1) \in Nat
      BY <1>6
    <3> DEFINE a == Len(A)
               b == Len(B)
               c == Len(C)
               d == Len(B1)
    <3>2. a \in Nat /\ b \in Nat /\ c \in Nat /\ d \in Nat /\ d + k = b
      BY <1>7, <3>1
    <3> HIDE DEF a, b, c, d
    <3>3. /\ a + k \in Nat /\ (d + c) + (a + k) = a + b + c
          /\ \A i \in 1 .. d + c : ~(i <= d) => i - d \in 1 .. c /\ a + b + (i - d) = i + (a + k)
      BY <3>2
    <3> QED
      BY <3>3 DEF a, b, c, d
  <2> QED
    BY <1>6, <2>1, Zenon
<1>4. ASSUME NEW i \in 1 .. Len(P1)
      PROVE  P1[i] = P[i + n]
  <2>1. CASE i <= Len(B1)
    <3>1. i \in 1 .. Len(B1) /\ i + k \in 1 .. Len(B) /\ Len(A) + (i + k) = i + n
      BY <1>6, <1>7, <2>1
    <3> QED
      BY <1>1, <1>2, <1>7, <2>1, <3>1
  <2>2. CASE ~(i <= Len(B1))
    <3>1. i - Len(B1) \in 1 .. Len(C) /\ Len(A) + Len(B) + (i - Len(B1)) = i + n
      BY <1>3, <2>2
    <3> QED
      BY <1>1, <1>2, <2>2, <3>1
  <2> QED
    BY <2>1, <2>2
<1> HIDE DEF n
<1>5. Rest(P1, P, n)
  BY <1>3, <1>4 DEF Rest
<1> QED
  BY <1>1, <1>2, <1>3, <1>5 DEF n

(* Cells go at the end, or lose what they were. *)
LEMMA ChangedCells ==
  ASSUME NEW A \in Seq(Cells), NEW B \in Seq(Cells), NEW C \in Seq(Cells),
         NEW B1 \in Seq(Cells), NEW C1 \in Seq(Cells),
         Window(B1, B, 0), C1 = <<>> \/ (AsLong(B1, B) /\ C1 = C),
         NEW P, P = A \o B \o C, NEW P1, P1 = A \o B1 \o C1
  PROVE  /\ P \in Seq(Cells) /\ P1 \in Seq(Cells) /\ Window(P1, P, 0)
         /\ AsLong(B1, B) /\ C1 = C => AsLong(P1, P)
<1>1. /\ P \in Seq(Cells) /\ Len(P) = Len(A) + Len(B) + Len(C)
      /\ Len(A) \in Nat /\ Len(B) \in Nat /\ Len(C) \in Nat
      /\ \A i \in 1 .. Len(A) : P[i] = A[i]
      /\ \A i \in 1 .. Len(B) : P[Len(A) + i] = B[i]
      /\ \A i \in 1 .. Len(C) : P[Len(A) + Len(B) + i] = C[i]
  BY PipeCells
<1>2. /\ P1 \in Seq(Cells) /\ Len(P1) = Len(A) + Len(B1) + Len(C1)
      /\ Len(B1) \in Nat /\ Len(C1) \in Nat
      /\ \A i \in 1 .. Len(A) : P1[i] = A[i]
      /\ \A i \in 1 .. Len(B1) : P1[Len(A) + i] = B1[i]
      /\ \A i \in 1 .. Len(C1) : P1[Len(A) + Len(B1) + i] = C1[i]
  BY PipeCells
<1>3. Len(C1) = 0 \/ (C1 = C /\ Len(B1) = Len(B))
  BY EmptySeq DEF AsLong
<1>7. /\ Len(B1) <= Len(B) /\ \A i \in 1 .. Len(B1) : B1[i] = B[i] \/ ~IsCrc(B1[i])
  BY <1>1, <1>2 DEF Window
<1>4. Len(P1) + 0 <= Len(P) /\ (AsLong(B1, B) /\ C1 = C => AsLong(P1, P))
  <2>1. Len(C1) <= Len(C)
    BY <1>1, <1>3
  <2> QED
    BY <1>1, <1>2, <1>7, <2>1 DEF AsLong
<1>5. ASSUME NEW i \in 1 .. Len(P1)
      PROVE  P1[i] = P[i + 0] \/ ~IsCrc(P1[i])
  <2>1. i \in 1 .. Len(A) + Len(B1) + Len(C1) /\ i + 0 = i
    BY <1>2
  <2>2. CASE i <= Len(A)
    <3>1. i \in 1 .. Len(A)
      BY <1>1, <2>2
    <3> QED
      BY <1>1, <1>2, <2>1, <3>1
  <2>3. CASE Len(A) < i /\ i <= Len(A) + Len(B1)
    <3> DEFINE j == i - Len(A)
    <3>1. j \in 1 .. Len(B1) /\ j \in 1 .. Len(B) /\ Len(A) + j = i
      BY <1>1, <1>2, <1>7, <2>3, SMTT(30)
    <3> HIDE DEF j
    <3> QED
      BY <1>1, <1>2, <1>7, <2>1, <3>1
  <2>4. CASE Len(A) + Len(B1) < i
    <3> DEFINE j == i - (Len(A) + Len(B1))
    <3>0. Len(A) \in Nat /\ Len(B1) \in Nat /\ Len(C1) \in Nat
      BY <1>1, <1>2
    <3>1. j \in 1 .. Len(C1) /\ Len(A) + Len(B1) + j = i
      BY <2>1, <2>4, <3>0
    <3> HIDE DEF j
    <3>2. C1 = C /\ Len(B1) = Len(B)
      BY <1>2, <1>3, <3>1
    <3> QED
      BY <1>1, <1>2, <2>1, <3>1, <3>2
  <2>5. i <= Len(A) \/ (Len(A) < i /\ i <= Len(A) + Len(B1)) \/ Len(A) + Len(B1) < i
    <3>1. Len(A) \in Nat /\ Len(B1) \in Nat
      BY <1>1, <1>2
    <3> QED
      BY <3>1
  <2> QED
    BY <2>2, <2>3, <2>4, <2>5
<1>6. Window(P1, P, 0)
  BY <1>4, <1>5 DEF Window
<1> QED
  BY <1>1, <1>2, <1>4, <1>6

(* The same for cells that keep their number. *)
LEMMA ChangedMiddle ==
  ASSUME NEW A \in Seq(Cells), NEW B \in Seq(Cells), NEW C \in Seq(Cells),
         NEW B1 \in Seq(Cells), Window(B1, B, 0), AsLong(B1, B)
  PROVE  /\ Window(A \o B1 \o C, A \o B \o C, 0)
         /\ AsLong(A \o B1 \o C, A \o B \o C)
<1> DEFINE P == A \o B \o C
           P1 == A \o B1 \o C
<1>1. P = A \o B \o C /\ P1 = A \o B1 \o C
  OBVIOUS
<1> HIDE DEF P, P1
<1>2. Window(P1, P, 0) /\ AsLong(P1, P)
  BY <1>1, ChangedCells, ZenonT(90)
<1> QED
  BY <1>1, <1>2

-----------------------------------------------------------------------------
(* The invariant holds *)

(* A step that delivers and sends nothing and makes a window of the cells. *)
LEMMA WindowStep ==
  ASSUME ProtocolInv, ProtocolTypeOK', UNCHANGED <<sent, delivered, persists>>,
         NEW n \in Nat, Window(pipe', pipe, n),
         ~persists /\ listening' =>
           n = 0 /\ listening /\ (alive' => alive /\ AsLong(pipe', pipe))
  PROVE  ProtocolInv'
<1>1. pipe \in Seq(Cells) /\ pipe' \in Seq(Cells)
  BY PipeCells DEF ProtocolInv, ProtocolTypeOK, pipe
<1>2. /\ sent \in Seq(FrameType) /\ delivered \in Seq(FrameType)
      /\ alive \in BOOLEAN /\ alive' \in BOOLEAN
  BY DEF ProtocolInv, ProtocolTypeOK
<1>3. Traced(pipe', sent, delivered)
  BY <1>1, <1>2, TracedWindow DEF ProtocolInv
<1>4. ~persists /\ listening' => InStep(pipe', sent, delivered, alive')
  BY <1>1, <1>2, InStepWindow DEF ProtocolInv
<1>5. Traced(pipe, sent, delivered)'
  BY <1>3
<1>6. (~persists /\ listening => InStep(pipe, sent, delivered, alive))'
  BY <1>4
<1> QED
  BY <1>5, <1>6 DEF ProtocolInv

(* The same cells are a window of themselves. *)
LEMMA SameWindow ==
  ASSUME NEW P \in Seq(Cells)
  PROVE  Window(P, P, 0) /\ AsLong(P, P)
BY DEF Window, AsLong

(* A step that leaves the cells where they are, or moves one on. *)
LEMMA SamePipeStep ==
  ASSUME ProtocolInv, ProtocolTypeOK', UNCHANGED <<sent, delivered, persists>>,
         pipe' = pipe, listening' => listening, alive' => alive
  PROVE  ProtocolInv'
<1>1. pipe \in Seq(Cells)
  BY PipeCells DEF ProtocolInv, ProtocolTypeOK, pipe
<1>2. Window(pipe', pipe, 0) /\ AsLong(pipe', pipe)
  BY <1>1, SameWindow
<1> QED
  BY <1>2, WindowStep

(* sendFrame keeps the invariant. *)
LEMMA SendStep ==
  ASSUME ProtocolInv, NEW b \in Bodies, SendFrame(b)
  PROVE  ProtocolInv'
<1> DEFINE f == Frame(b)
           e == EncodeFrame(f)
           P == pipe
           P1 == pipe'
           S1 == sent'
<1>1. f \in FrameType
  BY FrameTyped
<1>2. /\ sent' = Append(sent, f) /\ outbox' = e /\ outbox = <<>> /\ alive
      /\ UNCHANGED <<alive, stream, damage, persists, listening, buf, claim, delivered>>
  BY DEF SendFrame, readerVars
<1>3. P \in Seq(Cells) /\ buf \o stream \in Seq(Cells)
  BY PipeCells, ConcatProperties DEF ProtocolInv, ProtocolTypeOK, pipe
<1>4. P = buf \o stream
  BY <1>2, <1>3, ConcatEmptySeq DEF pipe
<1>5. P1 = P \o e
  BY <1>2, <1>4 DEF pipe
<1>6. e \in Seq(Cells)
  BY <1>1, <1>3, EncodedCells
<1>7. sent \in Seq(FrameType) /\ delivered \in Seq(FrameType) /\ Traced(P, sent, delivered)
  BY DEF ProtocolInv, ProtocolTypeOK
<1> HIDE DEF f, P, P1, S1
<1>8. S1 = Append(sent, f)
  BY <1>2 DEF S1
<1>9. Traced(P1, S1, delivered)
  BY <1>1, <1>3, <1>5, <1>7, <1>8, TracedSent
<1>10. ~persists /\ listening => InStep(P1, S1, delivered, TRUE)
  <2>1. ~persists /\ listening => InStep(P, sent, delivered, TRUE)
    <3>1. alive = TRUE
      BY <1>2 DEF ProtocolInv, ProtocolTypeOK
    <3> QED
      BY <3>1 DEF ProtocolInv, P
  <2> QED
    BY <1>1, <1>3, <1>5, <1>7, <1>8, <2>1, InStepSent
<1>11. ProtocolTypeOK'
  <2>1. sent' \in Seq(FrameType)
    BY <1>1, <1>2, <1>7, AppendProperties
  <2> HIDE DEF e
  <2> QED
    BY <1>2, <1>6, <2>1 DEF ProtocolInv, ProtocolTypeOK
<1>12. sent' \in Seq(SentFrames)
  <2>1. f \in SentFrames /\ sent \in Seq(SentFrames)
    BY DEF f, ProtocolInv, SentFrames, SendFrame
  <2> QED
    BY <1>2, <2>1, AppendProperties
<1>13. Traced(pipe, sent, delivered)'
  BY <1>2, <1>9 DEF P1, S1
<1>14. (~persists /\ listening => InStep(pipe, sent, delivered, alive))'
  <2>1. alive' = TRUE
    BY <1>2 DEF ProtocolInv, ProtocolTypeOK
  <2> QED
    BY <1>2, <1>10, <2>1 DEF P1, S1
<1> QED
  BY <1>11, <1>12, <1>13, <1>14 DEF ProtocolInv

(* Cells can be grouped either way. *)
LEMMA Regrouped ==
  ASSUME NEW A \in Seq(Cells), NEW B \in Seq(Cells), NEW C \in Seq(Cells)
  PROVE  (A \o B) \o C = A \o (B \o C)
BY ConcatAssociative, SMTT(30)

(* send() moves a cell within the pipe. *)
LEMMA PushStep ==
  ASSUME ProtocolInv, Push
  PROVE  ProtocolInv'
<1>1. /\ buf \in Seq(Cells) /\ stream \in Seq(Cells) /\ outbox \in Seq(Cells)
      /\ outbox # <<>> /\ stream' = Append(stream, Head(outbox)) /\ outbox' = Tail(outbox)
      /\ UNCHANGED <<alive, sent, damage, persists, listening, buf, claim, delivered>>
  BY DEF ProtocolInv, ProtocolTypeOK, Push, readerVars
<1>2. stream' \in Seq(Cells) /\ outbox' \in Seq(Cells) /\ stream' \o outbox' = stream \o outbox
  BY <1>1, MovedCell
<1>3. (buf \o stream') \o outbox' = (buf \o stream) \o outbox
  <2>1. PICK A, B, C, B1, C1 :
          /\ A = buf /\ B = stream /\ C = outbox /\ B1 = stream' /\ C1 = outbox'
    OBVIOUS
  <2>2. /\ A \in Seq(Cells) /\ B \in Seq(Cells) /\ C \in Seq(Cells)
        /\ B1 \in Seq(Cells) /\ C1 \in Seq(Cells) /\ B1 \o C1 = B \o C
    BY <1>1, <1>2, <2>1, Zenon
  <2>3. (A \o B1) \o C1 = (A \o B) \o C
    <3>1. (A \o B) \o C = A \o (B \o C)
      BY <2>2, Regrouped, ZenonT(60)
    <3>2. (A \o B1) \o C1 = A \o (B1 \o C1)
      BY <2>2, Regrouped, ZenonT(60)
    <3> QED
      BY <2>2, <3>1, <3>2, Zenon
  <2> QED
    BY <2>1, <2>3, Zenon
<1>4. pipe' = pipe
  BY <1>1, <1>3 DEF pipe
<1>5. ProtocolTypeOK'
  BY <1>1, <1>2 DEF ProtocolInv, ProtocolTypeOK
<1> QED
  BY <1>1, <1>4, <1>5, SamePipeStep

(* The sender goes, with what it has not sent and perhaps with more. *)
LEMMA DieStep ==
  ASSUME ProtocolInv, PushFails \/ Die
  PROVE  ProtocolInv'
<1>1. /\ buf \in Seq(Cells) /\ stream \in Seq(Cells) /\ outbox \in Seq(Cells)
      /\ alive' = FALSE /\ outbox' = <<>>
      /\ UNCHANGED <<sent, damage, persists, listening, buf, claim, delivered>>
  BY DEF ProtocolInv, ProtocolTypeOK, PushFails, Die, readerVars
<1>2. stream' \in Seq(Cells) /\ Window(stream', stream, 0)
  <2>1. CASE PushFails
    <3>1. stream' = stream /\ Len(stream) \in Nat
      BY <1>1, <2>1 DEF PushFails
    <3> QED
      BY <1>1, <3>1, SameWindow
  <2>2. CASE Die
    <3>1. PICK n \in 0 .. Len(stream) : stream' = SubSeq(stream, 1, n)
      BY <2>2 DEF Die
    <3>2. Len(stream) \in Nat /\ \A i \in 1 .. n : stream[i] \in Cells
      BY <1>1
    <3>3. /\ SubSeq(stream, 1, n) \in Seq(Cells) /\ Len(SubSeq(stream, 1, n)) = n
          /\ \A i \in 1 .. n : SubSeq(stream, 1, n)[i] = stream[i]
      BY <1>1, <3>2
    <3> QED
      BY <3>1, <3>2, <3>3 DEF Window
  <2> QED
    BY <2>1, <2>2
<1>3. <<>> \in Seq(Cells)
  OBVIOUS
<1>4. pipe = buf \o stream \o outbox /\ pipe' = buf \o stream' \o <<>>
  BY <1>1 DEF pipe
<1>5. Window(pipe', pipe, 0)
  BY <1>1, <1>2, <1>3, <1>4, ChangedCells, ZenonT(90)
<1>6. ProtocolTypeOK'
  BY <1>1, <1>2, <1>3 DEF ProtocolInv, ProtocolTypeOK
<1> QED
  BY <1>1, <1>5, <1>6, WindowStep

(* A damaged cell is no checksum. *)
LEMMA DamageStep ==
  ASSUME ProtocolInv, Damage
  PROVE  ProtocolInv'
<1>1. /\ buf \in Seq(Cells) /\ stream \in Seq(Cells) /\ outbox \in Seq(Cells)
      /\ damage' \in Nat
      /\ UNCHANGED <<alive, sent, outbox, persists, listening, buf, claim, delivered>>
  BY DEF ProtocolInv, ProtocolTypeOK, Damage, senderVars, readerVars
<1>2. PICK i \in 1 .. Len(stream) : \E cell \in Damaged(stream[i]) :
        stream' = [stream EXCEPT ![i] = cell]
  BY DEF Damage
<1>3. PICK cell \in Damaged(stream[i]) : stream' = [stream EXCEPT ![i] = cell]
  BY <1>2
<1>4. cell \in Cells /\ ~IsCrc(cell)
  <2>1. CASE stream[i][1] = "head"
    <3>1. PICK t \in MessageTypes \cup {NoType}, n \in 0 .. MaxFramePayload + 1 :
            cell = <<"head", t, n>>
      BY <2>1 DEF Damaged
    <3>2. n \in Nat
      BY ProtocolAssumption
    <3>3. cell \in Plain
      BY <3>1, <3>2 DEF Plain
    <3> QED
      BY <3>3, CellKinds DEF Cells
  <2>2. CASE stream[i][1] # "head"
    BY <2>2 DEF Damaged, Noise, IsCrc, Cells, Plain
  <2> QED
    BY <2>1, <2>2
<1>5. /\ stream' \in Seq(Cells) /\ Len(stream') = Len(stream)
      /\ \A j \in 1 .. Len(stream) : stream'[j] = IF j = i THEN cell ELSE stream[j]
  BY <1>1, <1>3, <1>4, ExceptSeq
<1>6. Window(stream', stream, 0) /\ AsLong(stream', stream)
  <2>1. Len(stream) \in Nat /\ \A j \in 1 .. Len(stream) : j + 0 = j
    BY <1>1
  <2> QED
    BY <1>4, <1>5, <2>1 DEF Window, AsLong
<1>7. pipe = buf \o stream \o outbox /\ pipe' = buf \o stream' \o outbox
  BY <1>1 DEF pipe
<1>8. Window(pipe', pipe, 0) /\ AsLong(pipe', pipe)
  <2>1. /\ buf \in Seq(Cells) /\ stream \in Seq(Cells) /\ outbox \in Seq(Cells)
        /\ stream' \in Seq(Cells)
    BY <1>1, <1>5
  <2>2. /\ Window(buf \o stream' \o outbox, buf \o stream \o outbox, 0)
        /\ AsLong(buf \o stream' \o outbox, buf \o stream \o outbox)
    BY <1>6, <2>1, ChangedMiddle
  <2> QED
    BY <1>7, <2>2
<1>9. ProtocolTypeOK'
  BY <1>1, <1>5 DEF ProtocolInv, ProtocolTypeOK
<1> QED
  BY <1>1, <1>8, <1>9, WindowStep

(* recvFrame takes one cell more. *)
LEMMA TakeStep ==
  ASSUME ProtocolInv, stream # <<>>, stream' = Tail(stream), buf' = Append(buf, Head(stream)),
         claim' \in Nat, UNCHANGED <<senderVars, damage, persists, listening, delivered>>
  PROVE  ProtocolInv'
<1>1. /\ buf \in Seq(Cells) /\ stream \in Seq(Cells)
      /\ UNCHANGED <<alive, sent, outbox, damage, persists, listening, delivered>>
  BY DEF ProtocolInv, ProtocolTypeOK, senderVars
<1>2. buf' \in Seq(Cells) /\ stream' \in Seq(Cells) /\ buf' \o stream' = buf \o stream
  BY <1>1, MovedCell
<1>3. pipe' = pipe
  BY <1>1, <1>2 DEF pipe
<1>4. ProtocolTypeOK'
  BY <1>1, <1>2 DEF ProtocolInv, ProtocolTypeOK
<1> QED
  BY <1>1, <1>3, <1>4, SamePipeStep

(* recvFrame gives up, with what it has and k cells more. *)
LEMMA RefuseStep ==
  ASSUME ProtocolInv, NEW k \in Nat, buf' = <<>>, stream' \in Seq(Cells),
         Rest(stream', stream, k),
         claim' \in Nat, listening' \in BOOLEAN, ~persists => ~listening',
         UNCHANGED <<senderVars, damage, persists, delivered>>
  PROVE  ProtocolInv'
<1>1. /\ buf \in Seq(Cells) /\ stream \in Seq(Cells) /\ outbox \in Seq(Cells)
      /\ UNCHANGED <<alive, sent, outbox, damage, persists, delivered>>
  BY DEF ProtocolInv, ProtocolTypeOK, senderVars
<1>2. pipe = buf \o stream \o outbox /\ pipe' = <<>> \o stream' \o outbox
  BY <1>1 DEF pipe
<1>3. Len(buf) + k \in Nat /\ Window(pipe', pipe, Len(buf) + k)
  BY <1>1, <1>2, DroppedCells, RestIsWindow, ZenonT(60)
<1>4. ProtocolTypeOK'
  <2>1. <<>> \in Seq(Cells)
    OBVIOUS
  <2> QED
    BY <1>1, <2>1 DEF ProtocolInv, ProtocolTypeOK
<1> QED
  BY <1>1, <1>3, <1>4, WindowStep

(* recvFrame takes a cell, or refuses what it has. *)
LEMMA RecvStep ==
  ASSUME ProtocolInv, RecvHeader \/ RecvRest
  PROVE  ProtocolInv'
<1>1. /\ buf \in Seq(Cells) /\ stream \in Seq(Cells) /\ claim \in Nat /\ persists \in BOOLEAN
  BY DEF ProtocolInv, ProtocolTypeOK
<1>2. /\ stream # <<>> /\ stream' = Tail(stream) /\ listening
      /\ UNCHANGED <<senderVars, damage, persists, delivered>>
  BY DEF RecvHeader, RecvRest
<1>3. CASE RecvRest
  BY <1>1, <1>2, <1>3, TakeStep DEF RecvRest
<1>4. CASE RecvHeader
  <2>1. ASSUME NEW n \in Claims(Head(stream))
        PROVE  n \in Nat
    <3>1. Head(stream) \in Cells
      BY <1>1, <1>2, HeadTailProperties
    <3> QED
      BY <3>1, CellKinds, ProtocolAssumption DEF Claims
  <2>2. CASE buf' = Append(buf, Head(stream)) /\ UNCHANGED <<claim, listening>>
    BY <1>1, <1>2, <2>2, TakeStep
  <2>3. ASSUME NEW n \in Claims(Head(stream)), claim' = n,
               buf' = Append(buf, Head(stream)), UNCHANGED listening
        PROVE  ProtocolInv'
    BY <1>1, <1>2, <2>1, <2>3, TakeStep
  <2>4. ASSUME NEW n \in Claims(Head(stream)), claim' = n, Refuse
        PROVE  ProtocolInv'
    <3>1. /\ Tail(stream) \in Seq(Cells) /\ Len(Tail(stream)) = Len(stream) - 1
          /\ \A i \in 1 .. Len(Tail(stream)) : Tail(stream)[i] = stream[i + 1]
      BY <1>1, <1>2, HeadTailProperties
    <3>2. Len(stream) \in Nat
      BY <1>1
    <3>3. Rest(Tail(stream), stream, 1)
      BY <3>1, <3>2 DEF Rest
    <3>4. buf' = <<>> /\ listening' \in BOOLEAN /\ (~persists => ~listening')
      BY <1>1, <2>4 DEF Refuse
    <3> QED
      BY <1>1, <1>2, <2>1, <2>4, <3>1, <3>3, <3>4, RefuseStep
  <2> QED
    BY <1>4, <2>2, <2>3, <2>4 DEF RecvHeader
<1> QED
  BY <1>3, <1>4

(* The pipe holds cells. *)
LEMMA PipeType ==
  ASSUME ProtocolInv
  PROVE  /\ pipe \in Seq(Cells) /\ Len(pipe) = Len(buf) + Len(stream) + Len(outbox)
         /\ Len(buf) \in Nat /\ Len(stream) \in Nat /\ Len(outbox) \in Nat
         /\ \A i \in 1 .. Len(buf) : pipe[i] = buf[i]
<1>1. buf \in Seq(Cells) /\ stream \in Seq(Cells) /\ outbox \in Seq(Cells)
  BY DEF ProtocolInv, ProtocolTypeOK
<1> QED
  BY <1>1, PipeCells DEF pipe

(* What decodeFrame accepts is one frame that was sent, whole. *)
LEMMA AcceptedFrame ==
  ASSUME ProtocolInv, Len(buf) = HeaderSize + claim + CrcSize, DecodeFrame(buf, claim) = "OK"
  PROVE  Decodes(pipe, Len(buf), Decoded(buf, claim))
<1> DEFINE t == Len(buf)
           P == pipe
           c == SubSeq(buf, 1, t - 1)
<1>1. /\ buf \in Seq(Cells) /\ stream \in Seq(Cells) /\ outbox \in Seq(Cells) /\ claim \in Nat
      /\ t = claim + 3 /\ t \in Nat
  BY DEF ProtocolInv, ProtocolTypeOK, HeaderSize, CrcSize
<1>2. buf[t] = Crc(c)
  BY <1>1 DEF DecodeFrame, HeaderSize, CrcSize
<1>3. /\ P \in Seq(Cells) /\ Len(P) = t + Len(stream) + Len(outbox)
      /\ Len(stream) \in Nat /\ Len(outbox) \in Nat
      /\ \A i \in 1 .. t : P[i] = buf[i]
  BY PipeType
<1>4. /\ c \in Seq(Cells) /\ Len(c) = t - 1 /\ \A i \in 1 .. t - 1 : c[i] = buf[i]
  BY <1>1
<1> HIDE DEF P, t
<1>5. t \in 1 .. Len(P) /\ t \in 1 .. t
  BY <1>1, <1>3
<1>6. SubSeq(P, 1, t - 1) = c
  <2> DEFINE d == SubSeq(P, 1, t - 1)
  <2>1. d \in Seq(Cells) /\ Len(d) = t - 1 /\ \A i \in 1 .. t - 1 : d[i] = P[i]
    <3>1. t - 1 \in Nat /\ t - 1 <= Len(P) /\ \A i \in 1 .. t - 1 : i \in 1 .. Len(P)
      BY <1>1, <1>5
    <3> QED
      BY <1>3, <3>1
  <2>2. \A i \in 1 .. t - 1 : P[i] = buf[i]
    BY <1>1, <1>3
  <2> HIDE DEF c, d
  <2>3. Len(d) = Len(c) /\ \A i \in 1 .. Len(d) : d[i] = c[i]
    BY <1>4, <2>1, <2>2
  <2>4. d = c
    BY <1>4, <2>1, <2>3, SeqEqual
  <2> QED
    BY <2>4 DEF d
<1>7. ASSUME NEW g \in FrameType, Covered(g) = c
      PROVE  Decoded(buf, claim) = g
  <2>1. /\ Len(g.payload) \in Nat /\ Len(c) = 2 + Len(g.payload)
        /\ c[2] = <<"head", g.type, Len(g.payload)>>
        /\ \A i \in 1 .. Len(g.payload) : c[2 + i] = <<"byte", g.payload[i]>>
    BY <1>7, CoveredCells DEF HeaderSize
  <2> HIDE DEF c
  <2>2. claim = Len(g.payload)
    BY <1>1, <1>4, <2>1
  <2>3. buf[2][2] = g.type
    <3>1. 2 \in 1 .. t - 1
      BY <1>1
    <3>2. buf[2] = <<"head", g.type, Len(g.payload)>>
      BY <1>4, <2>1, <3>1
    <3> QED
      BY <3>2
  <2>4. ASSUME NEW i \in 1 .. claim
        PROVE  buf[HeaderSize + i][2] = g.payload[i]
    <3>1. 2 + i \in 1 .. t - 1 /\ i \in 1 .. Len(g.payload)
      BY <1>1, <2>2
    <3>2. buf[2 + i] = <<"byte", g.payload[i]>>
      BY <1>4, <2>1, <3>1
    <3> QED
      BY <3>2 DEF HeaderSize
  <2>5. g.payload = [i \in 1 .. claim |-> g.payload[i]]
    BY <2>2, LenProperties DEF FrameType
  <2>6. [i \in 1 .. claim |-> buf[HeaderSize + i][2]] = g.payload
    BY <2>4, <2>5
  <2>7. g = [type |-> g.type, payload |-> g.payload]
    BY DEF FrameType
  <2> QED
    BY <2>3, <2>6, <2>7 DEF Decoded
<1>8. P[t] = Crc(SubSeq(P, 1, t - 1))
  BY <1>2, <1>3, <1>5, <1>6
<1>9. Decodes(P, t, Decoded(buf, claim))
  BY <1>5, <1>6, <1>7, <1>8 DEF Decodes
<1> QED
  BY <1>9 DEF P, t

(* Nothing taken away leaves all. *)
LEMMA WholeIsRest ==
  ASSUME NEW P \in Seq(Cells)
  PROVE  Rest(P, P, 0)
BY DEF Rest

(* A frame that is taken from the pipe leaves the rest of it. *)
LEMMA LeftOfPipe ==
  ASSUME NEW A \in Seq(Cells), NEW B \in Seq(Cells), NEW C \in Seq(Cells)
  PROVE  /\ A \o B \o C \in Seq(Cells) /\ <<>> \o B \o C \in Seq(Cells)
         /\ Rest(<<>> \o B \o C, A \o B \o C, Len(A) + 0)
<1>1. 0 \in Nat /\ Rest(B, B, 0)
  BY WholeIsRest
<1> QED
  BY <1>1, DroppedCells

(* decodeFrame delivers a frame, or refuses what it has. *)
LEMMA DecodeStep ==
  ASSUME ProtocolInv, Decode
  PROVE  ProtocolInv'
<1>1. /\ buf \in Seq(Cells) /\ stream \in Seq(Cells) /\ outbox \in Seq(Cells) /\ claim \in Nat
      /\ persists \in BOOLEAN /\ Len(stream) \in Nat
      /\ sent \in Seq(FrameType) /\ delivered \in Seq(FrameType)
  BY DEF ProtocolInv, ProtocolTypeOK
<1>2. /\ buf' = <<>> /\ Len(buf) = HeaderSize + claim + CrcSize
      /\ UNCHANGED <<alive, sent, outbox, stream, damage, persists, claim>>
  BY DEF Decode, Refuse, senderVars
<1>3. CASE Refuse /\ UNCHANGED delivered
  <2>1. stream' \in Seq(Cells) /\ Rest(stream', stream, 0)
    BY <1>1, <1>2, WholeIsRest
  <2>2. listening' \in BOOLEAN /\ (~persists => ~listening')
    BY <1>1, <1>3 DEF Refuse
  <2> QED
    BY <1>1, <1>2, <1>3, <2>1, <2>2, RefuseStep DEF senderVars
<1>4. ASSUME DecodeFrame(buf, claim) = "OK",
             delivered' = Append(delivered, Decoded(buf, claim)), UNCHANGED listening
      PROVE  ProtocolInv'
  <2> DEFINE f == Decoded(buf, claim)
             t == Len(buf)
             P == pipe
             P1 == pipe'
             D1 == delivered'
  <2>1. Decodes(P, t, f)
    BY <1>2, <1>4, AcceptedFrame
  <2>2. P = buf \o stream \o outbox /\ P1 = <<>> \o stream \o outbox /\ D1 = Append(delivered, f)
    BY <1>2, <1>4 DEF pipe
  <2>3. Traced(P, sent, delivered)
    BY DEF ProtocolInv
  <2> HIDE DEF P, P1, D1, f
  <2>4. P \in Seq(Cells) /\ P1 \in Seq(Cells) /\ t \in Nat /\ Rest(P1, P, t)
    <3>1. t \in Nat /\ t + 0 = t /\ 0 \in Nat
      BY <1>1
    <3>3. P \in Seq(Cells) /\ P1 \in Seq(Cells) /\ Rest(P1, P, t + 0)
      BY <1>1, <2>2, LeftOfPipe
    <3> QED
      BY <3>1, <3>3
  <2>5. f \in FrameType
    <3>1. PICK lab : Labels(P, sent, lab)
      BY <2>3 DEF Traced
    <3> QED
      BY <1>1, <2>1, <2>4, <3>1, DecodesSent
  <2>6. Traced(P1, sent, D1)
    BY <1>1, <2>1, <2>2, <2>3, <2>4, TracedDelivered
  <2>7. ~persists /\ listening => InStep(P1, sent, D1, alive)
    <3>1. ~persists /\ listening => InStep(P, sent, delivered, alive)
      BY DEF ProtocolInv, P
    <3>2. alive \in BOOLEAN
      BY DEF ProtocolInv, ProtocolTypeOK
    <3> QED
      BY <1>1, <2>1, <2>2, <2>4, <3>1, <3>2, InStepDelivered
  <2>8. ProtocolTypeOK'
    <3>1. delivered' \in Seq(FrameType)
      BY <1>1, <2>2, <2>5, AppendProperties DEF D1
    <3>2. <<>> \in Seq(Cells)
      OBVIOUS
    <3> QED
      BY <1>2, <1>4, <3>1, <3>2 DEF ProtocolInv, ProtocolTypeOK
  <2>9. Traced(pipe, sent, delivered)'
    BY <1>2, <2>6 DEF P1, D1
  <2>10. (~persists /\ listening => InStep(pipe, sent, delivered, alive))'
    BY <1>2, <1>4, <2>7 DEF P1, D1
  <2> QED
    BY <1>2, <2>8, <2>9, <2>10 DEF ProtocolInv
<1> QED
  BY <1>3, <1>4 DEF Decode

(* A reader that leaves drops the part of a frame that has arrived. *)
LEMMA LeaveStep ==
  ASSUME ProtocolInv, PeerClosed \/ Leave
  PROVE  ProtocolInv'
<1>1. /\ stream \in Seq(Cells) /\ Len(stream) \in Nat /\ claim \in Nat
      /\ buf' = <<>> /\ listening' = FALSE /\ stream' = stream /\ claim' = claim
      /\ UNCHANGED <<senderVars, damage, persists, delivered>>
  BY DEF ProtocolInv, ProtocolTypeOK, PeerClosed, Leave
<1>2. stream' \in Seq(Cells) /\ Rest(stream', stream, 0)
  BY <1>1, WholeIsRest
<1> QED
  BY <1>1, <1>2, RefuseStep

(* The invariant holds at first, *)
LEMMA ProtocolInvInit == Init => ProtocolInv
<1> SUFFICES ASSUME Init PROVE ProtocolInv
  OBVIOUS
<1>1. <<>> \in Seq(Cells) /\ <<>> \in Seq(FrameType) /\ <<>> \in Seq(SentFrames)
  OBVIOUS
<1>2. ProtocolTypeOK
  BY <1>1 DEF Init, ProtocolTypeOK
<1>3. pipe = <<>> /\ sent = <<>> /\ delivered = <<>>
  BY <1>1, ConcatEmptySeq DEF Init, pipe
<1> DEFINE none == [i \in 1 .. 0 |-> 1]
<1>4. none \in [1 .. Len(<<>>) -> 1 .. Len(<<>>)] /\ Len(<<>>) = 0
  OBVIOUS
<1> HIDE DEF none
<1>5. Labels(<<>>, <<>>, none)
  BY <1>4 DEF Labels
<1>6. Traced(<<>>, <<>>, <<>>)
  <2>1. Places(<<>>, <<>>, none) /\ Before(<<>>, none, <<>>, none)
    BY <1>4 DEF Places, Before
  <2> QED
    BY <1>4, <1>5, <2>1 DEF Traced
<1>7. InStep(<<>>, <<>>, <<>>, TRUE)
  <2>1. Aligned(<<>>, <<>>, none, Len(<<>>), TRUE)
    BY <1>4 DEF Aligned
  <2>2. \E lab \in [1 .. Len(<<>>) -> 1 .. Len(<<>>)] :
          Labels(<<>>, <<>>, lab) /\ Aligned(<<>>, <<>>, lab, Len(<<>>), TRUE)
    BY <1>4, <1>5, <2>1
  <2>3. Len(<<>>) <= Len(<<>>) /\ \A i \in 1 .. Len(<<>>) : <<>>[i] = <<>>[i]
    BY <1>4
  <2> QED
    BY <2>2, <2>3, Zenon DEF InStep
<1>8. alive = TRUE
  BY DEF Init
<1> QED
  BY <1>1, <1>2, <1>3, <1>6, <1>7, <1>8 DEF ProtocolInv

(* and every step keeps it. *)
LEMMA ProtocolInvStep == ProtocolInv /\ [Next]_vars => ProtocolInv'
<1> SUFFICES ASSUME ProtocolInv, [Next]_vars PROVE ProtocolInv'
  OBVIOUS
<1>1. CASE UNCHANGED vars
  <2>1. UNCHANGED <<alive, sent, outbox, stream, damage, persists, listening, buf, claim, delivered>>
    BY <1>1 DEF vars, senderVars, readerVars
  <2>2. ProtocolTypeOK' /\ pipe' = pipe
    BY <2>1 DEF ProtocolInv, ProtocolTypeOK, pipe
  <2> QED
    BY <2>1, <2>2, SamePipeStep
<1>2. ASSUME NEW b \in Bodies, SendFrame(b) PROVE ProtocolInv'
  BY <1>2, SendStep
<1>3. ASSUME NEW b \in Bodies, SendTooLarge(b) PROVE ProtocolInv'
  <2>1. /\ alive' = FALSE
        /\ UNCHANGED <<sent, outbox, stream, damage, persists, listening, buf, claim, delivered>>
    BY <1>3 DEF SendTooLarge, readerVars
  <2>2. ProtocolTypeOK' /\ pipe' = pipe
    BY <2>1 DEF ProtocolInv, ProtocolTypeOK, pipe
  <2> QED
    BY <2>1, <2>2, SamePipeStep
<1>4. CASE Push
  BY <1>4, PushStep
<1>5. CASE PushFails \/ Die
  BY <1>5, DieStep
<1>6. CASE Damage
  BY <1>6, DamageStep
<1>7. CASE RecvHeader \/ RecvRest
  BY <1>7, RecvStep
<1>8. CASE Decode
  BY <1>8, DecodeStep
<1>9. CASE PeerClosed \/ Leave
  BY <1>9, LeaveStep
<1> QED
  BY <1>1, <1>2, <1>3, <1>4, <1>5, <1>6, <1>7, <1>8, <1>9 DEF Next, SenderStep, ReaderStep

(* The inductive invariant holds in every behaviour. *)
THEOREM ProtocolInvariant == Spec => []ProtocolInv
BY ProtocolInvInit, ProtocolInvStep, PTL DEF Spec

-----------------------------------------------------------------------------
(* What the channel promises *)

(* Only what was sent is delivered. *)
LEMMA OnlySentFrames ==
  ASSUME NEW P, NEW S \in Seq(SentFrames), NEW D \in Seq(FrameType), Traced(P, S, D)
  PROVE  \A i \in 1 .. Len(D) : D[i] \in SentFrames
<1>1. PICK at : Places(D, S, at)
  BY DEF Traced
<1>2. ASSUME NEW i \in 1 .. Len(D)
      PROVE  D[i] \in SentFrames
  <2>1. at[i] \in 1 .. Len(S) /\ D[i] = S[at[i]]
    BY <1>1 DEF Places
  <2> QED
    BY <2>1
<1> QED
  BY <1>2

(* What is delivered is what was sent, with gaps. *)
LEMMA TracedWithGaps ==
  ASSUME NEW P, NEW S, NEW D, Traced(P, S, D)
  PROVE  Chan!WithGaps(D, S)
<1>1. PICK at \in [1 .. Len(D) -> 1 .. Len(S)] : Places(D, S, at)
  BY DEF Traced
<1> QED
  BY <1>1 DEF Places, Chan!WithGaps

(* For a reader that leaves at an error there are no gaps. *)
LEMMA InStepPrefix ==
  ASSUME NEW P, NEW S \in Seq(FrameType), NEW D \in Seq(FrameType), NEW al, InStep(P, S, D, al)
  PROVE  Chan!IsPrefix(D, S)
<1>1. Len(D) \in Nat /\ Len(S) \in Nat /\ Len(D) <= Len(S) /\ \A i \in 1 .. Len(D) : D[i] = S[i]
  BY DEF InStep
<1>2. SubSeq(D, 1, Len(D)) = SubSeq(S, 1, Len(D))
  <2>1. /\ SubSeq(D, 1, Len(D)) = [i \in 1 .. Len(D) |-> D[i]]
        /\ SubSeq(S, 1, Len(D)) = [i \in 1 .. Len(D) |-> S[i]]
    BY <1>1
  <2> QED
    BY <1>1, <2>1
<1> QED
  BY <1>1, <1>2 DEF Chan!IsPrefix

(* A step of the protocol is a Send, a Deliver or none of the channel. *)
LEMMA ChannelStep ==
  ProtocolInv /\ ProtocolInv' /\ [Next]_vars => [Chan!Next]_<<sent, delivered, persists>>
<1> DEFINE C == <<sent, delivered, persists>>
<1> SUFFICES ASSUME ProtocolInv, ProtocolInv', [Next]_vars
             PROVE  Chan!Next \/ C' = C
  OBVIOUS
<1>1. CASE UNCHANGED vars
  BY <1>1 DEF vars, senderVars, readerVars
<1>2. ASSUME NEW b \in Bodies, SendFrame(b) PROVE Chan!Next
  <2>1. Chan!Send(Frame(b))
    BY <1>2 DEF SendFrame, Chan!Send, readerVars
  <2> QED
    BY <2>1 DEF Chan!Next
<1>3. CASE \E b \in Bodies : SendTooLarge(b)
  BY <1>3 DEF SendTooLarge, readerVars
<1>4. CASE SenderStep \/ Die
  BY <1>4 DEF SenderStep, Push, PushFails, Die, readerVars
<1>5. CASE Damage
  BY <1>5 DEF Damage, senderVars, readerVars
<1>6. CASE RecvHeader \/ RecvRest \/ PeerClosed \/ Leave
  BY <1>6 DEF RecvHeader, RecvRest, PeerClosed, Leave, senderVars
<1>7. CASE Decode
  <2>1. /\ UNCHANGED <<sent, persists>>
        /\ \/ UNCHANGED delivered
           \/ listening' /\ delivered' = Append(delivered, Decoded(buf, claim))
    BY <1>7 DEF Decode, senderVars
  <2>2. ASSUME listening', delivered' = Append(delivered, Decoded(buf, claim)) PROVE Chan!Next
    <3> DEFINE f == Decoded(buf, claim)
    <3>1. /\ sent' \in Seq(SentFrames) /\ sent' \in Seq(FrameType) /\ delivered' \in Seq(FrameType)
          /\ delivered \in Seq(FrameType) /\ Traced(pipe', sent', delivered')
          /\ ~persists' /\ listening' => InStep(pipe', sent', delivered', alive')
      BY DEF ProtocolInv, ProtocolTypeOK
    <3> HIDE DEF f
    <3>2. f \in {Frame(b) : b \in Bodies}
      <4>1. Len(delivered') = Len(delivered) + 1 /\ delivered'[Len(delivered) + 1] = f
            /\ Len(delivered) \in Nat
        BY <2>2, <3>1 DEF f
      <4>2. Len(delivered) + 1 \in 1 .. Len(delivered')
        BY <4>1
      <4>3. f \in SentFrames
        BY <3>1, <4>1, <4>2, OnlySentFrames
      <4> QED
        BY <4>3 DEF SentFrames
    <3>3. IF persists THEN Chan!WithGaps(delivered', sent) ELSE Chan!IsPrefix(delivered', sent)
      <4>1. sent' = sent /\ persists' = persists
        BY <2>1
      <4>2. Chan!WithGaps(delivered', sent')
        BY <3>1, TracedWithGaps
      <4>3. ~persists => Chan!IsPrefix(delivered', sent')
        BY <2>2, <3>1, <4>1, InStepPrefix
      <4> QED
        BY <4>1, <4>2, <4>3
    <3>4. Chan!Deliver(f)
      BY <2>1, <2>2, <3>3 DEF Chan!Deliver, f
    <3> QED
      BY <3>2, <3>4 DEF Chan!Next
  <2> QED
    BY <2>1, <2>2
<1> QED
  BY <1>1, <1>2, <1>3, <1>4, <1>5, <1>6, <1>7 DEF Next, ReaderStep

(* However the bytes of frames are cut up, damaged or lost with their sender,  *)
(* and from wherever a reader that persists reads on, recvFrame returns only   *)
(* frames that were sent, in order and once.                                   *)
THEOREM ChannelRefined == Spec => ImplementsChannel
<1>1. Init => Chan!Init
  BY DEF Init, Chan!Init
<1> QED
  BY <1>1, ProtocolInvariant, ChannelStep, PTL DEF Spec, ImplementsChannel, Chan!Spec

-----------------------------------------------------------------------------
(* FoldLeft goes through a sequence from its first element to its last.  It is *)
(* defined by recursion on the sets of indices, taking the greatest away.      *)

(* The greatest of some indices up to k + 1 that k + 1 is one of. *)
LEMMA MaxUpto ==
  ASSUME NEW k \in Nat, NEW s \in SUBSET (1 .. k + 1), k + 1 \in s
  PROVE  Max(s) = k + 1 /\ s \ {k + 1} \in SUBSET (1 .. k)
<1>1. \A y \in s : k + 1 >= y
  OBVIOUS
<1>2. \A x \in s : (\A y \in s : x >= y) => x = k + 1
  OBVIOUS
<1>3. Max(s) = k + 1
  BY <1>1, <1>2 DEF Max
<1>4. s \ {k + 1} \in SUBSET (1 .. k)
  OBVIOUS
<1> QED
  BY <1>3, <1>4

(* g folds F over the indices up to N, from base on. *)
Folds(g, N, base, F) ==
  \A s \in SUBSET (1 .. N) :
    g[s] = IF s = {} THEN base ELSE F[<<g[s \ {Max(s)}], Max(s)>>]

(* There is such a function. *)
LEMMA FoldExists ==
  ASSUME NEW N \in Nat, NEW X, NEW base \in X, NEW F \in [X \X (1 .. N) -> X]
  PROVE  \E g \in [SUBSET (1 .. N) -> X] : Folds(g, N, base, F)
<1> DEFINE Upto(g, k) == \A s \in SUBSET (1 .. k) :
             g[s] = IF s = {} THEN base ELSE F[<<g[s \ {Max(s)}], Max(s)>>]
           G == {k \in Nat : k <= N => \E g \in [SUBSET (1 .. k) -> X] : Upto(g, k)}
<1>1. 0 \in G
  <2> DEFINE g == [s \in SUBSET (1 .. 0) |-> base]
  <2>1. g \in [SUBSET (1 .. 0) -> X] /\ \A s \in SUBSET (1 .. 0) : s = {} /\ g[s] = base
    OBVIOUS
  <2>2. Upto(g, 0)
    BY <2>1
  <2> HIDE DEF Upto
  <2> QED
    BY <2>1, <2>2
<1>2. ASSUME NEW k \in Nat, k \in G
      PROVE  k + 1 \in G
  <2> SUFFICES ASSUME k + 1 <= N
               PROVE  \E g \in [SUBSET (1 .. k + 1) -> X] : Upto(g, k + 1)
    <3>1. k + 1 \in Nat
      OBVIOUS
    <3> HIDE DEF Upto
    <3> QED
      BY <3>1, Zenon
  <2>1. PICK h \in [SUBSET (1 .. k) -> X] : Upto(h, k)
    <3>1. k <= N
      OBVIOUS
    <3> HIDE DEF Upto
    <3> QED
      BY <1>2, <3>1
  <2> DEFINE g == [s \in SUBSET (1 .. k + 1) |->
                     IF k + 1 \in s THEN F[<<h[s \ {k + 1}], k + 1>>] ELSE h[s]]
  <2>2. ASSUME NEW s \in SUBSET (1 .. k + 1)
        PROVE  /\ (IF k + 1 \in s THEN F[<<h[s \ {k + 1}], k + 1>>] ELSE h[s]) \in X
               /\ k + 1 \notin s => s \in SUBSET (1 .. k)
    <3>1. k + 1 \notin s => s \in SUBSET (1 .. k)
      OBVIOUS
    <3>2. CASE k + 1 \in s
      <4>1. s \ {k + 1} \in SUBSET (1 .. k)
        BY <3>2, MaxUpto
      <4>2. h[s \ {k + 1}] \in X /\ k + 1 \in 1 .. N
        BY <4>1
      <4> QED
        BY <3>2, <4>2
    <3>3. CASE k + 1 \notin s
      BY <3>1, <3>3
    <3> QED
      BY <3>1, <3>2, <3>3
  <2>3. g \in [SUBSET (1 .. k + 1) -> X]
    BY <2>2
  <2>4. \A s \in SUBSET (1 .. k) : s \in SUBSET (1 .. k + 1) /\ k + 1 \notin s
    OBVIOUS
  <2>5. \A s \in SUBSET (1 .. k) : g[s] = h[s]
    BY <2>4
  <2>6. \A s \in SUBSET (1 .. k + 1) : k + 1 \in s => g[s] = F[<<h[s \ {k + 1}], k + 1>>]
    OBVIOUS
  <2> HIDE DEF g
  <2>7. ASSUME NEW s \in SUBSET (1 .. k + 1)
        PROVE  g[s] = IF s = {} THEN base ELSE F[<<g[s \ {Max(s)}], Max(s)>>]
    <3>1. CASE k + 1 \in s
      <4>1. Max(s) = k + 1 /\ s \ {k + 1} \in SUBSET (1 .. k)
        BY <3>1, MaxUpto
      <4>2. s # {} /\ g[s \ {k + 1}] = h[s \ {k + 1}]
        BY <2>5, <3>1, <4>1
      <4> QED
        BY <2>6, <3>1, <4>1, <4>2
    <3>2. CASE k + 1 \notin s
      <4>1. s \in SUBSET (1 .. k)
        BY <2>2, <3>2
      <4>2. s \ {Max(s)} \in SUBSET (1 .. k)
        BY <4>1
      <4>3. g[s] = h[s] /\ g[s \ {Max(s)}] = h[s \ {Max(s)}]
        BY <2>5, <4>1, <4>2
      <4> QED
        BY <2>1, <4>1, <4>3
    <3> QED
      BY <3>1, <3>2
  <2>8. Upto(g, k + 1)
    BY <2>7
  <2> HIDE DEF Upto
  <2> QED
    BY <2>3, <2>8
<1> HIDE DEF G
<1>3. N \in G /\ N <= N
  BY <1>1, <1>2, SetInduction
<1>4. PICK g \in [SUBSET (1 .. N) -> X] : Upto(g, N)
  <2> HIDE DEF Upto
  <2> QED
    BY <1>3 DEF G
<1>5. Folds(g, N, base, F)
  BY <1>4 DEF Folds
<1> QED
  BY <1>5

(* The greatest of all indices up to k + 1. *)
LEMMA RangeStep ==
  ASSUME NEW k \in Nat
  PROVE  Max(1 .. k + 1) = k + 1 /\ (1 .. k + 1) \ {k + 1} = 1 .. k /\ 1 .. k + 1 # {}
<1>1. 1 .. k + 1 \in SUBSET (1 .. k + 1) /\ k + 1 \in 1 .. k + 1
  OBVIOUS
<1> QED
  BY <1>1, MaxUpto

(* The greatest element of a set of indices is one of them. *)
LEMMA MaxIn ==
  ASSUME NEW N \in Nat, NEW t \in SUBSET (1 .. N), t # {}
  PROVE  Max(t) \in 1 .. N
<1> DEFINE G == {k \in Nat : \A u \in SUBSET (1 .. k) : u # {} => Max(u) \in u}
<1>1. 0 \in G
  <2>1. \A u \in SUBSET (1 .. 0) : u = {}
    OBVIOUS
  <2> QED
    BY <2>1
<1>2. ASSUME NEW k \in Nat, k \in G
      PROVE  k + 1 \in G
  <2>1. ASSUME NEW u \in SUBSET (1 .. k + 1), u # {}
        PROVE  Max(u) \in u
    <3>1. CASE k + 1 \in u
      BY <3>1, MaxUpto
    <3>2. CASE k + 1 \notin u
      <4>1. u \in SUBSET (1 .. k)
        BY <3>2
      <4> QED
        BY <1>2, <2>1, <4>1
    <3> QED
      BY <3>1, <3>2
  <2> QED
    BY <2>1
<1> HIDE DEF G
<1>3. N \in G
  BY <1>1, <1>2, SetInduction
<1>4. Max(t) \in t
  BY <1>3 DEF G
<1> QED
  BY <1>4

(* The sums load_le goes through. *)
LEMMA LoadedSteps ==
  ASSUME NEW s \in Seq(Nat)
  PROVE  \E sum \in [0 .. Len(s) -> Nat] :
           /\ sum[0] = 0 /\ Loaded(s) = sum[Len(s)]
           /\ \A i \in 1 .. Len(s) : sum[i] = sum[i - 1] + s[i] * Power[i - 1]
<1> DEFINE N == Len(s)
           d == [i \in DOMAIN s |-> i]
           F == [p \in Nat \X (1 .. N) |-> p[1] + s[p[2]] * Power[p[2] - 1]]
           Rec(h) == [t \in SUBSET DOMAIN d |->
             IF t = {} THEN 0 ELSE h[t \ {Max(t)}] + s[d[Max(t)]] * Power[d[Max(t)] - 1]]
           iter == CHOOSE h : h = Rec(h)
<1>1. Loaded(s) = iter[DOMAIN d]
  BY DEF Loaded, FoldLeftDomain, FoldLeft, MapThenFoldSet
<1>2. N \in Nat /\ DOMAIN s = 1 .. N /\ DOMAIN d = 1 .. N
  OBVIOUS
<1>3. ASSUME NEW x \in Nat, NEW i \in 1 .. N
      PROVE  x + s[i] * Power[i - 1] \in Nat
  <2>1. i - 1 \in Nat /\ s[i] \in Nat
    OBVIOUS
  <2>2. Power[i - 1] \in Nat
    BY <2>1, Powers
  <2> DEFINE q == Power[i - 1]
             r == s[i]
  <2>3. r \in Nat /\ q \in Nat
    BY <2>1, <2>2
  <2> HIDE DEF q, r
  <2>4. x + r * q \in Nat
    BY <2>3
  <2> QED
    BY <2>4 DEF q, r
<1>4. F \in [Nat \X (1 .. N) -> Nat]
  BY <1>3
<1>5. \A x \in Nat, i \in 1 .. N : F[<<x, i>>] = x + s[i] * Power[i - 1]
  OBVIOUS
<1>6. \A i \in 1 .. N : d[i] = i
  BY <1>2
<1> HIDE DEF F, N, d
<1>7. PICK g \in [SUBSET (1 .. N) -> Nat] : Folds(g, N, 0, F)
  <2>1. 0 \in Nat
    OBVIOUS
  <2> QED
    BY <1>2, <1>4, <2>1, FoldExists
<1>8. ASSUME NEW t \in SUBSET (1 .. N)
      PROVE  g[t] = IF t = {} THEN 0
                    ELSE g[t \ {Max(t)}] + s[d[Max(t)]] * Power[d[Max(t)] - 1]
  <2>1. CASE t = {}
    BY <1>7, <2>1 DEF Folds
  <2>2. CASE t # {}
    <3>1. Max(t) \in 1 .. N
      BY <1>2, <2>2, MaxIn
    <3>2. g[t \ {Max(t)}] \in Nat
      OBVIOUS
    <3> QED
      BY <1>5, <1>6, <1>7, <2>2, <3>1, <3>2, ZenonT(60) DEF Folds
  <2> QED
    BY <2>1, <2>2
<1>9. g = Rec(g)
  BY <1>2, <1>8
<1>10. iter = Rec(iter)
  <2> HIDE DEF Rec
  <2> QED
    BY <1>9
<1> HIDE DEF iter
<1>11. /\ \A t \in SUBSET (1 .. N) :
            iter[t] = IF t = {} THEN 0
                      ELSE iter[t \ {Max(t)}] + s[d[Max(t)]] * Power[d[Max(t)] - 1]
  BY <1>2, <1>10
<1> HIDE DEF Rec
<1>12. iter[{}] = 0
  BY <1>11
<1>13. ASSUME NEW k \in Nat, k + 1 <= N
       PROVE  iter[1 .. k + 1] = iter[1 .. k] + s[k + 1] * Power[(k + 1) - 1]
  <2>1. 1 .. k + 1 \in SUBSET (1 .. N) /\ k + 1 \in 1 .. N
    BY <1>2, <1>13
  <2>2. d[k + 1] = k + 1
    BY <1>6, <2>1
  <2> DEFINE t == 1 .. k + 1
  <2>3. t \in SUBSET (1 .. N) /\ Max(t) = k + 1 /\ t \ {k + 1} = 1 .. k /\ t # {}
    BY <2>1, RangeStep
  <2> HIDE DEF t
  <2>4. iter[t] = iter[1 .. k] + s[k + 1] * Power[(k + 1) - 1]
    BY <1>11, <2>2, <2>3
  <2> QED
    BY <2>4 DEF t
<1> DEFINE H == {k \in Nat : k <= N => iter[1 .. k] \in Nat}
<1>14. 0 \in H
  <2>1. 1 .. 0 = {}
    OBVIOUS
  <2> QED
    BY <1>12, <2>1
<1>15. ASSUME NEW k \in Nat, k \in H
       PROVE  k + 1 \in H
  <2> SUFFICES ASSUME k + 1 <= N
               PROVE  iter[1 .. k + 1] \in Nat
    OBVIOUS
  <2>1. k <= N /\ k + 1 \in 1 .. N
    BY <1>2
  <2> QED
    BY <1>3, <1>13, <1>15, <2>1
<1> HIDE DEF H
<1>16. \A k \in 0 .. N : iter[1 .. k] \in Nat
  <2>1. Nat \subseteq H
    BY <1>14, <1>15, SetInduction
  <2> QED
    BY <1>2, <2>1 DEF H
<1> DEFINE sum == [k \in 0 .. N |-> iter[1 .. k]]
<1>17. sum \in [0 .. N -> Nat] /\ sum[0] = 0 /\ Loaded(s) = sum[N]
  <2>1. 0 \in 0 .. N /\ N \in 0 .. N /\ 1 .. 0 = {}
    BY <1>2
  <2> QED
    BY <1>1, <1>2, <1>12, <1>16, <2>1
<1>18. ASSUME NEW i \in 1 .. N
       PROVE  sum[i] = sum[i - 1] + s[i] * Power[i - 1]
  <2>1. i - 1 \in Nat /\ (i - 1) + 1 = i /\ i <= N /\ i \in 0 .. N /\ i - 1 \in 0 .. N
    BY <1>2
  <2>2. iter[1 .. i] = iter[1 .. i - 1] + s[i] * Power[i - 1]
    BY <1>13, <2>1
  <2> QED
    BY <2>1, <2>2
<1> HIDE DEF sum
<1> QED
  BY <1>17, <1>18 DEF N

-----------------------------------------------------------------------------
(* load_le undoes store_le. *)

(* A number is its quotient times the divisor, and the remainder. *)
LEMMA Division ==
  ASSUME NEW v \in Nat, NEW m \in Nat \ {0}
  PROVE  /\ v \div m \in Nat /\ v % m \in Nat /\ v % m < m
         /\ v = (v \div m) * m + (v % m)
<1>1. v \div m \in Int /\ v % m \in 0 .. m - 1
  OBVIOUS
<1>2. v = (v \div m) * m + (v % m)
  OBVIOUS
<1>3. v \div m >= 0
  OBVIOUS
<1> QED
  BY <1>1, <1>2, <1>3

(* There is no other such quotient. *)
LEMMA Quotient ==
  ASSUME NEW v \in Nat, NEW m \in Nat \ {0}, NEW q \in Nat, NEW r \in Nat, r < m, v = q * m + r
  PROVE  v \div m = q
OBVIOUS

(* To divide by a product is to divide by its factors in turn. *)
LEMMA QuotientTwice ==
  ASSUME NEW v \in Nat, NEW p \in Nat \ {0}, NEW B \in Nat \ {0}
  PROVE  v \div (B * p) = (v \div p) \div B
<1> DEFINE q == v \div p
           r == v % p
           a == q \div B
           c == q % B
<1>1. q \in Nat /\ r \in Nat /\ r < p /\ v = q * p + r
  BY Division
<1> HIDE DEF q, r
<1>2. a \in Nat /\ c \in Nat /\ c < B /\ q = a * B + c
  BY <1>1, Division
<1> HIDE DEF a, c
<1>3. v = a * (B * p) + (c * p + r)
  BY <1>1, <1>2
<1>4. c * p + r < B * p /\ c * p \in Nat /\ B * p \in Nat \ {0}
  <2>1. (c + 1) * p <= B * p
    BY <1>2
  <2>2. (c + 1) * p = c * p + p
    BY <1>2
  <2>3. c * p \in Nat /\ B * p \in Nat \ {0}
    BY <1>2
  <2> QED
    BY <1>1, <2>1, <2>2, <2>3
<1>5. c * p + r \in Nat
  BY <1>1, <1>4
<1>6. v \div (B * p) = a
  BY <1>2, <1>3, <1>4, <1>5, Quotient
<1> QED
  BY <1>6 DEF a, q

(* A number that fits into w bytes is loaded as it was stored. *)
LEMMA LoadedStored ==
  ASSUME NEW w \in Nat, NEW v \in Nat, v < Power[w]
  PROVE  Loaded(Stored(v, w)) = v
<1> DEFINE s == Stored(v, w)
<1>1. /\ s \in Seq(Nat) /\ Len(s) = w
      /\ \A i \in 1 .. w : s[i] = (v \div Power[i - 1]) % Base
  <2>1. s \in Seq(Bytes) /\ Len(s) = w
        /\ \A i \in 1 .. w : s[i] = (v \div Power[i - 1]) % Base
    BY StoredBytes
  <2>2. Bytes \subseteq Nat
    BY WireAssumption DEF Bytes
  <2> HIDE DEF s
  <2>3. \A i \in 1 .. w : s[i] \in Nat
    <3>1. s \in Seq(Bytes) /\ Len(s) = w
      BY <2>1
    <3>2. \A i \in 1 .. w : s[i] \in Bytes
      BY <3>1
    <3> QED
      BY <2>2, <3>2
  <2>4. s \in [1 .. w -> Nat]
    BY <2>1, <2>3
  <2>5. s \in Seq(Nat)
    BY <2>4
  <2> QED
    BY <2>1, <2>5
<1> HIDE DEF s
<1>2. PICK sum \in [0 .. w -> Nat] :
        /\ sum[0] = 0 /\ Loaded(s) = sum[w]
        /\ \A i \in 1 .. w : sum[i] = sum[i - 1] + s[i] * Power[i - 1]
  BY <1>1, LoadedSteps
<1>3. Base \in Nat \ {0}
  BY WireAssumption
<1> DEFINE H == {k \in Nat : k <= w => v = (v \div Power[k]) * Power[k] + sum[k]}
<1>4. 0 \in H
  <2>1. Power[0] = 1 /\ v \div 1 = v
    BY Powers
  <2> QED
    BY <1>2, <2>1
<1>5. ASSUME NEW k \in Nat, k \in H
      PROVE  k + 1 \in H
  <2> SUFFICES ASSUME k + 1 <= w
               PROVE  v = (v \div Power[k + 1]) * Power[k + 1] + sum[k + 1]
    OBVIOUS
  <2> DEFINE p == Power[k]
             q == v \div p
             a == q \div Base
             c == q % Base
             x == sum[k]
  <2>1. p \in Nat \ {0} /\ Power[k + 1] = Base * p
    BY Powers
  <2>2. v = q * p + x /\ x \in Nat
    BY <1>5
  <2>3. sum[k + 1] = x + c * p
    <3>1. k + 1 \in 1 .. w /\ (k + 1) - 1 = k
      OBVIOUS
    <3>2. s[k + 1] = c
      BY <1>1, <3>1
    <3> QED
      BY <1>2, <3>1, <3>2
  <2>4. v \div Power[k + 1] = a
    <3> HIDE DEF p
    <3>1. v \div (Base * p) = (v \div p) \div Base
      BY <1>3, <2>1, QuotientTwice
    <3> QED
      BY <2>1, <3>1
  <2>5. q \in Nat
    <3> HIDE DEF p
    <3> QED
      BY <2>1, Division
  <2> HIDE DEF p, q, x
  <2>6. a \in Nat /\ c \in Nat /\ q = a * Base + c
    BY <1>3, <2>5, Division
  <2> HIDE DEF a, c
  <2>7. q * p = a * (Base * p) + c * p
    BY <1>3, <2>1, <2>6
  <2>8. c * p \in Nat /\ a * (Base * p) \in Nat
    BY <1>3, <2>1, <2>6
  <2>9. v = a * (Base * p) + (x + c * p)
    BY <2>2, <2>7, <2>8
  <2> QED
    BY <2>1, <2>3, <2>4, <2>9
<1> HIDE DEF H
<1>6. w \in H /\ w <= w
  <2>1. Nat \subseteq H
    BY <1>4, <1>5, SetInduction
  <2> QED
    BY <2>1
<1>7. v = (v \div Power[w]) * Power[w] + sum[w]
  BY <1>6 DEF H
<1>8. v \div Power[w] = 0
  <2> DEFINE p == Power[w]
  <2>1. p \in Nat \ {0} /\ v < p
    BY Powers
  <2> HIDE DEF p
  <2>2. v \div p = 0
    BY <2>1
  <2> QED
    BY <2>2 DEF p
<1>9. sum[w] = v
  <2>1. Power[w] \in Nat
    BY Powers
  <2>3. w \in 0 .. w
    OBVIOUS
  <2>2. sum[w] \in Nat
    BY <1>2, <2>3
  <2> QED
    BY <1>7, <1>8, <2>1, <2>2
<1> QED
  BY <1>2, <1>9 DEF s

-----------------------------------------------------------------------------
(* What one read does to a reader of d. *)

Value == Nat \cup Seq(Bytes)
ReaderType(d) == [data : {d}, pos : Nat, fail : BOOLEAN, values : Seq(Value)]

(* load_le loads a number from whatever bytes. *)
LEMMA LoadedNumber ==
  ASSUME NEW s \in Seq(Bytes)
  PROVE  Loaded(s) \in Nat
<1>1. s \in Seq(Nat) /\ Len(s) \in Nat
  <2>1. Bytes \subseteq Nat
    BY WireAssumption DEF Bytes
  <2>2. \A i \in 1 .. Len(s) : s[i] \in Bytes
    OBVIOUS
  <2>3. s \in [1 .. Len(s) -> Bytes] /\ Len(s) \in Nat
    OBVIOUS
  <2>4. s \in [1 .. Len(s) -> Nat]
    BY <2>1, <2>2, <2>3
  <2> QED
    BY <2>3, <2>4
<1>2. PICK sum \in [0 .. Len(s) -> Nat] : Loaded(s) = sum[Len(s)]
  BY <1>1, LoadedSteps
<1>3. Len(s) \in 0 .. Len(s)
  BY <1>1
<1> QED
  BY <1>2, <1>3

(* The w bytes after the first p. *)
LEMMA Slice ==
  ASSUME NEW d \in Seq(Bytes), NEW p \in Nat, NEW w \in Nat, p + w <= Len(d)
  PROVE  /\ SubSeq(d, p + 1, p + w) \in Seq(Bytes) /\ Len(SubSeq(d, p + 1, p + w)) = w
         /\ \A i \in 1 .. w : SubSeq(d, p + 1, p + w)[i] = d[p + i]
<1>1. SubSeq(d, p + 1, p + w) = [i \in 1 .. w |-> d[p + i]]
  <2>1. /\ p + 1 \in Int /\ p + w \in Int /\ (p + w) - (p + 1) + 1 = w
        /\ \A i \in 1 .. w : (p + 1) + i - 1 = p + i
    OBVIOUS
  <2>2. SubSeq(d, p + 1, p + w) = [i \in 1 .. (p + w) - (p + 1) + 1 |-> d[(p + 1) + i - 1]]
    OBVIOUS
  <2> QED
    BY <2>1, <2>2
<1>2. \A i \in 1 .. w : d[p + i] \in Bytes
  <2>1. \A i \in 1 .. w : p + i \in 1 .. Len(d)
    OBVIOUS
  <2> QED
    BY <2>1
<1>3. [i \in 1 .. w |-> d[p + i]] \in Seq(Bytes)
  BY <1>2
<1> QED
  BY <1>1, <1>3

(* u8, u16, u32 and u64 on any bytes, in any state. *)
LEMMA NumberRead ==
  ASSUME NEW d \in Seq(Bytes), NEW r \in ReaderType(d), NEW w \in Nat
  PROVE  /\ ReadNumber(r, w) \in ReaderType(d)
         /\ Len(d) < r.pos + w =>
              /\ ReadNumber(r, w).fail /\ ReadNumber(r, w).pos = r.pos
              /\ ReadNumber(r, w).values = Append(r.values, 0)
         /\ r.pos + w <= Len(d) =>
              /\ ReadNumber(r, w).fail = r.fail /\ ReadNumber(r, w).pos = r.pos + w
              /\ ReadNumber(r, w).values
                   = Append(r.values, Loaded(SubSeq(d, r.pos + 1, r.pos + w)))
<1>1. r.data = d /\ r.pos \in Nat /\ r.fail \in BOOLEAN /\ r.values \in Seq(Value)
      /\ Len(d) \in Nat
  BY DEF ReaderType
<1>2. r = [data |-> d, pos |-> r.pos, fail |-> r.fail, values |-> r.values]
  BY DEF ReaderType
<1>3. Remaining(r) = Len(d) - r.pos
  BY <1>1 DEF Remaining
<1>4. CASE Len(d) < r.pos + w
  <2> DEFINE v == Append(r.values, 0)
             a == ReadNumber(r, w)
  <2>1. v \in Seq(Value)
    <3>1. 0 \in Value
      BY DEF Value
    <3> QED
      BY <1>1, <3>1, AppendProperties
  <2>2. a = [r EXCEPT !.fail = TRUE, !.values = v]
    BY <1>1, <1>3, <1>4 DEF ReadNumber
  <2> HIDE DEF v, a
  <2>3. a.fail = TRUE /\ a.pos = r.pos /\ a.values = v
    BY <1>2, <2>2
  <2>4. a \in ReaderType(d)
    BY <2>1, <2>2 DEF ReaderType
  <2> QED
    <3>1. ~(r.pos + w <= Len(d))
      BY <1>1, <1>4
    <3> QED
      BY <2>3, <2>4, <3>1 DEF v, a
<1>5. CASE r.pos + w <= Len(d)
  <2> DEFINE x == Loaded(SubSeq(d, r.pos + 1, r.pos + w))
             v == Append(r.values, x)
             a == ReadNumber(r, w)
  <2>1. v \in Seq(Value)
    <3>1. SubSeq(d, r.pos + 1, r.pos + w) \in Seq(Bytes)
      BY <1>1, <1>5, Slice
    <3>2. x \in Value
      BY <3>1, LoadedNumber DEF Value
    <3> HIDE DEF x
    <3> QED
      BY <1>1, <3>2, AppendProperties
  <2>2. a = [r EXCEPT !.pos = r.pos + w, !.values = v]
    <3>1. ~(Remaining(r) < w)
      BY <1>1, <1>3, <1>5
    <3> QED
      BY <1>1, <3>1 DEF ReadNumber
  <2> HIDE DEF v, a, x
  <2>3. a.fail = r.fail /\ a.pos = r.pos + w /\ a.values = v
    BY <1>2, <2>2
  <2>4. r.pos + w \in Nat
    BY <1>1
  <2>5. a \in ReaderType(d)
    BY <2>1, <2>2, <2>4 DEF ReaderType
  <2> QED
    <3>1. ~(Len(d) < r.pos + w)
      BY <1>1, <1>5
    <3> QED
      BY <2>3, <2>5, <3>1 DEF v, a, x
<1> QED
  BY <1>1, <1>4, <1>5

(* The value a read returned is the last. *)
LEMMA LastAppended ==
  ASSUME NEW s \in Seq(Value), NEW x \in Value
  PROVE  Last(Append(s, x)) = x
BY AppendProperties DEF Last

(* string on any bytes, in any state. *)
LEMMA StringRead ==
  ASSUME NEW d \in Seq(Bytes), NEW r \in ReaderType(d),
         NEW x, x = Loaded(SubSeq(d, r.pos + 1, r.pos + LengthWidth))
  PROVE  /\ ReadString(r) \in ReaderType(d)
         /\ r.fail \/ Len(d) < r.pos + LengthWidth => ReadString(r).fail
         /\ r.pos + LengthWidth <= Len(d) =>
              /\ x \in Nat
              /\ Len(d) < r.pos + LengthWidth + x => ReadString(r).fail
              /\ ~r.fail /\ x <= MaxString /\ r.pos + LengthWidth + x <= Len(d) =>
                   /\ ReadString(r).fail = FALSE
                   /\ ReadString(r).pos = r.pos + LengthWidth + x
                   /\ ReadString(r).values = Append(r.values,
                        SubSeq(d, r.pos + LengthWidth + 1, r.pos + LengthWidth + x))
<1> DEFINE after == ReadNumber(r, LengthWidth)
           len == Last(after.values)
           a == ReadString(r)
           bad == after.fail \/ len > MaxString \/ len > Remaining(after)
           v1 == Append(r.values, <<>>)
           v2 == Append(r.values, SubSeq(d, after.pos + 1, after.pos + len))
<1>1. /\ r.data = d /\ r.pos \in Nat /\ r.fail \in BOOLEAN /\ r.values \in Seq(Value)
      /\ Len(d) \in Nat
  BY DEF ReaderType
<1>2. LengthWidth \in Nat /\ MaxString \in Nat
  BY WireAssumption
<1>3. /\ after \in ReaderType(d)
      /\ Len(d) < r.pos + LengthWidth =>
           after.fail /\ after.pos = r.pos /\ after.values = Append(r.values, 0)
      /\ r.pos + LengthWidth <= Len(d) =>
           /\ after.fail = r.fail /\ after.pos = r.pos + LengthWidth
           /\ after.values = Append(r.values, x)
  BY <1>2, NumberRead
<1>4. a = IF bad THEN [after EXCEPT !.fail = TRUE, !.values = v1]
          ELSE [after EXCEPT !.pos = after.pos + len, !.values = v2]
  BY <1>1 DEF ReadString
<1> HIDE DEF after, a
<1>5. /\ after.data = d /\ after.pos \in Nat /\ after.fail \in BOOLEAN /\ after.values \in Seq(Value)
      /\ after = [data |-> after.data, pos |-> after.pos, fail |-> after.fail,
                  values |-> after.values]
      /\ Remaining(after) = Len(d) - after.pos
  BY <1>3 DEF ReaderType, Remaining
<1>6. v1 \in Seq(Value)
  <2>1. <<>> \in Value
    BY DEF Value
  <2> QED
    BY <1>1, <2>1, AppendProperties
<1>7. r.pos + LengthWidth <= Len(d) => x \in Nat /\ len = x
  <2> SUFFICES ASSUME r.pos + LengthWidth <= Len(d) PROVE x \in Nat /\ len = x
    OBVIOUS
  <2>1. SubSeq(d, r.pos + 1, r.pos + LengthWidth) \in Seq(Bytes)
    BY <1>1, <1>2, Slice
  <2>2. x \in Nat /\ x \in Value
    BY <2>1, LoadedNumber DEF Value
  <2>3. after.values = Append(r.values, x)
    BY <1>3
  <2> QED
    BY <1>1, <2>2, <2>3, LastAppended
<1>8. r.fail \/ Len(d) < r.pos + LengthWidth => after.fail
  BY <1>1, <1>2, <1>3
<1> HIDE DEF v1, len
<1>9. CASE bad
  <2>1. a = [after EXCEPT !.fail = TRUE, !.values = v1]
    BY <1>4, <1>9
  <2>2. a \in ReaderType(d)
    BY <1>3, <1>6, <2>1 DEF ReaderType
  <2>3. a.fail = TRUE
    BY <1>5, <2>1
  <2>4. ~(~r.fail /\ x <= MaxString /\ r.pos + LengthWidth <= Len(d)
            /\ r.pos + LengthWidth + x <= Len(d))
    BY <1>1, <1>2, <1>3, <1>5, <1>7, <1>9
  <2> QED
    BY <1>7, <2>2, <2>3, <2>4 DEF a
<1>10. CASE ~bad
  <2>1. a = [after EXCEPT !.pos = after.pos + len, !.values = v2]
    BY <1>4, <1>10
  <2>2. r.pos + LengthWidth <= Len(d) /\ ~r.fail /\ after.pos = r.pos + LengthWidth
        /\ len = x /\ x \in Nat /\ after.fail = FALSE
    BY <1>1, <1>2, <1>3, <1>5, <1>7, <1>8, <1>10
  <2>3. after.pos + len <= Len(d) /\ after.pos + len \in Nat
    BY <1>1, <1>5, <1>10, <2>2
  <2>4. SubSeq(d, after.pos + 1, after.pos + len) \in Seq(Bytes)
    BY <1>5, <2>2, <2>3, Slice
  <2>5. v2 \in Seq(Value)
    <3> DEFINE y == SubSeq(d, after.pos + 1, after.pos + len)
    <3>1. y \in Value
      BY <2>4 DEF Value
    <3> HIDE DEF y
    <3>2. Append(r.values, y) \in Seq(Value)
      BY <1>1, <3>1, AppendProperties
    <3> QED
      BY <3>2 DEF y
  <2>6. v2 = Append(r.values, SubSeq(d, r.pos + LengthWidth + 1, r.pos + LengthWidth + x))
    BY <2>2
  <2> HIDE DEF v2
  <2>7. a \in ReaderType(d)
    BY <1>3, <2>1, <2>3, <2>5 DEF ReaderType
  <2>8. a.fail = FALSE /\ a.pos = after.pos + len /\ a.values = v2
    BY <1>5, <2>1, <2>2
  <2>9. a.pos = r.pos + LengthWidth + x
    BY <2>2, <2>8
  <2>10. r.pos + LengthWidth + x <= Len(d)
    BY <2>2, <2>3
  <2>11. ~(Len(d) < r.pos + LengthWidth) /\ ~(Len(d) < r.pos + LengthWidth + x)
    BY <1>1, <1>2, <2>2, <2>10
  <2> QED
    BY <1>7, <2>2, <2>6, <2>7, <2>8, <2>9, <2>11 DEF a
<1> QED
  BY <1>9, <1>10

(* One read, of a field of width w. *)
ReadField(r, w) == IF w = StringField THEN ReadString(r) ELSE ReadNumber(r, w)

(* A read leaves a reader. *)
LEMMA FieldTyped ==
  ASSUME NEW d \in Seq(Bytes), NEW r \in ReaderType(d), NEW w \in Nat
  PROVE  ReadField(r, w) \in ReaderType(d)
BY NumberRead, StringRead DEF ReadField

(* The readers that the reads of a body go through. *)
LEMMA BodySteps ==
  ASSUME NEW d \in Seq(Bytes), NEW format \in Seq(Nat)
  PROVE  \E at \in [0 .. Len(format) -> ReaderType(d)] :
           /\ at[0] = Reader(d) /\ ReadBody(format, d) = at[Len(format)]
           /\ \A i \in 1 .. Len(format) : at[i] = ReadField(at[i - 1], format[i])
<1> DEFINE N == Len(format)
           X == ReaderType(d)
           F == [p \in X \X (1 .. N) |-> ReadField(p[1], format[p[2]])]
           Rec(h) == [t \in SUBSET DOMAIN format |->
             IF t = {} THEN Reader(d) ELSE ReadField(h[t \ {Max(t)}], format[Max(t)])]
           iter == CHOOSE h : h = Rec(h)
<1>1. ReadBody(format, d) = iter[DOMAIN format]
  BY DEF ReadBody, FoldLeft, MapThenFoldSet, ReadField
<1>2. N \in Nat /\ DOMAIN format = 1 .. N /\ \A i \in 1 .. N : format[i] \in Nat
  OBVIOUS
<1> HIDE DEF N
<1>3. Reader(d) \in X
  <2>1. <<>> \in Seq(Value)
    OBVIOUS
  <2> QED
    BY <2>1 DEF Reader, ReaderType
<1>4. ASSUME NEW r \in X, NEW i \in 1 .. N
      PROVE  ReadField(r, format[i]) \in X
  BY <1>2, FieldTyped
<1> HIDE DEF X
<1>5. F \in [X \X (1 .. N) -> X] /\ \A r \in X, i \in 1 .. N : F[<<r, i>>] = ReadField(r, format[i])
  BY <1>4
<1> HIDE DEF F
<1>7. PICK g \in [SUBSET (1 .. N) -> X] : Folds(g, N, Reader(d), F)
  BY <1>2, <1>3, <1>5, FoldExists
<1>8. ASSUME NEW t \in SUBSET (1 .. N)
      PROVE  g[t] = IF t = {} THEN Reader(d) ELSE ReadField(g[t \ {Max(t)}], format[Max(t)])
  <2>1. CASE t = {}
    BY <1>7, <2>1 DEF Folds
  <2>2. CASE t # {}
    <3>1. Max(t) \in 1 .. N
      BY <1>2, <2>2, MaxIn
    <3>2. g[t \ {Max(t)}] \in X
      OBVIOUS
    <3> QED
      BY <1>5, <1>7, <2>2, <3>1, <3>2 DEF Folds
  <2> QED
    BY <2>1, <2>2
<1>9. g = Rec(g)
  BY <1>2, <1>8
<1>10. iter = Rec(iter)
  <2> HIDE DEF Rec
  <2> QED
    BY <1>9
<1> HIDE DEF iter
<1>11. \A t \in SUBSET (1 .. N) :
         iter[t] = IF t = {} THEN Reader(d) ELSE ReadField(iter[t \ {Max(t)}], format[Max(t)])
  BY <1>2, <1>10
<1> HIDE DEF Rec
<1>12. iter[{}] = Reader(d)
  BY <1>11
<1>13. ASSUME NEW k \in Nat, k + 1 <= N
       PROVE  iter[1 .. k + 1] = ReadField(iter[1 .. k], format[k + 1])
  <2>1. 1 .. k + 1 \in SUBSET (1 .. N)
    BY <1>2, <1>13
  <2> DEFINE t == 1 .. k + 1
  <2>2. t \in SUBSET (1 .. N) /\ Max(t) = k + 1 /\ t \ {k + 1} = 1 .. k /\ t # {}
    BY <2>1, RangeStep
  <2> HIDE DEF t
  <2>3. iter[t] = ReadField(iter[1 .. k], format[k + 1])
    BY <1>11, <2>2
  <2> QED
    BY <2>3 DEF t
<1> DEFINE H == {k \in Nat : k <= N => iter[1 .. k] \in X}
<1>14. 0 \in H
  <2>1. 1 .. 0 = {}
    OBVIOUS
  <2> QED
    BY <1>3, <1>12, <2>1
<1>15. ASSUME NEW k \in Nat, k \in H
       PROVE  k + 1 \in H
  <2> SUFFICES ASSUME k + 1 <= N
               PROVE  iter[1 .. k + 1] \in X
    OBVIOUS
  <2>1. k <= N /\ k + 1 \in 1 .. N
    BY <1>2
  <2> QED
    BY <1>4, <1>13, <1>15, <2>1
<1> HIDE DEF H
<1>16. \A k \in 0 .. N : iter[1 .. k] \in X
  <2>1. Nat \subseteq H
    BY <1>14, <1>15, SetInduction
  <2> QED
    BY <1>2, <2>1 DEF H
<1> DEFINE at == [k \in 0 .. N |-> iter[1 .. k]]
<1>17. at \in [0 .. N -> X] /\ at[0] = Reader(d) /\ ReadBody(format, d) = at[N]
  <2>1. 0 \in 0 .. N /\ N \in 0 .. N /\ 1 .. 0 = {}
    BY <1>2
  <2> QED
    BY <1>1, <1>2, <1>12, <1>16, <2>1
<1>18. ASSUME NEW i \in 1 .. N
       PROVE  at[i] = ReadField(at[i - 1], format[i])
  <2>1. i - 1 \in Nat /\ (i - 1) + 1 = i /\ i <= N /\ i \in 0 .. N /\ i - 1 \in 0 .. N
    BY <1>2
  <2>2. iter[1 .. i] = ReadField(iter[1 .. i - 1], format[i])
    BY <1>13, <2>1
  <2> QED
    BY <2>1, <2>2
<1> HIDE DEF at
<1> QED
  BY <1>17, <1>18 DEF N, X

-----------------------------------------------------------------------------
(* A field that was written is read back. *)

(* From p on, d holds part, or as much of it as d is long. *)
Holds(d, p, part) == \A j \in 1 .. Len(part) : p + j <= Len(d) => d[p + j] = part[j]

(* A slice of d where d holds part is part. *)
LEMMA SliceOf ==
  ASSUME NEW d \in Seq(Bytes), NEW p \in Nat, NEW part \in Seq(Bytes), Holds(d, p, part),
         NEW w, w = Len(part), p + w <= Len(d)
  PROVE  SubSeq(d, p + 1, p + w) = part
<1> DEFINE s == SubSeq(d, p + 1, p + w)
<1>1. w \in Nat
  OBVIOUS
<1>2. s \in Seq(Bytes) /\ Len(s) = w /\ \A i \in 1 .. w : s[i] = d[p + i]
  BY <1>1, Slice
<1>3. \A i \in 1 .. w : p + i <= Len(d)
  BY <1>1
<1>4. \A i \in 1 .. w : d[p + i] = part[i]
  BY <1>3 DEF Holds
<1> HIDE DEF s
<1>5. \A i \in 1 .. Len(s) : s[i] = part[i]
  BY <1>2, <1>4
<1>6. s = part
  BY <1>2, <1>5, SeqEqual
<1> QED
  BY <1>6 DEF s

(* v is a value of a field of width w that the Writer accepts. *)
FieldFits(w, v) ==
  IF w = StringField THEN v \in Seq(Bytes) /\ Len(v) <= MaxString
                     ELSE v \in Nat /\ v < Power[w]

(* A number that was written is read, or the read fails for want of bytes. *)
LEMMA NumberReadBack ==
  ASSUME NEW d \in Seq(Bytes), NEW r \in ReaderType(d), NEW w \in Nat, NEW v \in Nat, v < Power[w],
         NEW part, part = Stored(v, w), r.fail = FALSE, Holds(d, r.pos, part)
  PROVE  /\ Len(part) = w
         /\ IF r.pos + w <= Len(d)
              THEN /\ ReadNumber(r, w).fail = FALSE /\ ReadNumber(r, w).pos = r.pos + w
                   /\ ReadNumber(r, w).values = Append(r.values, v)
              ELSE ReadNumber(r, w).fail
<1>1. part \in Seq(Bytes) /\ Len(part) = w /\ r.pos \in Nat /\ Len(d) \in Nat
  BY StoredBytes DEF ReaderType
<1>2. CASE r.pos + w <= Len(d)
  <2>1. SubSeq(d, r.pos + 1, r.pos + w) = part
    BY <1>1, <1>2, SliceOf
  <2>2. Loaded(part) = v
    BY LoadedStored
  <2> QED
    BY <1>1, <1>2, <2>1, <2>2, NumberRead, ZenonT(60)
<1>3. CASE ~(r.pos + w <= Len(d))
  <2>1. Len(d) < r.pos + w
    BY <1>1, <1>3
  <2> QED
    BY <1>1, <1>3, <2>1, NumberRead
<1> QED
  BY <1>2, <1>3

(* So is a string: its length is found before its bytes are asked for. *)
LEMMA StringReadBack ==
  ASSUME NEW d \in Seq(Bytes), NEW r \in ReaderType(d), NEW v \in Seq(Bytes), Len(v) <= MaxString,
         NEW part, part = Stored(Len(v), LengthWidth) \o v, r.fail = FALSE, Holds(d, r.pos, part)
  PROVE  IF r.pos + Len(part) <= Len(d)
           THEN /\ ReadString(r).fail = FALSE /\ ReadString(r).pos = r.pos + Len(part)
                /\ ReadString(r).values = Append(r.values, v)
           ELSE ReadString(r).fail
<1> DEFINE n == Len(v)
           L == LengthWidth
           s == Stored(n, L)
           p == r.pos
           x == Loaded(SubSeq(d, p + 1, p + L))
<1>1. /\ n \in Nat /\ L \in Nat /\ p \in Nat /\ Len(d) \in Nat /\ n < Power[L] /\ n <= MaxString
      /\ Power[L] \in Nat /\ MaxString \in Nat
  <2>1. n \in Nat /\ p \in Nat /\ Len(d) \in Nat /\ n <= MaxString
    BY DEF ReaderType
  <2>2. L \in Nat /\ MaxString \in Nat /\ MaxString < Power[L]
    BY WireAssumption
  <2>3. Power[L] \in Nat
    BY <2>2, Powers
  <2> QED
    BY <2>1, <2>2, <2>3
<1>2. s \in Seq(Bytes) /\ Len(s) = L
  BY <1>1, StoredBytes
<1>3. Loaded(s) = n
  BY <1>1, LoadedStored
<1> HIDE DEF s, L, n
<1>4. /\ part \in Seq(Bytes) /\ Len(part) = L + n
      /\ \A i \in 1 .. L : part[i] = s[i]
      /\ \A i \in 1 .. n : part[L + i] = v[i]
  <2>1. /\ part = s \o v /\ Len(v) = n
    BY DEF s, L, n
  <2>2. /\ s \o v \in Seq(Bytes) /\ Len(s \o v) = Len(s) + Len(v)
        /\ \A i \in 1 .. Len(s) + Len(v) :
             (s \o v)[i] = IF i <= Len(s) THEN s[i] ELSE v[i - Len(s)]
    BY <1>2, ConcatProperties
  <2>3. part \in Seq(Bytes) /\ Len(part) = L + n
    BY <1>2, <2>1, <2>2
  <2>4. \A i \in 1 .. L + n : part[i] = IF i <= L THEN s[i] ELSE v[i - L]
    BY <1>2, <2>1, <2>2, Zenon
  <2>5. ASSUME NEW i \in 1 .. L
        PROVE  part[i] = s[i]
    <3>1. i \in 1 .. L + n /\ i <= L
      BY <1>1
    <3> QED
      BY <2>4, <3>1
  <2>6. ASSUME NEW i \in 1 .. n
        PROVE  part[L + i] = v[i]
    <3>1. L + i \in 1 .. L + n /\ ~(L + i <= L) /\ (L + i) - L = i
      BY <1>1
    <3> QED
      BY <2>4, <3>1
  <2> QED
    BY <2>3, <2>5, <2>6
<1>5. Holds(d, p, s)
  <2>1. \A j \in 1 .. L : j \in 1 .. L + n
    BY <1>1
  <2>2. \A j \in 1 .. L + n : p + j <= Len(d) => d[p + j] = part[j]
    BY <1>4 DEF Holds
  <2> QED
    BY <1>2, <1>4, <2>1, <2>2 DEF Holds
<1>6. p + L <= Len(d) => x = n
  BY <1>1, <1>2, <1>3, <1>5, SliceOf
<1>7. /\ p + L <= Len(d) /\ Len(d) < p + L + n => ReadString(r).fail
      /\ Len(d) < p + L => ReadString(r).fail
      /\ p + L <= Len(d) /\ p + L + n <= Len(d) =>
           /\ ReadString(r).fail = FALSE /\ ReadString(r).pos = p + L + n
           /\ ReadString(r).values = Append(r.values, SubSeq(d, p + L + 1, p + L + n))
  <2>1. /\ Len(d) < p + L => ReadString(r).fail
        /\ p + L <= Len(d) =>
              /\ x \in Nat
              /\ Len(d) < p + L + x => ReadString(r).fail
              /\ ~r.fail /\ x <= MaxString /\ p + L + x <= Len(d) =>
                   /\ ReadString(r).fail = FALSE
                   /\ ReadString(r).pos = p + L + x
                   /\ ReadString(r).values = Append(r.values, SubSeq(d, p + L + 1, p + L + x))
    BY StringRead DEF L
  <2> HIDE DEF x, p
  <2> QED
    BY <1>1, <1>6, <2>1
<1>8. CASE p + Len(part) <= Len(d)
  <2>1. p + L <= Len(d) /\ p + L + n <= Len(d) /\ p + L \in Nat /\ p + Len(part) = p + L + n
    <3>1. Len(part) = L + n
      BY <1>4
    <3>2. p + (L + n) <= Len(d)
      BY <1>8, <3>1
    <3>3. p \in Nat /\ L \in Nat /\ n \in Nat /\ Len(d) \in Nat
      BY <1>1
    <3> HIDE DEF p
    <3> QED
      BY <3>1, <3>2, <3>3
  <2>2. Holds(d, p + L, v)
    <3>1. ASSUME NEW j \in 1 .. n, (p + L) + j <= Len(d)
          PROVE  d[(p + L) + j] = v[j]
      <4>1. L + j \in 1 .. Len(part) /\ p + (L + j) = (p + L) + j
        BY <1>1, <1>4
      <4>2. d[p + (L + j)] = part[L + j]
        BY <3>1, <4>1 DEF Holds
      <4> QED
        BY <1>4, <4>1, <4>2
    <3> QED
      BY <3>1 DEF Holds, n
  <2>3. SubSeq(d, (p + L) + 1, (p + L) + n) = v
    BY <2>1, <2>2, SliceOf DEF n
  <2> QED
    BY <1>7, <1>8, <2>1, <2>3
<1>9. CASE ~(p + Len(part) <= Len(d))
  <2>1. Len(d) < p + L \/ (p + L <= Len(d) /\ Len(d) < p + L + n)
    BY <1>1, <1>4, <1>9
  <2> QED
    BY <1>7, <1>9, <2>1
<1> QED
  BY <1>8, <1>9

(* So is a field. *)
LEMMA FieldReadBack ==
  ASSUME NEW d \in Seq(Bytes), NEW r \in ReaderType(d), NEW w \in Nat, NEW v, FieldFits(w, v),
         r.fail = FALSE, Holds(d, r.pos, Part(w, v))
  PROVE  IF r.pos + Len(Part(w, v)) <= Len(d)
           THEN /\ ReadField(r, w).fail = FALSE /\ ReadField(r, w).pos = r.pos + Len(Part(w, v))
                /\ ReadField(r, w).values = Append(r.values, v)
           ELSE ReadField(r, w).fail
<1>1. CASE w = StringField
  <2>1. v \in Seq(Bytes) /\ Len(v) <= MaxString /\ Part(w, v) = Stored(Len(v), LengthWidth) \o v
        /\ ReadField(r, w) = ReadString(r)
    BY <1>1 DEF FieldFits, Part, ReadField
  <2> QED
    BY <2>1, StringReadBack
<1>2. CASE w # StringField
  <2>1. v \in Nat /\ v < Power[w] /\ Part(w, v) = Stored(v, w) /\ ReadField(r, w) = ReadNumber(r, w)
    BY <1>2 DEF FieldFits, Part, ReadField
  <2>2. /\ Len(Part(w, v)) = w
        /\ IF r.pos + w <= Len(d)
             THEN /\ ReadNumber(r, w).fail = FALSE /\ ReadNumber(r, w).pos = r.pos + w
                  /\ ReadNumber(r, w).values = Append(r.values, v)
             ELSE ReadNumber(r, w).fail
    BY <2>1, NumberReadBack
  <2> QED
    BY <2>1, <2>2, Zenon
<1> QED
  BY <1>1, <1>2

(* The error state outlives the reads that follow. *)
LEMMA FailureStands ==
  ASSUME NEW d \in Seq(Bytes), NEW r \in ReaderType(d), NEW w \in Nat, r.fail
  PROVE  ReadField(r, w).fail
<1>1. CASE w = StringField
  BY <1>1, StringRead DEF ReadField
<1>2. CASE w # StringField
  <2>1. r.pos \in Nat /\ Len(d) \in Nat
    BY DEF ReaderType
  <2>2. Len(d) < r.pos + w \/ r.pos + w <= Len(d)
    BY <2>1
  <2>3. ReadNumber(r, w).fail
    BY <2>2, NumberRead
  <2> QED
    BY <1>2, <2>3 DEF ReadField
<1> QED
  BY <1>1, <1>2

-----------------------------------------------------------------------------
(* A body that was written is read back. *)

(* fl joins the sequences one after the other. *)
Joined(fl, seqs) == fl[0] = <<>> /\ \A i \in 1 .. Len(seqs) : fl[i] = fl[i - 1] \o seqs[i]

BeginsWith(t, s) == Len(s) <= Len(t) /\ \A j \in 1 .. Len(s) : t[j] = s[j]

(* Joined sequences begin with the first. *)
LEMMA BeginsWithFirst ==
  ASSUME NEW B, NEW s \in Seq(B), NEW t \in Seq(B)
  PROVE  BeginsWith(s \o t, s)
<1>1. /\ Len(s) \in Nat /\ Len(t) \in Nat /\ Len(s \o t) = Len(s) + Len(t)
      /\ \A i \in 1 .. Len(s) + Len(t) : (s \o t)[i] = IF i <= Len(s) THEN s[i] ELSE t[i - Len(s)]
  BY ConcatProperties
<1>2. ASSUME NEW j \in 1 .. Len(s)
      PROVE  (s \o t)[j] = s[j]
  <2>1. j \in 1 .. Len(s) + Len(t) /\ j <= Len(s)
    BY <1>1
  <2> QED
    BY <1>1, <2>1
<1> QED
  BY <1>1, <1>2 DEF BeginsWith

(* What begins with s begins with what s begins with. *)
LEMMA BeginsWithAll ==
  ASSUME NEW B, NEW r \in Seq(B), NEW s \in Seq(B), NEW t \in Seq(B),
         BeginsWith(r, s), BeginsWith(s, t)
  PROVE  BeginsWith(r, t)
<1>1. Len(r) \in Nat /\ Len(s) \in Nat /\ Len(t) \in Nat /\ Len(s) <= Len(r) /\ Len(t) <= Len(s)
  BY DEF BeginsWith
<1>2. Len(t) <= Len(r) /\ \A j \in 1 .. Len(t) : j \in 1 .. Len(s)
  BY <1>1
<1> QED
  BY <1>2 DEF BeginsWith

(* Fields that are joined are joined to those before them. *)
LEMMA JoinedStep ==
  ASSUME NEW seqs \in Seq(Seq(Bytes)), NEW fl \in [0 .. Len(seqs) -> Seq(Bytes)], Joined(fl, seqs),
         NEW i \in 1 .. Len(seqs)
  PROVE  /\ fl[i - 1] \in Seq(Bytes) /\ seqs[i] \in Seq(Bytes) /\ fl[i] \in Seq(Bytes)
         /\ fl[i] = fl[i - 1] \o seqs[i]
<1>1. Len(seqs) \in Nat
  OBVIOUS
<1>2. i - 1 \in 0 .. Len(seqs) /\ i \in 0 .. Len(seqs)
  BY <1>1
<1>3. fl[i - 1] \in Seq(Bytes) /\ fl[i] \in Seq(Bytes)
  BY <1>2
<1>4. seqs[i] \in Seq(Bytes)
  <2> DEFINE S == Seq(Bytes)
  <2>1. seqs \in Seq(S)
    OBVIOUS
  <2> HIDE DEF S
  <2>2. seqs[i] \in S
    BY <2>1
  <2> QED
    BY <2>2 DEF S
<1>5. fl[i] = fl[i - 1] \o seqs[i]
  BY DEF Joined
<1> QED
  BY <1>3, <1>4, <1>5

(* A body begins with its first fields. *)
LEMMA JoinedBegins ==
  ASSUME NEW seqs \in Seq(Seq(Bytes)), NEW fl \in [0 .. Len(seqs) -> Seq(Bytes)], Joined(fl, seqs),
         NEW i \in 0 .. Len(seqs)
  PROVE  BeginsWith(fl[Len(seqs)], fl[i])
<1> DEFINE N == Len(seqs)
           H == {k \in Nat : i + k <= N => BeginsWith(fl[i + k], fl[i])}
<1>1. N \in Nat /\ i \in Nat /\ i <= N /\ fl[i] \in Seq(Bytes)
  OBVIOUS
<1>2. 0 \in H
  <2>1. i + 0 = i
    BY <1>1
  <2>2. BeginsWith(fl[i], fl[i])
    BY <1>1 DEF BeginsWith
  <2> QED
    BY <2>1, <2>2
<1>3. ASSUME NEW k \in Nat, k \in H
      PROVE  k + 1 \in H
  <2> SUFFICES ASSUME i + (k + 1) <= N
               PROVE  BeginsWith(fl[i + (k + 1)], fl[i])
    OBVIOUS
  <2> DEFINE m == i + k
  <2>1. m \in 0 .. N /\ m + 1 \in 1 .. N /\ m + 1 \in 0 .. N /\ (m + 1) - 1 = m
        /\ i + (k + 1) = m + 1 /\ m <= N
    BY <1>1
  <2>2. BeginsWith(fl[m], fl[i])
    BY <1>3, <2>1
  <2> HIDE DEF m, N
  <2>3. fl[m + 1] = fl[m] \o seqs[m + 1] /\ fl[m] \in Seq(Bytes) /\ seqs[m + 1] \in Seq(Bytes)
        /\ fl[m + 1] \in Seq(Bytes)
    <3>1. m + 1 \in 1 .. Len(seqs)
      BY <2>1 DEF N
    <3>2. /\ fl[(m + 1) - 1] \in Seq(Bytes) /\ seqs[m + 1] \in Seq(Bytes) /\ fl[m + 1] \in Seq(Bytes)
          /\ fl[m + 1] = fl[(m + 1) - 1] \o seqs[m + 1]
      BY <3>1, JoinedStep, Zenon
    <3> QED
      BY <2>1, <3>2
  <2>4. BeginsWith(fl[m + 1], fl[m])
    BY <2>3, BeginsWithFirst
  <2> QED
    BY <1>1, <2>1, <2>2, <2>3, <2>4, BeginsWithAll
<1> HIDE DEF H
<1>4. Nat \subseteq H
  BY <1>2, <1>3, SetInduction
<1>5. N - i \in H /\ i + (N - i) = N /\ N <= N
  BY <1>1, <1>4
<1> QED
  BY <1>5 DEF H

(* A beginning of a body holds each field where the fields before it end. *)
LEMMA JoinedHolds ==
  ASSUME NEW seqs \in Seq(Seq(Bytes)), NEW fl \in [0 .. Len(seqs) -> Seq(Bytes)], Joined(fl, seqs),
         NEW i \in 1 .. Len(seqs), NEW n \in 0 .. Len(fl[Len(seqs)]),
         NEW d, d = SubSeq(fl[Len(seqs)], 1, n)
  PROVE  /\ Len(fl[i]) = Len(fl[i - 1]) + Len(seqs[i])
         /\ Len(fl[i - 1]) \in Nat /\ Len(seqs[i]) \in Nat
         /\ Holds(d, Len(fl[i - 1]), seqs[i])
<1> DEFINE N == Len(seqs)
           a == fl[i - 1]
           s == seqs[i]
           c == fl[i]
           p == fl[N]
<1>1. N \in Nat /\ i \in 0 .. N /\ i - 1 \in 0 .. N /\ N \in 0 .. N
  OBVIOUS
<1>2. a \in Seq(Bytes) /\ s \in Seq(Bytes) /\ c = a \o s /\ p \in Seq(Bytes) /\ c \in Seq(Bytes)
  <2>1. /\ fl[i - 1] \in Seq(Bytes) /\ seqs[i] \in Seq(Bytes) /\ fl[i] \in Seq(Bytes)
        /\ fl[i] = fl[i - 1] \o seqs[i]
    BY JoinedStep, Zenon
  <2>2. fl[N] \in Seq(Bytes)
    BY <1>1
  <2> QED
    BY <2>1, <2>2
<1>3. BeginsWith(p, c)
  BY <1>1, JoinedBegins
<1>4. n \in 0 .. Len(p) /\ d = SubSeq(p, 1, n)
  OBVIOUS
<1> HIDE DEF N, a, s, c, p
<1>5. /\ Len(a) \in Nat /\ Len(s) \in Nat /\ Len(c) = Len(a) + Len(s) /\ Len(p) \in Nat /\ n \in Nat
      /\ \A j \in 1 .. Len(a) + Len(s) : c[j] = IF j <= Len(a) THEN a[j] ELSE s[j - Len(a)]
  BY <1>2, <1>4, ConcatProperties
<1>6. Len(d) = n /\ \A j \in 1 .. n : d[j] = p[j]
  <2>1. d = [j \in 1 .. n |-> p[j]]
    BY <1>2, <1>4, <1>5
  <2> QED
    BY <1>2, <1>4, <1>5, <2>1
<1>7. ASSUME NEW j \in 1 .. Len(s), Len(a) + j <= Len(d)
      PROVE  d[Len(a) + j] = s[j]
  <2>1. /\ Len(a) + j \in 1 .. n /\ Len(a) + j \in 1 .. Len(a) + Len(s)
        /\ ~(Len(a) + j <= Len(a)) /\ (Len(a) + j) - Len(a) = j
    <3>1. Len(d) = n
      BY <1>6
    <3> QED
      BY <1>5, <1>7, <3>1
  <2>2. d[Len(a) + j] = p[Len(a) + j]
    BY <1>6, <2>1
  <2>3. p[Len(a) + j] = c[Len(a) + j]
    <3>1. Len(a) + j \in 1 .. Len(c)
      BY <1>5, <2>1
    <3> QED
      BY <1>3, <3>1 DEF BeginsWith
  <2>4. c[Len(a) + j] = s[j]
    BY <1>5, <2>1
  <2> QED
    BY <2>2, <2>3, <2>4
<1>8. Holds(d, Len(a), s)
  BY <1>7 DEF Holds
<1> QED
  BY <1>5, <1>8 DEF a, s, c

(* What the reader holds after the reads of the first k fields, which end at p. *)
ReadUpto(r, k, p, n, values) ==
  IF p <= n THEN r.fail = FALSE /\ r.pos = p /\ r.values = [j \in 1 .. k |-> values[j]]
            ELSE r.fail

(* The first k + 1 values are the first k and one more. *)
LEMMA AppendUpto ==
  ASSUME NEW k \in Nat, NEW values, NEW s \in Seq(Value), s = [j \in 1 .. k |-> values[j]],
         values[k + 1] \in Value
  PROVE  Append(s, values[k + 1]) = [j \in 1 .. k + 1 |-> values[j]]
<1> DEFINE x == values[k + 1]
           a == Append(s, x)
           c == [j \in 1 .. k + 1 |-> values[j]]
<1>1. Len(s) = k
  OBVIOUS
<1>2. \A j \in 1 .. k : s[j] = values[j]
  OBVIOUS
<1>3. x \in Value
  OBVIOUS
<1>4. DOMAIN c = 1 .. k + 1 /\ c = [j \in DOMAIN c |-> c[j]]
  OBVIOUS
<1>5. \A j \in 1 .. k : c[j] = values[j]
  OBVIOUS
<1>6. c[k + 1] = x
  OBVIOUS
<1> HIDE DEF x, c
<1>7. /\ a \in Seq(Value) /\ Len(a) = Len(s) + 1 /\ a[Len(s) + 1] = x
      /\ \A j \in 1 .. Len(s) : a[j] = s[j]
  BY <1>3, AppendProperties
<1> HIDE DEF a
<1>8. Len(a) = k + 1 /\ a[k + 1] = x /\ \A j \in 1 .. k : a[j] = s[j]
  BY <1>1, <1>7
<1>9. \A j \in 1 .. k + 1 : a[j] = c[j]
  <2>1. \A j \in 1 .. k + 1 : j = k + 1 \/ j \in 1 .. k
    OBVIOUS
  <2> QED
    BY <1>2, <1>5, <1>6, <1>8, <2>1
<1>10. DOMAIN a = 1 .. k + 1 /\ a = [j \in DOMAIN a |-> a[j]]
  BY <1>7, <1>8
<1>11. a = c
  BY <1>4, <1>9, <1>10
<1> QED
  BY <1>11 DEF a, c, x

(* Values the Writer accepts are accepted field by field. *)
LEMMA FieldsFit ==
  ASSUME NEW format, NEW values, Fits(format, values), Writable(format, values),
         NEW i \in 1 .. Len(format)
  PROVE  /\ format[i] \in Nat /\ FieldFits(format[i], values[i]) /\ values[i] \in Value
<1>1. format[i] \in Nat
  BY DEF Fits
<1>2. CASE format[i] = StringField
  <2>1. values[i] \in Seq(Bytes)
    BY <1>2 DEF Fits, Bytes
  <2>2. Len(values[i]) <= MaxString
    BY <1>2 DEF Writable
  <2> QED
    BY <1>1, <1>2, <2>1, <2>2 DEF FieldFits, Value
<1>3. CASE format[i] # StringField
  <2> DEFINE p == Power[format[i]]
  <2>1. values[i] \in 0 .. p - 1
    BY <1>3 DEF Fits
  <2>2. p \in Nat
    BY <1>1, Powers
  <2> HIDE DEF p
  <2>3. values[i] \in Nat /\ values[i] < p
    BY <2>1, <2>2
  <2> QED
    BY <1>1, <1>3, <2>3 DEF FieldFits, Value, p
<1> QED
  BY <1>2, <1>3

(* The read of the next field goes on from the fields read so far. *)
LEMMA FieldStep ==
  ASSUME NEW d \in Seq(Bytes), NEW r \in ReaderType(d), NEW k \in Nat, NEW w \in Nat, NEW values,
         FieldFits(w, values[k + 1]), values[k + 1] \in Value,
         NEW part, part = Part(w, values[k + 1]), NEW m, m = Len(part), m \in Nat,
         NEW p \in Nat, Holds(d, p, part), ReadUpto(r, k, p, Len(d), values)
  PROVE  ReadUpto(ReadField(r, w), k + 1, p + m, Len(d), values)
<1> DEFINE n == Len(d)
           a == ReadField(r, w)
<1>1. n \in Nat
  OBVIOUS
<1>2. CASE p <= n
  <2>1. r.fail = FALSE /\ r.pos = p /\ r.values = [j \in 1 .. k |-> values[j]] /\ r.values \in Seq(Value)
    BY <1>2 DEF ReadUpto, ReaderType
  <2>2. IF p + m <= n
          THEN a.fail = FALSE /\ a.pos = p + m /\ a.values = Append(r.values, values[k + 1])
          ELSE a.fail
    <3>1. Holds(d, r.pos, Part(w, values[k + 1]))
      BY <2>1
    <3>2. IF r.pos + Len(Part(w, values[k + 1])) <= Len(d)
            THEN /\ ReadField(r, w).fail = FALSE
                 /\ ReadField(r, w).pos = r.pos + Len(Part(w, values[k + 1]))
                 /\ ReadField(r, w).values = Append(r.values, values[k + 1])
            ELSE ReadField(r, w).fail
      BY <2>1, <3>1, FieldReadBack
    <3> QED
      BY <2>1, <3>2, Zenon
  <2>3. Append(r.values, values[k + 1]) = [j \in 1 .. k + 1 |-> values[j]]
    BY <2>1, AppendUpto
  <2> HIDE DEF n, a
  <2>4. ReadUpto(a, k + 1, p + m, n, values)
    BY <2>2, <2>3, Zenon DEF ReadUpto
  <2> QED
    BY <2>4 DEF a, n
<1>3. CASE ~(p <= n)
  <2>1. ~(p + m <= n)
    BY <1>1, <1>3
  <2>2. a.fail
    <3>1. r.fail
      BY <1>3 DEF ReadUpto
    <3> QED
      BY <3>1, FailureStands
  <2> QED
    BY <2>1, <2>2 DEF ReadUpto
<1> QED
  BY <1>2, <1>3

(* d is the first n bytes of payload, and d is all of them. *)
IsBeginning(d, payload, n) == n \in 0 .. Len(payload) /\ d = SubSeq(payload, 1, n)
IsWhole(payload, n) == n = Len(payload)
ReadsAs(format, d, values) ==
  ReadBody(format, d).fail = FALSE /\ ReadBody(format, d).values = values

(* The bytes of values the Writer accepts. *)
IsBody(format, values, payload) ==
  Fits(format, values) /\ Writable(format, values) /\ payload = Written(format, values)

(* The whole of a body is read back as it was written, and no beginning of it  *)
(* is taken for a body.                                                        *)
LEMMA BodyReadBack ==
  ASSUME NEW format, NEW vals, NEW payload, NEW n, NEW d, payload \in Seq(Bytes),
         IsBody(format, vals, payload), IsBeginning(d, payload, n)
  PROVE  /\ IsWhole(payload, n) => ReadsAs(format, d, vals)
         /\ ~IsWhole(payload, n) => ReadBody(format, d).fail
<1> DEFINE N == Len(format)
           seqs == Parts(format, vals)
<1>0. Fits(format, vals) /\ Writable(format, vals) /\ payload = Written(format, vals)
      /\ d = SubSeq(payload, 1, n) /\ n \in 0 .. Len(payload)
  BY DEF IsBody, IsBeginning
<1>1. N \in Nat /\ format \in Seq(Nat)
  BY <1>0 DEF Fits
<1>2. /\ seqs \in Seq(Seq(Bytes)) /\ Len(seqs) = N /\ payload = FlattenSeq(seqs)
      /\ \A i \in 1 .. N : seqs[i] = Part(format[i], vals[i])
  BY <1>0, PartsBytes DEF Parts
<1> HIDE DEF seqs
<1>3. PICK fl \in [0 .. Len(seqs) -> Seq(Bytes)] :
        /\ fl[0] = <<>> /\ FlattenSeq(seqs) = fl[Len(seqs)]
        /\ \A i \in 1 .. Len(seqs) : fl[i] = fl[i - 1] \o seqs[i]
  BY <1>2, Flattened
<1>4. Joined(fl, seqs) /\ payload = fl[Len(seqs)]
  BY <1>2, <1>3 DEF Joined
<1>5. Len(payload) \in Nat
  OBVIOUS
<1>6. d \in Seq(Bytes) /\ Len(d) = n /\ n \in Nat
  <2>1. n \in Nat /\ n <= Len(payload)
    BY <1>0, <1>5
  <2>2. \A i \in 1 .. n : payload[i] \in Bytes
    BY <1>5, <2>1
  <2>3. d = [i \in 1 .. n |-> payload[i]]
    BY <1>0, <1>5, <2>1
  <2>4. [i \in 1 .. n |-> payload[i]] \in Seq(Bytes)
    BY <2>1, <2>2
  <2> QED
    BY <2>1, <2>3, <2>4
<1>7. PICK at \in [0 .. Len(format) -> ReaderType(d)] :
        /\ at[0] = Reader(d) /\ ReadBody(format, d) = at[Len(format)]
        /\ \A i \in 1 .. Len(format) : at[i] = ReadField(at[i - 1], format[i])
  BY <1>1, <1>6, BodySteps
<1> DEFINE H == {k \in Nat : k <= N => ReadUpto(at[k], k, Len(fl[k]), n, vals)}
<1>8. 0 \in H
  <2>1. at[0].fail = FALSE /\ at[0].pos = 0 /\ at[0].values = <<>>
    BY <1>7 DEF Reader
  <2>2. Len(fl[0]) = 0 /\ 0 <= n /\ [j \in 1 .. 0 |-> vals[j]] = <<>>
    BY <1>3, <1>6
  <2>3. ReadUpto(at[0], 0, Len(fl[0]), n, vals)
    BY <2>1, <2>2 DEF ReadUpto
  <2> QED
    BY <2>3
<1>9. ASSUME NEW k \in Nat, k \in H
      PROVE  k + 1 \in H
  <2> SUFFICES ASSUME k + 1 <= N
               PROVE  ReadUpto(at[k + 1], k + 1, Len(fl[k + 1]), n, vals)
    OBVIOUS
  <2> DEFINE w == format[k + 1]
             part == seqs[k + 1]
             p == Len(fl[k])
             m == Len(part)
  <2>1. k <= N /\ k + 1 \in 1 .. N /\ (k + 1) - 1 = k /\ k \in 0 .. N
    BY <1>1
  <2>2. ReadUpto(at[k], k, p, n, vals)
    BY <1>9, <2>1
  <2>3. at[k + 1] = ReadField(at[k], w) /\ at[k] \in ReaderType(d)
    BY <1>7, <2>1
  <2>4. w \in Nat /\ FieldFits(w, vals[k + 1]) /\ vals[k + 1] \in Value
    BY <1>0, <2>1, FieldsFit
  <2>5. part = Part(w, vals[k + 1])
    BY <1>2, <2>1
  <2>6. Len(fl[k + 1]) = p + m /\ p \in Nat /\ m \in Nat /\ Holds(d, p, part)
    <3>1. k + 1 \in 1 .. Len(seqs) /\ n \in 0 .. Len(fl[Len(seqs)])
          /\ d = SubSeq(fl[Len(seqs)], 1, n)
      BY <1>0, <1>2, <1>4, <1>5, <2>1
    <3>2. /\ Len(fl[k + 1]) = Len(fl[(k + 1) - 1]) + Len(seqs[k + 1])
          /\ Len(fl[(k + 1) - 1]) \in Nat /\ Len(seqs[k + 1]) \in Nat
          /\ Holds(d, Len(fl[(k + 1) - 1]), seqs[k + 1])
      BY <1>2, <1>4, <3>1, JoinedHolds
    <3> QED
      BY <2>1, <3>2
  <2> HIDE DEF w, part, p, N
  <2>7. m = Len(part)
    OBVIOUS
  <2> HIDE DEF m
  <2>8. ReadUpto(ReadField(at[k], w), k + 1, p + m, Len(d), vals)
    <3>1. ReadUpto(at[k], k, p, Len(d), vals) /\ m \in Nat /\ p \in Nat
      BY <1>6, <2>2, <2>6
    <3> QED
      BY <1>6, <2>3, <2>4, <2>5, <2>6, <2>7, <3>1, FieldStep
  <2> QED
    BY <1>6, <2>3, <2>6, <2>8
<1> HIDE DEF H
<1>10. Nat \subseteq H
  BY <1>8, <1>9, SetInduction
<1>11. ReadUpto(ReadBody(format, d), N, Len(payload), n, vals)
  <2>1. N \in H /\ N <= N
    BY <1>1, <1>10
  <2>2. ReadUpto(at[N], N, Len(fl[N]), n, vals)
    BY <2>1 DEF H
  <2> QED
    BY <1>2, <1>4, <1>7, <2>2
<1>12. vals = [j \in 1 .. N |-> vals[j]]
  BY <1>0 DEF Fits
<1>13. IF Len(payload) <= n THEN n = Len(payload) ELSE n # Len(payload)
  <2>1. n \in Nat /\ n <= Len(payload)
    BY <1>0, <1>5
  <2> QED
    BY <1>5, <2>1
<1> HIDE DEF N
<1> QED
  BY <1>11, <1>12, <1>13 DEF ReadUpto, IsWhole, ReadsAs

-----------------------------------------------------------------------------
(* The same for all beginnings at once. *)
LEMMA BodyWhole ==
  ASSUME NEW format, NEW vals, NEW payload \in Seq(Bytes), IsBody(format, vals, payload)
  PROVE  /\ ~ReadBody(format, payload).fail /\ ReadBody(format, payload).values = vals
         /\ \A n \in 0 .. Len(payload) - 1 : ReadBody(format, SubSeq(payload, 1, n)).fail
<1>1. Len(payload) \in Nat
  OBVIOUS
<1>2. PICK d : d = payload
  OBVIOUS
<1>3. ReadsAs(format, d, vals)
  <2>1. PICK m : IsBeginning(d, payload, m) /\ IsWhole(payload, m)
    BY <1>1, <1>2 DEF IsBeginning, IsWhole
  <2> QED
    BY <2>1, BodyReadBack
<1>4. ASSUME NEW n \in 0 .. Len(payload) - 1
      PROVE  ReadBody(format, SubSeq(payload, 1, n)).fail
  <2>1. IsBeginning(SubSeq(payload, 1, n), payload, n) /\ ~IsWhole(payload, n)
    BY <1>1 DEF IsBeginning, IsWhole
  <2> QED
    BY <2>1, BodyReadBack
<1> QED
  BY <1>2, <1>3, <1>4 DEF ReadsAs

(* The same for a body the sender has to say. *)
LEMMA DeliveredReadBack ==
  ASSUME NEW b \in Bodies, Encodable(b), NEW payload, payload = Frame(b).payload
  PROVE  /\ ~ReadAs(b, payload).fail /\ ReadAs(b, payload).values = b.values
         /\ \A n \in 0 .. Len(payload) - 1 : ReadAs(b, SubSeq(payload, 1, n)).fail
<1>1. IsBody(Formats[b.type], b.values, payload)
  BY BodyFits DEF IsBody, Encodable, Frame
<1>2. payload \in Seq(Bytes)
  BY FrameTyped DEF FrameType
<1> QED
  BY <1>1, <1>2, BodyWhole DEF ReadAs

(* What is delivered was sent, so its body is read back. *)
LEMMA BodiesFollow == ProtocolInv => BodiesAreAllOrNothing
<1> SUFFICES ASSUME ProtocolInv, NEW i \in 1 .. Len(delivered)
             PROVE  \E b \in Bodies :
                      LET payload == delivered[i].payload IN
                      /\ delivered[i] = Frame(b)
                      /\ ~ReadAs(b, payload).fail /\ ReadAs(b, payload).values = b.values
                      /\ \A n \in 0 .. Len(payload) - 1 : ReadAs(b, SubSeq(payload, 1, n)).fail
  BY DEF BodiesAreAllOrNothing
<1>1. sent \in Seq(SentFrames) /\ delivered \in Seq(FrameType) /\ Traced(pipe, sent, delivered)
  BY DEF ProtocolInv, ProtocolTypeOK
<1>2. delivered[i] \in SentFrames
  BY <1>1, OnlySentFrames
<1>3. PICK b \in Bodies : Encodable(b) /\ delivered[i] = Frame(b)
  BY <1>2 DEF SentFrames
<1> QED
  BY <1>3, DeliveredReadBack

(* A body that was delivered is read back field by field as it was written,    *)
(* and no beginning of it is taken for a body.                                 *)
THEOREM BodiesWhole == Spec => []BodiesAreAllOrNothing
BY ProtocolInvariant, BodiesFollow, PTL
=============================================================================
