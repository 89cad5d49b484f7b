-------------------------------- MODULE Wire --------------------------------
(***************************************************************************)
(* The serialization primitives: Writer, and Reader with its error state.  *)
(* A byte is a digit of base Base, little-endian.  A message body is a     *)
(* sequence of fields; its format gives the width of each, StringField     *)
(* for a length-prefixed string.  A reader carries the values it returned. *)
(***************************************************************************)
EXTENDS SequencesExt, Integers

CONSTANTS
  Base,          \* the values of a byte
  LengthWidth,   \* bytes of a string's length
  MaxString      \* kMaxString

(* How many values n bytes have. *)
Power[n \in Nat] == IF n = 0 THEN 1 ELSE Base * Power[n - 1]

ASSUME WireAssumption ==
  /\ Base \in Nat \ {0, 1} /\ LengthWidth \in Nat \ {0} /\ MaxString \in Nat
  /\ MaxString < Power[LengthWidth]

StringField == 0

(* store_le and load_le *)
Stored(v, w) == [i \in 1 .. w |-> (v \div Power[i - 1]) % Base]
Loaded(s) == FoldLeftDomain(LAMBDA sum, i : sum + s[i] * Power[i - 1], 0, s)

-----------------------------------------------------------------------------
(* The values of a body have the types of its fields. *)
Fits(format, values) ==
  /\ format \in Seq(Nat)
  /\ values = [i \in 1 .. Len(format) |-> values[i]]
  /\ \A i \in 1 .. Len(format) :
       IF format[i] = StringField THEN values[i] \in Seq(0 .. Base - 1)
                                  ELSE values[i] \in 0 .. Power[format[i]] - 1

(* The Writer's string throws when it is too long. *)
Writable(format, values) ==
  \A i \in 1 .. Len(format) : format[i] = StringField => Len(values[i]) <= MaxString

Written(format, values) ==
  FlattenSeq([i \in 1 .. Len(format) |->
    IF format[i] = StringField
      THEN Stored(Len(values[i]), LengthWidth) \o values[i]
      ELSE Stored(values[i], format[i])])

-----------------------------------------------------------------------------
Reader(data) == [data |-> data, pos |-> 0, fail |-> FALSE, values |-> <<>>]

Remaining(r) == Len(r.data) - r.pos

(* Variant: the error state is that of the latest read. *)
ReadNumberForgiving(r, w) ==
  IF Remaining(r) < w THEN [r EXCEPT !.fail = TRUE, !.values = Append(@, 0)]
  ELSE [r EXCEPT !.pos = @ + w, !.fail = FALSE,
                 !.values = Append(@, Loaded(SubSeq(r.data, r.pos + 1, r.pos + w)))]

(* u8, u16, u32, u64.  A read that fails returns 0 and leaves the position     *)
(* alone: a shorter one after it may succeed, and the failure stands.          *)
ReadNumber(r, w) ==
  IF Remaining(r) < w THEN [r EXCEPT !.fail = TRUE, !.values = Append(@, 0)]
  ELSE [r EXCEPT !.pos = @ + w,
                 !.values = Append(@, Loaded(SubSeq(r.data, r.pos + 1, r.pos + w)))]

(* string, and likewise bytes and bytes_vec: the length, then that many bytes. *)
ReadString(r) ==
  LET after == ReadNumber(r, LengthWidth)
      len   == Last(after.values)
  IN  IF after.fail \/ len > MaxString \/ len > Remaining(after)
        THEN [after EXCEPT !.fail = TRUE, !.values = Append(r.values, <<>>)]
        ELSE [after EXCEPT !.pos = @ + len,
                !.values = Append(r.values, SubSeq(r.data, after.pos + 1, after.pos + len))]

(* The read functions of the bodies: every field in turn, and ok() at the end. *)
ReadBody(format, data) ==
  FoldLeft(LAMBDA r, w : IF w = StringField THEN ReadString(r) ELSE ReadNumber(r, w),
           Reader(data), format)
=============================================================================
