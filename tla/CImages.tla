------------------------------ MODULE CImages ------------------------------
(***************************************************************************)
(* hh_render and the encoders of src/c_api.cpp as a C host uses them.  The *)
(* host owns every buffer: the pixels, the encoded bytes and the size that *)
(* a first call with too small a buffer asks for.  Between the question    *)
(* and the call that uses its answer it may do anything.                   *)
(***************************************************************************)
EXTENDS Render

CONSTANTS Nothing,            \* not a value of anything below
          Pictures,           \* [fp, size, options] of the renders tried
          Formats,            \* a format with its quality and matte
          Sides,              \* the widths and heights passed
          EncoderCode(_),     \* what the encoder of a format answers, if
                              \* memory does not run out
          EncodedSize(_),     \* the bytes of the encoding of a request
          RenderSize(_, _),   \* width and height: the bytes of the pixels
          PixelCapacity,      \* the bytes of the host's pixel buffer
          MaxCapacity         \* bound: the largest buffer of encoded bytes

Requests == [format : Formats, pixels : Pictures \cup {Nothing},
             width : Sides, height : Sides]

ASSUME NothingAssumption == Nothing \notin Pictures \cup Requests
ASSUME EncodedSizeAssumption ==
  \A r \in Requests : EncodedSize(r) \in Nat \ {0}
ASSUME EncoderCodeAssumption ==
  \A f \in Formats : EncoderCode(f) \in {"ok", "invalid_quality"}
ASSUME CapacityAssumption ==
  /\ MaxCapacity \in Nat /\ PixelCapacity \in Nat
  /\ \A p \in Pictures : RenderSize(p.size, p.size) \in Nat

VARIABLES pixels,    \* the picture in the pixel buffer, or Nothing
          capacity,  \* the bytes of the buffer for encoded bytes, 0 for none
          bytes,     \* the request whose encoding is in it, or Nothing
          outSize,   \* *out_size
          code,      \* what the last call answered
          last,      \* history: the last encoding asked for, and with what
          asked      \* history: the last request answered buffer_too_small,
                     \* and the size that was reported

c_vars == <<pixels, capacity, bytes, outSize, code, last, asked>>

Calls == [request : Requests, null : BOOLEAN, capacity : Nat]
Answers == [request : Requests, size : Nat]

CInit ==
  /\ pixels = Nothing
  /\ capacity = 0 /\ bytes = Nothing
  /\ outSize = 0
  /\ code = "ok"
  /\ last = Nothing /\ asked = Nothing

-----------------------------------------------------------------------------
(* The host *)

\* malloc of the size last reported, or of any other.
Allocate ==
  \E n \in {outSize} \cup 0..MaxCapacity :
    /\ n <= MaxCapacity
    /\ capacity' = n /\ bytes' = Nothing
    /\ UNCHANGED <<pixels, outSize, code, last, asked>>

\* The host draws over the pixels itself.
Paint ==
  /\ pixels # Nothing
  /\ pixels' = Nothing
  /\ UNCHANGED <<capacity, bytes, outSize, code, last, asked>>

-----------------------------------------------------------------------------
(* hh_render *)

\* The fingerprint is imported, the structure of options is recognised by its
\* size, and only then the arguments themselves are looked at.
RenderCode(picture, options, room) ==
  IF picture.fp = "empty" THEN "invalid_fingerprint"
  ELSE IF options = "other size" THEN "invalid_argument"
  ELSE IF Prepare(picture.fp, picture.size, picture.options) # "ok"
  THEN Prepare(picture.fp, picture.size, picture.options)
  ELSE IF room < RenderSize(picture.size, picture.size) THEN "buffer_too_small"
  ELSE "ok"

HhRender ==
  \E picture \in Pictures, options \in {"initialised", "other size"} :
    /\ code' = RenderCode(picture, options, PixelCapacity)
    /\ pixels' = IF code' = "ok" THEN picture ELSE pixels
    /\ last' = Nothing
    /\ UNCHANGED <<capacity, bytes, outSize, asked>>

-----------------------------------------------------------------------------
(* encode_with *)

\* Mutant: a buffer of exactly the right size is refused.
TooTight(null, room, size) == null \/ room <= size

TooSmall(null, room, size) == null \/ room < size

\* The dimensions as the encoder wants them.
ValidSides(r) == r.width \in 1..4096 /\ r.height \in 1..4096

\* What an encoder answers to a request; memory may always run out.
EncoderCodes(r) == IF EncoderCode(r.format) = "ok" THEN {"ok", "out_of_memory"}
                   ELSE {EncoderCode(r.format)}

\* Mutant: the size is only written when there is one.
EncodeRefusedLate(r, null, room) ==
  /\ code' \in IF ValidSides(r) THEN EncoderCodes(r) \ {"ok"}
               ELSE {"invalid_image"}
  /\ UNCHANGED <<outSize, bytes, asked>>

\* The size is zeroed first, so it is zero when the call fails.
EncodeRefused(r, null, room) ==
  /\ code' \in IF ValidSides(r) THEN EncoderCodes(r) \ {"ok"}
               ELSE {"invalid_image"}
  /\ outSize' = 0
  /\ UNCHANGED <<bytes, asked>>

\* Mutant: as much is copied as there is room for.
EncodeAskedCopying(r, null, room) ==
  /\ ValidSides(r) /\ "ok" \in EncoderCodes(r)
  /\ outSize' = EncodedSize(r)
  /\ TooSmall(null, room, EncodedSize(r))
  /\ code' = "buffer_too_small"
  /\ bytes' = IF null THEN bytes ELSE r
  /\ asked' = [request |-> r, size |-> outSize']

\* The encoding is made, its size reported, and that is all.
EncodeAsked(r, null, room) ==
  /\ ValidSides(r) /\ "ok" \in EncoderCodes(r)
  /\ outSize' = EncodedSize(r)
  /\ TooSmall(null, room, EncodedSize(r))
  /\ code' = "buffer_too_small"
  /\ asked' = [request |-> r, size |-> outSize']
  /\ UNCHANGED bytes

EncodeDone(r, null, room) ==
  /\ ValidSides(r) /\ "ok" \in EncoderCodes(r)
  /\ outSize' = EncodedSize(r)
  /\ ~TooSmall(null, room, EncodedSize(r))
  /\ code' = "ok"
  /\ bytes' = r
  /\ UNCHANGED asked

\* The pixels and out_size are not null.  The host says how much room there is,
\* and never more than there is.
HhEncode ==
  \E format \in Formats, w \in Sides, h \in Sides, null \in BOOLEAN,
     room \in 0..capacity :
    LET r == [format |-> format, pixels |-> pixels, width |-> w, height |-> h]
    IN  /\ capacity = 0 => null
        /\ RenderSize(w, h) <= PixelCapacity
        /\ last' = [request |-> r, null |-> null, capacity |-> room]
        /\ UNCHANGED <<pixels, capacity>>
        /\ \/ EncodeRefused(r, null, room)
           \/ EncodeAsked(r, null, room)
           \/ EncodeDone(r, null, room)

\* A null pointer: not even the size is written.
HhEncodeNull ==
  /\ code' = "invalid_argument"
  /\ last' = Nothing
  /\ UNCHANGED <<pixels, capacity, bytes, outSize, asked>>

CNext == Allocate \/ Paint \/ HhRender \/ HhEncode \/ HhEncodeNull

CSpec == CInit /\ [][CNext]_c_vars

-----------------------------------------------------------------------------
(* Properties *)

TypeOK ==
  /\ pixels \in Pictures \cup {Nothing}
  /\ capacity \in Nat /\ outSize \in Nat
  /\ bytes \in Requests \cup {Nothing}
  /\ last \in Calls \cup {Nothing}
  /\ asked \in Answers \cup {Nothing}

\* Once a call has reported a size, the same request with a buffer of that size
\* is never told it is too small, whatever else the host has encoded, drawn or
\* allocated in between (hh.h:154-155 "a first call with a null buffer is the
\* size query").
QueryIsEnough ==
  /\ last # Nothing /\ asked # Nothing
  /\ last.request = asked.request
  /\ ~last.null /\ last.capacity >= asked.size
  => code # "buffer_too_small"

\* After a call of an encoder the size is the one of what it was asked to
\* encode, also when that did not fit, and never one of an earlier call
\* (hh.h:152-153).
SizeIsOfLastRequest ==
  last # Nothing =>
    outSize = IF code \in {"ok", "buffer_too_small"}
              THEN EncodedSize(last.request) ELSE 0

\* The bytes in the buffer are a whole encoding and fit it.
EncodingFits == bytes # Nothing => EncodedSize(bytes) <= capacity

\* A picture is only drawn to a buffer with room for all of it.
PictureFits ==
  pixels # Nothing => RenderSize(pixels.size, pixels.size) <= PixelCapacity

\* A call that fails writes neither the pixels nor the bytes (hh.h:153-154 "and
\* nothing is written").
FailureWritesNothing ==
  [][code' # "ok" => Allocate \/ Paint \/ UNCHANGED <<pixels, bytes>>]_c_vars
=============================================================================
