----------------------------- MODULE HostProofs -----------------------------
(***************************************************************************)
(* What a host is promised, for any sizes, options, formats and contents,  *)
(* and in whatever order it calls: the size query of the C interface, the  *)
(* image and the bytes that are used again for one picture after another,  *)
(* and results that are written over the arguments they are made from.     *)
(* What is refused for want of room follows from the proofs about the      *)
(* geometry.                                                               *)
(***************************************************************************)
EXTENDS Picture, CImages, CIdentity, GeometryProofs, SequenceTheorems,
        FiniteSetTheorems, WellFoundedInduction

-----------------------------------------------------------------------------
(* The size query: CImages *)

\* The size a query reported is the size of what was asked for.
AskedIsSize ==
  asked # Nothing => asked.size = EncodedSize(asked.request)

\* A buffer that was called too small was.
RefusedWasSmall ==
  last # Nothing /\ code = "buffer_too_small" =>
    last.null \/ last.capacity < EncodedSize(last.request)

IInv ==
  /\ TypeOK
  /\ SizeIsOfLastRequest
  /\ EncodingFits
  /\ PictureFits
  /\ AskedIsSize
  /\ RefusedWasSmall

\* Nothing is drawn, encoded or asked at first.
LEMMA InitIInv == CInit => IInv
  BY DEF CInit, IInv, TypeOK, SizeIsOfLastRequest, EncodingFits, PictureFits,
         AskedIsSize, RefusedWasSmall

\* A new buffer holds no encoding.
LEMMA AllocateIInv == IInv /\ Allocate => IInv'
<1> SUFFICES ASSUME IInv, Allocate PROVE IInv'
  OBVIOUS
<1>1. PICK n \in {outSize} \cup 0..MaxCapacity :
        /\ capacity' = n /\ bytes' = Nothing
        /\ UNCHANGED <<pixels, outSize, code, last, asked>>
  BY DEF Allocate
<1>2. n \in Nat
  BY CapacityAssumption DEF IInv, TypeOK
<1> QED
  BY <1>1, <1>2 DEF IInv, TypeOK, SizeIsOfLastRequest, EncodingFits,
                    PictureFits, AskedIsSize, RefusedWasSmall

\* A number that is not less is at most.
LEMMA NotLess ==
  ASSUME NEW m \in Nat, NEW n \in Nat, ~(m < n) PROVE n <= m
  OBVIOUS

\* A picture is drawn only after its size has been compared.
LEMMA RenderIInv == IInv /\ HhRender => IInv'
<1> SUFFICES ASSUME IInv, HhRender PROVE IInv'
  OBVIOUS
<1>1. PICK picture \in Pictures, options \in {"initialised", "other size"} :
        /\ code' = RenderCode(picture, options, PixelCapacity)
        /\ pixels' = IF code' = "ok" THEN picture ELSE pixels
        /\ last' = Nothing
        /\ UNCHANGED <<capacity, bytes, outSize, asked>>
  BY DEF HhRender
<1>2. code' = "ok" =>
        ~(PixelCapacity < RenderSize(picture.size, picture.size))
  BY <1>1 DEF RenderCode
<1>3. PictureFits'
  <2>1. CASE code' = "ok"
    <3>1. pixels' = picture
      BY <1>1, <2>1
    <3>2. RenderSize(picture.size, picture.size) <= PixelCapacity
      <4> DEFINE needed == RenderSize(picture.size, picture.size)
      <4>1. needed \in Nat /\ PixelCapacity \in Nat
        BY CapacityAssumption, Zenon
      <4>2. ~(PixelCapacity < needed)
        BY <1>2, <2>1, Zenon
      <4> HIDE DEF needed
      <4>3. needed <= PixelCapacity
        BY <4>1, <4>2, NotLess
      <4> QED
        BY <4>3 DEF needed
    <3> QED
      BY <3>1, <3>2 DEF PictureFits
  <2>2. CASE code' # "ok"
    <3>1. pixels' = pixels
      BY <1>1, <2>2
    <3> QED
      BY <3>1 DEF PictureFits, IInv
  <2> QED
    BY <2>1, <2>2
<1>4. TypeOK'
  BY <1>1 DEF TypeOK, IInv
<1>5. (SizeIsOfLastRequest /\ RefusedWasSmall)'
  BY <1>1 DEF SizeIsOfLastRequest, RefusedWasSmall
<1>6. (EncodingFits /\ AskedIsSize)'
  BY <1>1 DEF IInv, EncodingFits, AskedIsSize
<1> QED
  BY <1>3, <1>4, <1>5, <1>6 DEF IInv

\* A call of an encoder reports the size of its own request, if it reports one.
LEMMA EncodeIInv == IInv /\ HhEncode => IInv'
<1> SUFFICES ASSUME IInv, HhEncode PROVE IInv'
  OBVIOUS
<1>1. PICK format \in Formats, w \in Sides, h \in Sides, null \in BOOLEAN,
           room \in 0..capacity :
        LET r == [format |-> format, pixels |-> pixels, width |-> w, height |-> h]
        IN  /\ last' = [request |-> r, null |-> null, capacity |-> room]
            /\ UNCHANGED <<pixels, capacity>>
            /\ \/ EncodeRefused(r, null, room)
               \/ EncodeAsked(r, null, room)
               \/ EncodeDone(r, null, room)
  BY DEF HhEncode
<1> DEFINE r == [format |-> format, pixels |-> pixels, width |-> w, height |-> h]
<1>2. /\ last' = [request |-> r, null |-> null, capacity |-> room]
      /\ UNCHANGED <<pixels, capacity>>
  BY <1>1
<1>3. r \in Requests /\ room \in Nat /\ room <= capacity /\ capacity \in Nat
      /\ EncodedSize(r) \in Nat
  <2>1. r \in Requests
    BY DEF Requests, IInv, TypeOK
  <2> QED
    BY <2>1, EncodedSizeAssumption DEF IInv, TypeOK
<1>4. last'.request = r /\ last'.null = null /\ last'.capacity = room
      /\ last' \in Calls
  BY <1>2, <1>3 DEF Calls
<1>5. EncodeRefused(r, null, room) \/ EncodeAsked(r, null, room)
        \/ EncodeDone(r, null, room)
  BY <1>1
<1>6. PictureFits'
  BY <1>2 DEF IInv, PictureFits
<1> HIDE DEF r
<1>7. CASE EncodeRefused(r, null, room)
  <2>1. code' \notin {"ok", "buffer_too_small"} /\ outSize' = 0
        /\ bytes' = bytes /\ asked' = asked
    BY <1>7, EncoderCodeAssumption, <1>3
       DEF EncodeRefused, EncoderCodes, Requests
  <2> QED
    BY <1>2, <1>4, <1>6, <2>1
       DEF IInv, TypeOK, SizeIsOfLastRequest, EncodingFits, AskedIsSize,
           RefusedWasSmall
<1>8. CASE EncodeAsked(r, null, room)
  <2>1. /\ code' = "buffer_too_small" /\ outSize' = EncodedSize(r)
        /\ asked' = [request |-> r, size |-> outSize'] /\ bytes' = bytes
        /\ null \/ room < EncodedSize(r)
    BY <1>8 DEF EncodeAsked, TooSmall
  <2>2. asked'.request = r /\ asked'.size = EncodedSize(r) /\ asked' \in Answers
    BY <1>3, <2>1 DEF Answers
  <2> QED
    BY <1>2, <1>3, <1>4, <1>6, <2>1, <2>2
       DEF IInv, TypeOK, SizeIsOfLastRequest, EncodingFits, AskedIsSize,
           RefusedWasSmall
<1>9. CASE EncodeDone(r, null, room)
  <2>1. /\ code' = "ok" /\ outSize' = EncodedSize(r)
        /\ asked' = asked /\ bytes' = r
        /\ ~(room < EncodedSize(r))
    BY <1>9 DEF EncodeDone, TooSmall
  <2>2. EncodedSize(r) <= capacity
    BY <1>3, <2>1
  <2> QED
    BY <1>2, <1>3, <1>4, <1>6, <2>1, <2>2
       DEF IInv, TypeOK, SizeIsOfLastRequest, EncodingFits, AskedIsSize,
           RefusedWasSmall
<1> QED
  BY <1>5, <1>7, <1>8, <1>9

\* Every step keeps the strengthened invariant.
LEMMA StepIInv == IInv /\ [CNext]_c_vars => IInv'
<1>1. IInv /\ Paint => IInv'
  BY DEF Paint, IInv, TypeOK, SizeIsOfLastRequest, EncodingFits, PictureFits,
         AskedIsSize, RefusedWasSmall
<1>2. IInv /\ HhEncodeNull => IInv'
  BY DEF HhEncodeNull, IInv, TypeOK, SizeIsOfLastRequest, EncodingFits,
         PictureFits, AskedIsSize, RefusedWasSmall
<1>3. IInv /\ UNCHANGED c_vars => IInv'
  BY DEF c_vars, IInv, TypeOK, SizeIsOfLastRequest, EncodingFits, PictureFits,
         AskedIsSize, RefusedWasSmall
<1> QED
  BY <1>1, <1>2, <1>3, AllocateIInv, RenderIInv, EncodeIInv DEF CNext

\* A buffer of the size a query reported is never too small for the same
\* request, however long ago it was asked (hh.h:154-155).
THEOREM QueriesAreEnough == CSpec => []QueryIsEnough
<1>1. IInv => QueryIsEnough
  <2> SUFFICES ASSUME IInv, last # Nothing, asked # Nothing,
                      last.request = asked.request, ~last.null,
                      last.capacity >= asked.size, code = "buffer_too_small"
               PROVE  FALSE
    BY DEF QueryIsEnough
  <2>1. asked.size = EncodedSize(last.request)
    BY DEF IInv, AskedIsSize
  <2>2. last.capacity < EncodedSize(last.request)
    BY DEF IInv, RefusedWasSmall
  <2>3. last.capacity \in Nat /\ EncodedSize(last.request) \in Nat
    BY EncodedSizeAssumption DEF IInv, TypeOK, Calls
  <2> QED
    BY <2>1, <2>2, <2>3
<1> QED
  BY <1>1, InitIInv, StepIInv, PTL DEF CSpec

\* *out_size is never the size of an earlier request (hh.h:152-153).
THEOREM SizesAreOfLastRequest == CSpec => []SizeIsOfLastRequest
<1>1. IInv => SizeIsOfLastRequest
  BY DEF IInv
<1> QED
  BY <1>1, InitIInv, StepIInv, PTL DEF CSpec

\* No encoding is written past the capacity the host named, and no picture past
\* the pixel buffer.
THEOREM BuffersHold == CSpec => [](EncodingFits /\ PictureFits)
<1>1. IInv => EncodingFits /\ PictureFits
  BY DEF IInv
<1> QED
  BY <1>1, InitIInv, StepIInv, PTL DEF CSpec

\* A call that fails leaves the host's pixels and bytes alone (hh.h:153-154).
THEOREM FailuresWriteNothing == CSpec => FailureWritesNothing
<1>1. IInv /\ [CNext]_c_vars =>
        [code' # "ok" => Allocate \/ Paint \/ UNCHANGED <<pixels, bytes>>]_c_vars
  <2>1. HhRender /\ code' # "ok" => UNCHANGED <<pixels, bytes>>
    BY DEF HhRender
  <2>2. HhEncode /\ code' # "ok" => UNCHANGED <<pixels, bytes>>
    BY DEF HhEncode, EncodeRefused, EncodeAsked, EncodeDone
  <2>3. HhEncodeNull => UNCHANGED <<pixels, bytes>>
    BY DEF HhEncodeNull
  <2> QED
    BY <2>1, <2>2, <2>3 DEF CNext
<1> QED
  BY <1>1, InitIInv, StepIInv, PTL DEF CSpec, FailureWritesNothing
-----------------------------------------------------------------------------
(* The image and the bytes: Picture *)

\* The first check that fails is reported.
LEMMA FirstIsReported ==
  ASSUME NEW checks, NEW n \in Nat, DOMAIN checks = 1..n,
         NEW i \in 1..n, checks[i].fails, \A j \in 1..(i - 1) : ~checks[j].fails
  PROVE  FirstFailure(checks) = checks[i].code
<1> DEFINE first(k) == checks[k].fails /\ \A j \in 1..(k - 1) : ~checks[j].fails
<1>1. first(i)
  OBVIOUS
<1>2. ASSUME NEW k \in 1..n, first(k) PROVE k = i
  <2>1. ~(k < i) /\ ~(i < k)
    BY <1>2
  <2> QED
    BY <2>1
<1>3. (CHOOSE k \in DOMAIN checks : first(k)) = i
  <2> HIDE DEF first
  <2> QED
    BY <1>1, <1>2
<1> QED
  BY <1>3 DEF FirstFailure

\* Of two lists of checks the second is asked only if the first lets pass.
LEMMA FirstOfTwo ==
  ASSUME NEW a \in BOOLEAN, NEW b \in BOOLEAN, NEW x, NEW y
  PROVE  FirstFailure(<<Check(a, x), Check(b, y)>>) =
           IF a THEN x ELSE IF b THEN y ELSE "ok"
<1> DEFINE checks == <<Check(a, x), Check(b, y)>>
<1>1. /\ DOMAIN checks = 1..2
      /\ checks[1].code = x /\ checks[2].code = y
  BY DEF Check
<1>2. checks[1].fails <=> a
  BY DEF Check
<1>3. checks[2].fails <=> b
  BY DEF Check
<1> HIDE DEF checks
<1>4. ASSUME a PROVE FirstFailure(checks) = x
  <2>1. /\ 2 \in Nat /\ 1 \in 1..2 /\ checks[1].fails
        /\ \A j \in 1..(1 - 1) : ~checks[j].fails
    BY <1>2, <1>4
  <2> QED
    BY <1>1, <2>1, FirstIsReported
<1>5. ASSUME ~a, b PROVE FirstFailure(checks) = y
  <2>1. /\ 2 \in Nat /\ 2 \in 1..2 /\ checks[2].fails
        /\ \A j \in 1..(2 - 1) : ~checks[j].fails
    BY <1>2, <1>3, <1>5
  <2> QED
    BY <1>1, <2>1, FirstIsReported
<1>6. ~a /\ ~b => FirstFailure(checks) = "ok"
  BY <1>1, <1>2, <1>3 DEF FirstFailure
<1> QED
  BY <1>4, <1>5, <1>6 DEF checks

\* A picture is drawn from the request it was prepared for, to an image that has
\* been emptied; what is encoded has all its pixels, and what there is of the
\* bytes is of it.
UnderWay ==
  /\ pc \in {"host", "rasterise", "encode"}
  /\ pc = "rasterise" => job = request /\ job.size \in Nat /\ img = EmptyImage
                         /\ ~altered
  /\ pc = "encode" => /\ job.image.length = Area(job.image)
                      /\ out # NoBytes => out.of = job

\* The image at any time, and the bytes unless they are being written.
ImageAnyTime ==
  ~altered => \/ img = EmptyImage
              \/ /\ img.shows = request
                 /\ img.width = request.size /\ img.height = request.size
                 /\ img.length = Area(img)
BytesAnyTime ==
  pc # "encode" => \/ out = NoBytes
                   \/ out.pieces = Pieces /\ out.of.image.length = Area(out.of.image)

PictureIInv == UnderWay /\ ImageAnyTime /\ BytesAnyTime

\* There is no image, and no file, at first.
LEMMA InitPicture == PictureInit => PictureIInv
  BY DEF PictureInit, PictureIInv, UnderWay, ImageAnyTime, BytesAnyTime

\* A render that begins leaves image and bytes alone.
LEMMA BeginRenderKeeps == PictureIInv /\ BeginRender => PictureIInv'
<1> SUFFICES ASSUME PictureIInv, BeginRender PROVE PictureIInv'
  OBVIOUS
<1>1. PICK fp \in Prints, size \in Sizes, o \in OptionsTried :
        /\ pc = "host"
        /\ img' = EmptyImage
        /\ request' = [fp |-> fp, size |-> size, options |-> o]
        /\ altered' = FALSE
        /\ IF answered' = "ok" THEN pc' = "rasterise" /\ job' = request'
           ELSE UNCHANGED <<pc, job>>
        /\ UNCHANGED out
  BY Zenon DEF BeginRender
<1>2. request'.size \in Nat
  BY <1>1, PictureAssumption
<1> QED
  BY <1>1, <1>2 DEF PictureIInv, UnderWay, ImageAnyTime, BytesAnyTime

\* An encoding that begins has an image that is whole.
LEMMA BeginEncodeKeeps == PictureIInv /\ BeginEncode => PictureIInv'
<1> SUFFICES ASSUME PictureIInv, BeginEncode PROVE PictureIInv'
  OBVIOUS
<1>1. PICK format \in ImageFormats, quality \in Qualities :
        /\ pc = "host"
        /\ out' = NoBytes
        /\ answered' = FirstFailure(<<
                 Check(~ValidImage(img), "invalid_image"),
                 Check(~QualityInRange(format, quality), "invalid_quality")>>)
        /\ IF answered' = "ok"
           THEN pc' = "encode" /\ job' = [format |-> format, quality |-> quality,
                                      image |-> img]
           ELSE UNCHANGED <<pc, job>>
        /\ UNCHANGED <<request, img, altered>>
  BY Zenon DEF BeginEncode
<1>2. answered' = "ok" => ValidImage(img)
  <2>1. (~ValidImage(img)) \in BOOLEAN /\ (~QualityInRange(format, quality)) \in BOOLEAN
    BY DEF ValidImage
  <2>2. answered' = IF ~ValidImage(img) THEN "invalid_image"
                    ELSE IF ~QualityInRange(format, quality) THEN "invalid_quality"
                    ELSE "ok"
    <3> DEFINE a == ~ValidImage(img)
               b == ~QualityInRange(format, quality)
    <3>1. answered' = FirstFailure(<<Check(a, "invalid_image"),
                                     Check(b, "invalid_quality")>>)
      BY <1>1
    <3> HIDE DEF a, b
    <3>2. answered' = IF a THEN "invalid_image" ELSE IF b THEN "invalid_quality"
                      ELSE "ok"
      BY ZenonT(60), <2>1, <3>1, FirstOfTwo DEF a, b
    <3> QED
      BY <3>2 DEF a, b
  <2> QED
    BY <2>2
<1>3. ImageAnyTime'
  BY <1>1 DEF PictureIInv, ImageAnyTime, Area
<1>4. BytesAnyTime'
  BY <1>1 DEF BytesAnyTime
<1>5. UnderWay'
  <2>1. CASE answered' = "ok"
    <3>1. /\ pc' = "encode" /\ out' = NoBytes
          /\ job'.image = img
      BY <1>1, <2>1
    <3> QED
      BY <1>2, <2>1, <3>1 DEF UnderWay, ValidImage, Area
  <2>2. CASE answered' # "ok"
    BY <1>1, <2>2 DEF PictureIInv, UnderWay
  <2> QED
    BY <2>1, <2>2
<1> QED
  BY <1>3, <1>4, <1>5 DEF PictureIInv

\* Each step of a render or an encoding keeps the invariant.
LEMMA StepPicture == PictureIInv /\ [PictureNext]_picture_vars => PictureIInv'
<1> SUFFICES ASSUME PictureIInv, [PictureNext]_picture_vars PROVE PictureIInv'
  OBVIOUS
<1> USE DEF PictureIInv, UnderWay, ImageAnyTime, BytesAnyTime
<1>1. CASE OutOfPixels
  BY <1>1 DEF OutOfPixels, Area
<1>2. CASE Rasterise
  <2>1. /\ pc = "rasterise" /\ pc' = "host" /\ UNCHANGED <<request, out, altered>>
        /\ job = request /\ job.size \in Nat
        /\ \/ img' = EmptyImage
           \/ img' = [width |-> job.size, height |-> job.size, shows |-> job,
                      length |-> job.size * job.size]
    BY <1>2 DEF Rasterise
  <2>2. UnderWay' /\ BytesAnyTime'
    BY <2>1 DEF Area
  <2>3. ImageAnyTime'
    <3>1. CASE img' = EmptyImage
      BY <3>1
    <3>2. CASE img' = [width |-> job.size, height |-> job.size, shows |-> job,
                       length |-> job.size * job.size]
      <4>1. /\ img'.shows = request' /\ img'.width = request'.size
            /\ img'.height = request'.size
            /\ img'.length = request'.size * request'.size
        BY <2>1, <3>2
      <4> QED
        BY <4>1 DEF Area
    <3> QED
      BY <2>1, <3>1, <3>2
  <2> QED
    BY <2>2, <2>3
<1>3. CASE AlterImage
  BY <1>3 DEF AlterImage
<1>4. CASE EncodePiece
  BY <1>4 DEF EncodePiece, Area
<1>5. CASE OutOfBytes
  BY <1>5 DEF OutOfBytes, Area
<1>6. CASE EndEncode
  <2>1. out # NoBytes
    BY <1>6 DEF EndEncode, NoBytes, Pieces
  <2> QED
    BY <1>6, <2>1 DEF EndEncode, Area
<1>7. CASE UNCHANGED picture_vars
  BY <1>7 DEF picture_vars, Area
<1> QED
  BY <1>1, <1>2, <1>3, <1>4, <1>5, <1>6, <1>7, BeginRenderKeeps,
     BeginEncodeKeeps DEF PictureNext

\* An image that a caller gets shows the whole picture of its last successful
\* render, for every size, however many renders were refused since.
THEOREM ImagesAreLastPicture == PictureSpec => []ImageIsLastPicture
<1>1. PictureIInv => ImageIsLastPicture
  BY DEF PictureIInv, ImageAnyTime, ImageIsLastPicture
<1> QED
  BY <1>1, InitPicture, StepPicture, PTL DEF PictureSpec

\* The bytes a caller gets are a whole file of one image, or the ones it had.
THEOREM WholeFilesOrNone == PictureSpec => []WholeFileOrNone
<1>1. PictureIInv => WholeFileOrNone
  BY DEF PictureIInv, BytesAnyTime, WholeFileOrNone
<1> QED
  BY <1>1, InitPicture, StepPicture, PTL DEF PictureSpec

-----------------------------------------------------------------------------
(* Refusals: Picture *)

\* Sets of natural numbers have a least one: the initial segments up to their
\* members are finite, and so well ordered by inclusion.
LEMMA Least ==
  ASSUME NEW T \in SUBSET Nat, T # {}
  PROVE  \E n \in T : \A m \in T : n <= m
<1> DEFINE F == {0..k : k \in T}
<1>1. F \subseteq FiniteSubsetsOf(Nat) /\ F # {}
  <2>1. ASSUME NEW k \in T PROVE 0..k \in FiniteSubsetsOf(Nat)
    BY FS_Interval DEF FiniteSubsetsOf
  <2> QED
    BY <2>1
<1>2. PICK x \in F : \A y \in F : <<y, x>> \notin StrictSubsetOrdering(Nat)
  <2> HIDE DEF F
  <2> QED
    BY <1>1, WFMin, FS_StrictSubsetOrderingWellFounded
<1>3. PICK n \in T : x = 0..n
  OBVIOUS
<1>4. ASSUME NEW m \in T PROVE n <= m
  <2> SUFFICES ASSUME m < n PROVE FALSE
    OBVIOUS
  <2>1. 0..m \in F
    OBVIOUS
  <2>2. /\ 0..m \in SUBSET Nat /\ 0..n \in SUBSET Nat
        /\ 0..m \subseteq 0..n /\ n \in 0..n /\ n \notin 0..m
    OBVIOUS
  <2>3. <<0..m, 0..n>> \in StrictSubsetOrdering(Nat)
    BY <2>2 DEF StrictSubsetOrdering
  <2> QED
    BY <1>2, <1>3, <2>1, <2>3
<1> QED
  BY <1>4

\* A circle has no room for cells wider than the image.
LEMMA WidestCell ==
  ASSUME NEW s \in 16..1024, NEW f \in RoundStyles, NEW t \in Nat, t >= s
  PROVE  ~Fits(s, f, t)
<1> DEFINE w == Line(s)
           n == 4 * t + 3 * w
           m == s - 2 * (RingWidth(f) * w + w)
<1>1. w \in Nat /\ w >= 1 /\ 16 * w <= s /\ Gutter(s) = w
  BY DEF Line, Gutter, Larger
<1>2. RingWidth(f) \in {1, 3}
  BY DEF RingWidth
<1>3. m \in Int /\ n \in Nat /\ m < n /\ -m < n
  BY <1>1, <1>2
<1> HIDE DEF m, n
<1>4. m * m < 2 * (n * n)
  <2>1. PICK a \in Nat : a < n /\ m * m = a * a
    <3>1. CASE m >= 0
      BY <1>3, <3>1
    <3>2. CASE m < 0
      BY <1>3, <3>2, (-m) * (-m) = m * m, -m \in Nat
    <3> QED
      BY <1>3, <3>1, <3>2
  <2>2. a * a <= n * n
    BY <1>3, <2>1, SquaresOrdered
  <2>3. n * n >= 1 /\ n * n \in Nat /\ a * a \in Nat
    BY <1>3, <2>1, Z3
  <2> QED
    BY <2>1, <2>2, <2>3
<1>5. Fits(s, f, t) <=> 2 * (n * n) <= m * m
  BY <1>1, Zenon DEF Fits, Square, RoundMargin, m, n
<1> QED
  BY <1>3, <1>4, <1>5

\* A picture has no room for its cells exactly if it is round, with one of the
\* wide frames, and smaller than 18 pixels.
LEMMA NoRoom ==
  ASSUME NEW s \in 16..1024, NEW sh \in Shape, NEW f, FrameAllowed(f, sh)
  PROVE  MakeGeometry(s, sh, f).cell < 1
           <=> sh = "round" /\ f \in {"double_line", "thick"} /\ s < 18
<1>1. CASE sh = "square"
  <2>1. SquareCell(s) \in Nat /\ SquareCell(s) >= 1
    BY SquareSide
  <2>2. MakeGeometry(s, sh, f).cell = SquareCell(s)
    BY <1>1 DEF MakeGeometry, GeometryOf
  <2> QED
    BY <1>1, <2>1, <2>2
<1>2. CASE sh = "round"
  <2>1. f \in RoundStyles
    BY <1>2 DEF FrameAllowed
  <2> DEFINE Last(t) == ~Fits(s, f, t + 1) /\ \A u \in 1..t : Fits(s, f, u)
             T == {n \in Nat : ~Fits(s, f, n + 1)}
  <2>2. \E t \in 0..s : Last(t)
    <3>1. s \in T
      <4>1. s \in Nat /\ s + 1 \in Nat /\ s + 1 >= s
        OBVIOUS
      <4>2. ~Fits(s, f, s + 1)
        BY <2>1, <4>1, WidestCell
      <4> QED
        BY <4>1, <4>2
    <3>2. PICK t \in T : \A n \in T : t <= n
      BY <3>1, Least
    <3>3. ASSUME NEW u \in 1..t PROVE Fits(s, f, u)
      <4>1. u - 1 \in Nat /\ ~(t <= u - 1)
        BY <3>2
      <4>2. u - 1 \notin T
        BY <3>2, <4>1
      <4> QED
        BY <4>1, <4>2
    <3> QED
      BY <3>1, <3>2, <3>3
  <2>3. RoundCell(s, f) \in 0..s /\ Last(RoundCell(s, f))
    BY <2>2 DEF RoundCell
  <2>4. MakeGeometry(s, sh, f).cell = RoundCell(s, f)
    BY <1>2 DEF MakeGeometry, GeometryOf
  <2>5. RoundCell(s, f) < 1 <=> ~Fits(s, f, 1)
    BY <2>3
  <2>6. Fits(s, f, 1) <=> ~(f \in {"double_line", "thick"} /\ s < 18)
    BY <2>1, SmallestCell
  <2> QED
    BY <1>2, <2>4, <2>5, <2>6
<1> QED
  BY <1>1, <1>2 DEF Shape

\* What prepare answers, one check after another.
LEMMA PrepareAnswers ==
  ASSUME NEW fp \in Prints, NEW s \in Nat, NEW o \in Options
  PROVE  LET resolved == ResolveFrame(o.frame, fp, o.shape)
             noRoom == MakeGeometry(s, o.shape, resolved).cell < 1
         IN  Prepare(fp, s, o) =
               IF fp = "empty" THEN "invalid_fingerprint"
               ELSE IF o.shape = "bad" \/ o.frame = "bad" THEN "invalid_argument"
               ELSE IF s \notin 16..1024 THEN "invalid_size"
               ELSE IF ~FrameAllowed(resolved, o.shape) THEN "invalid_frame"
               ELSE IF o.opaque /\ ~o.distinct THEN "low_contrast"
               ELSE IF noRoom THEN "invalid_size" ELSE "ok"
<1> DEFINE resolved == ResolveFrame(o.frame, fp, o.shape)
           a == fp = "empty"
           b == ~ValidShape(o.shape) \/ ~ValidStyle(o.frame)
           c == ~SizeInRange(s)
           d == ~FrameAllowed(resolved, o.shape)
           e == o.opaque /\ ~o.distinct
           f == MakeGeometry(s, o.shape, resolved).cell < 1
           checks == <<Check(a, "invalid_fingerprint"), Check(b, "invalid_argument"),
                       Check(c, "invalid_size"), Check(d, "invalid_frame"),
                       Check(e, "low_contrast"), Check(f, "invalid_size")>>
<1>1. Prepare(fp, s, o) = FirstFailure(checks)
  BY DEF Prepare
<1> HIDE DEF a, b, c, d, e, f
<1>2. /\ DOMAIN checks = 1..6
      /\ checks[1].code = "invalid_fingerprint"
      /\ checks[2].code = "invalid_argument"
      /\ checks[3].code = "invalid_size" /\ checks[4].code = "invalid_frame"
      /\ checks[5].code = "low_contrast" /\ checks[6].code = "invalid_size"
  BY DEF Check
<1>3. checks[1].fails <=> a
  BY DEF Check, a
<1>4. checks[2].fails <=> b
  BY DEF Check, b
<1>5. checks[3].fails <=> c
  BY DEF Check, c
<1>6. checks[4].fails <=> d
  BY DEF Check, d
<1>7. checks[5].fails <=> e
  BY DEF Check, e
<1>8. checks[6].fails <=> f
  BY DEF Check, f
<1> HIDE DEF checks
<1>9. ASSUME NEW i \in 1..6, checks[i].fails,
             \A j \in 1..6 : j < i => ~checks[j].fails
      PROVE  FirstFailure(checks) = checks[i].code
  <2>1. 6 \in Nat /\ \A j \in 1..(i - 1) : ~checks[j].fails
    BY <1>9
  <2> QED
    BY <1>2, <1>9, <2>1, FirstIsReported
<1>10. a => FirstFailure(checks) = "invalid_fingerprint"
  BY <1>2, <1>3, <1>9
<1>11. ~a /\ b => FirstFailure(checks) = "invalid_argument"
  BY <1>2, <1>3, <1>4, <1>9
<1>12. ~a /\ ~b /\ c => FirstFailure(checks) = "invalid_size"
  BY <1>2, <1>3, <1>4, <1>5, <1>9
<1>13. ~a /\ ~b /\ ~c /\ d => FirstFailure(checks) = "invalid_frame"
  BY <1>2, <1>3, <1>4, <1>5, <1>6, <1>9
<1>14. ~a /\ ~b /\ ~c /\ ~d /\ e => FirstFailure(checks) = "low_contrast"
  BY <1>2, <1>3, <1>4, <1>5, <1>6, <1>7, <1>9
<1>15. ~a /\ ~b /\ ~c /\ ~d /\ ~e /\ f => FirstFailure(checks) = "invalid_size"
  BY <1>2, <1>3, <1>4, <1>5, <1>6, <1>7, <1>8, <1>9
<1>16. ~a /\ ~b /\ ~c /\ ~d /\ ~e /\ ~f => FirstFailure(checks) = "ok"
  BY <1>2, <1>3, <1>4, <1>5, <1>6, <1>7, <1>8 DEF FirstFailure
<1>17. /\ b <=> o.shape = "bad" \/ o.frame = "bad"
       /\ c <=> s \notin 16..1024
  BY DEF ValidShape, ValidStyle, SizeInRange, b, c
<1>18. Prepare(fp, s, o) =
         IF a THEN "invalid_fingerprint" ELSE IF b THEN "invalid_argument"
         ELSE IF c THEN "invalid_size" ELSE IF d THEN "invalid_frame"
         ELSE IF e THEN "low_contrast" ELSE IF f THEN "invalid_size" ELSE "ok"
  BY <1>1, <1>10, <1>11, <1>12, <1>13, <1>14, <1>15, <1>16, Zenon
<1> QED
  BY ZenonT(60), <1>17, <1>18 DEF a, d, e, f

\* A style that is allowed for a shape is one of it and is drawn.
LEMMA AllowedStyles ==
  ASSUME NEW fp \in Prints, NEW o \in Options, o.shape # "bad", o.frame # "bad"
  PROVE  LET resolved == ResolveFrame(o.frame, fp, o.shape)
         IN  /\ o.shape \in Shape
             /\ resolved \in {"none", "plain", "double_line", "thick"}
                  => FrameAllowed(resolved, o.shape)
<1>1. o.shape \in Shape
  BY DEF Options, AnyShape
<1> QED
  BY <1>1 DEF FrameAllowed, SquareStyles, RoundStyles, Shape

\* A host learns why its picture is refused in the order of SPEC.md section 6,
\* for all options and sizes, sizes of an image that no test tries among them.
THEOREM RefusalsAsSpecified == PictureSpec => RefusedAsSpecified
<1>1. [PictureNext]_picture_vars => [RefusedRightly]_picture_vars
  <2> SUFFICES ASSUME PictureNext, pc = "host", request' # request
               PROVE  RefusedRightly
    BY Zenon DEF RefusedRightly
  <2>1. BeginRender
    <3>1. AlterImage => UNCHANGED request
      BY DEF AlterImage
    <3>2. BeginEncode => UNCHANGED request
      <4>1. BeginEncode => UNCHANGED <<request, img, altered>>
        BY Zenon DEF BeginEncode
      <4> QED
        BY <4>1
    <3>3. OutOfPixels \/ Rasterise \/ EncodePiece \/ OutOfBytes \/ EndEncode
            => UNCHANGED request
      BY Zenon DEF OutOfPixels, Rasterise, EncodePiece, OutOfBytes, EndEncode
    <3> QED
      BY <3>1, <3>2, <3>3, Zenon DEF PictureNext
  <2>2. PICK fp \in Prints, s \in Sizes, o \in OptionsTried :
          /\ request' = [fp |-> fp, size |-> s, options |-> o]
          /\ answered' = Prepare(fp, s, o)
    BY <2>1, Zenon DEF BeginRender
  <2>3. s \in Nat /\ o \in Options
    BY PictureAssumption
  <2>4. request'.fp = fp /\ request'.size = s /\ request'.options = o
    BY <2>2
  <2> DEFINE resolved == ResolveFrame(o.frame, fp, o.shape)
             noRoom == MakeGeometry(s, o.shape, resolved).cell < 1
             drawable == fp # "empty" /\ o.shape # "bad" /\ o.frame # "bad"
             faint == o.opaque /\ ~o.distinct
             allowed == FrameAllowed(resolved, o.shape)
             thickRing == o.shape = "round" /\ resolved \in {"double_line", "thick"}
  <2>5. answered' =
          IF fp = "empty" THEN "invalid_fingerprint"
          ELSE IF o.shape = "bad" \/ o.frame = "bad" THEN "invalid_argument"
          ELSE IF s \notin 16..1024 THEN "invalid_size"
          ELSE IF ~allowed THEN "invalid_frame"
          ELSE IF faint THEN "low_contrast"
          ELSE IF noRoom THEN "invalid_size" ELSE "ok"
    BY <2>2, <2>3, PrepareAnswers
  <2>6. drawable => o.shape \in Shape
          /\ (resolved \in {"none", "plain", "double_line", "thick"} => allowed)
    BY <2>3, AllowedStyles
  <2>7. drawable /\ allowed /\ s \in 16..1024 => (noRoom <=> thickRing /\ s < 18)
    BY <2>6, NoRoom, Zenon
  <2> HIDE DEF resolved, noRoom, faint, allowed
  <2>8. /\ answered' = "invalid_fingerprint" <=> fp = "empty"
        /\ answered' = "invalid_argument" <=> fp # "empty" /\ ~drawable
        /\ answered' = "invalid_frame" =>
             s \in 16..1024 /\ resolved \notin {"none", "plain", "double_line", "thick"}
        /\ answered' = "low_contrast" => s \in 16..1024 /\ faint
        /\ answered' = "ok" => drawable /\ ~faint
    BY <2>5, <2>6
  <2>9. answered' = "invalid_size" <=>
          drawable /\ (s \notin 16..1024 \/ (thickRing /\ s < 18 /\ ~faint))
    BY <2>5, <2>6, <2>7
  <2> QED
    BY <2>4, <2>8, <2>9 DEF RefusedRightly, resolved, faint
<1> QED
  BY <1>1, PTL DEF PictureSpec, RefusedAsSpecified

-----------------------------------------------------------------------------
(* Overlapping arguments: CIdentity *)

\* What a function has copied, of memory m, once it has looked at all its
\* arguments.
AllCopies(c, m) ==
  IF c.function \in Forms THEN <<Hashed(c.function, Slice(m, c.in, c.size))>>
  ELSE IF c.function = "hh_universal_fingerprint" THEN <<>>
  ELSE IF c.function = "hh_keyed_fingerprint"
  THEN <<Slice(m, c.in, Width), Slice(m, c.key, Width)>>
  ELSE <<Slice(m, c.in, Width)>>

\* Until a call returns the memory is the one it was made with, and what has
\* been copied is of that.
CallUnderWay ==
  call # NoCall =>
    /\ call \in Invocations /\ done = NoCall
    /\ memory = before
    /\ \/ copied = <<>>
       \/ copied = AllCopies(call, before)
       \/ /\ call.function = "hh_keyed_fingerprint"
          /\ copied = <<Slice(before, call.in, Width)>>

IdentityIInv ==
  /\ CallUnderWay
  /\ call = NoCall => copied = <<>>
  /\ ResultIsOfArguments

LEMMA InitIdentity == IdentityInit => IdentityIInv
  BY DEF IdentityInit, IdentityIInv, CallUnderWay, ResultIsOfArguments

\* The functions there are.
LEMMA KnownFunctions ==
  /\ NoCall.function = "none"
  /\ \A c \in Invocations :
       /\ c # NoCall
       /\ \/ c.function \in {"hh_universal_fingerprint", "hh_key_check_value", "hh_tag",
                             "hh_keyed_fingerprint", "hh_layout_of"}
          \/ c.function \in Forms
<1>1. NoCall.function = "none"
  BY DEF NoCall
<1>2. ASSUME NEW c \in Invocations
      PROVE  \/ c.function \in {"hh_universal_fingerprint", "hh_key_check_value", "hh_tag",
                             "hh_keyed_fingerprint", "hh_layout_of"}
             \/ c.function \in Forms
  BY <1>2 DEF Invocations
<1>3. ASSUME NEW c \in Invocations PROVE c # NoCall
  BY <1>1, <1>2 DEF Forms
<1> QED
  BY <1>1, <1>2, <1>3

\* A call that returns leaves what it should, or all as it was.
LEMMA ReturnKeeps ==
  ASSUME NEW c \in Invocations, NEW a, Return(c, a),
         memory' = IF a = "ok" THEN Put(before', c.out, Expected(c, before'))
                   ELSE before'
  PROVE  IdentityIInv'
<1>1. call' = NoCall /\ copied' = <<>> /\ done' = c /\ answer' = a
  BY DEF Return
<1> QED
  BY <1>1 DEF IdentityIInv, CallUnderWay, ResultIsOfArguments

LEMMA InvokeKeeps == IdentityIInv /\ Invoke => IdentityIInv'
<1> SUFFICES ASSUME IdentityIInv, Invoke PROVE IdentityIInv'
  OBVIOUS
<1>1. PICK c \in Invocations :
        /\ before' = memory
        /\ IF NullArgument(c) THEN Return(c, "invalid_argument")
           ELSE call' = c /\ UNCHANGED <<copied, done, answer>>
  BY Zenon DEF Invoke
<1>2. call = NoCall /\ done = NoCall /\ memory' = memory
  BY DEF Invoke
<1>3. CASE NullArgument(c)
  <2>1. Return(c, "invalid_argument")
    BY <1>1, <1>3
  <2>2. memory' = before'
    BY <1>1, <1>2
  <2> QED
    BY <2>1, <2>2, ReturnKeeps
<1>4. CASE ~NullArgument(c)
  <2>1. /\ call' = c /\ c # NoCall /\ done' = NoCall /\ memory' = before'
        /\ copied' = <<>>
    BY <1>1, <1>2, <1>4, KnownFunctions DEF IdentityIInv
  <2> QED
    BY <2>1 DEF IdentityIInv, CallUnderWay, ResultIsOfArguments
<1> QED
  BY <1>3, <1>4

\* A copy is made of the memory the call was made with.
LEMMA CopyKeeps ==
  ASSUME IdentityIInv, call # NoCall, UNCHANGED <<call, done, memory, before>>,
         \/ copied' = AllCopies(call, before)
         \/ /\ call.function = "hh_keyed_fingerprint"
            /\ copied' = <<Slice(before, call.in, Width)>>
  PROVE  IdentityIInv'
  BY DEF IdentityIInv, CallUnderWay, ResultIsOfArguments

\* A call that fails leaves the memory alone.
LEMMA FailureKeeps ==
  ASSUME IdentityIInv, call # NoCall, NEW a, a # "ok", Return(call, a),
         UNCHANGED <<memory, before>>
  PROVE  IdentityIInv'
<1>1. call \in Invocations /\ memory' = before'
  BY DEF IdentityIInv, CallUnderWay
<1> QED
  BY <1>1, ReturnKeeps

LEMMA HashInputKeeps == IdentityIInv /\ HashInput => IdentityIInv'
<1> SUFFICES ASSUME IdentityIInv, HashInput PROVE IdentityIInv'
  OBVIOUS
<1> DEFINE input == Slice(memory, call.in, call.size)
<1>1. /\ call # NoCall /\ call \in Invocations /\ memory = before
      /\ call.function \in Forms
      /\ UNCHANGED <<memory, before>>
  BY KnownFunctions DEF HashInput, Forms, IdentityIInv, CallUnderWay
<1>2. CASE HashCode(call.function, input) = "ok"
  <2>1. copied' = <<Hashed(call.function, input)>> /\ UNCHANGED <<call, done, answer>>
    BY <1>2 DEF HashInput
  <2> QED
    BY <1>1, <2>1, CopyKeeps DEF AllCopies
<1>3. CASE HashCode(call.function, input) # "ok"
  <2>1. Return(call, HashCode(call.function, input))
    BY <1>3 DEF HashInput
  <2> QED
    BY <1>1, <1>3, <2>1, FailureKeeps
<1> QED
  BY <1>2, <1>3

\* A key is appended to the digest.
LEMMA AppendSecond ==
  ASSUME NEW x, NEW y
  PROVE  Append(<<x>>, y) = <<x, y>>
<1> DEFINE S == {x, y}
           s == Append(<<x>>, y)
<1>1. /\ <<x>> \in Seq(S) /\ y \in S /\ <<x, y>> \in Seq(S)
      /\ Len(<<x>>) = 1 /\ Len(<<x, y>>) = 2
  OBVIOUS
<1>2. s \in Seq(S) /\ Len(s) = 2 /\ s[1] = x /\ s[2] = y
  BY <1>1, AppendProperties
<1> QED
  <2> DEFINE t == <<x, y>>
  <2>1. t \in Seq(S) /\ Len(t) = 2 /\ t[1] = x /\ t[2] = y
    BY <1>1
  <2> HIDE DEF s, t, S
  <2>2. s = t
    BY <1>2, <2>1, SeqEqual
  <2> QED
    BY <2>2 DEF s, t

LEMMA CopyKeyKeeps == IdentityIInv /\ CopyKey => IdentityIInv'
<1> SUFFICES ASSUME IdentityIInv, CopyKey PROVE IdentityIInv'
  OBVIOUS
<1> DEFINE k == Slice(memory, IF call.function = "hh_key_check_value" THEN call.in
                              ELSE call.key, Width)
           zeros == \A i \in DOMAIN k : k[i] = 0
<1>1. /\ call # NoCall /\ call \in Invocations /\ memory = before
      /\ UNCHANGED <<memory, before>>
  BY KnownFunctions DEF CopyKey, IdentityIInv, CallUnderWay
<1>2. CASE zeros
  <2>1. Return(call, "invalid_key")
    BY <1>2 DEF CopyKey
  <2> QED
    BY <1>1, <2>1, FailureKeeps
<1>3. CASE ~zeros
  <2>1. copied' = Append(copied, k) /\ UNCHANGED <<call, done, answer>>
    BY <1>3, Zenon DEF CopyKey
  <2>2. CASE call.function = "hh_key_check_value" /\ copied = <<>>
    <3>1. copied' = <<Slice(memory, call.in, Width)>>
      BY <2>1, <2>2
    <3> QED
      BY <1>1, <2>1, <2>2, <3>1, CopyKeeps DEF AllCopies, Forms
  <2>3. CASE call.function = "hh_keyed_fingerprint" /\ Len(copied) = 1
    <3>1. copied = <<Slice(before, call.in, Width)>>
      BY <1>1, <2>3 DEF IdentityIInv, CallUnderWay, AllCopies, Forms
    <3>2. copied' = <<Slice(before, call.in, Width), Slice(before, call.key, Width)>>
      <4>1. k = Slice(before, call.key, Width)
        BY <1>1, <2>3
      <4> HIDE DEF k
      <4> QED
        BY <2>1, <3>1, <4>1, AppendSecond
    <3> QED
      BY <1>1, <2>1, <2>3, <3>2, CopyKeeps DEF AllCopies, Forms
  <2> QED
    BY <2>2, <2>3 DEF CopyKey
<1> QED
  BY <1>2, <1>3

LEMMA CopyFingerprintKeeps == IdentityIInv /\ CopyFingerprint => IdentityIInv'
<1> SUFFICES ASSUME IdentityIInv, CopyFingerprint PROVE IdentityIInv'
  OBVIOUS
<1>1. /\ call # NoCall /\ call \in Invocations /\ memory = before
      /\ call.function \in Readers
      /\ UNCHANGED <<memory, before>>
  BY KnownFunctions DEF CopyFingerprint, Readers, IdentityIInv, CallUnderWay
<1>2. CASE call.function = "hh_layout_of" /\ call.mode = "other"
  <2>1. Return(call, "invalid_fingerprint")
    BY <1>2 DEF CopyFingerprint
  <2> QED
    BY <1>1, <2>1, FailureKeeps
<1>3. CASE ~(call.function = "hh_layout_of" /\ call.mode = "other")
  <2>1. copied' = <<Slice(memory, call.in, Width)>> /\ UNCHANGED <<call, done, answer>>
    BY <1>3 DEF CopyFingerprint
  <2> QED
    BY <1>1, <2>1, CopyKeeps DEF AllCopies, Forms, Readers
<1> QED
  BY <1>2, <1>3

\* The result is written from the copies alone.
LEMMA WriteResultKeeps == IdentityIInv /\ WriteResult => IdentityIInv'
<1> SUFFICES ASSUME IdentityIInv, WriteResult PROVE IdentityIInv'
  OBVIOUS
<1>1. /\ call # NoCall /\ call \in Invocations /\ memory = before
      /\ before' = before /\ Return(call, "ok")
      /\ Len(copied) = Copies(call.function)
      /\ memory' = Put(memory, call.out,
                       IF call.function \in Forms THEN copied[1]
                       ELSE ResultOf(call.function, copied, ModeOf(call)))
  BY DEF WriteResult, IdentityIInv, CallUnderWay
<1>2. copied = AllCopies(call, before) /\ call.function # "hh_universal_fingerprint"
  BY <1>1 DEF IdentityIInv, CallUnderWay, AllCopies, Copies, Forms
<1>3. (IF call.function \in Forms THEN copied[1]
       ELSE ResultOf(call.function, copied, ModeOf(call))) = Expected(call, before)
  BY <1>1, <1>2, KnownFunctions DEF Expected, AllCopies, ModeOf, Forms
<1> QED
  BY <1>1, <1>3, ReturnKeeps

LEMMA StepIdentity == IdentityIInv /\ [IdentityNext]_identity_vars => IdentityIInv'
<1> SUFFICES ASSUME IdentityIInv, [IdentityNext]_identity_vars PROVE IdentityIInv'
  OBVIOUS
<1>1. CASE Observe
  BY <1>1 DEF Observe, IdentityIInv, CallUnderWay, ResultIsOfArguments
<1>2. CASE HhUniversalFingerprint
  <2>1. /\ call # NoCall /\ call \in Invocations /\ memory = before
        /\ before' = before /\ Return(call, "ok")
        /\ memory' = Move(memory, call.in, call.out)
        /\ call.function = "hh_universal_fingerprint"
    BY <1>2, KnownFunctions DEF HhUniversalFingerprint, IdentityIInv, CallUnderWay
  <2>2. Slice(before, call.in, Width) = Expected(call, before)
    BY <2>1 DEF Expected, Forms
  <2> QED
    BY <2>1, <2>2, ReturnKeeps DEF Move
<1>3. CASE CopyDigest
  <2>1. /\ call # NoCall /\ memory = before
        /\ call.function = "hh_keyed_fingerprint"
        /\ copied' = <<Slice(memory, call.in, Width)>>
        /\ UNCHANGED <<memory, call, before, done, answer>>
    BY <1>3, KnownFunctions DEF CopyDigest, IdentityIInv, CallUnderWay
  <2> QED
    BY <2>1, CopyKeeps
<1>4. CASE UNCHANGED identity_vars
  BY <1>4 DEF identity_vars, IdentityIInv, CallUnderWay, ResultIsOfArguments
<1> QED
  BY <1>1, <1>2, <1>3, <1>4, InvokeKeeps, HashInputKeeps, CopyKeyKeeps,
     CopyFingerprintKeeps, WriteResultKeeps DEF IdentityNext

\* A C function's result is of the arguments it was called with, wherever it is
\* written, for every size of memory and every function in place of the hash
\* (c_api.cpp:164-239).
THEOREM ResultsAreOfArguments == IdentitySpec => []ResultIsOfArguments
<1>1. IdentityIInv => ResultIsOfArguments
  BY DEF IdentityIInv
<1> QED
  BY <1>1, InitIdentity, StepIdentity, PTL DEF IdentitySpec
=============================================================================
