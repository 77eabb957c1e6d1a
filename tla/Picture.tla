------------------------------ MODULE Picture ------------------------------
(***************************************************************************)
(* render of src/raster.cpp and the encoders of src/png.cpp, bmp.cpp and   *)
(* jpeg.cpp as a host uses them: an image and an output vector are reused  *)
(* for one picture after another, memory may run out at every allocation,  *)
(* and the host may change the fields of the image in between.  Pixels are *)
(* the picture they show and how many there are; encoded bytes are what    *)
(* they are the encoding of and how much of it is there.                   *)
(***************************************************************************)
EXTENDS Render

CONSTANTS Sizes,        \* the sizes tried
          OptionsTried, \* the options tried
          Encoded,      \* bound: the [size, options] of what is encoded
          Qualities     \* the qualities tried

ASSUME PictureAssumption ==
  Sizes \subseteq Nat /\ OptionsTried \subseteq Options
    /\ Qualities \subseteq Nat
    /\ Encoded \subseteq [size : Sizes, options : OptionsTried]

ImageFormats == {"png", "bmp", "jpeg"}

\* Bound: how many pieces the bytes of an encoded image come in.
Pieces == 2

VARIABLES pc,      \* "host", "rasterise" or "encode"
          request, \* the picture last asked for
          img,     \* the image
          answered,    \* what the last call answered
          out,     \* the encoded bytes
          job,     \* the call of an encoder, or of render, under way
          altered  \* whether the host has changed the image since

picture_vars == <<pc, request, img, answered, out, job, altered>>

\* Pixels of no picture: those the host put there, or only allocated.
NoPicture == [nothing |-> TRUE]

EmptyImage == [width |-> 0, height |-> 0, shows |-> NoPicture, length |-> 0]

\* rgba.size() is four times this.
Area(image) == image.width * image.height

NoBytes == [of |-> NoPicture, pieces |-> 0]

PictureInit ==
  /\ pc = "host"
  /\ request = NoPicture
  /\ img = EmptyImage
  /\ answered = "ok"
  /\ out = NoBytes
  /\ job = NoPicture
  /\ altered = FALSE

-----------------------------------------------------------------------------
(* render *)

\* Mutant: the image is cleared when there is something to put there.
BeginRenderLate ==
  \E fp \in Prints, size \in Sizes, o \in OptionsTried :
    /\ pc = "host"
    /\ out = NoBytes \/ [size |-> size, options |-> o] \in Encoded
    /\ request' = [fp |-> fp, size |-> size, options |-> o]
    /\ altered' = FALSE
    /\ IF Prepare(fp, size, o) # "ok"
       THEN /\ answered' = Prepare(fp, size, o)
            /\ UNCHANGED <<pc, job, img>>
       ELSE /\ pc' = "rasterise"
            /\ job' = request'
            /\ img' = EmptyImage
            /\ answered' = "ok"
    /\ UNCHANGED out

\* The image is cleared, and the arguments are looked at.  Bound: while there are
\* encoded bytes only pictures of Encoded are asked for.
BeginRender ==
  \E fp \in Prints, size \in Sizes, o \in OptionsTried :
    /\ pc = "host"
    /\ out = NoBytes \/ [size |-> size, options |-> o] \in Encoded
    /\ img' = EmptyImage
    /\ request' = [fp |-> fp, size |-> size, options |-> o]
    /\ altered' = FALSE
    /\ answered' = Prepare(fp, size, o)
    /\ IF answered' = "ok" THEN pc' = "rasterise" /\ job' = request'
       ELSE UNCHANGED <<pc, job>>
    /\ UNCHANGED out

\* resize throws before a pixel is allocated.
OutOfPixels ==
  /\ pc = "rasterise"
  /\ answered' = "out_of_memory"
  /\ pc' = "host" /\ job' = NoPicture
  /\ UNCHANGED <<request, img, out, altered>>

\* The pixels are allocated and drawn; should rasterise refuse, they go again.
Rasterise ==
  /\ pc = "rasterise"
  /\ answered' = RasteriseCode(job.fp, job.size, job.options)
  /\ img' = IF answered' = "ok"
            THEN [width |-> job.size, height |-> job.size, shows |-> job,
                  length |-> job.size * job.size]
            ELSE EmptyImage
  /\ pc' = "host" /\ job' = NoPicture
  /\ UNCHANGED <<request, out, altered>>

-----------------------------------------------------------------------------
(* The host *)

\* The fields of an image are its user's: it is cropped to a height, turned or
\* given other pixels without telling the encoder.  Bound: this is done to those
\* of Encoded.
AlterImage ==
  \E w \in {0, img.width, 4097}, h \in {img.height, img.height + 1},
     n \in {0, img.length} :
    /\ pc = "host" /\ ~altered
    /\ request # NoPicture =>
         [size |-> request.size, options |-> request.options] \in Encoded
    /\ img' = [img EXCEPT !.width = w, !.height = h, !.length = n]
    /\ img' # img
    /\ altered' = TRUE
    /\ UNCHANGED <<pc, request, answered, out, job>>

-----------------------------------------------------------------------------
(* encode_png, encode_bmp and encode_jpeg *)

ValidDimensions(width, height) ==
  width \in 1..4096 /\ height \in 1..4096

ValidImage(image) ==
  /\ ValidDimensions(image.width, image.height)
  /\ image.length = Area(image)

QualityInRange(format, quality) == format = "jpeg" => quality \in 50..100

\* out is cleared before anything is looked at.  Bound: of the pictures that are
\* drawn only those of Encoded are encoded.
BeginEncode ==
  \E format \in ImageFormats, quality \in Qualities :
    /\ pc = "host"
    /\ format # "jpeg" => quality = 92
    /\ request # NoPicture =>
         [size |-> request.size, options |-> request.options] \in Encoded
    /\ out' = NoBytes
    /\ answered' = FirstFailure(<<
                 Check(~ValidImage(img), "invalid_image"),
                 Check(~QualityInRange(format, quality), "invalid_quality")>>)
    /\ IF answered' = "ok"
       THEN pc' = "encode" /\ job' = [format |-> format, quality |-> quality,
                                      image |-> img]
       ELSE UNCHANGED <<pc, job>>
    /\ UNCHANGED <<request, img, altered>>

\* Some of the bytes.
EncodePiece ==
  /\ pc = "encode" /\ out.pieces < Pieces
  /\ out' = [of |-> job, pieces |-> out.pieces + 1]
  /\ UNCHANGED <<pc, request, img, answered, job, altered>>

\* Mutant: what there is stays when memory runs out.
OutOfBytesKept ==
  /\ pc = "encode" /\ out.pieces < Pieces
  /\ answered' = "out_of_memory"
  /\ pc' = "host" /\ job' = NoPicture
  /\ UNCHANGED <<request, img, out, altered>>

\* push_back, insert or reserve throws; the handler clears what there is.
OutOfBytes ==
  /\ pc = "encode" /\ out.pieces < Pieces
  /\ out' = NoBytes
  /\ answered' = "out_of_memory"
  /\ pc' = "host" /\ job' = NoPicture
  /\ UNCHANGED <<request, img, altered>>

EndEncode ==
  /\ pc = "encode" /\ out.pieces = Pieces
  /\ answered' = "ok"
  /\ pc' = "host" /\ job' = NoPicture
  /\ UNCHANGED <<request, img, out, altered>>

PictureNext ==
  \/ BeginRender \/ OutOfPixels \/ Rasterise \/ AlterImage
  \/ BeginEncode \/ EncodePiece \/ OutOfBytes \/ EndEncode

PictureSpec == PictureInit /\ [][PictureNext]_picture_vars

-----------------------------------------------------------------------------
(* Properties *)

\* An image nobody but render has written is empty or shows the picture last
\* asked for, whole: a picture that is refused, or that memory runs out for,
\* never leaves the one before it (image.hpp:57-58 "out is left empty on
\* failure").
ImageIsLastPicture ==
  pc = "host" /\ ~altered =>
    \/ img = EmptyImage
    \/ /\ img.shows = request
       /\ img.width = request.size /\ img.height = request.size
       /\ img.length = Area(img)

\* When the host has control the bytes are none, or a whole file of an image
\* whose every pixel was there to be read (encode.hpp:15).
WholeFileOrNone ==
  pc = "host" => \/ out = NoBytes
                 \/ out.pieces = Pieces /\ out.of.image.length = Area(out.of.image)

\* The options and the size alone decide which refusal is reported, in the order
\* SPEC.md section 6 gives: the contrast is only measured for a style that is
\* allowed, and room for the cells only for a picture that is otherwise drawn.
RefusedRightly ==
  pc = "host" /\ request' # request =>
     LET o == request'.options
         s == request'.size
         drawable == request'.fp # "empty" /\ o.shape # "bad" /\ o.frame # "bad"
         resolved == ResolveFrame(o.frame, request'.fp, o.shape)
         thickRing == o.shape = "round" /\ resolved \in {"double_line", "thick"}
     IN  /\ answered' = "invalid_fingerprint" <=> request'.fp = "empty"
         /\ answered' = "invalid_argument" <=> request'.fp # "empty" /\ ~drawable
         /\ answered' = "invalid_frame" =>
              s \in 16..1024 /\ resolved \notin {"none", "plain", "double_line", "thick"}
         /\ answered' = "low_contrast" => s \in 16..1024 /\ o.opaque /\ ~o.distinct
         /\ answered' = "invalid_size" <=>
              drawable /\ (\/ s \notin 16..1024
                           \/ thickRing /\ s < 18 /\ ~(o.opaque /\ ~o.distinct))
         /\ answered' = "ok" => drawable /\ ~(o.opaque /\ ~o.distinct)

\* Every refusal the host ever gets is the one that SPEC.md gives.
RefusedAsSpecified == [][RefusedRightly]_picture_vars
=============================================================================
