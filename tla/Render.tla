------------------------------- MODULE Render -------------------------------
(***************************************************************************)
(* What a render of src/raster.cpp checks before it draws a pixel: prepare *)
(* looks at the fingerprint, the options, the size, the style and the      *)
(* contrast; rasterise looks at some of it again.  The colour of the       *)
(* background is kept as whether the figures would stand out from it.      *)
(***************************************************************************)
EXTENDS Geometry, Sequences

\* What is known of a fingerprint: that it is unset, or its mode.
Prints == {"empty", "universal", "keyed"}

\* Enumerators a C caller or a cast can make of any byte.
AnyShape == Shape \cup {"bad"}
AnyStyle == Style \cup {"automatic", "bad"}

\* Whether the background is opaque, and the contrast of the figures on it at
\* least 2:1.
Options == [shape : AnyShape, frame : AnyStyle, opaque : BOOLEAN,
            distinct : BOOLEAN]

ValidShape(shape) == shape # "bad"
ValidStyle(style) == style # "bad"
SizeInRange(size) == size \in 16..1024

ResolveFrame(style, mode, shape) ==
  IF style # "automatic" THEN style
  ELSE IF mode = "keyed" /\ shape = "square" THEN "rounded" ELSE "none"

\* A sequence of checks, and the code of the first one that fails.
FirstFailure(checks) ==
  IF \A i \in DOMAIN checks : ~checks[i].fails THEN "ok"
  ELSE checks[CHOOSE i \in DOMAIN checks :
                /\ checks[i].fails
                /\ \A j \in 1..(i - 1) : ~checks[j].fails].code

Check(fails, code) == [fails |-> fails, code |-> code]

\* Mutant: the style is checked before it is resolved.
PrepareUnresolved(fp, size, o) ==
  FirstFailure(<<
    Check(fp = "empty", "invalid_fingerprint"),
    Check(~ValidShape(o.shape) \/ ~ValidStyle(o.frame), "invalid_argument"),
    Check(~SizeInRange(size), "invalid_size"),
    Check(~FrameAllowed(o.frame, o.shape), "invalid_frame"),
    Check(o.opaque /\ ~o.distinct, "low_contrast"),
    Check(MakeGeometry(size, o.shape, o.frame).cell < 1, "invalid_size")>>)

\* Mutant: whether the cells have room is left to the loops that draw them.
PrepareWithoutRoom(fp, size, o) ==
  FirstFailure(<<
    Check(fp = "empty", "invalid_fingerprint"),
    Check(~ValidShape(o.shape) \/ ~ValidStyle(o.frame), "invalid_argument"),
    Check(~SizeInRange(size), "invalid_size"),
    Check(~FrameAllowed(ResolveFrame(o.frame, fp, o.shape), o.shape),
          "invalid_frame"),
    Check(o.opaque /\ ~o.distinct, "low_contrast")>>)

Prepare(fp, size, o) ==
  LET resolved == ResolveFrame(o.frame, fp, o.shape)
  IN  FirstFailure(<<
        Check(fp = "empty", "invalid_fingerprint"),
        Check(~ValidShape(o.shape) \/ ~ValidStyle(o.frame), "invalid_argument"),
        Check(~SizeInRange(size), "invalid_size"),
        Check(~FrameAllowed(resolved, o.shape), "invalid_frame"),
        Check(o.opaque /\ ~o.distinct, "low_contrast"),
        Check(MakeGeometry(size, o.shape, resolved).cell < 1, "invalid_size")>>)

\* What rasterise answers to the job prepare made; its pixels are never null.
RasteriseCode(fp, size, o) ==
  LET resolved == ResolveFrame(o.frame, fp, o.shape)
  IN  FirstFailure(<<
        Check(~ValidShape(o.shape) \/ ~ValidStyle(resolved)
                \/ resolved = "automatic", "invalid_argument"),
        Check(~SizeInRange(size), "invalid_size"),
        Check(MakeGeometry(size, o.shape, resolved).cell < 1, "invalid_size")>>)
=============================================================================
