------------------------------- MODULE LabPng -------------------------------
(***************************************************************************)
(* src/tools/lab/png_writer.cpp, which writes the sheets of the laboratory *)
(* with a compressor of its own: for every position, the last one with the *)
(* same hash of three bytes, and from each position the one before it, in  *)
(* a ring as long as the window.  The bit writer, the fixed code and the   *)
(* chunks are those of Png, line by line.                                  *)
(***************************************************************************)
EXTENDS Png

CONSTANTS Canvases,         \* the sheets: images with no bound on their size
          Window,           \* 32768
          MaxChain,         \* 48
          Buckets,          \* 2^16
          HashOf(_, _, _)   \* of three bytes, in 0..Buckets - 1

\* A size is an int.
ASSUME CanvasesAssumption == \A image \in Canvases : ImageWithin(image, 2147483647)
ASSUME HashAssumption == \A x, y, z \in 0..255 : HashOf(x, y, z) \in 0..(Buckets - 1)
ASSUME WindowAssumption == Window \in 1..32768 /\ MaxChain \in Nat /\ Buckets \in Nat \ {0}

VARIABLES with_alpha,
          head,  \* bucket -> the last position with that hash, or -1
          prev   \* position modulo Window -> the one before with its hash, or -1

lab_vars == <<pc, img, raw, i, w, file, with_alpha, head, prev>>

channels == IF with_alpha THEN 4 ELSE 3

LabRow(y) ==
  <<0>> \o FlattenSeq([x \in 1..img.width |->
                         SubSeq(img.rgba[y * img.width + x], 1, channels)])

NoHead == [h \in 0..(Buckets - 1) |-> -1]
NoPrev == [p \in 0..(Window - 1) |-> -1]

LabPngInit ==
  /\ img \in Canvases /\ with_alpha \in BOOLEAN
  /\ pc = "lab"
  /\ raw = FlattenSeq([y \in 1..img.height |-> LabRow(y - 1)])
  /\ i = 0
  /\ w = Put(Put(NewWriter, 1, 1), 1, 2)
  /\ file = <<>>
  /\ head = NoHead /\ prev = NoPrev

-----------------------------------------------------------------------------
(* deflate_fixed *)

HashAt(p) == HashOf(raw[p + 1], raw[p + 2], raw[p + 3])

\* How many bytes from i on are those from an earlier position on.
LabLength(c, limit) ==
  Min({len \in 0..limit : len = limit \/ raw[c + len + 1] # raw[i + len + 1]})

\* The search after the next position of the chain, unless it has ended.
Tried(s) ==
  IF s.cand < 0 \/ s.stop \/ i - s.cand > Window - 1 THEN s
  ELSE LET limit == Min({258, Len(raw) - i})
           len == LabLength(s.cand, limit)
       IN  [cand |-> prev[s.cand % Window], len |-> Max({len, s.len}),
            dist |-> IF len > s.len THEN i - s.cand ELSE s.dist,
            stop |-> len > s.len /\ len = limit]

\* The positions with the same hash, from the last one back: the first of the
\* longest matches, or one that cannot be longer.
Chain ==
  LET found[m \in 0..MaxChain] ==
        IF m = 0 THEN [cand |-> head[HashAt(i)], len |-> 0, dist |-> 0, stop |-> FALSE]
        ELSE Tried(found[m - 1])
  IN  found[MaxChain]

NoMatch == [cand |-> -1, len |-> 0, dist |-> 0, stop |-> FALSE]
LabBest == IF i + 2 < Len(raw) THEN Chain ELSE NoMatch

\* Mutant: only the first position of a match is entered.
InsertedFirst(count) ==
  IF i + 2 < Len(raw)
  THEN [head |-> [head EXCEPT ![HashAt(i)] = i],
        prev |-> [prev EXCEPT ![i % Window] = head[HashAt(i)]]]
  ELSE [head |-> head, prev |-> prev]

\* The tables with one position more, unless it is one of the last two.
Entered(t, p) ==
  IF p + 2 >= Len(raw) THEN t
  ELSE [head |-> [t.head EXCEPT ![HashAt(p)] = p],
        prev |-> [t.prev EXCEPT ![p % Window] = t.head[HashAt(p)]]]

\* The next positions are entered.
Inserted(count) ==
  LET tables[m \in 0..count] ==
        IF m = 0 THEN [head |-> head, prev |-> prev] ELSE Entered(tables[m - 1], i + m - 1)
  IN  tables[count]

Advance(count) ==
  /\ i' = i + count
  /\ head' = Inserted(count).head /\ prev' = Inserted(count).prev
  /\ UNCHANGED <<pc, img, raw, file, with_alpha>>

LabMatch ==
  /\ pc = "lab" /\ i < Len(raw) /\ LabBest.len >= 3
  /\ w' = PutMatch(w, LabBest.len, LabBest.dist)
  /\ Advance(LabBest.len)

LabLiteral ==
  /\ pc = "lab" /\ i < Len(raw) /\ LabBest.len < 3
  /\ w' = PutSymbol(w, raw[i + 1])
  /\ Advance(1)

-----------------------------------------------------------------------------
(* write_png *)

LabIhdr == PutBE32(img.width) \o PutBE32(img.height)
             \o <<8, IF with_alpha THEN 6 ELSE 2, 0, 0, 0>>

LabChunks(body) ==
  <<PutChunk("IHDR", LabIhdr), PutChunk("sRGB", <<0>>),
    PutChunk("IDAT", <<120, 1>> \o body \o Adler(raw)), PutChunk("IEND", <<>>)>>

\* The result is false unless every byte was written, the last ones too.
LabEnd ==
  /\ pc = "lab" /\ i = Len(raw)
  /\ w' = Flush(PutSymbol(w, 256))
  /\ \/ pc' = "written" /\ file' = LabChunks(w'.out)
     \/ pc' = "failed" /\ file' = <<>>
  /\ UNCHANGED <<img, raw, i, with_alpha, head, prev>>

LabPngNext == LabMatch \/ LabLiteral \/ LabEnd

LabPngSpec == LabPngInit /\ [][LabPngNext]_lab_vars

-----------------------------------------------------------------------------
(* Properties *)

\* The earlier positions with the hash of this one, the nearest first.
SameHash == {p \in 0..(i - 1) : HashAt(p) = HashAt(i)}
Recent == {p \in SameHash : /\ i - p < Window
                            /\ Cardinality({q \in SameHash : q > p}) < MaxChain}

Longest(p) == LabLength(p, Min({258, Len(raw) - i}))

\* The chain leads through the nearest positions with the same hash, each once
\* and in the window, however often the ring has been round: what is found is
\* the longest match among them, the nearest of the longest, and never farther
\* than a distance can say (png_writer.cpp:156-178).
MatchIsNearest ==
  pc = "lab" /\ i + 2 < Len(raw) =>
    /\ LabBest.dist < Window
    /\ \A p \in Recent : Longest(p) <= LabBest.len
    /\ LabBest.len > 0 =>
         /\ i - LabBest.dist \in Recent /\ Longest(i - LabBest.dist) = LabBest.len
         /\ \A p \in Recent : p > i - LabBest.dist => Longest(p) < LabBest.len

\* A finished file is a PNG file of the image, pixel by pixel, with alpha only if
\* some pixel is not opaque; and a sheet that is reported as written is one of its
\* canvas, with the alpha or without, from matches of any distance in the window: no
\* token reaches back too far, or means another length than the one that was matched
\* (png.cpp:80-129, encode.hpp:25-26, png_writer.cpp:141-259).
FileDecodes ==
  /\ pc = "done" =>
       /\ DecodesTo(img.rgba)
       /\ file[1].data[10] = 2 <=> \A p \in DOMAIN img.rgba : img.rgba[p][4] = 255
  /\ pc = "written" =>
       DecodesTo([p \in DOMAIN img.rgba |->
                    IF with_alpha THEN img.rgba[p] ELSE [img.rgba[p] EXCEPT ![4] = 255]])
=============================================================================
