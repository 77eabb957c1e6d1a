# hh-cpp in TLA+

hh-cpp turns data into a picture one can recognise: the input is hashed to a
*base digest*, the base digest (with an optional secret key) is stretched to a
*fingerprint*, and the fingerprint becomes a square or round image of 4 x 4
figures, which is encoded as PNG, BMP or JPEG. The library is written in C++17
without dependencies, has a C interface, and promises the same bytes for the
same input everywhere. This directory models it in TLA+, checks the model with
TLC and proves part of it with TLAPS.

Paths below are relative to the repository; `sha256.cpp` stands for
`src/sha256.cpp` and so on.

## The system

```
 bytes, text, hex ──canonicalise──▶ SHA-256 ──▶ base_digest ─┐
                                                             ├─▶ fingerprint
 32 bytes ─────────▶ secret_key ──HMAC / PBKDF2──────────────┘      │
                                                                    ▼
   file ◀── PNG, BMP, JPEG ◀── image ◀── rasterise ◀── prepare ◀── features
             (checksums)                   (geometry, mix)    (style, contrast)
```

The library is sequential: every call is synchronous, no thread is started, no
global state is kept and no lock is taken. What is hard in it is state that
survives from one step to the next, or from one call to the next, and is relied
on later: half-filled blocks, working memory that is overwritten in part,
results that are reused and may alias arguments, tables of colours already
mixed, bits that wait in an accumulator, sizes a host asked for earlier. The
rest are integer formulas whose right answer depends on ranges.

Around the library are programs. The command line tool and the generator of
test vectors are sequential too, and read and write files that may fail. The
laboratory (`tools/lab`) is where threads are: pools that share counters, a
queue of jobs and, at the end, their lists of results.

| Component | State it keeps | Operations | What is hard | What makes it correct |
|---|---|---|---|---|
| SHA-256 hasher (`sha256.cpp`) | chaining state, buffer, `buffered_`, `length_` | constructors (new, resumed), `update`, `finish`, `reset` | pieces of any size; padding that needs a block of its own; bytes of earlier blocks in the buffer | the digest is that of the FIPS 180-4 padding of the concatenated pieces |
| HMAC, PBKDF2 (`hmac.cpp`, `pbkdf2.cpp`) | two keyed states; one 64-byte buffer, the sum, the counters | construct, update, finish; the derivation | the inner loop reuses the padding in the buffer's tail and runs the compression function directly | the output is that of RFC 2104 and RFC 8018 |
| Input canonicalisation (`derive.cpp`) | a chunk of 256 bytes | binary, text and hexadecimal input to M1 and d0 | order of checks; last chunk shorter than the others | hexadecimal and binary of the same bytes give the same digest; the code is the one of the grammar |
| Identity objects (`derive.cpp`, `digest.hpp`, `key.hpp`, `fingerprint.hpp`) | 32 bytes, a flag, a mode per object | make, import, copy, move, derive | a result cleared before an argument that aliases it is read; failure half way; keys moved away | objects behave as values, "unset" or 32 bytes; nothing survives a failure |
| Geometry, rasteriser (`raster.cpp`) | the pixels, the table of mixed colours | `make_geometry`, `rasterise` | a region painted without looking at its samples | every pixel is the one defined sample by sample |
| Colour mixing (`raster.cpp`) | two counters | count samples, `mix` | 32-bit products, quotient by alpha, conversion to 8 bits | the colour lies between its sources, no overflow |
| Render and encode pipeline (`raster.cpp`, the encoders) | `image`, the output vector | `render`, `encode_*` | objects reused, memory running out anywhere, public fields changed by the host | never an earlier or partial picture or file |
| PNG (`png.cpp`) | rows, position, bit writer | `encode`, `deflate_fixed`, `put_match` | matches near the start, table edges, bits not filling a byte | a decoder gets the image back |
| JPEG (`jpeg.cpp`, `jpeg_tables.hpp`) | a block, previous DC per component, bit writer | colour conversion, transform, quantise, code, headers, scan | products of two passes in 32 bits, prediction per component, runs of zeros, stuffing | the transform is the cosine transform, and a decoder gets the quantised blocks back |
| BMP (`bmp.cpp`) | none beyond the output | headers, rows bottom up | row padding | a reader gets the flattened pixels back |
| Checksums (`checksum.cpp`) | two sums; a table | `adler32`, `crc32` | sums reduced once in 5552 bytes | equal to RFC 1950 |
| C interface (`c_api.cpp`) | the host's buffers and sizes | `hh_render`, `hh_encode_*`, derivation calls | the two calls of a size query with others in between; results that overlap arguments | the second call succeeds; failure writes nothing; results are of the arguments |
| Contrast, features (`contrast.cpp`, `features.cpp`) | none | ratio, refusal; cells, tag, layout | rounding at the limit; bits across bytes | a background is refused exactly below 2; what is described reads back |
| Command line tool (`examples/hh_cli.cpp`) | options, files | batch, single picture | options that look absent; numbers that are cut off; reads and writes that fail | what it prints is what it did |
| Vector generator (`tools/gen_vectors.cpp`) | the table and pictures in memory, a directory | make, compare, write | a run that fails half way, before or after another | a check succeeds on the whole product of its build and nothing else |
| Laboratory: grinding, palette search (`tools/lab`) | lists and counters per target, jobs, the palette of a search | `grind`, `anneal`, `run_jobs`, the driver | threads; cached coordinates; ties | as one thread alone; it ends |
| Laboratory: PNG writer (`png_writer.cpp`) | hash chains in a ring | `encode_rgb` | positions that are overwritten | the longest match, the nearest of equal ones |
| Rest of the laboratory, comparison, tests, build | – | – | – | – |

`PROJECT.json` has the same list with sources and status, and the list of
hazards, each at its line with the properties that would show it going wrong.

## Modules

A component has a detailed model (`Sha256Stream`), where there is one an
abstract promise (`HashPromise`). The `…Proofs` modules hold what is proved, by
theme: the lemmas about the hasher in `HashingProofs` carry those about hexadecimal
input and PBKDF2, and `GeometryProofs` has those that `DrawingProofs` and
`HostProofs` share. An `MC…` module instantiates several components for one run of TLC; its
`Init` chooses the one whose variables move, or composes those that interact
(`MCHost`, `MCLab`, `MCTools`). `Raster` draws with the formulas of `Geometry`,
which `Render` refuses by; `Picture` and `Vectors` ask `Prepare` of `Render`; `LabPng` writes with
the code of `Png`; `Lab` starts `Grinding` and `PaletteSearch`.

### Hashing: `MerklePadding`, `Sha256`, `HashPromise`, `Sha256Stream`

`Sha256` has the hasher as a record `[state, buffer, buffered, length]` and one
operator per function of the class; `Sha256Stream` makes them actions (`Absorb`,
`Complete`, `Restart`, `ResumeFrom`). The compression function is symbolic: a
chaining state *is* the sequence of blocks it absorbed, so two digests are equal
only if the padded messages are. The model shows nothing about the rounds of
SHA-256, and everything about what they are fed. `HashPromise` remembers the
message and hashes its padding (`MerklePadding`, FIPS 180-4 section 5.1.1).
Block size, length field and the byte alphabet are parameters.

### HMAC and PBKDF2: `Hmac`, `Rfc8018`, `Pbkdf2`

`Pbkdf2` follows `pbkdf2_hmac_sha256` pass by pass: the first term through the
HMAC object, the others (`NextTerm`) by two compressions over one buffer. Bytes
are formal sums modulo two, and a digest byte is a symbol, so equality in the
model is equality for every hash function. `Rfc8018` writes the derived key
block by block as the RFC defines it.

### Canonicalisation: `HexDigest`

Texts are sequences of characters of the kinds the code tells apart. `Check` is
prefix, parity, digits, length, in that order; `DecodeChunk` one round of the
loop with its array; `CompleteHex` the digest. The property reads the text by the
grammar of `docs/SPEC.md`, section 3.

### Identity: `IdentityTypes`, `IdentityPromise`, `Identity`

Every operation of `derive.cpp` is an action of `Identity`; a view may be the
caller's memory or the bytes of an object, and clearing before reading happens
in the order of the source. What `keyed_bytes` and the hash compute is an
arbitrary function of their arguments. `IdentityPromise` knows only values.

The constant `HashesOwnBytes` says whether the host passes a digest's own bytes
to the functions that hash into that same digest. The two import functions
copy such a view first and say so; `digest_of` (`derive.cpp:56`) clears its
result first and then hashes 32 zero bytes. No document excludes the call. The
run `identity_own_bytes` shows it, `PROJECT.json` lists it as a finding, and
the passing run is about hosts that do not do this.

### Pictures: `Geometry`, `Raster`, `Mix`, `Contrast`, `Features`, `Render`, `Picture`

`Geometry` has the integer formulas: margins, cells, and the tests of a sample
against outline, frame and figure. `Raster` runs `make_geometry`, with the loop that finds the
cell of a round image, and goes on from there with `rasterise`, a row of the
surface or a cell a step; a pixel is the arguments its colour is mixed from.
`Mix` is that mixing, one channel for three. `Contrast` measures a colour a
step, for the refusal of a background and for `measure_contrast`; its products go
beyond the integers of TLC and are done in two parts. `Features` are the cells,
the tag (a character a step) and the layout of a fingerprint. `Render` is `prepare` with its
order of checks, and `Picture` is a host that reuses an image and an output
vector: `BeginRender`, `OutOfPixels`, `Rasterise`, `AlterImage`, `BeginEncode`,
`EncodePiece`, `OutOfBytes`, `EndEncode`.

### Encoders: `Png`, `LabPng`, `Jpeg`, `Bmp`, `Adler32`, and `Decoders`

`Png` compresses a token a step with the real code and tables of `png.cpp`.
`LabPng` is the laboratory's writer: the same code and chunks, and a search for
matches along hash chains. `Jpeg` takes a block through flattening and colour
conversion (`FillBlock`), the two passes of the transform (`TransformRows`,
`TransformColumns`), quantisation (`BeginBlock`) and the entropy coder, one
coefficient a step, behind the headers; it also starts from given blocks, for
values no image reaches. `Bmp` writes a row a step. `Decoders` has the images all three are
given, with the flattening of `encode_util.hpp`, and readers written from RFC 1951
and T.81, which share no definition with the writers and model no code of the
repository. The CRC of a chunk is a symbol of what it
covers. `Adler32` is the loop of `checksum.cpp` with its block size, modulus and
word size as parameters.

### C interface: `CImages`, `CIdentity`

`CImages` has `hh_render` and the three encoder calls with the host's buffers:
`Allocate` and `Paint` are the host, `HhRender`, `HhEncode`, `HhEncodeNull` the
calls. Encoded bytes are the request they are the encoding of; their sizes are
an arbitrary function of the request (encoding is deterministic, which `Png`,
`Jpeg` and `Raster` show for what they model).

`CIdentity` has the functions for digests, fingerprints, key check value, tag
and layout on a memory of cells, with arguments and results anywhere in it, null
included. What the functions compute is a parameter; the order in which they
read and write is that of the source: all but `hh_universal_fingerprint` compute
from copies, and that one moves.

### Programs: `CommandLine`, `Vectors`

`CommandLine` is `hh_cli`: the options in any order, the single picture, and the
batch line by line (`OpenBatch`, `SkipLine`, `BadCase`, `AnswerCase`, `Write`,
`EndBatch`). Words are members of small sets, a line is a sequence of them and
of blanks. A write may fail and be noticed or be lost when the file is closed,
and a read may fail, which looks like the end of the file; what goes unnoticed
is kept in a history variable, and the properties except just that.

The program takes an empty key for none. The usage text says that `--key`
renders the keyed picture; the run `cli_key` shows the other case and
`PROJECT.json` lists it as a finding.

`Vectors` is `gen_vectors`, run again and again over one directory with a
library that is right, wrong in a record, or changed. What a changed library alters
is seen where a record has something of the answer in its line (`ShowsValue`), or in
a golden picture. Its `Plan` are the records of the program, nearly one by one; the codes are computed by `Prepare`, so that
a run holds that definition against what the program expects. The program reads
and writes no file before all records are made.

### Laboratory: `Lab`, `Grinding`, `PaletteSearch`

`Lab` is `main` with its options and commands. `Grinding` is `run_grinding`: a
pool of threads, each with the candidates of its own residue and its own lists,
a mutex and shared counters (`Lock`, `CountMatch`), and then the join, the merge
and the rows of the table. `PaletteSearch` is `run_palette`: a pool that draws
jobs from a counter behind a mutex (`LockCounter`, `TakeJob`), the annealing of
a job iteration by iteration (`Anneal`), the sort of what they found, the choice
of distinct palettes and the bisection of a colour into its band. Perceptual
distances, hues and the random numbers are parameters; the counters of
iterations and candidates are those of a quick run or of a full one.

The lists of grinding keep the first of equal scores, and the lists of threads
are merged in the order of their ids; so which candidates are kept in a tie
depends on the number of threads, where the laboratory's README says that the
files do not. The run `lab_threads` shows it
with two threads and four candidates, `PROJECT.json` lists the finding,
and `LowestAreKept` says what holds for any number: the scores are the lowest,
and each row is true of the candidate it names.

## Runs

| Run | Shows | Bounds, and why they are enough |
|---|---|---|
| `hashing` | `Represents`, `KeepsPromise`: buffer, padding, reset and resume against `HashPromise`; `SameAsBinary`: grammar, codes and chunks of hexadecimal text; `NoOverflow`, `SumsAreReduced`: Adler-32 | blocks of 4 bytes with a 1-byte length, pieces of up to 6 bytes over {0, 128}, 11 bytes in all: pieces complete a block, fill one and begin another, both paddings occur, and message bytes look like padding. All texts of up to 5 of 7 characters, longer ones of three; chunks of 2, at most 3 bytes: a full chunk, a partial one, one byte too many. Bytes up to 3, modulus 7, words of 64: 4 is the largest block, 11 bytes are three of them |
| `pbkdf2` | `BufferIsTerm`, `KeepsRfc8018`: the shortcut against `Rfc8018` | blocks of 7, digests of 2; keys of 0, 2, 7 and 8 bytes, i.e. none, short, a block, too long; up to 3 iterations and 5 bytes: two whole blocks and a cut one |
| `identity` | `KeepsPromise`, `FailureShowsNothing`, `ImportsOwnBytes` against `IdentityPromise` | 2 digests, 2 keys, 2 fingerprints, three 32-byte values with zero among them: self-assignment, aliasing, chains of moves |
| `identity_own_bytes` | a violation, see above | the same |
| `drawing` | `LargestThatFits`, `GridIsPlain`, `ImageIsExpected`; `ColourBetween`; `RefusalIsExact`; `FeaturesReadBack` | sizes 16–26, where line, margin and parity change and the thick ring gets room, and some up to 191; drawn at 16, 18, 19, 21 in every shape and style, with and without the shortcut. Alphas and channels 0, 1, 128, 255 and every count of samples. All greys and the colours whose contrast is nearest to 2, on both sides. Every byte of a cell, every place of the tag |
| `encoders` | `AnyMatchDecodes`, `FileDecodes`, `MatchIsNearest`, `TransformIsDct`, `FileReads`, `BitmapReads` | all images of up to 4 pixels of three values (the code of a byte changes at 144) and three long ones with matches of 258; any match with lengths and distances at the ends of each table row. Rings of 6 positions, chains of 2 and a hash that collides. For each of the 64 coefficients the two images that make it largest; sizes that are no multiple of 8; every run and size of a coefficient with the tables of both kinds; 4^4 scans of extreme blocks. Bitmaps of every padding |
| `host` | `ImageIsLastPicture`, `WholeFileOrNone`, `RefusedAsSpecified`; `QueryIsEnough`, `SizeIsOfLastRequest`, `FailureWritesNothing`; `ResultIsOfArguments` | sizes 15, 16, 17, 18, 1025, every reason of a refusal alone and with those checked before and after it; what is encoded is restricted to `Encoded`, one set of options per outcome, in 2 pieces. Five pictures, three formats, buffers of up to 3 bytes. Six cells for values of three: apart, touching, overlapping by one or two cells, the same |
| `lab` | `LowestAreKept`, `CountsAreExact`, `SearchIsConsistent`, `JobsAreIndependent`, `LabEnds` | one to three threads, four candidates with equal ones among them, lists of two; two jobs of two iterations, three stages; command lines with every command and every error |
| `lab_threads` | a violation, see above | the same |
| `tools` | `BatchFollowsFormat`, `FilesMatchLines`, `SingleAsAsked`; `VectorsAreMade`, `CheckIsExact`, `WrittenOnlyWhole`. The format of the cases is the one of the head of `hh_cli.cpp`; a single picture is held to the whole request its arguments spell, with input, text, key, frame, alpha, quality and matte | files of up to two lines, each legal but for one field in every way a field can be wrong; option lists with each option right, wrong, repeated and without value. All records but some golden pictures, two runs of the generator by eight libraries, each write whole, partial or failing |
| `cli_key` | a violation, see above | three command lines |

Bounds in guards rather than in constants' sets are `MaxLength` of
`Sha256Stream`, `Drawn` of `Raster`, `Pieces` and `Encoded` of `Picture`,
`MaxCapacity` of `CImages`, `Cells` and `MaxSize` of `CIdentity` and
`Invocations` of `Vectors`; each is named where it is declared and where it is
used. The counters of the code cannot overflow within what the interface
admits (`length_` is 64 bits wide, `block_index` 32 bits for outputs of 32
bytes); where a width matters it is in the model (`Adler32`'s `Word`, `Mix`'s
conversions, the 32 bits of the passes of the transform in `Jpeg`, the numbers
of `CommandLine`).

`CHECK_DEADLOCK FALSE` is where the model is of a call or a program that ends.
`identity`, `identity_own_bytes` and `host` are about hosts that can always make
another call, and are checked for deadlock.

Fairness is stated in `Lab` and nowhere else: the library runs when it is
called, each of its functions is a loop with a bound that is visible in the
code, and nothing waits. In the laboratory threads wait for mutexes and `main`
waits for threads. `Spec` of `Lab` assumes only that as long as some step is
possible, some step is taken (`WF_vars(Next)`): a running process does not stop
of itself. Nothing is assumed of a single thread, and nothing needs to be: no
thread spins, so each step brings the end nearer, and a thread that is never
scheduled would only be left when no other can move. `LabEnds` then says that
every command line ends, with one thread or several; it fails if a mutex is not
released.

Each property has a mutant: the definition as a plausible mistake would have it
(comments say "Mutant:"), under which the same run finds the property violated.

## Proofs

| Module | Proved for every value of the constants | Inductive invariant |
|---|---|---|
| `HashingProofs` | hasher: `Represents`, the digest is that of the padded message (`DigestOfMessage`), and `Spec => KeepsPromise` | `StreamIInv`: `TypeOK /\ Represents /\ DigestOfMessage` |
| | hexadecimal: `SameAsBinary` | `HexIInv`: the hasher stands for the header and the bytes decoded so far; nothing is said of what earlier rounds left in the array |
| | `BufferIsTerm`, and `Spec => KeepsRfc8018`: PBKDF2 as it runs refines RFC 8018 | `IInv`: the HMAC object is that of the password, the block behind the digest is the padding the two compressions need, the digest in it is the term of its iteration, the sum is that of the terms so far, the output is whole blocks |
| `IdentityProofs` | type correctness, what is unset is zero, a key that is set is not zero, `FailureShowsNothing`, `ImportsOwnBytes`; the refinement of `IdentityPromise` | the conjunction of the first four: that a failure leaves zeros needs that what is unset is zero |
| `DrawingProofs`, `GeometryProofs` | for all sizes 16–1024: `GridIsPlain`, `LargestThatFits`, and that only the documented images have no room (`NoRoomAsDocumented`) | `GeometryIInv`: a cell that has been counted fits |
| | `ImageIsExpected` for every layout, with and without the shortcut | `RasterIInv`: the table maps counts to the pixel of the formula, the rows behind are those of the definition, and so are the cells behind, which lie over them |
| | mixing: `ColourBetween`, that the sums fit 32 bits (`SumsFit`), and the reductions of `docs/SPEC.md` 8.5 (`ReducesAsSpecified`) | `MixIInv`: the counters add up to 16, and a written pixel is `MixOf` of them |
| | `RefusalIsExact` for every background, alpha and page: the refusal, what a report says of the figures, and the exact contrast of the frame as it is seen | `ContrastIInv`: the contrast kept is the least of those of the colours measured, and a render measures only what is opaque |
| | `FeaturesReadBack` for every fingerprint | `FeaturesIInv`: each character put so far is that of its digit, and the layout is the one of the bytes |
| `HostProofs` | size query: `QueryIsEnough`, `SizeIsOfLastRequest`, `FailureWritesNothing`, and that nothing is written past a buffer (`BuffersHold`) | `IInv`: three of the properties, and that the answer last given to a query was too small for that call and is its size |
| | `ImageIsLastPicture`, `WholeFileOrNone`, `RefusedAsSpecified` | `PictureIInv`: what image and output hold at every step under way, and which picture or file they are a part of |
| | `ResultIsOfArguments` for any memory and any overlap | `IdentityIInv`: what a call under way has copied is what was there when it was made |
| `LabProofs` | `LowestAreKept`, `CountsAreExact` for any number of threads | `GrindIInv`: each thread's list has the lowest scores of the candidates it tried; at most one thread is in the mutex, and the counter is what it has read; the counters are of the candidates whose turn is over; merged lists have the lowest scores of the threads merged; rows are true of what they name |
| | `SearchIsConsistent`, `JobsAreIndependent` for any number of threads and jobs | `PaletteIInv`: a search has the state it would have alone after as many iterations; a job below the counter is with one thread or has its result; a colour that moved keeps to its constraints |
| `EncoderProofs` | Adler-32: `NoOverflow` and `SumsAreReduced` for inputs of any length; 5552 is the largest block for 32 bits (`LargestBlock`) | `AdlerIInv`: after m bytes of a block the sums are at most `LargestSum(m)`; `Congruent`: they have the remainders of the sums of RFC 1950 |
| | `png.cpp`: `AnyMatchDecodes` for every match of the format, and `FileDecodes` for images of every size up to 4096 | `PngIInv`: whatever follows them, the bits written so far are read as the bytes of the rows up to the position; a finished file is the four chunks, whose stream is one of all rows |
| | the laboratory's writer: `FileDecodes` for canvases of every size, and `MatchIsNearest`, for every window, chain length and hash | `LabIInv`: the same of its bits, and `Tables`: `head` and the ring have the last earlier position of each hash, as far as the window goes |
| | `bmp.cpp`: `BitmapReads` for images of every size up to 4096 | `BmpIInv`: `RowsWritten`, the header and the rows from the last one up, where a reader looks for them |
| `ToolProofs` | `hh_cli`, batch: `BatchFollowsFormat` and `FilesMatchLines` for every file of cases | `BatchIInv`: the lines of output and the files are those of the cases read, but for the last one while it is written or when that failed |
| | `hh_cli`, single picture: `SingleAsAsked` for every list of arguments, with all eleven parts of the request (`Asked`) | `SingleIInv`: the same, and each part of the request is that of the arguments read so far |
| | `gen_vectors`: `CheckIsExact` and `WrittenOnlyWhole` for every set of golden pictures, every sequence of builds and every directory they leave | `VectorsIInv`: as long as nothing failed, numbers, table and pictures are those of the records so far; files are looked at or written only when all are made, and those that have been are as they were made |

The argument in short:

- *Hashing.* `update` splits its data into what completes the buffer, whole
  blocks, and a rest; `UpdateShort` and `UpdateLong` (`HashingProofs`) show that
  absorbed blocks and buffer together grow by exactly the data. `FinishPads` has
  one case per form of padding (`OneBlock`, `TwoBlocks`). Both are about any block
  size `B` and length field `L <= B` (`BlockAssumption`).
- *Hexadecimal.* A round decodes a chunk of bytes into the array and passes its
  beginning on. What the hasher stands for grows by the bytes of those digits and
  no others, so the rest of the array, stale or not, does not matter. The checks
  before it are compared with the grammar one by one.
- *Adler-32.* A sum that has not been reduced differs from the one of the RFC by a
  multiple of the modulus, and addition keeps that.
- *PBKDF2.* An HMAC object that was updated and finished gives the code of RFC
  2104 (`TagIsHmac`), by the lemmas about the hasher. A message of one digest
  behind a padded key is one block, whose tail is the padding that was put there
  once; so two compressions of that block are the HMAC of the digest. The tail is
  not written, and the digest in front is replaced whole.
- *Identity.* The refinement goes operation by operation. A view of an object is
  what the object shows, and an unset object shows zeros, which is where the
  invariant is needed. The theorem has the hypothesis `~HashesOwnBytes`: with
  such a host the refinement fails, as the run `identity_own_bytes` shows.
- *Geometry.* The grid is square and centred, so its corner decides. For a round
  image the loop's condition bounds the diagonal, and the proof shows that
  rounding and half-sample offsets stay inside the gutter the margin includes;
  for a square one the margin is at least four lines, more than any frame needs.
- *Pixels.* By `GridIsPlain` a pixel of the grid area has sixteen samples inside
  and none on the frame, which is the pixel the shortcut writes. Cells do not
  overlap, so the definition's choice of a cell is the only one, and drawing a
  cell leaves the others alone.
- *Mixing.* The channel is the rounded mean of two channels with natural
  weights (`MeanBetween`), and rounding a mean does not leave the interval.
- *Contrast.* The pairs are the numbers they stand for, with their carries
  (`NumberIs`, `TimesIs`), and the range `Quotient` looks in has the quotient
  (`QuotientIs`). A quotient rounded down is below 200 exactly if twice the darker
  luminance exceeds the lighter (`BelowTwo`), so the rounding never decides. The same
quotient is the contrast as `IsContrast` defines it (`ContrastIsContrast`), and
`over` is in each channel the nearest value, which `Shown` asks for (`OverIs`). That
  every figure shows on white and on 121212 is eight comparisons of luminances,
  from the entries of the table; the rest needs no more of the table than that no
  entry exceeds a million.
- *Features.* A digit of the tag is five bits of thirty, wherever bytes end; folding
  six digits, each prefix is the number without the bits that follow.
- *C buffers.* A call that asks for a size is refused with it, and no other
  changes what is remembered of the answer; a later call with that capacity
  meets the same size.
- *Pictures.* `PrepareAnswers` reads the checks of `prepare` in their order, and
  `NoRoom` says for which sizes the geometry has no room. A render that fails
  empties the image first, and an encoder writes to the output only when it has
  cleared it; which of the two is under way, and of what, is what the invariant
  keeps.
- *Overlap.* A call under way has either copied nothing or what was in memory when
  it was made, and memory is as it was then; all functions but one write once, from
  the copies, and that one moves its argument as a whole.
- *Laboratory.* A sorted list of at most `Keep` scores is what a set's lowest are,
  whatever the ties (`IsBest`), inserting and merging keep that, and the candidates
  are divided among the threads by their residues. A search reads and writes only
  what is its own, so a step of another thread leaves it alone.
- *PNG.* The bits of a writer are those of its bytes and those that wait in the
  accumulator, and putting more bits extends them (`PutExtends`), from the first
  or, for codes, from the last one on. A reader that starts where a symbol was put
  reads that symbol whatever comes behind (`SymbolReads`), by the ranges of the
  fixed code; lengths and distances go by the rows of the two tables (`LengthRow`,
  `DistRow`), each compared with the formula of RFC 1951. So one token more is one
  token more for the reader (`TokenIsRead`), which is a byte of the rows or a copy
  of what it has; and a copy is right because the encoder compared just those bytes
  (`Repeats`), also where it overlaps itself. From the stream the argument goes to
  the rows, whose filter byte is zero, and from the rows to the pixels
  (`RowsUnpacked`), and the container is read field by field (`ChunksDecode`).
  `AnyMatchDecodes` is about a match put behind any waiting bits.
- *The laboratory's search.* A slot of the ring belongs to one position of a window
  (`SlotsDiffer`), so entering a position overwrites only what has left it. Following
  the chain from `head` visits the earlier positions with the same hash, from the
  nearest on, without leaving one out (`NextIs`, `ChainIs`), and the best match kept
  is the longest of those visited, the nearest if there are several (`SearchGoesOn`).
  `FileDecodes` is stated of two writers, in a conjunct each; there is a theorem for
  each of them, under its own specification.
- *BMP.* The header is read field by field, least significant byte first
  (`HeaderBytesRead`). Adding a row leaves the earlier bytes where they are, and puts
  its own at the place that row has in a file from the bottom up (`RowAdded`); and
  the flattened value is the nearest (`FlattenNearest`).
- *Command line tool.* The loop over the characters of a line finds the fields that
  the format defines by positions (`SplitByFormat`), and a number that is cut off is
  out of range like the number itself (`SaysIs`). A list of arguments is read from
  the left, two words for an option with a value; which occurrence was the last is
  what the invariant keeps.
- *Vector generator.* Records are made one after another into the table and the
  pictures, and nothing else is read or written before all are there. Checking and
  writing go through the files one by one; the set of those not yet done is in the
  state, so that the rest is as it was made.

The proofs changed the model in some places. `IdentityPromise` had no copy
of a fingerprint; a run with one fingerprint could not tell, the refinement did
not go through, and the run has two since. And the merge of grinding and its
table were a step each; they go thread by thread and list by list now, as in the
code, which is what their invariants speak of. The readers of `Decoders` and the
search of `LabPng` are recursive functions and no longer recursive operators, which
the prover does not take, and the search has a definition for one step of the chain
and one for entering a position; `Bmp` stands on the images of `Decoders` alone and
no longer on `Jpeg`.

Hypotheses. Assumptions on constants are named and stated in the module that
declares them, and TLC evaluates each in some run. That powers of 256 and of two
are positive is assumed (`PowerAssumption`, `PowersAssumption`,
`HeaderAssumption`), and the values of the nine powers of two that shift the bits of
a tag (`ShiftsAssumption`) or of the thirty of a bit writer (`PowersOfTwoAssumption`):
it takes an induction the provers do not do. `BytesClosed`
of `HashingProofs` says that the exclusive or of bytes is a byte and that digests
consist of bytes, as they do with the octets of the code. It is a hypothesis of
the two theorems and not an assumption TLC evaluates: the run has formal sums of
symbols for bytes, its `Byte` lists the octets among them only, and a set of all
sums could not be enumerated.

What the encoders are given are images as `valid_image` lets them through
(`ImagesAssumption`, `BmpImagesAssumption`: sides up to 4096, four values of a byte
for each pixel), the canvases of the laboratory have sides of the type `int`
(`CanvasesAssumption`), its hash is a bucket (`HashAssumption`) and its window at most
the 32768 of RFC 1951 (`WindowAssumption`). Of the matches that `AnyMatchDecodes` puts,
the lengths are those of the format and the distances up to the longest row
(`MatchAssumption`). Of the tools it is assumed that lists and files consist of words
(`ListsAssumption`), that digits spell a natural number and the defaults 92, 128 and
255 those numbers (`WordsAssumption`) in a type that holds the largest size
(`MaxNumberAssumption`), that the golden pictures have names of their own
(`GoldenPlanAssumption`) and that the generator is run at all
(`InvocationsAssumption`).

Where an argument needs induction over data, it is done
by the least counterexample in the natural numbers (`Least`, `Induct`), and a
recursive function is unfolded after its existence has been proved so.

Properties that are only proved (`DigestOfMessage`, `NoRoomAsDocumented`,
`SumsFit`, `ReducesAsSpecified`, `EncodingFits`, `PictureFits` and the type
invariants) hold on the instances of the runs as well, by the theorems.

Only model-checked:

- `TransformIsDct`: how far the two passes with their constants of ten or so bits are
  from the cosine transform is a bound over 64 sums of products of 64 numbers each,
  which the provers do not get through; the run has for each coefficient the images
  that make it largest.
- `FileReads`, of JPEG: the Huffman codes are what `make_codes` computes from the
  tables of T.81, up to 162 codes in a table, and that no code is the beginning of
  another is a fact about those numbers. The run takes every run and size of a
  coefficient through the tables of both kinds.
- `VectorsAreMade`: that the library answers the records of the program as the
  program expects is a computation for each of them.
- `LabEnds`, and whatever else is liveness or ENABLED.

## Not modelled

- The rounds of SHA-256, and that wiping is not optimised away: the first is
  arithmetic without state of its own, tested with published vectors; the second
  is a property of the compiler.
- The table of CRC-32: exclusive-or on words of 32 bits, which the integers of
  TLC do not reach; a CRC is a symbol of the bytes it covers.
- The separation of M1, M2 and the key check value by stage, which rests on
  constant prefixes of different text.
- `hh_measure_contrast`, `hh_render_options_init` and the C functions that return a
  constant: one assignment each, on operations modelled elsewhere.
- The colour science, the markers and the sheets of the laboratory: formulas in
  floating point and layouts of constant data. Their results are parameters of
  `Grinding` and `PaletteSearch`.
- `hh_compare`, the tables of messages and names, tests and build.

## Plan

Done, in this order: hasher, HMAC/PBKDF2, canonicalisation, identity objects,
geometry and rasteriser, PNG, checksum, render and encode pipeline, C encoding
calls, colour mixing, JPEG with its transform, BMP, contrast and features, the C
calls on overlapping memory, the laboratory with its threads, its PNG writer, the
command line tool and the vector generator.

What remains of the proofs is JPEG: that the codes of its tables are read back
symbol by symbol, which would carry `FileReads` as it does in PNG, and the bound of
its transform. Of the model: the separation of the stages of derivation over `Hmac`
and `Pbkdf2`.
