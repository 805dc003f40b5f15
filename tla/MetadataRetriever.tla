------------------------- MODULE MetadataRetriever -------------------------
(***************************************************************************)
(* RockitMetadataRetriever and its callback object: the metadata, album    *)
(* art and frames of a media file, got from a closed library.  Every       *)
(* operation holds mLock, so each is one action; what an operation returns *)
(* stays with the caller after the lock is released.                       *)
(*                                                                         *)
(* The library is external: a query may fail; a request for a frame calls  *)
(* init and fillVideoFrame of the callback object, or neither, before it   *)
(* returns.  A picture is rows of ten-bit samples, those of the luma plane *)
(* and then those of the chroma plane, which begin a stride of bytes apart *)
(* in the library's memory; a row has the upper eight bits of each sample, *)
(* or all ten, of which four samples' are packed in five bytes.            *)
(***************************************************************************)
EXTENDS Integers, Sequences, SequencesExt

CONSTANTS Sources,   \* media files
          TracksOf,  \* Sources -> sequence of "audio", "video", "text"
          Pictures   \* sizes, rows of samples, what is in memory beside them

Nil == "none"

ASSUME RetrieverAssumption ==
    /\ Nil \notin Sources
    /\ TracksOf \in [Sources -> Seq({"audio", "video", "text"})]
    /\ \A p \in Pictures :
          /\ p.width \in 0 .. p.wStride /\ p.height \in 0 .. p.hStride
          /\ p.wStride \in Nat \ {0} /\ p.hStride \in Nat /\ p.pad \in 0 .. 255
          /\ p.rows \in Seq(Seq(0 .. 1023))
          /\ Len(p.rows) = p.hStride + p.hStride \div 2
          /\ \A q \in DOMAIN p.rows : Len(p.rows[q]) = p.width

VARIABLES mCtx,             \* what the constructor made, or what came of it
          source,           \* the source the caller set last, if accepted
          libSource,        \* the source the library has
          mParsedMetaData,
          mMetaData,        \* key -> what its value is about
          mAlbumArt,        \* the source whose picture it is, or None
          arts,             \* pictures allocated and not deleted
          mFrameMemory,     \* the frame made last, or NoFrame
          lent,             \* the caller holds a string of mMetaData
          dangling          \* such a string has been freed under the caller

cache == <<mParsedMetaData, mMetaData, mAlbumArt, arts>>
retrieverVars == <<mCtx, source, libSource, cache, mFrameMemory, lent, dangling>>

\* What the library may say of a picture's format, nothing included.
SrcFormats == {"YUV420SP", "YUV420SP_10BIT", "ARGB8888", "YUV422SP", Nil}

NoPicture == [width |-> 0, height |-> 0, wStride |-> 1, hStride |-> 0, pad |-> 0,
              rows |-> <<>>]

\* The rows that are shown, counted from 0: of luma the upper ones of hStride,
\* of chroma, two bytes for four pixels, half as many.
RowsShown(size) ==
    0 .. size.height - 1 \cup size.hStride .. size.hStride + size.height \div 2 - 1

\* What a frame of the picture has to show, in eight bits.
Pixels(p) == [q \in RowsShown(p) |-> [x \in 0 .. p.width - 1 |-> p.rows[q + 1][x + 1] \div 4]]

\* A frame with the picture it was made for, what it shows, and the bytes it
\* has for a pixel of the format.
Frame(format, bpp) ==
    [made |-> TRUE, picture |-> NoPicture, pixels |-> Pixels(NoPicture),
     format |-> format, bpp |-> bpp]
NoFrame == [Frame("RGB565", 2) EXCEPT !.made = FALSE]

Entries == {"tags", "duration", "sample rate", "bits", "width", "rotation",
            "bitrate"} \X (Sources \cup {Nil}) \X Nat

RetrieverTypeOK ==
    /\ mCtx \in {"none", "unloaded", "empty", "ready", "crashed", "gone"}
    /\ source \in Sources \cup {Nil} /\ libSource \in Sources \cup {Nil}
    /\ mParsedMetaData \in BOOLEAN /\ lent \in BOOLEAN /\ dangling \in BOOLEAN
    /\ mAlbumArt \in Sources \cup {Nil} /\ arts \in 0 .. 2
    /\ mMetaData \subseteq Entries
    /\ mFrameMemory.made \in BOOLEAN /\ mFrameMemory.picture \in Pictures \cup {NoPicture}

RetrieverInit ==
    /\ mCtx = "none" /\ source = Nil /\ libSource = Nil
    /\ mParsedMetaData = FALSE /\ mMetaData = {} /\ mAlbumArt = Nil
    /\ arts = 0 /\ mFrameMemory = NoFrame /\ lent = FALSE /\ dangling = FALSE

\* check(): every operation but the destructor begins with it.
Check == mCtx = "ready"

(***************************************************************************)
(* enabled: the property media.rockit.thumbnail.enale is on and there is a *)
(* library.  If not, no function is looked up and check() fails.  A        *)
(* library without the functions is called through NULL all the same.      *)
(***************************************************************************)
CreateMetadataRetriever(enabled, symbols, objects) ==
    /\ mCtx = "none"
    /\ mCtx' = IF ~enabled THEN "unloaded"
               ELSE IF ~symbols THEN "crashed"
               ELSE IF ~objects THEN "empty" ELSE "ready"
    /\ UNCHANGED <<source, libSource, cache, mFrameMemory, lent, dangling>>

-----------------------------------------------------------------------------

\* Faulty variant: the picture is forgotten and not deleted.
ClearUndeleted ==
    /\ mParsedMetaData' = FALSE
    /\ mMetaData' = {} /\ mAlbumArt' = Nil
    /\ UNCHANGED arts

ClearMetadata ==
    /\ mParsedMetaData' = FALSE
    /\ mMetaData' = {} /\ mAlbumArt' = Nil
    /\ arts' = IF mAlbumArt = Nil THEN arts ELSE arts - 1

\* The functions that destroy are called whether they were found or not; the
\* callback object goes, with its frame.
DestoryMetadataRetriever ==
    /\ mCtx' = IF mCtx = "unloaded" THEN "crashed" ELSE "gone"
    /\ mFrameMemory' = NoFrame

\* The destructor.
DestroyRetriever ==
    /\ mCtx \in {"unloaded", "empty", "ready"}
    /\ ClearMetadata
    /\ DestoryMetadataRetriever
    /\ lent' = FALSE
    /\ UNCHANGED <<source, libSource, dangling>>

(***************************************************************************)
(* The three forms of setDataSource.  A DataSource object is not passed    *)
(* on: the library keeps what it had.  A library that refuses a source has *)
(* none.  Strings the caller got before are gone, which it can know.       *)
(***************************************************************************)
SetRetrieverSource(s, passed, accepted) ==
    /\ Check
    /\ ClearMetadata
    /\ source' = IF passed /\ ~accepted THEN Nil ELSE s
    /\ libSource' = IF ~passed THEN libSource ELSE IF accepted THEN s ELSE Nil
    /\ lent' = FALSE
    /\ UNCHANGED <<mCtx, mFrameMemory, dangling>>

(***************************************************************************)
(* What the loop over the tracks finds: the first of a type, whose own     *)
(* fields are used, but the reserved words are those of the first track.   *)
(***************************************************************************)
FirstTrack(tracks, type) == SelectInSeq(tracks, LAMBDA t : t = type)

TrackEntries(s) ==
    LET tracks == TracksOf[s]
        audio == FirstTrack(tracks, "audio")
        video == FirstTrack(tracks, "video")
    IN  (IF audio = 0 THEN {} ELSE
            {<<"sample rate", s, audio>>, <<"bits", s, 1>>})
        \cup (IF video = 0 THEN {} ELSE
            {<<"width", s, video>>, <<"rotation", s, 1>>})
        \cup (IF Len(tracks) = 1 /\ audio # 0 THEN {<<"bitrate", s, 1>>} ELSE {})

(***************************************************************************)
(* The four queries, each of which may fail without ending the parsing.    *)
(***************************************************************************)
ParseMetaData(tags, art, tracks, duration) ==
    /\ libSource = Nil => ~(tags \/ art \/ tracks \/ duration)
    /\ mMetaData' = (IF tags THEN {<<"tags", libSource, 0>>} ELSE {})
                    \cup (IF tracks THEN TrackEntries(libSource) ELSE {})
                    \cup {<<"duration", IF duration THEN libSource ELSE Nil, 0>>}
    /\ mAlbumArt' = IF art THEN libSource ELSE mAlbumArt
    /\ arts' = IF art THEN arts + 1 ELSE arts

Parse == IF mParsedMetaData
         THEN /\ UNCHANGED <<mMetaData, mAlbumArt, arts, dangling>>
         ELSE /\ \E tags, art, tracks, duration \in BOOLEAN :
                     ParseMetaData(tags, art, tracks, duration)
              /\ dangling' = (dangling \/ lent)

\* A clone is returned, which the caller owns.
ExtractAlbumArt ==
    /\ Check
    /\ Parse
    /\ mParsedMetaData' = TRUE
    /\ UNCHANGED <<mCtx, source, libSource, mFrameMemory, lent>>

\* Faulty variant: each request parses again.
ExtractUnmarked ==
    /\ Check
    /\ Parse
    /\ lent' = (mMetaData' # {})
    /\ UNCHANGED <<mCtx, source, libSource, mParsedMetaData, mFrameMemory>>

\* A string of mMetaData itself is returned, and used without the lock.
ExtractMetadata ==
    /\ Check
    /\ Parse
    /\ mParsedMetaData' = TRUE
    /\ lent' = (mMetaData' # {})
    /\ UNCHANGED <<mCtx, source, libSource, mFrameMemory>>

-----------------------------------------------------------------------------
(***************************************************************************)
(* Frames.  Packed: how the decoder stores samples, in little-endian order *)
(* from the lowest bit on.                                                 *)
(***************************************************************************)
Bit(n, k) == (n \div 2^k) % 2

\* Bit k of a line, counted from 0.
LineBit(line, k) ==
    IF k \div 10 < Len(line) THEN Bit(line[k \div 10 + 1], k % 10) ELSE 0

Packed(line) ==
    LET b(byte, k) == LineBit(line, 8 * (byte - 1) + k)
    IN  [byte \in 1 .. (Len(line) * 10 + 7) \div 8 |->
           b(byte, 0) + 2 * b(byte, 1) + 4 * b(byte, 2) + 8 * b(byte, 3)
           + 16 * b(byte, 4) + 32 * b(byte, 5) + 64 * b(byte, 6) + 128 * b(byte, 7)]

\* The picture in the library's memory, and a row's length of what follows it.
Stored(format, p) ==
    LET bytes == [q \in DOMAIN p.rows |->
                     IF format = "YUV420SP_10BIT" THEN Packed(p.rows[q])
                     ELSE [x \in 1 .. p.width |-> p.rows[q][x] \div 4]]
    IN  [a \in 0 .. (Len(p.rows) + 1) * p.wStride |->
           LET q == (a \div p.wStride) + 1
               x == (a % p.wStride) + 1
           IN  IF q \in DOMAIN p.rows /\ x \in DOMAIN bytes[q] THEN bytes[q][x] ELSE p.pad]

\* Ten-bit rows fit into the stride, which counts bytes.
RowsFit(p) == (p.width * 10 + 7) \div 8 <= p.wStride

\* fetch_data: the upper eight of the ten bits of sample num, from 0, of the row
\* that begins at line.
FetchData(memory, line, num) ==
    LET offset == (num * 2) % 8
        value == memory[line + (num * 10) \div 8] \div 2^offset
                 + memory[line + (num * 10) \div 8 + 1] * 2^(8 - offset)
    IN  (value % 1024) \div 4

\* Faulty variant: the chroma plane is looked for below the rows shown.
ConvertChromaHigh(memory, ctx) ==
    LET width == ctx.wStride
        luma == ctx.hStride * width
        sample(plane, n) ==
            FetchData(memory, plane + (n \div width) * ctx.wStride, n % width)
    IN  [n \in 0 .. luma + width * (ctx.hStride \div 2) - 1 |->
            IF n < luma THEN sample(0, n) ELSE sample(ctx.height * ctx.wStride, n - luma)]

(***************************************************************************)
(* convert10bitTo8bit: rows of as many samples as a stride has bytes are   *)
(* written one behind the other, each read a stride after the one before;  *)
(* then so are those of the chroma plane.  So of a row there is read also  *)
(* what lies behind it, of the last what lies behind the picture.          *)
(***************************************************************************)
Convert10bitTo8bit(memory, ctx) ==
    LET horStride == ctx.wStride
        verStride == ctx.hStride
        width == ctx.wStride
        height == ctx.hStride
        luma == width * height
        sample(plane, n) == FetchData(memory, plane + (n \div width) * horStride, n % width)
    IN  [n \in 0 .. luma + width * (height \div 2) - 1 |->
            IF n < luma THEN sample(0, n) ELSE sample(verStride * horStride, n - luma)]

(***************************************************************************)
(* init of the callback object, with what the library says of the picture; *)
(* it may leave out the format of an NV12 picture, and what the caller has *)
(* asked for: the frame is one of RGB565 then, whatever that was.          *)
(***************************************************************************)
InitCallback(p, format, dstFormat) ==
    LET dst == IF dstFormat = Nil THEN "RGB565" ELSE dstFormat
    IN  [width |-> p.width, height |-> p.height,
         wStride |-> p.wStride, hStride |-> p.hStride,
         src |-> IF format = Nil THEN "YUV420SP" ELSE format,
         dst |-> dst, bpp |-> IF dst = "RGB565" THEN 2 ELSE 4]

\* transfRT2OmxColorFormat: ten-bit pictures will be eight-bit ones.
TransfRT2OmxColorFormat(src) ==
    CASE src \in {"YUV420SP", "YUV420SP_10BIT"} -> "YUV420SemiPlanar"
      [] src = "RGB565" -> "Format16bitRGB565"
      [] src = "ARGB8888" -> "Format32bitARGB8888"
      [] OTHER -> "Unused"

\* allocVideoFrame
AllocVideoFrame(ctx) == Frame(ctx.dst, ctx.bpp)

\* ColorConverter, external: what it reads of a semi-planar picture, whose rows
\* are a stride apart and whose chroma plane follows height of them.
ColorConverterReads(memory, ctx) ==
    [q \in RowsShown(ctx) |-> [x \in 0 .. ctx.width - 1 |-> memory[q * ctx.wStride + x]]]

(***************************************************************************)
(* fillVideoFrame.  The new frame replaces the old before it is filled:    *)
(* without an address, a source format, a converter or memory it is blank. *)
(***************************************************************************)
FillVideoFrame(ctx, p, allocated, converted) ==
    LET stored == Stored(ctx.src, p)
        converter == converted /\ TransfRT2OmxColorFormat(ctx.src) = "YUV420SemiPlanar"
        convertAddr == IF ctx.src = "YUV420SP_10BIT"
                       THEN Convert10bitTo8bit(stored, ctx) ELSE stored
    IN  mFrameMemory' =
            IF ~allocated THEN mFrameMemory
            ELSE IF TransfRT2OmxColorFormat(ctx.src) = "Unused" \/ ~converter
            THEN AllocVideoFrame(ctx)
            ELSE [AllocVideoFrame(ctx) EXCEPT !.picture = p,
                     !.pixels = ColorConverterReads(convertAddr, ctx)]

\* getDstColorFormat
GetDstColorFormat(format) == format \in {"RGB565", "RGBA8888", "BGRA8888"}

(***************************************************************************)
(* getFrameInternal.  For a format that is not supported the caller gets   *)
(* NULL; for others mFrameMemory, whatever the library did.  The library   *)
(* hands on the format or leaves it out (handedOn).                        *)
(***************************************************************************)
GetFrameInternal(format, called, handedOn, src, p, allocated, converted) ==
    IF called /\ GetDstColorFormat(format)
    THEN FillVideoFrame(InitCallback(p, src, IF handedOn THEN format ELSE Nil),
                        p, allocated, converted)
    ELSE UNCHANGED mFrameMemory

\* getFrameAtTime and getFrameAtIndex
GetFrame(format, called, handedOn, src, p, allocated, converted) ==
    /\ Check
    /\ called => libSource # Nil
    /\ src = "YUV420SP_10BIT" => RowsFit(p)
    /\ GetFrameInternal(format, called, handedOn, src, p, allocated, converted)
    /\ UNCHANGED <<mCtx, source, libSource, cache, lent, dangling>>

\* getImageAtIndex and getImageRectAtIndex: the caller gets NULL.
GetImage == Check /\ UNCHANGED retrieverVars

RetrieverNext ==
    \/ \E enabled, symbols, objects \in BOOLEAN :
          CreateMetadataRetriever(enabled, symbols, objects)
    \/ DestroyRetriever
    \/ \E s \in Sources, passed, accepted \in BOOLEAN :
          SetRetrieverSource(s, passed, accepted)
    \/ ExtractAlbumArt
    \/ ExtractMetadata
    \/ \E format \in {"RGB565", "RGBA8888", "YV12"},
          src \in SrcFormats, p \in Pictures,
          called, handedOn, allocated, converted \in BOOLEAN :
          GetFrame(format, called, handedOn, src, p, allocated, converted)
    \/ GetImage

RetrieverSpec == RetrieverInit /\ [][RetrieverNext]_retrieverVars

-----------------------------------------------------------------------------

\* What is kept of a file is of the file the library has: tags, tracks and
\* picture of an earlier source are gone once another is set, whichever queries
\* failed; no picture is left behind; and no string extractMetadata gave is
\* freed under the caller, as parsing again would do.
CachedIsOfSource ==
    Check =>
        /\ mParsedMetaData =>
              mMetaData # {} /\ \A e \in mMetaData : e[2] \in {Nil, libSource}
        /\ mAlbumArt \in {Nil, libSource}
        /\ arts = IF mAlbumArt = Nil THEN 0 ELSE 1
        /\ ~dangling

\* Each row of a frame, of both planes, shows the picture's, in whichever format
\* the library has it and however wide its strides are: of ten-bit samples,
\* which lie across bytes, the upper bits, and nothing of what is read beside a
\* row or behind the picture.
FrameIsPicture == mFrameMemory.pixels = Pixels(mFrameMemory.picture)

=============================================================================
