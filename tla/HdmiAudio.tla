----------------------------- MODULE HdmiAudio -----------------------------
(***************************************************************************)
(* The EDID parser (rksoundsetting/audio_hw_hdmi.cpp) and the update of    *)
(* the document it is called for.  A block of 128 bytes is a record: its   *)
(* tag, whether its bytes add up to zero, the version of a CEA extension   *)
(* and its data blocks up to the offset of the timings, each with a tag    *)
(* and, of an audio block, the formats of its descriptors, of a speaker    *)
(* block the speakers.                                                     *)
(*                                                                         *)
(* That offset is a byte of the block, and the code walks up to it without *)
(* a look at the 128 bytes there are, nor at where a data block ends: what *)
(* it reads beyond them is not modelled.  The data blocks of the model lie *)
(* inside their block, as CEA-861 has them.                                *)
(*                                                                         *)
(* What comes of an EDID is one record, infor, with the formats and the    *)
(* speakers it keeps and the number of arrays it has allocated.  Channels  *)
(* and sample rates reach no setting; they are only logged.                *)
(***************************************************************************)
EXTENDS AudioSetting, Sequences, SequencesExt, FiniteSetsExt

CONSTANT Sinks  \* EDIDs: [declared extensions, blocks the node delivers]

NoLayout == {"none"}  \* channel_layout -1, which no EDID can say

IsSequence(s) == s \in Seq(ToSet(s))

ASSUME SinkAssumption ==
    \A s \in Sinks :
       /\ s.declared \in 0 .. 255
       /\ IsSequence(s.blocks)
       /\ \A i \in DOMAIN s.blocks :
             /\ IsSequence(s.blocks[i].data)
             /\ \A j \in DOMAIN s.blocks[i].data :
                   s.blocks[i].data[j].tag = "speakers"
                      => s.blocks[i].data[j].types # NoLayout

HDMI_MAX_EDID_BLOCK == 8

\* HDMI_SPEAKER_ALLOCATION_TABLE: pairs of speakers for which Android has a
\* place; FLW/FRW has none.
Places == {"FL/FR", "LFE", "FC", "SL/SR", "RC", "FLC/FRC", "RLC/RRC", "FLH/FRH",
           "TC", "FCH"}

VARIABLE sink  \* the EDID of the sink that is connected

hdmiVars == <<vars, sink>>

\* hdmi_edid_parse_cea_audio: a block with descriptors takes the place of what
\* was found before, whose array nothing refers to any more.
ParseCeaAudio(infor, types) ==
    IF types = <<>> THEN infor
    ELSE [infor EXCEPT !.audio = types, !.allocated = @ + 1]

\* hdmi_edid_parse_speaker_allocation
ParseSpeakerAllocation(infor, speakers) == [infor EXCEPT !.layout = speakers]

ParseDataBlock(infor, d) ==
    CASE d.tag = "audio" -> ParseCeaAudio(infor, d.types)
      [] d.tag = "speakers" -> ParseSpeakerAllocation(infor, d.types)
      [] OTHER -> infor

\* hdmi_edid_parse_extensions_cea: one data block after the other.
ParseExtensionsCea(infor, data) ==
    LET found[n \in 0 .. Len(data)] ==
          IF n = 0 THEN infor ELSE ParseDataBlock(found[n - 1], data[n])
    IN  found[Len(data)]

\* Faulty variant: the checksum is not looked at.
ParseExtensionsUnchecked(infor, block) ==
    IF block.tag = "CEA" /\ block.version = 3
    THEN ParseExtensionsCea(infor, block.data) ELSE infor

\* hdmi_edid_parse_extensions: whatever is wrong with a block, the next is read.
ParseExtensions(infor, block) ==
    IF block.checksum /\ block.tag = "CEA" /\ block.version = 3
    THEN ParseExtensionsCea(infor, block.data) ELSE infor

InitHdmiAudio == [audio |-> <<>>, layout |-> NoLayout, allocated |-> 0]

\* destory_hdmi_audio: the array kept last is freed.
DestoryHdmiAudio(infor) ==
    [InitHdmiAudio EXCEPT !.allocated =
        IF infor.audio # <<>> THEN infor.allocated - 1 ELSE infor.allocated]

\* How many extension blocks are read: as many as the base block declares, no
\* more than seven, and none after the end of the file.
BlocksRead(edid) == Min({edid.declared, HDMI_MAX_EDID_BLOCK - 1, Len(edid.blocks)})

\* parse_hdmi_audio once the node is open.  If no read of the base block brings
\* anything it declares no extensions.
ParseHdmiAudio(edid, answered) ==
    LET found[n \in 0 .. BlocksRead(edid)] ==
          IF n = 0 THEN InitHdmiAudio ELSE ParseExtensions(found[n - 1], edid.blocks[n])
    IN  IF answered THEN found[BlocksRead(edid)] ELSE InitHdmiAudio

\* is_support_format, for the levels of the table.
IsSupportFormat(infor, level) ==
    \E i \in DOMAIN infor.audio : infor.audio[i] = level

\* get_hdmi_audio_speaker_allocation: stereo if the sink does not say.
SpeakerAllocation(infor) ==
    IF infor.layout = NoLayout THEN {"FL/FR"} ELSE infor.layout \cap Places

\* updataFormatForAutoMode with an EDID node that can be opened, which is never
\* closed.
HotPlug(answered) ==
    LET infor == ParseHdmiAudio(sink, answered)
    IN  UpdataFormatForEdid({l \in Levels : IsSupportFormat(infor, l)})

\* The calls of the settings app.
Setting ==
    \/ \E d \in 0 .. 2 : SetSelect(d)
    \/ \E d \in 0 .. 2, close \in {0, 1}, f \in Formats : SetFormat(d, close, f)
    \/ \E d \in 0 .. 2, m \in {0, 1} : SetMode(d, m)

\* Another sink is connected, of which the update comes to know later.
Connect(s) == sink' = s /\ UNCHANGED vars

HdmiNext == \/ (Setting \/ \E answered \in BOOLEAN : HotPlug(answered))
               /\ UNCHANGED sink
            \/ \E s \in Sinks : Connect(s)

HdmiInit == Init /\ sink \in Sinks

HdmiSpec == HdmiInit /\ [][HdmiNext]_hdmiVars

-----------------------------------------------------------------------------

\* What CEA-861 says a sink decodes: the formats of all audio data blocks of
\* the extensions that are whole.
Whole(edid) ==
    {i \in 1 .. BlocksRead(edid) :
        LET b == edid.blocks[i] IN b.checksum /\ b.tag = "CEA" /\ b.version = 3}

DataBlocks(edid, tag) ==
    {ij \in UNION {{i} \X DOMAIN edid.blocks[i].data : i \in Whole(edid)} :
        LET d == edid.blocks[ij[1]].data[ij[2]]
        IN  d.tag = tag /\ (tag = "audio" => d.types # <<>>)}

Decodes(edid) ==
    UNION {ToSet(edid.blocks[ij[1]].data[ij[2]].types) :
              ij \in DataBlocks(edid, "audio")}

Speakers(edid) ==
    UNION {edid.blocks[ij[1]].data[ij[2]].types : ij \in DataBlocks(edid, "speakers")}

AtMostOne(S) == \A x, y \in S : x = y

\* After a hot plug in auto mode of a sink with one audio data block, wherever
\* that is and whatever other blocks are damaged, the bitstream port lists of
\* the formats of the table that were not listed twice exactly those the sink
\* decodes, and no array of the parser is left.  The speakers that are read are
\* those of a sink with one block of them.
FollowsSink ==
    [][BitStreamMode = 0 /\ HotPlug(TRUE) /\ AtMostOne(DataBlocks(sink, "audio")) =>
         LET infor == ParseHdmiAudio(sink, TRUE)
         IN  /\ \A f \in Table :
                   formats["bitstream"][f] <= 1 =>
                      (f \in Listed(formats'["bitstream"]) <=> Level[f] \in Decodes(sink))
             /\ DestoryHdmiAudio(infor) = InitHdmiAudio
             /\ DataBlocks(sink, "speakers") # {} /\ AtMostOne(DataBlocks(sink, "speakers")) =>
                   SpeakerAllocation(infor) = Speakers(sink) \cap Places]_hdmiVars

=============================================================================
