-------------------------- MODULE MCAudioSetting --------------------------
(***************************************************************************)
(* Three formats of the table, two of which are one to the EDID, and one   *)
(* that is not in the table.  Sinks with up to two extension blocks, good, *)
(* damaged or of another kind, with none, one or more audio data blocks,   *)
(* declared or not; and two with ten blocks, of which seven are read.      *)
(***************************************************************************)
EXTENDS HdmiAudio

MCFormats == {"AC3", "TRUEHD", "MLP", "AAC"}
MCTable == {"AC3", "TRUEHD", "MLP"}
MCLevel == [f \in MCTable |-> IF f = "AC3" THEN "AC3" ELSE "MLP"]

\* Two formats, with a level each, may be listed twice, in the port whose list
\* is not changed by requests alone.
MCMaxListed ==
    [p \in Ports |-> [f \in MCFormats |->
        IF p = "bitstream" /\ f \in {"AC3", "MLP"} THEN 2 ELSE 1]]

Video == [tag |-> "video", types |-> <<>>]
AudioBlock(types) == [tag |-> "audio", types |-> types]
SpeakerBlock(names) == [tag |-> "speakers", types |-> names]
Data == { <<>>, <<SpeakerBlock({"FL/FR", "FC", "FLW/FRW"}), AudioBlock(<<"PCM", "AC3">>),
                  Video, AudioBlock(<<>>)>>,
          <<AudioBlock(<<"MLP", "DTS">>)>>,
          <<AudioBlock(<<"AC3">>), AudioBlock(<<"MLP">>)>> }
Block(tag, checksum, version, data) ==
    [tag |-> tag, checksum |-> checksum, version |-> version, data |-> data]
Blocks == {Block("CEA", c, 3, d) : c \in BOOLEAN, d \in Data}
          \cup {Block("CEA", TRUE, 1, <<AudioBlock(<<"AC3">>)>>),
                Block("other", TRUE, 3, <<AudioBlock(<<"MLP">>)>>)}
Sink(n, blocks) == [declared |-> n, blocks |-> blocks]
Second == Block("CEA", TRUE, 3, <<Video, AudioBlock(<<"AC3">>)>>)
MCSinks == {Sink(1, <<b>>) : b \in Blocks}
           \cup {Sink(n, <<b, Second>>) : n \in {1, 2},
                   b \in {x \in Blocks : x.data = <<AudioBlock(<<"MLP", "DTS">>)>>}}
           \cup {Sink(10, [i \in 1 .. 10 |->
                    Block("CEA", TRUE, 3, IF i = k THEN <<AudioBlock(<<"AC3">>)>>
                                          ELSE <<>>)]) : k \in {7, 8}}
===========================================================================
