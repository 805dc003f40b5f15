--------------------------- MODULE AudioSetting ---------------------------
(***************************************************************************)
(* RkAudioSettingManager (rksoundsetting): the document a process has of   *)
(* the audio settings, behind the calls of the settings app and of the     *)
(* audio HAL, which reads the HDMI sink's EDID on a hot plug.              *)
(*                                                                         *)
(* The document has two ports, decode and bitstream, each with a select    *)
(* attribute, a mode and a list of formats, and the bitstream port's first *)
(* device.  The order of a list does not matter to any operation, so a     *)
(* list is the number of times each format is in it.  Every setter saves   *)
(* the document (AudioConfigFile).                                         *)
(***************************************************************************)
EXTENDS Naturals, FiniteSets

CONSTANTS Formats,  \* format names
          Table,    \* those in mSupportHdmiLevel
          Level,    \* [Table -> hdmi_level]: what the EDID calls a format
          MaxListed \* bound: how often requests list a format in a port

ASSUME TableAssumption ==
    /\ Table \subseteq Formats
    /\ "MLP" \in Table
    /\ Level \in [Table -> {Level[f] : f \in Table}]
    /\ MaxListed \in [{"decode", "bitstream"} -> [Formats -> Nat]]

Levels == {Level[f] : f \in Table}

Ports == {"decode", "bitstream"}

VARIABLES selected,  \* per port: its attribute is "yes"
          device,    \* the device of the bitstream port
          mode,      \* per port: 0 (decode_pcm, auto) or 1 (multi_pcm, manual)
          formats    \* per port: how often each format is listed

vars == <<selected, device, mode, formats>>

TypeOK ==
    /\ selected \in [Ports -> BOOLEAN]
    /\ device \in {"hdmi", "spdif"}
    /\ mode \in [Ports -> {0, 1}]
    /\ formats \in [Ports -> [Formats -> Nat]]

\* What a configuration file may say: one port, and no format twice.
Init ==
    /\ selected \in {[p \in Ports |-> p = q] : q \in Ports}
    /\ device \in {"hdmi", "spdif"}
    /\ mode \in [Ports -> {0, 1}]
    /\ formats \in [Ports -> [Formats -> {0, 1}]]
---------------------------------------------------------------------------
\* Devices as the callers number them: 0 decode, 1 HDMI bitstream, 2 S/PDIF.
Port(d) == IF d = 0 THEN "decode" ELSE "bitstream"

\* getAudioSettingDecodeFormat and getAudioSettingBitstreamFormat.
DecodeFormat(f) == formats["decode"][f] > 0
BitstreamFormat(f) == formats["bitstream"][f] > 0

GetFormat(d, f) ==
    IF (d = 0 /\ DecodeFormat(f)) \/ (d # 0 /\ BitstreamFormat(f)) THEN 1 ELSE 0

BitstreamDevice(name) == device = name

\* getSelectValue: the first attribute, whatever its name; "yes" is 1.
SelectValue(port) == IF selected[port] THEN 1 ELSE 0

AudioSettingSelect(port) == SelectValue(port)

GetSelect(d) ==
    IF /\ AudioSettingSelect(Port(d)) = 1
       /\ d = 1 => BitstreamDevice("hdmi")
       /\ d = 2 => BitstreamDevice("spdif")
    THEN 1 ELSE 0

\* getAudioSettingDecodeMode and getAudioSettingBitStreamMode: the texts of a
\* port's mode, "decode_pcm" and "multi_pcm" or "auto" and "manual".
DecodeMode == mode["decode"]
BitStreamMode == mode["bitstream"]

\* getMode: S/PDIF shows the mode it cannot set.
GetMode(d) == IF d = 0 THEN DecodeMode ELSE BitStreamMode

\* setAudioSettingSelect: one attribute becomes "yes" and the other "no".
SetSelectValue(p, port) == p = port
SelectPort(port) == selected' = [p \in Ports |-> SetSelectValue(p, port)]

\* setAudioSettingBitstreamDevice: the text of the first device node.
SetBitstreamDevice(name) == device' = name

\* addFormatNode and delectFormatNode: no look at the list before a format is
\* added to it, and the first node of that name is removed from it.
Added(list, f) == [list EXCEPT ![f] = @ + 1]
Removed(list, f) == [list EXCEPT ![f] = IF @ > 0 THEN @ - 1 ELSE 0]

\* setFormats, of a port's list.
SetFormats(port, cmd, f) ==
    formats' = [formats EXCEPT ![port] =
                   IF cmd = "ADD_NODE" THEN Added(@, f) ELSE Removed(@, f)]

\* setAudioSettingDecodeFormat and setAudioSettingBitstreamFormat: 0 adds.
Closing(close) == IF close = 0 THEN "ADD_NODE" ELSE "DELECT_NODE"
SetDecodeFormat(close, f) == SetFormats("decode", Closing(close), f)
SetBitstreamFormat(close, f) == SetFormats("bitstream", Closing(close), f)

\* Faulty variant: MLP is added without a look at the list.
SetSelectAdds(d) ==
    /\ SelectPort(Port(d))
    /\ \/ d = 0 /\ UNCHANGED <<device, formats>>
       \/ d = 1 /\ SetBitstreamDevice("hdmi") /\ SetBitstreamFormat(0, "MLP")
       \/ d = 2 /\ SetBitstreamDevice("spdif") /\ UNCHANGED formats
    /\ UNCHANGED mode

\* setSelect: HDMI comes with MLP, which S/PDIF cannot carry.
SetSelect(d) ==
    /\ SelectPort(Port(d))
    /\ \/ d = 0 /\ UNCHANGED <<device, formats>>
       \/ /\ d = 1 /\ SetBitstreamDevice("hdmi")
          /\ IF GetFormat(d, "MLP") = 0 THEN SetBitstreamFormat(0, "MLP")
             ELSE UNCHANGED formats
       \/ /\ d = 2 /\ SetBitstreamDevice("spdif")
          /\ IF GetFormat(d, "MLP") = 1 THEN SetBitstreamFormat(1, "MLP")
             ELSE UNCHANGED formats
    /\ UNCHANGED mode

\* setFormat: what is listed already is added once more, up to the bound.
SetFormat(d, close, f) ==
    /\ close = 0 => formats[Port(d)][f] < MaxListed[Port(d)][f]
    /\ \/ d = 0 /\ SetDecodeFormat(close, f)
       \/ d # 0 /\ SetBitstreamFormat(close, f)
    /\ UNCHANGED <<selected, device, mode>>

\* setModeValue: the text of the port's mode is replaced.
SetModeValue(port, m) == mode' = [mode EXCEPT ![port] = m]

\* setAudioSettingDecodeMode and setAudioSettingBitStreamMode.
SetDecodeMode(m) == SetModeValue("decode", m)
SetBitStreamMode(m) == SetModeValue("bitstream", m)

\* setMode: S/PDIF has none of its own.
SetMode(d, m) ==
    /\ \/ d = 0 /\ SetDecodeMode(m)
       \/ d = 1 /\ SetBitStreamMode(m)
       \/ d = 2 /\ UNCHANGED mode
    /\ UNCHANGED <<selected, device, formats>>

\* The bitstream list after the loop of updataFormatForAutoMode over a table
\* that has each format once: each is added or removed if getFormat says so.
Updated(list, edid) ==
    [f \in Formats |->
        IF f \notin Table THEN list[f]
        ELSE IF Level[f] \in edid THEN (IF list[f] = 0 THEN 1 ELSE list[f])
        ELSE Removed(list, f)[f]]

\* Faulty variant: the formats the sink does not have stay.
UpdataOnlyAdds(edid) ==
    /\ formats' = [formats EXCEPT !["bitstream"] =
          [f \in Formats |-> IF f \in Table /\ Level[f] \in edid /\ @[f] = 0
                             THEN 1 ELSE @[f]]]
    /\ UNCHANGED <<selected, device, mode>>

\* updataFormatForEdid, with the formats parse_hdmi_audio has found: none when
\* no read succeeds, which is no error to it.  (With no EDID node at all the
\* document is left alone.)  The mode is not looked at: what the comment says
\* of "auto" mode happens in manual mode too.
UpdataFormatForEdid(edid) ==
    /\ formats' = [formats EXCEPT !["bitstream"] = Updated(@, edid)]
    /\ UNCHANGED <<selected, device, mode>>

Next ==
    \/ \E d \in 0 .. 2 : SetSelect(d)
    \/ \E d \in 0 .. 2, close \in {0, 1}, f \in Formats : SetFormat(d, close, f)
    \/ \E d \in 0 .. 2, m \in {0, 1} : SetMode(d, m)
    \/ \E edid \in SUBSET Levels : UpdataFormatForEdid(edid)

Spec == Init /\ [][Next]_vars
---------------------------------------------------------------------------
\* After setSelect(d) getSelect says yes for d and for no other device: the
\* select attributes of both ports and the device node agree on it.
SelectionTakes ==
    [][\A d \in 0 .. 2 :
         SetSelect(d) => \A e \in 0 .. 2 : GetSelect(e)' = 1 <=> e = d]_vars

\* Only setFormat, asked to, lists a format once more that is listed already:
\* setSelect and the hot plug look before they add.  A format listed twice
\* survives its removal, which takes the first node.
ListedTwiceOnlyByRequest ==
    [][\A p \in Ports, f \in Formats :
         formats[p][f] > 0 /\ formats'[p][f] > formats[p][f] =>
            \E d \in 0 .. 2 : Port(d) = p /\ SetFormat(d, 0, f)]_vars

Listed(list) == {f \in Formats : list[f] > 0}

\* In auto mode (RkAudioSettingManager.cpp:490-493) an update makes the
\* bitstream port list, of the formats of the table, just those the sink
\* decodes, and the others as before: also of TRUEHD and MLP, which are one
\* format to the EDID.  It is so for every format that was not listed twice; of
\* one that was, a node stays.  What is selected and the modes are as before.
FollowsEdid ==
    [][\A edid \in SUBSET Levels :
         BitStreamMode = 0 /\ UpdataFormatForEdid(edid) =>
            /\ \A f \in Formats :
                  formats["bitstream"][f] <= 1 =>
                     (f \in Listed(formats'["bitstream"]) <=>
                         IF f \in Table THEN Level[f] \in edid
                         ELSE f \in Listed(formats["bitstream"]))
            /\ \A d \in 0 .. 2 : GetSelect(d)' = GetSelect(d) /\ GetMode(d)' = GetMode(d)]_vars
===========================================================================
