------------------------ MODULE AudioSetting_proofs ------------------------
(***************************************************************************)
(* Proofs about the audio settings.                                        *)
(*                                                                         *)
(* The document, for every set of formats, every table and any number of   *)
(* requests that list a format again: who can list it twice, and what an   *)
(* update makes of those that are not.  The EDID parser, for EDIDs of any  *)
(* length: its loops are followed block by block, and the formats it finds *)
(* are the input of the document's update.  The file, for any number of    *)
(* processes, saves and kills, and for one process what a killed save      *)
(* leaves behind.                                                          *)
(***************************************************************************)
EXTENDS HdmiAudio, AudioConfigFile, WellFoundedInduction, TLAPS

\* Removing from a list of counts gives a list of counts that is nowhere more.
LEMMA RemovedCounts ==
    ASSUME NEW list \in [Formats -> Nat], NEW f \in Formats
    PROVE  /\ Removed(list, f) \in [Formats -> Nat]
           /\ \A g \in Formats : Removed(list, f)[g] <= list[g]
BY DEF Removed

\* Adding to a list of counts changes the count of what is added only.
LEMMA AddedCounts ==
    ASSUME NEW list \in [Formats -> Nat], NEW f \in Formats
    PROVE  /\ Added(list, f) \in [Formats -> Nat]
           /\ \A g \in Formats : g # f => Added(list, f)[g] = list[g]
BY DEF Added

\* An update lists nothing more often that was listed before.
LEMMA UpdatedCounts ==
    ASSUME NEW list \in [Formats -> Nat], NEW edid
    PROVE  /\ Updated(list, edid) \in [Formats -> Nat]
           /\ \A g \in Formats : list[g] > 0 => Updated(list, edid)[g] <= list[g]
<1>1. \A f \in Formats : Removed(list, f)[f] \in Nat /\ Removed(list, f)[f] <= list[f]
  BY RemovedCounts
<1>2. \A f \in Formats :
         /\ Updated(list, edid)[f] \in Nat
         /\ list[f] > 0 => Updated(list, edid)[f] <= list[f]
  BY <1>1 DEF Updated
<1>3. Updated(list, edid) = [f \in Formats |-> Updated(list, edid)[f]]
  BY DEF Updated
<1> QED
  BY <1>2, <1>3

LEMMA InitTypes == Init => TypeOK
<1> SUFFICES ASSUME Init PROVE TypeOK
  OBVIOUS
<1>1. selected \in [Ports -> BOOLEAN]
  BY DEF Init
<1>2. formats \in [Ports -> [Formats -> Nat]]
  BY DEF Init
<1> QED
  BY <1>1, <1>2 DEF Init, TypeOK

LEMMA PortIsPort == \A d : Port(d) \in Ports
BY DEF Port, Ports

LEMMA Listable == "bitstream" \in Ports /\ "decode" \in Ports /\ "MLP" \in Formats
BY TableAssumption DEF Ports

\* A step of setSelect changes one list, if at all, and lists nothing twice.
LEMMA SelectLists ==
    ASSUME TypeOK, NEW d \in 0 .. 2, SetSelect(d)
    PROVE  /\ formats' \in [Ports -> [Formats -> Nat]]
           /\ \A p \in Ports, f \in Formats :
                 formats[p][f] > 0 => formats'[p][f] <= formats[p][f]
<1> DEFINE list == formats["bitstream"]
<1>1. list \in [Formats -> Nat] /\ list["MLP"] \in Nat /\ "MLP" \in Formats
  BY Listable DEF TypeOK
<1>2. CASE d = 1 /\ GetFormat(d, "MLP") = 0
  <2>1. list["MLP"] = 0
    BY <1>1, <1>2 DEF GetFormat, BitstreamFormat
  <2>2. formats' = [formats EXCEPT !["bitstream"] = Added(list, "MLP")]
    BY <1>2 DEF SetSelect, SetBitstreamFormat, SetFormats, Closing
  <2> HIDE DEF list
  <2>3. /\ Added(list, "MLP") \in [Formats -> Nat]
        /\ \A g \in Formats : list[g] > 0 => Added(list, "MLP")[g] = list[g]
    BY <1>1, <2>1, AddedCounts
  <2> QED
    BY <1>1, <2>2, <2>3, Listable DEF TypeOK, list
<1>3. CASE d = 2 /\ GetFormat(d, "MLP") = 1
  <2>1. formats' = [formats EXCEPT !["bitstream"] = Removed(list, "MLP")]
    BY <1>3 DEF SetSelect, SetBitstreamFormat, SetFormats, Closing
  <2> HIDE DEF list
  <2>2. /\ Removed(list, "MLP") \in [Formats -> Nat]
        /\ \A g \in Formats : Removed(list, "MLP")[g] <= list[g]
    BY <1>1, RemovedCounts
  <2> QED
    BY <1>1, <2>1, <2>2, Listable DEF TypeOK, list
<1>4. CASE ~(d = 1 /\ GetFormat(d, "MLP") = 0) /\ ~(d = 2 /\ GetFormat(d, "MLP") = 1)
  <2>1. UNCHANGED formats
    BY <1>4 DEF SetSelect
  <2> QED
    BY <2>1 DEF TypeOK
<1> QED
  BY <1>2, <1>3, <1>4

\* A step of setFormat changes the list of the device's port; removing lists
\* nothing more often.
LEMMA FormatLists ==
    ASSUME TypeOK, NEW d \in 0 .. 2, NEW close \in {0, 1}, NEW f \in Formats,
           SetFormat(d, close, f)
    PROVE  /\ formats' \in [Ports -> [Formats -> Nat]]
           /\ \A p \in Ports, g \in Formats :
                 \/ formats'[p][g] <= formats[p][g]
                 \/ close = 0 /\ p = Port(d) /\ g = f
<1> DEFINE p == Port(d)
           list == formats[p]
<1>1. p \in Ports /\ list \in [Formats -> Nat]
  BY PortIsPort DEF TypeOK
<1>2. CASE close = 0
  <2>1. formats' = [formats EXCEPT ![p] = Added(list, f)]
    BY <1>2 DEF SetFormat, SetDecodeFormat, SetBitstreamFormat, SetFormats, Closing, Port
  <2> HIDE DEF list, p
  <2>2. /\ Added(list, f) \in [Formats -> Nat]
        /\ \A g \in Formats : g # f => Added(list, f)[g] = list[g]
    BY <1>1, AddedCounts
  <2>3. formats' \in [Ports -> [Formats -> Nat]]
    BY <1>1, <2>1, <2>2 DEF TypeOK
  <2>4. ASSUME NEW q \in Ports, NEW g \in Formats, ~(q = p /\ g = f)
        PROVE  formats'[q][g] <= formats[q][g]
    <3>1. formats[q][g] \in Nat /\ formats'[q][g] = formats[q][g]
      BY <1>1, <2>1, <2>2, <2>4 DEF TypeOK, list
    <3> QED
      BY <3>1
  <2> QED
    BY <1>2, <2>3, <2>4 DEF p
<1>3. CASE close # 0
  <2>1. formats' = [formats EXCEPT ![p] = Removed(list, f)]
    BY <1>3 DEF SetFormat, SetDecodeFormat, SetBitstreamFormat, SetFormats, Closing, Port
  <2> HIDE DEF list, p
  <2>2. /\ Removed(list, f) \in [Formats -> Nat]
        /\ \A g \in Formats : Removed(list, f)[g] <= list[g]
    BY <1>1, RemovedCounts
  <2> QED
    BY <1>1, <2>1, <2>2 DEF TypeOK, list
<1> QED
  BY <1>2, <1>3

\* An update changes the bitstream port's list.
LEMMA UpdateLists ==
    ASSUME TypeOK, NEW edid \in SUBSET Levels, UpdataFormatForEdid(edid)
    PROVE  /\ formats' \in [Ports -> [Formats -> Nat]]
           /\ \A p \in Ports, f \in Formats :
                 formats[p][f] > 0 => formats'[p][f] <= formats[p][f]
<1> DEFINE list == formats["bitstream"]
<1>1. list \in [Formats -> Nat]
  BY Listable DEF TypeOK
<1>2. formats' = [formats EXCEPT !["bitstream"] = Updated(list, edid)]
  BY DEF UpdataFormatForEdid
<1> HIDE DEF list
<1>3. /\ Updated(list, edid) \in [Formats -> Nat]
      /\ \A g \in Formats : list[g] > 0 => Updated(list, edid)[g] <= list[g]
  BY <1>1, UpdatedCounts
<1> QED
  BY <1>1, <1>2, <1>3, Listable DEF TypeOK, list

LEMMA NextTypes == TypeOK /\ [Next]_vars => TypeOK'
<1> SUFFICES ASSUME TypeOK, [Next]_vars PROVE TypeOK'
  OBVIOUS
<1>1. ASSUME NEW d \in 0 .. 2, SetSelect(d) PROVE TypeOK'
  <2>1. selected' \in [Ports -> BOOLEAN]
    BY <1>1 DEF SetSelect, SelectPort, SetSelectValue
  <2>2. device' \in {"hdmi", "spdif"} /\ mode' \in [Ports -> {0, 1}]
    BY <1>1 DEF SetSelect, SetBitstreamDevice, TypeOK
  <2> QED
    BY <1>1, <2>1, <2>2, SelectLists DEF TypeOK
<1>2. ASSUME NEW d \in 0 .. 2, NEW close \in {0, 1}, NEW f \in Formats,
             SetFormat(d, close, f)
      PROVE  TypeOK'
  <2>1. formats' \in [Ports -> [Formats -> Nat]]
    BY <1>2, FormatLists
  <2> QED
    BY <1>2, <2>1 DEF SetFormat, TypeOK
<1>3. ASSUME NEW d \in 0 .. 2, NEW m \in {0, 1}, SetMode(d, m) PROVE TypeOK'
  <2>1. mode' \in [Ports -> {0, 1}]
    BY <1>3 DEF SetMode, SetDecodeMode, SetBitStreamMode, SetModeValue, TypeOK
  <2> QED
    BY <1>3, <2>1 DEF SetMode, TypeOK
<1>4. ASSUME NEW edid \in SUBSET Levels, UpdataFormatForEdid(edid) PROVE TypeOK'
  BY <1>4, UpdateLists DEF UpdataFormatForEdid, TypeOK
<1>5. CASE UNCHANGED vars
  BY <1>5 DEF vars, TypeOK
<1> QED
  BY <1>1, <1>2, <1>3, <1>4, <1>5 DEF Next

\* The document has the types of its parts in every behaviour.
THEOREM TypeCorrect == Spec => []TypeOK
  BY InitTypes, NextTypes, PTL DEF Spec

\* Whatever formats, table and sinks there are, only a request to add it lists
\* a format once more that is listed.
THEOREM ListedTwiceWhenAsked == Spec => ListedTwiceOnlyByRequest
<1>1. ASSUME TypeOK, Next, NEW p \in Ports, NEW f \in Formats,
             formats[p][f] > 0, formats'[p][f] > formats[p][f]
      PROVE  \E d \in 0 .. 2 : Port(d) = p /\ SetFormat(d, 0, f)
  <2>1. formats[p][f] \in Nat /\ formats'[p][f] \in Nat
    <3>1. formats' \in [Ports -> [Formats -> Nat]]
      BY <1>1, NextTypes DEF TypeOK
    <3> QED
      BY <1>1, <3>1 DEF TypeOK
  <2>2. ~(formats'[p][f] <= formats[p][f])
    BY <1>1, <2>1
  <2>3. \A d \in 0 .. 2 : ~SetSelect(d)
    BY <1>1, <2>2, SelectLists
  <2>4. \A edid \in SUBSET Levels : ~UpdataFormatForEdid(edid)
    BY <1>1, <2>2, UpdateLists
  <2>5. \A d \in 0 .. 2, m \in {0, 1} : ~SetMode(d, m)
    BY <2>1, <2>2 DEF SetMode
  <2>6. PICK d \in 0 .. 2, close \in {0, 1}, g \in Formats : SetFormat(d, close, g)
    BY <1>1, <2>3, <2>4, <2>5 DEF Next
  <2>7. close = 0 /\ p = Port(d) /\ f = g
    BY <1>1, <2>2, <2>6, FormatLists
  <2> QED
    BY <2>6, <2>7
<1>2. TypeOK /\ [Next]_vars =>
         [\A p \in Ports, f \in Formats :
            formats[p][f] > 0 /\ formats'[p][f] > formats[p][f] =>
               \E d \in 0 .. 2 : Port(d) = p /\ SetFormat(d, 0, f)]_vars
  BY <1>1
<1> QED
  BY <1>2, InitTypes, NextTypes, PTL DEF Spec, ListedTwiceOnlyByRequest

\* setSelect(d) makes d the one device getSelect says yes for.
LEMMA SelectedAfterwards ==
    ASSUME NEW d \in 0 .. 2, SetSelect(d)
    PROVE  \A e \in 0 .. 2 : GetSelect(e)' = 1 <=> e = d
<1>1. selected' = [p \in Ports |-> p = Port(d)]
  BY DEF SetSelect, SelectPort, SetSelectValue
<1>2. (d = 1 => device' = "hdmi") /\ (d = 2 => device' = "spdif")
  BY DEF SetSelect, SetBitstreamDevice
<1>3. d = 0 \/ d = 1 \/ d = 2
  OBVIOUS
<1>4. (selected'["decode"] <=> d = 0) /\ (selected'["bitstream"] <=> d # 0)
  BY <1>1, <1>3 DEF Port, Ports
<1>5. ASSUME NEW e \in 0 .. 2 PROVE GetSelect(e)' = 1 <=> e = d
  <2>1. CASE e = 0
    BY <2>1, <1>4 DEF GetSelect, AudioSettingSelect, SelectValue, BitstreamDevice, Port
  <2>2. CASE e = 1
    BY <2>2, <1>2, <1>3, <1>4 DEF GetSelect, AudioSettingSelect, SelectValue, BitstreamDevice, Port
  <2>3. CASE e = 2
    BY <2>3, <1>2, <1>3, <1>4 DEF GetSelect, AudioSettingSelect, SelectValue, BitstreamDevice, Port
  <2> QED
    BY <2>1, <2>2, <2>3
<1> QED
  BY <1>5

\* So does every step of setSelect in every behaviour.
THEOREM SelectionIsTaken == Spec => SelectionTakes
<1>1. [Next]_vars =>
         [\A d \in 0 .. 2 :
            SetSelect(d) => \A e \in 0 .. 2 : GetSelect(e)' = 1 <=> e = d]_vars
  BY SelectedAfterwards
<1> QED
  BY <1>1, PTL DEF Spec, SelectionTakes

\* An update leaves, of what was listed once at most, what the sink decodes.
LEMMA UpdatedList ==
    ASSUME TypeOK, NEW edid \in SUBSET Levels, UpdataFormatForEdid(edid),
           NEW f \in Formats, formats["bitstream"][f] <= 1
    PROVE  f \in Listed(formats'["bitstream"]) <=>
              IF f \in Table THEN Level[f] \in edid
              ELSE f \in Listed(formats["bitstream"])
<1> DEFINE list == formats["bitstream"]
<1>1. list \in [Formats -> Nat] /\ list[f] \in Nat /\ list[f] <= 1
  BY DEF TypeOK, Ports
<1>2. formats'["bitstream"] = Updated(list, edid)
  BY DEF TypeOK, Ports, UpdataFormatForEdid
<1> HIDE DEF list
<1>3. Updated(list, edid)[f] > 0 <=>
         IF f \in Table THEN Level[f] \in edid ELSE list[f] > 0
  <2>1. Removed(list, f)[f] = 0
    BY <1>1 DEF Removed
  <2> QED
    BY <1>1, <2>1 DEF Updated
<1> QED
  BY <1>2, <1>3 DEF list, Listed

\* Each update in auto mode makes the bitstream list the sink's, on the table's
\* formats that were not listed twice.
THEOREM EdidIsFollowed == Spec => FollowsEdid
<1>1. TypeOK /\ [Next]_vars =>
         [\A edid \in SUBSET Levels :
            BitStreamMode = 0 /\ UpdataFormatForEdid(edid) =>
               \A f \in Formats :
                  formats["bitstream"][f] <= 1 =>
                     (f \in Listed(formats'["bitstream"]) <=>
                         IF f \in Table THEN Level[f] \in edid
                         ELSE f \in Listed(formats["bitstream"]))]_vars
  BY UpdatedList
<1>2. [Next]_vars =>
         [\A edid \in SUBSET Levels :
            BitStreamMode = 0 /\ UpdataFormatForEdid(edid) =>
               \A d \in 0 .. 2 : GetSelect(d)' = GetSelect(d) /\ GetMode(d)' = GetMode(d)]_vars
  BY DEF UpdataFormatForEdid, GetSelect, GetMode, DecodeMode, BitStreamMode,
         AudioSettingSelect, SelectValue, BitstreamDevice
<1>3. TypeOK /\ [Next]_vars =>
         [\A edid \in SUBSET Levels :
            BitStreamMode = 0 /\ UpdataFormatForEdid(edid) =>
               /\ \A f \in Formats :
                     formats["bitstream"][f] <= 1 =>
                        (f \in Listed(formats'["bitstream"]) <=>
                            IF f \in Table THEN Level[f] \in edid
                            ELSE f \in Listed(formats["bitstream"]))
               /\ \A d \in 0 .. 2 : GetSelect(d)' = GetSelect(d) /\ GetMode(d)' = GetMode(d)]_vars
  BY <1>1, <1>2
<1> QED
  BY <1>3, InitTypes, NextTypes, PTL DEF Spec, FollowsEdid

\* What the parser finds in an EDID is one of the inputs of AudioSetting.
LEMMA HdmiStep == HdmiNext => [Next]_vars
<1> SUFFICES ASSUME HdmiNext PROVE [Next]_vars
  OBVIOUS
<1>1. CASE Setting
  BY <1>1 DEF Setting, Next
<1>2. ASSUME NEW answered \in BOOLEAN, HotPlug(answered) PROVE Next
  <2> DEFINE infor == ParseHdmiAudio(sink, answered)
             found == {l \in Levels : IsSupportFormat(infor, l)}
  <2>1. UpdataFormatForEdid(found)
    BY <1>2 DEF HotPlug
  <2>2. found \in SUBSET Levels
    OBVIOUS
  <2> HIDE DEF found
  <2> QED
    BY <2>1, <2>2 DEF Next
<1>3. ASSUME NEW s \in Sinks, Connect(s) PROVE UNCHANGED vars
  BY <1>3 DEF Connect
<1> QED
  BY <1>1, <1>2, <1>3 DEF HdmiNext

\* With the parser in the place of any set of formats, the document still
\* behaves as AudioSetting says, so that its theorems hold for every sink.
THEOREM ParserFeedsSetting == HdmiSpec => Spec
<1>1. HdmiInit => Init
  BY DEF HdmiInit
<1>2. [HdmiNext]_hdmiVars => [Next]_vars
  BY HdmiStep DEF hdmiVars
<1> QED
  BY <1>1, <1>2, PTL DEF HdmiSpec, Spec

\* No hot plug, of whatever sink, lists a format once more that is listed.
THEOREM HotPlugLooksFirst == HdmiSpec => ListedTwiceOnlyByRequest
  BY ParserFeedsSetting, ListedTwiceWhenAsked, PTL
---------------------------------------------------------------------------
\* What the parser finds, for EDIDs of any length.  Its two loops are recursive
\* functions; that there are such functions, and what they have found after n
\* turns, follows by looking at the least n for which it were otherwise.
LEMMA LeastOf ==
    ASSUME NEW S \in SUBSET Nat, S # {}
    PROVE  \E m \in S : \A k \in S : m <= k
<1> DEFINE R == {ss \in Nat \X Nat : ss[1] < ss[2]}
<1>1. IsWellFoundedOn(R, Nat)
  BY NatLessThanWellFounded, Zenon DEF OpToRel
<1>2. PICK m \in S : \A k \in S : ~(<<k, m>> \in R)
  <2> HIDE DEF R
  <2>. QED
    BY <1>1, WFMin
<1>3. ASSUME NEW k \in S
      PROVE  m <= k
  <2>1. ~(k < m)
    BY <1>2
  <2>. QED
    BY <2>1
<1>. QED
  BY <1>3

\* The loops, as the definitions have them.
DataFound(infor, data) ==
    CHOOSE g : g = [n \in 0 .. Len(data) |->
                      IF n = 0 THEN infor ELSE ParseDataBlock(g[n - 1], data[n])]

BlocksFound(edid) ==
    CHOOSE g : g = [n \in 0 .. BlocksRead(edid) |->
                      IF n = 0 THEN InitHdmiAudio
                      ELSE ParseExtensions(g[n - 1], edid.blocks[n])]

LEMMA DataFoundIs ==
    ASSUME NEW infor, NEW data, Len(data) \in Nat
    PROVE  /\ ParseExtensionsCea(infor, data) = DataFound(infor, data)[Len(data)]
           /\ DataFound(infor, data)[0] = infor
           /\ \A n \in 1 .. Len(data) :
                 DataFound(infor, data)[n] = ParseDataBlock(DataFound(infor, data)[n - 1], data[n])
<1> DEFINE turn(g, m) == [n \in 0 .. m |-> IF n = 0 THEN infor ELSE ParseDataBlock(g[n - 1], data[n])]
           bad == {m \in Nat : ~\E g : g = turn(g, m)}
<1>1. bad = {}
  <2> SUFFICES ASSUME bad # {}
               PROVE  FALSE
    OBVIOUS
  <2>1. PICK m \in bad : \A k \in bad : m <= k
    BY LeastOf
  <2>2. m \in Nat /\ ~\E g : g = turn(g, m)
    OBVIOUS
  <2>3. CASE m = 0
    <3> DEFINE h == [n \in 0 .. 0 |-> infor]
    <3>1. h = turn(h, 0)
      OBVIOUS
    <3>. QED
      BY <2>2, <2>3, <3>1
  <2>4. CASE m # 0
    <3>1. m - 1 \in Nat /\ m - 1 \notin bad
      BY <2>1, <2>2, <2>4
    <3>2. PICK g : g = turn(g, m - 1)
      BY <3>1
    <3> DEFINE h == turn(g, m)
    <3>3. ASSUME NEW n \in 1 .. m
          PROVE  h[n - 1] = g[n - 1]
      <4>1. n - 1 \in 0 .. m - 1 /\ n - 1 \in 0 .. m
        BY <2>2
      <4>2. g[n - 1] = turn(g, m - 1)[n - 1]
        BY <3>2
      <4>. QED
        BY <4>1, <4>2
    <3>4. h = turn(h, m)
      <4>1. ASSUME NEW n \in 0 .. m
            PROVE  h[n] = turn(h, m)[n]
        <5>1. CASE n = 0
          BY <2>2, <5>1
        <5>2. CASE n # 0
          <6>1. n \in 1 .. m
            BY <2>2, <5>2
          <6>2. h[n] = ParseDataBlock(g[n - 1], data[n])
            BY <5>2
          <6>3. turn(h, m)[n] = ParseDataBlock(h[n - 1], data[n])
            BY <5>2
          <6>. QED
            BY <3>3, <6>1, <6>2, <6>3
        <5>. QED
          BY <5>1, <5>2
      <4>. QED
        BY <4>1
    <3>. QED
      BY <2>2, <3>4
  <2>. QED
    BY <2>3, <2>4
<1>2. DataFound(infor, data) = turn(DataFound(infor, data), Len(data))
  <2>1. \E g : g = turn(g, Len(data))
    BY <1>1
  <2>. QED
    BY <2>1, Zenon DEF DataFound
<1>3. ParseExtensionsCea(infor, data) = DataFound(infor, data)[Len(data)]
  BY DEF ParseExtensionsCea, DataFound
<1>4. /\ DataFound(infor, data)[0] = turn(DataFound(infor, data), Len(data))[0]
      /\ \A n \in 1 .. Len(data) :
            DataFound(infor, data)[n] = turn(DataFound(infor, data), Len(data))[n]
  BY <1>2, Zenon
<1>5. \A g : /\ turn(g, Len(data))[0] = infor
             /\ \A n \in 1 .. Len(data) : turn(g, Len(data))[n] = ParseDataBlock(g[n - 1], data[n])
  OBVIOUS
<1> HIDE DEF turn
<1>. QED
  BY <1>3, <1>4, <1>5

LEMMA BlocksFoundIs ==
    ASSUME NEW edid, BlocksRead(edid) \in Nat
    PROVE  /\ ParseHdmiAudio(edid, TRUE) = BlocksFound(edid)[BlocksRead(edid)]
           /\ BlocksFound(edid)[0] = InitHdmiAudio
           /\ \A n \in 1 .. BlocksRead(edid) :
                 BlocksFound(edid)[n] = ParseExtensions(BlocksFound(edid)[n - 1], edid.blocks[n])
<1> DEFINE turn(g, m) == [n \in 0 .. m |-> IF n = 0 THEN InitHdmiAudio
                                           ELSE ParseExtensions(g[n - 1], edid.blocks[n])]
           bad == {m \in Nat : ~\E g : g = turn(g, m)}
<1>1. bad = {}
  <2> SUFFICES ASSUME bad # {}
               PROVE  FALSE
    OBVIOUS
  <2>1. PICK m \in bad : \A k \in bad : m <= k
    BY LeastOf
  <2>2. m \in Nat /\ ~\E g : g = turn(g, m)
    OBVIOUS
  <2>3. CASE m = 0
    <3> DEFINE h == [n \in 0 .. 0 |-> InitHdmiAudio]
    <3>1. h = turn(h, 0)
      OBVIOUS
    <3>. QED
      BY <2>2, <2>3, <3>1
  <2>4. CASE m # 0
    <3>1. m - 1 \in Nat /\ m - 1 \notin bad
      BY <2>1, <2>2, <2>4
    <3>2. PICK g : g = turn(g, m - 1)
      BY <3>1
    <3> DEFINE h == turn(g, m)
    <3>3. ASSUME NEW n \in 1 .. m
          PROVE  h[n - 1] = g[n - 1]
      <4>1. n - 1 \in 0 .. m - 1 /\ n - 1 \in 0 .. m
        BY <2>2
      <4>2. g[n - 1] = turn(g, m - 1)[n - 1]
        BY <3>2
      <4>. QED
        BY <4>1, <4>2
    <3>4. h = turn(h, m)
      <4>1. ASSUME NEW n \in 0 .. m
            PROVE  h[n] = turn(h, m)[n]
        <5>1. CASE n = 0
          BY <2>2, <5>1
        <5>2. CASE n # 0
          <6>1. n \in 1 .. m
            BY <2>2, <5>2
          <6>2. h[n] = ParseExtensions(g[n - 1], edid.blocks[n])
            BY <5>2
          <6>3. turn(h, m)[n] = ParseExtensions(h[n - 1], edid.blocks[n])
            BY <5>2
          <6>. QED
            BY <3>3, <6>1, <6>2, <6>3
        <5>. QED
          BY <5>1, <5>2
      <4>. QED
        BY <4>1
    <3>. QED
      BY <2>2, <3>4
  <2>. QED
    BY <2>3, <2>4
<1>2. BlocksFound(edid) = turn(BlocksFound(edid), BlocksRead(edid))
  <2>1. \E g : g = turn(g, BlocksRead(edid))
    BY <1>1
  <2>. QED
    BY <2>1, Zenon DEF BlocksFound
<1>3. ParseHdmiAudio(edid, TRUE) = BlocksFound(edid)[BlocksRead(edid)]
  BY DEF ParseHdmiAudio, BlocksFound
<1>4. /\ BlocksFound(edid)[0] = turn(BlocksFound(edid), BlocksRead(edid))[0]
      /\ \A n \in 1 .. BlocksRead(edid) :
            BlocksFound(edid)[n] = turn(BlocksFound(edid), BlocksRead(edid))[n]
  BY <1>2, Zenon
<1>5. \A g : /\ turn(g, BlocksRead(edid))[0] = InitHdmiAudio
             /\ \A n \in 1 .. BlocksRead(edid) : turn(g, BlocksRead(edid))[n] = ParseExtensions(g[n - 1], edid.blocks[n])
  OBVIOUS
<1> HIDE DEF turn
<1>. QED
  BY <1>3, <1>4, <1>5

\* What the first n data blocks of an extension hold.
AudioIn(data, n) == {j \in 1 .. n : data[j].tag = "audio" /\ data[j].types # <<>>}
SpeakersIn(data, n) == {j \in 1 .. n : data[j].tag = "speakers"}

IsInfor(found) == found = [audio |-> found.audio, layout |-> found.layout,
                           allocated |-> found.allocated]

\* One audio block, or one of speakers, is found; with none nothing changes.
FoundIn(found, infor, data, n) ==
    /\ IsInfor(found)
    /\ AudioIn(data, n) = {} =>
          found.audio = infor.audio /\ found.allocated = infor.allocated
    /\ \A j : AudioIn(data, n) = {j} =>
          found.audio = data[j].types /\ found.allocated = infor.allocated + 1
    /\ SpeakersIn(data, n) = {} => found.layout = infor.layout
    /\ \A j : SpeakersIn(data, n) = {j} => found.layout = data[j].types

LEMMA DataBlockStep ==
    ASSUME NEW infor, NEW data, NEW found, NEW n \in Nat \ {0},
           FoundIn(found, infor, data, n - 1)
    PROVE  FoundIn(ParseDataBlock(found, data[n]), infor, data, n)
<1> DEFINE d == data[n]
           next == ParseDataBlock(found, d)
<1>1. /\ AudioIn(data, n) = IF d.tag = "audio" /\ d.types # <<>>
                            THEN AudioIn(data, n - 1) \cup {n} ELSE AudioIn(data, n - 1)
      /\ SpeakersIn(data, n) = IF d.tag = "speakers"
                               THEN SpeakersIn(data, n - 1) \cup {n} ELSE SpeakersIn(data, n - 1)
      /\ n \notin AudioIn(data, n - 1) /\ n \notin SpeakersIn(data, n - 1)
  BY DEF AudioIn, SpeakersIn
<1>2. CASE d.tag = "audio" /\ d.types # <<>>
  <2>1. /\ IsInfor(next) /\ next.audio = d.types /\ next.layout = found.layout
        /\ next.allocated = found.allocated + 1
    BY <1>2 DEF ParseDataBlock, ParseCeaAudio, FoundIn, IsInfor
  <2>2. \A j : AudioIn(data, n) = {j} => j = n /\ AudioIn(data, n - 1) = {}
    BY <1>1, <1>2
  <2>3. AudioIn(data, n) # {} /\ SpeakersIn(data, n) = SpeakersIn(data, n - 1)
    BY <1>1, <1>2
  <2>. QED
    BY <2>1, <2>2, <2>3 DEF FoundIn
<1>3. CASE d.tag = "speakers"
  <2>1. /\ IsInfor(next) /\ next.audio = found.audio /\ next.layout = d.types
        /\ next.allocated = found.allocated
    BY <1>3 DEF ParseDataBlock, ParseSpeakerAllocation, FoundIn, IsInfor
  <2>2. \A j : SpeakersIn(data, n) = {j} => j = n
    BY <1>1, <1>3
  <2>3. SpeakersIn(data, n) # {} /\ AudioIn(data, n) = AudioIn(data, n - 1)
    BY <1>1, <1>3
  <2>. QED
    BY <2>1, <2>2, <2>3 DEF FoundIn
<1>4. CASE d.tag # "speakers" /\ ~(d.tag = "audio" /\ d.types # <<>>)
  <2>1. next = found
    BY <1>4 DEF ParseDataBlock, ParseCeaAudio
  <2>2. AudioIn(data, n) = AudioIn(data, n - 1) /\ SpeakersIn(data, n) = SpeakersIn(data, n - 1)
    BY <1>1, <1>4
  <2>. QED
    BY <2>1, <2>2 DEF FoundIn
<1>. QED
  BY <1>2, <1>3, <1>4

LEMMA ExtensionFinds ==
    ASSUME NEW infor, NEW data, Len(data) \in Nat, IsInfor(infor)
    PROVE  FoundIn(ParseExtensionsCea(infor, data), infor, data, Len(data))
<1> DEFINE found == DataFound(infor, data)
           bad == {n \in 0 .. Len(data) : ~FoundIn(found[n], infor, data, n)}
<1>1. /\ found[0] = infor /\ ParseExtensionsCea(infor, data) = found[Len(data)]
      /\ \A n \in 1 .. Len(data) : found[n] = ParseDataBlock(found[n - 1], data[n])
  BY DataFoundIs
<1> HIDE DEF found
<1>2. 0 \notin bad
  <2>1. AudioIn(data, 0) = {} /\ SpeakersIn(data, 0) = {}
    BY DEF AudioIn, SpeakersIn
  <2>. QED
    BY <1>1, <2>1 DEF FoundIn
<1>3. bad = {}
  <2> SUFFICES ASSUME bad # {}
               PROVE  FALSE
    OBVIOUS
  <2>1. PICK m \in bad : \A k \in bad : m <= k
    <3>1. bad \in SUBSET Nat
      OBVIOUS
    <3>. QED
      BY <3>1, LeastOf
  <2>2. m \in 1 .. Len(data) /\ m - 1 \notin bad /\ m - 1 \in 0 .. Len(data) /\ m \in Nat \ {0}
    BY <1>2, <2>1
  <2>3. FoundIn(found[m - 1], infor, data, m - 1)
    BY <2>2
  <2>4. FoundIn(found[m], infor, data, m)
    BY <1>1, <2>2, <2>3, DataBlockStep
  <2>. QED
    BY <2>4
<1>. QED
  BY <1>1, <1>3

\* The same for extension blocks: what the first n of an EDID hold.
Good(b) == b.checksum /\ b.tag = "CEA" /\ b.version = 3

AllAudio(edid, n) ==
    {ij \in (1 .. n) \X Nat : /\ Good(edid.blocks[ij[1]])
                              /\ ij[2] \in AudioIn(edid.blocks[ij[1]].data, Len(edid.blocks[ij[1]].data))}
AllSpeakers(edid, n) ==
    {ij \in (1 .. n) \X Nat : /\ Good(edid.blocks[ij[1]])
                              /\ ij[2] \in SpeakersIn(edid.blocks[ij[1]].data, Len(edid.blocks[ij[1]].data))}

FoundUpTo(found, edid, n) ==
    /\ IsInfor(found)
    /\ AllAudio(edid, n) = {} => found.audio = <<>> /\ found.allocated = 0
    /\ \A i, j : AllAudio(edid, n) = {<<i, j>>} =>
          found.audio = edid.blocks[i].data[j].types /\ found.allocated = 1
    /\ AllSpeakers(edid, n) = {} => found.layout = NoLayout
    /\ \A i, j : AllSpeakers(edid, n) = {<<i, j>>} =>
          found.layout = edid.blocks[i].data[j].types

LEMMA BlockStep ==
    ASSUME NEW edid, NEW found, NEW n \in Nat \ {0}, Len(edid.blocks[n].data) \in Nat,
           FoundUpTo(found, edid, n - 1)
    PROVE  FoundUpTo(ParseExtensions(found, edid.blocks[n]), edid, n)
<1> DEFINE b == edid.blocks[n]
           l == Len(b.data)
           next == ParseExtensions(found, b)
           audio == AudioIn(b.data, l)
           speakers == SpeakersIn(b.data, l)
<1>1. CASE ~Good(b)
  <2>1. next = found
    BY <1>1 DEF ParseExtensions, Good
  <2>2. AllAudio(edid, n) = AllAudio(edid, n - 1)
    BY <1>1 DEF AllAudio
  <2>3. AllSpeakers(edid, n) = AllSpeakers(edid, n - 1)
    BY <1>1 DEF AllSpeakers
  <2>. QED
    BY <2>1, <2>2, <2>3 DEF FoundUpTo
<1>2. CASE Good(b)
  <2>1. FoundIn(next, found, b.data, l)
    BY <1>2, ExtensionFinds DEF ParseExtensions, Good, FoundUpTo
  <2>2. audio \subseteq Nat /\ speakers \subseteq Nat
    BY DEF AudioIn, SpeakersIn
  <2>3. /\ \A j \in audio : <<n, j>> \in AllAudio(edid, n)
        /\ AllAudio(edid, n - 1) \subseteq AllAudio(edid, n)
        /\ \A j \in Nat : <<n, j>> \notin AllAudio(edid, n - 1)
        /\ \A ij \in AllAudio(edid, n) : \/ ij \in AllAudio(edid, n - 1)
                                         \/ ij[2] \in audio /\ ij = <<n, ij[2]>>
    BY <1>2, <2>2 DEF AllAudio
  <2>4. /\ \A j \in speakers : <<n, j>> \in AllSpeakers(edid, n)
        /\ AllSpeakers(edid, n - 1) \subseteq AllSpeakers(edid, n)
        /\ \A j \in Nat : <<n, j>> \notin AllSpeakers(edid, n - 1)
        /\ \A ij \in AllSpeakers(edid, n) : \/ ij \in AllSpeakers(edid, n - 1)
                                            \/ ij[2] \in speakers /\ ij = <<n, ij[2]>>
    BY <1>2, <2>2 DEF AllSpeakers
  <2> HIDE DEF audio, speakers, next, b, l
  <2>5. AllAudio(edid, n) = {} => audio = {} /\ AllAudio(edid, n - 1) = {}
    BY <2>3
  <2>6. ASSUME NEW i, NEW j, AllAudio(edid, n) = {<<i, j>>}
        PROVE  \/ i = n /\ audio = {j} /\ AllAudio(edid, n - 1) = {}
               \/ audio = {} /\ AllAudio(edid, n - 1) = {<<i, j>>}
    <3>1. CASE audio = {}
      BY <2>3, <2>6, <3>1
    <3>2. CASE audio # {}
      <4>1. PICK k \in audio : TRUE
        BY <3>2
      <4>2. <<n, k>> = <<i, j>> /\ \A x \in audio : <<n, x>> = <<i, j>>
        BY <2>3, <2>6, <4>1
      <4>3. i = n /\ audio = {j}
        BY <4>1, <4>2
      <4>4. AllAudio(edid, n - 1) = {}
        BY <2>2, <2>3, <2>6, <4>3
      <4>. QED
        BY <4>3, <4>4
    <3>. QED
      BY <3>1, <3>2
  <2>7. AllSpeakers(edid, n) = {} => speakers = {} /\ AllSpeakers(edid, n - 1) = {}
    BY <2>4
  <2>8. ASSUME NEW i, NEW j, AllSpeakers(edid, n) = {<<i, j>>}
        PROVE  \/ i = n /\ speakers = {j}
               \/ speakers = {} /\ AllSpeakers(edid, n - 1) = {<<i, j>>}
    <3>1. CASE speakers = {}
      BY <2>4, <2>8, <3>1
    <3>2. CASE speakers # {}
      <4>1. PICK k \in speakers : TRUE
        BY <3>2
      <4>2. <<n, k>> = <<i, j>> /\ \A x \in speakers : <<n, x>> = <<i, j>>
        BY <2>4, <2>8, <4>1
      <4>. QED
        BY <4>1, <4>2
    <3>. QED
      BY <3>1, <3>2
  <2>9. /\ IsInfor(next)
        /\ audio = {} => next.audio = found.audio /\ next.allocated = found.allocated
        /\ \A j : audio = {j} => next.audio = b.data[j].types /\ next.allocated = found.allocated + 1
        /\ speakers = {} => next.layout = found.layout
        /\ \A j : speakers = {j} => next.layout = b.data[j].types
    BY <2>1 DEF FoundIn, audio, speakers
  <2>10. AllAudio(edid, n) = {} => next.audio = <<>> /\ next.allocated = 0
    BY <2>5, <2>9 DEF FoundUpTo
  <2>11. ASSUME NEW i, NEW j, AllAudio(edid, n) = {<<i, j>>}
         PROVE  next.audio = edid.blocks[i].data[j].types /\ next.allocated = 1
    <3>1. CASE i = n /\ audio = {j} /\ AllAudio(edid, n - 1) = {}
      <4>1. found.allocated = 0 /\ next.audio = b.data[j].types
            /\ next.allocated = found.allocated + 1
        BY <2>9, <3>1 DEF FoundUpTo
      <4>. QED
        BY <3>1, <4>1 DEF b
    <3>2. CASE audio = {} /\ AllAudio(edid, n - 1) = {<<i, j>>}
      BY <2>9, <3>2 DEF FoundUpTo
    <3>. QED
      BY <2>6, <2>11, <3>1, <3>2
  <2>12. AllSpeakers(edid, n) = {} => next.layout = NoLayout
    BY <2>7, <2>9 DEF FoundUpTo
  <2>13. ASSUME NEW i, NEW j, AllSpeakers(edid, n) = {<<i, j>>}
         PROVE  next.layout = edid.blocks[i].data[j].types
    <3>1. CASE i = n /\ speakers = {j}
      BY <2>9, <3>1 DEF b
    <3>2. CASE speakers = {} /\ AllSpeakers(edid, n - 1) = {<<i, j>>}
      BY <2>9, <3>2 DEF FoundUpTo
    <3>. QED
      BY <2>8, <2>13, <3>1, <3>2
  <2>. QED
    BY <2>9, <2>10, <2>11, <2>12, <2>13 DEF FoundUpTo, next, b
<1>. QED
  BY <1>1, <1>2

\* As many blocks are read as there are, or fewer.
LEMMA SinkReads ==
    ASSUME NEW edid \in Sinks
    PROVE  /\ BlocksRead(edid) \in Nat
           /\ \A i \in 1 .. BlocksRead(edid) :
                 /\ i \in DOMAIN edid.blocks
                 /\ Len(edid.blocks[i].data) \in Nat
                 /\ DOMAIN edid.blocks[i].data = 1 .. Len(edid.blocks[i].data)
<1> DEFINE counts == {edid.declared, HDMI_MAX_EDID_BLOCK - 1, Len(edid.blocks)}
<1>1. edid.declared \in Nat /\ IsSequence(edid.blocks)
  BY SinkAssumption
<1>2. Len(edid.blocks) \in Nat /\ DOMAIN edid.blocks = 1 .. Len(edid.blocks)
  BY <1>1 DEF IsSequence
<1>3. counts \in SUBSET Nat /\ counts # {}
  BY <1>1, <1>2 DEF HDMI_MAX_EDID_BLOCK
<1>4. \E m \in counts : \A k \in counts : m <= k
  BY <1>3, LeastOf
<1>5. BlocksRead(edid) \in counts /\ \A k \in counts : BlocksRead(edid) <= k
  BY <1>4 DEF BlocksRead, Min
<1>6. BlocksRead(edid) \in Nat /\ BlocksRead(edid) <= Len(edid.blocks)
  BY <1>3, <1>5
<1>7. ASSUME NEW i \in 1 .. BlocksRead(edid)
      PROVE  /\ i \in DOMAIN edid.blocks
             /\ Len(edid.blocks[i].data) \in Nat
             /\ DOMAIN edid.blocks[i].data = 1 .. Len(edid.blocks[i].data)
  <2>1. i \in DOMAIN edid.blocks
    BY <1>2, <1>6
  <2>2. IsSequence(edid.blocks[i].data)
    BY <2>1, SinkAssumption
  <2>. QED
    BY <2>1, <2>2 DEF IsSequence
<1>. QED
  BY <1>6, <1>7

LEMMA ParserFinds ==
    ASSUME NEW edid \in Sinks
    PROVE  FoundUpTo(ParseHdmiAudio(edid, TRUE), edid, BlocksRead(edid))
<1> DEFINE found == BlocksFound(edid)
           N == BlocksRead(edid)
           bad == {n \in 0 .. N : ~FoundUpTo(found[n], edid, n)}
<1>0. N \in Nat /\ \A i \in 1 .. N : Len(edid.blocks[i].data) \in Nat
  BY SinkReads
<1>1. /\ found[0] = InitHdmiAudio /\ ParseHdmiAudio(edid, TRUE) = found[N]
      /\ \A n \in 1 .. N : found[n] = ParseExtensions(found[n - 1], edid.blocks[n])
  BY <1>0, BlocksFoundIs
<1> HIDE DEF found, N
<1>2. 0 \notin bad
  <2>1. AllAudio(edid, 0) = {} /\ AllSpeakers(edid, 0) = {}
    BY DEF AllAudio, AllSpeakers
  <2>2. IsInfor(InitHdmiAudio)
    BY DEF IsInfor, InitHdmiAudio
  <2>3. /\ InitHdmiAudio.audio = <<>> /\ InitHdmiAudio.allocated = 0
        /\ InitHdmiAudio.layout = NoLayout
    BY DEF InitHdmiAudio
  <2>4. FoundUpTo(InitHdmiAudio, edid, 0)
    BY <2>1, <2>2, <2>3 DEF FoundUpTo
  <2>. QED
    BY <1>1, <2>4
<1>3. bad = {}
  <2> SUFFICES ASSUME bad # {}
               PROVE  FALSE
    OBVIOUS
  <2>1. PICK m \in bad : \A k \in bad : m <= k
    <3>1. bad \in SUBSET Nat
      OBVIOUS
    <3>. QED
      BY <3>1, LeastOf
  <2>2. m \in 1 .. N /\ m - 1 \notin bad /\ m - 1 \in 0 .. N /\ m \in Nat \ {0}
    BY <1>0, <1>2, <2>1
  <2>3. FoundUpTo(found[m - 1], edid, m - 1)
    BY <2>2
  <2>4. FoundUpTo(found[m], edid, m)
    BY <1>0, <1>1, <2>2, <2>3, BlockStep
  <2>. QED
    BY <2>4
<1>4. N \in 0 .. N
  BY <1>0
<1>. QED
  BY <1>1, <1>3, <1>4 DEF N

\* What is a data block of a sink.
LEMMA InDataBlocks ==
    ASSUME NEW edid, NEW tag, NEW ij
    PROVE  ij \in DataBlocks(edid, tag) <=>
              /\ \E i \in Whole(edid) : \E j \in DOMAIN edid.blocks[i].data : ij = <<i, j>>
              /\ edid.blocks[ij[1]].data[ij[2]].tag = tag
              /\ tag = "audio" => edid.blocks[ij[1]].data[ij[2]].types # <<>>
BY DEF DataBlocks

\* What is found is what a sink says, as far as it is read.
LEMMA SaidBlocks ==
    ASSUME NEW edid \in Sinks
    PROVE  /\ DataBlocks(edid, "audio") = AllAudio(edid, BlocksRead(edid))
           /\ DataBlocks(edid, "speakers") = AllSpeakers(edid, BlocksRead(edid))
<1> DEFINE N == BlocksRead(edid)
<1>1. \A i \in 1 .. N : DOMAIN edid.blocks[i].data = 1 .. Len(edid.blocks[i].data)
  BY SinkReads
<1>2. \A i : i \in Whole(edid) <=> i \in 1 .. N /\ Good(edid.blocks[i])
  BY DEF Whole, Good
<1>3. \A tag, ij : ij \in DataBlocks(edid, tag) <=>
         /\ \E i \in Whole(edid) : \E j \in DOMAIN edid.blocks[i].data : ij = <<i, j>>
         /\ edid.blocks[ij[1]].data[ij[2]].tag = tag
         /\ tag = "audio" => edid.blocks[ij[1]].data[ij[2]].types # <<>>
  BY InDataBlocks
<1>4. ASSUME NEW ij
      PROVE  ij \in DataBlocks(edid, "audio") <=> ij \in AllAudio(edid, N)
  <2>1. ASSUME ij \in DataBlocks(edid, "audio")
        PROVE  ij \in AllAudio(edid, N)
    <3>1. PICK i \in Whole(edid) : \E j \in DOMAIN edid.blocks[i].data : ij = <<i, j>>
      BY <1>3, <2>1
    <3>2. PICK j \in DOMAIN edid.blocks[i].data : ij = <<i, j>>
      BY <3>1
    <3>3. i \in 1 .. N /\ Good(edid.blocks[i]) /\ j \in 1 .. Len(edid.blocks[i].data)
      BY <1>1, <1>2, <3>2
    <3>4. edid.blocks[i].data[j].tag = "audio" /\ edid.blocks[i].data[j].types # <<>>
      BY <1>3, <2>1, <3>2
    <3> HIDE DEF N
    <3>. QED
      BY <3>2, <3>3, <3>4 DEF AllAudio, AudioIn
  <2>2. ASSUME ij \in AllAudio(edid, N)
        PROVE  ij \in DataBlocks(edid, "audio")
    <3> DEFINE i == ij[1]
               j == ij[2]
    <3> HIDE DEF N
    <3>1. /\ i \in 1 .. N /\ Good(edid.blocks[i]) /\ ij = <<i, j>>
          /\ j \in 1 .. Len(edid.blocks[i].data)
          /\ edid.blocks[i].data[j].tag = "audio" /\ edid.blocks[i].data[j].types # <<>>
      BY <2>2 DEF AllAudio, AudioIn
    <3>2. i \in Whole(edid) /\ j \in DOMAIN edid.blocks[i].data
      BY <1>1, <1>2, <3>1
    <3>. QED
      BY <1>3, <3>1, <3>2
  <2>. QED
    BY <2>1, <2>2
<1>5. ASSUME NEW ij
      PROVE  ij \in DataBlocks(edid, "speakers") <=> ij \in AllSpeakers(edid, N)
  <2>1. ASSUME ij \in DataBlocks(edid, "speakers")
        PROVE  ij \in AllSpeakers(edid, N)
    <3>1. PICK i \in Whole(edid) : \E j \in DOMAIN edid.blocks[i].data : ij = <<i, j>>
      BY <1>3, <2>1
    <3>2. PICK j \in DOMAIN edid.blocks[i].data : ij = <<i, j>>
      BY <3>1
    <3>3. i \in 1 .. N /\ Good(edid.blocks[i]) /\ j \in 1 .. Len(edid.blocks[i].data)
      BY <1>1, <1>2, <3>2
    <3>4. edid.blocks[i].data[j].tag = "speakers"
      BY <1>3, <2>1, <3>2
    <3> HIDE DEF N
    <3>. QED
      BY <3>2, <3>3, <3>4 DEF AllSpeakers, SpeakersIn
  <2>2. ASSUME ij \in AllSpeakers(edid, N)
        PROVE  ij \in DataBlocks(edid, "speakers")
    <3> DEFINE i == ij[1]
               j == ij[2]
    <3> HIDE DEF N
    <3>1. /\ i \in 1 .. N /\ Good(edid.blocks[i]) /\ ij = <<i, j>>
          /\ j \in 1 .. Len(edid.blocks[i].data)
          /\ edid.blocks[i].data[j].tag = "speakers"
      BY <2>2 DEF AllSpeakers, SpeakersIn
    <3>2. i \in Whole(edid) /\ j \in DOMAIN edid.blocks[i].data
      BY <1>1, <1>2, <3>1
    <3>. QED
      BY <1>3, <3>1, <3>2
  <2>. QED
    BY <2>1, <2>2
<1> HIDE DEF N
<1>6. DataBlocks(edid, "audio") = AllAudio(edid, N) /\ DataBlocks(edid, "speakers") = AllSpeakers(edid, N)
  BY <1>4, <1>5
<1>. QED
  BY <1>6 DEF N

\* What a sink with one audio data block, or none, is found to decode; the
\* array kept is then the only one, and the speakers are those of the one block.
LEMMA FoundIsSaid ==
    ASSUME NEW edid \in Sinks, AtMostOne(DataBlocks(edid, "audio"))
    PROVE  LET infor == ParseHdmiAudio(edid, TRUE)
           IN  /\ \A level : IsSupportFormat(infor, level) <=> level \in Decodes(edid)
               /\ DestoryHdmiAudio(infor) = InitHdmiAudio
               /\ DataBlocks(edid, "speakers") # {} /\ AtMostOne(DataBlocks(edid, "speakers")) =>
                     SpeakerAllocation(infor) = Speakers(edid) \cap Places
<1> DEFINE infor == ParseHdmiAudio(edid, TRUE)
           audio == DataBlocks(edid, "audio")
           speakers == DataBlocks(edid, "speakers")
           types(ij) == edid.blocks[ij[1]].data[ij[2]].types
<1>1. /\ audio = {} => infor.audio = <<>> /\ infor.allocated = 0
      /\ \A i, j : audio = {<<i, j>>} =>
            infor.audio = edid.blocks[i].data[j].types /\ infor.allocated = 1
      /\ \A i, j : speakers = {<<i, j>>} => infor.layout = edid.blocks[i].data[j].types
  <2>1. FoundUpTo(infor, edid, BlocksRead(edid))
    BY ParserFinds
  <2>2. audio = AllAudio(edid, BlocksRead(edid)) /\ speakers = AllSpeakers(edid, BlocksRead(edid))
    BY SaidBlocks
  <2> HIDE DEF infor, audio, speakers
  <2>. QED
    BY <2>1, <2>2, Zenon DEF FoundUpTo
<1>2. \A tag, ij : ij \in DataBlocks(edid, tag) =>
         /\ \E i \in Whole(edid) : \E j \in DOMAIN edid.blocks[i].data : ij = <<i, j>>
         /\ edid.blocks[ij[1]].data[ij[2]].tag = tag
         /\ tag = "audio" => edid.blocks[ij[1]].data[ij[2]].types # <<>>
  BY InDataBlocks
<1>3. ASSUME NEW tag, NEW ij \in DataBlocks(edid, tag)
      PROVE  /\ ij = <<ij[1], ij[2]>>
             /\ tag = "audio" => types(ij) # <<>>
             /\ tag = "speakers" => types(ij) # NoLayout
  <2>1. PICK i \in Whole(edid) : \E j \in DOMAIN edid.blocks[i].data : ij = <<i, j>>
    BY <1>2
  <2>2. PICK j \in DOMAIN edid.blocks[i].data : ij = <<i, j>>
    BY <2>1
  <2>3. /\ edid.blocks[i].data[j].tag = tag
        /\ tag = "audio" => edid.blocks[i].data[j].types # <<>>
    BY <1>2, <2>2
  <2>4. i \in DOMAIN edid.blocks
    BY SinkReads DEF Whole
  <2>5. tag = "speakers" => edid.blocks[i].data[j].types # NoLayout
    BY <2>3, <2>4, SinkAssumption
  <2>. QED
    BY <2>2, <2>3, <2>5
<1>4. /\ \A ij \in audio : ij = <<ij[1], ij[2]>> /\ types(ij) # <<>>
      /\ \A ij \in speakers : ij = <<ij[1], ij[2]>> /\ types(ij) # NoLayout
  BY <1>3
<1>5. /\ Decodes(edid) = UNION {ToSet(types(ij)) : ij \in audio}
      /\ Speakers(edid) = UNION {types(ij) : ij \in speakers}
  BY DEF Decodes, Speakers
<1>6. /\ \A ij : audio = {ij} => infor.audio = types(ij) /\ infor.allocated = 1
      /\ \A ij : speakers = {ij} => infor.layout = types(ij)
  <2> HIDE DEF infor, audio, speakers
  <2>1. ASSUME NEW ij, audio = {ij}
        PROVE  infor.audio = types(ij) /\ infor.allocated = 1
    <3>1. ij = <<ij[1], ij[2]>>
      BY <1>4, <2>1
    <3>. QED
      BY <1>1, <2>1, <3>1
  <2>2. ASSUME NEW ij, speakers = {ij}
        PROVE  infor.layout = types(ij)
    <3>1. ij = <<ij[1], ij[2]>>
      BY <1>4, <2>2
    <3>. QED
      BY <1>1, <2>2, <3>1
  <2>. QED
    BY <2>1, <2>2
<1>7. AtMostOne(audio)
  OBVIOUS
<1> HIDE DEF infor, audio, speakers, types
<1>8. ASSUME audio = {}
      PROVE  /\ \A level : IsSupportFormat(infor, level) <=> level \in Decodes(edid)
             /\ DestoryHdmiAudio(infor) = InitHdmiAudio
  <2>1. infor.audio = <<>> /\ infor.allocated = 0 /\ Decodes(edid) = {}
    BY <1>1, <1>5, <1>8
  <2>2. \A level : ~IsSupportFormat(infor, level)
    BY <2>1 DEF IsSupportFormat
  <2>3. DestoryHdmiAudio(infor) = InitHdmiAudio
    BY <2>1 DEF DestoryHdmiAudio, InitHdmiAudio
  <2>. QED
    BY <2>1, <2>2, <2>3
<1>9. ASSUME audio # {}
      PROVE  /\ \A level : IsSupportFormat(infor, level) <=> level \in Decodes(edid)
             /\ DestoryHdmiAudio(infor) = InitHdmiAudio
  <2>1. PICK ij \in audio : audio = {ij}
    BY <1>7, <1>9 DEF AtMostOne
  <2>2. infor.audio = types(ij) /\ infor.allocated = 1 /\ types(ij) # <<>>
    BY <1>4, <1>6, <2>1
  <2>3. Decodes(edid) = ToSet(types(ij))
    BY <1>5, <2>1
  <2>4. ASSUME NEW level
        PROVE  IsSupportFormat(infor, level) <=> level \in Decodes(edid)
    BY <2>2, <2>3 DEF IsSupportFormat, ToSet
  <2>5. DestoryHdmiAudio(infor) = InitHdmiAudio
    BY <2>2 DEF DestoryHdmiAudio, InitHdmiAudio
  <2>. QED
    BY <2>4, <2>5
<1>10. ASSUME speakers # {}, AtMostOne(speakers)
       PROVE  SpeakerAllocation(infor) = Speakers(edid) \cap Places
  <2>1. PICK ij \in speakers : speakers = {ij}
    BY <1>10 DEF AtMostOne
  <2>2. infor.layout = types(ij) /\ types(ij) # NoLayout
    BY <1>4, <1>6, <2>1
  <2>3. Speakers(edid) = types(ij)
    BY <1>5, <2>1
  <2>. QED
    BY <2>2, <2>3 DEF SpeakerAllocation
<1>. QED
  BY <1>8, <1>9, <1>10 DEF infor, speakers

\* A hot plug of such a sink leaves its formats listed.
LEMMA HotPlugFollows ==
    ASSUME TypeOK, sink \in Sinks, HotPlug(TRUE), AtMostOne(DataBlocks(sink, "audio"))
    PROVE  LET infor == ParseHdmiAudio(sink, TRUE)
           IN  /\ \A f \in Table :
                     formats["bitstream"][f] <= 1 =>
                        (f \in Listed(formats'["bitstream"]) <=> Level[f] \in Decodes(sink))
               /\ DestoryHdmiAudio(infor) = InitHdmiAudio
               /\ DataBlocks(sink, "speakers") # {} /\ AtMostOne(DataBlocks(sink, "speakers")) =>
                     SpeakerAllocation(infor) = Speakers(sink) \cap Places
<1> DEFINE infor == ParseHdmiAudio(sink, TRUE)
           found == {l \in Levels : IsSupportFormat(infor, l)}
<1>1. /\ \A level : IsSupportFormat(infor, level) <=> level \in Decodes(sink)
      /\ DestoryHdmiAudio(infor) = InitHdmiAudio
      /\ DataBlocks(sink, "speakers") # {} /\ AtMostOne(DataBlocks(sink, "speakers")) =>
            SpeakerAllocation(infor) = Speakers(sink) \cap Places
  BY FoundIsSaid
<1>2. UpdataFormatForEdid(found) /\ found \in SUBSET Levels
  BY DEF HotPlug
<1> HIDE DEF infor
<1>3. \A l : l \in found <=> l \in Levels /\ l \in Decodes(sink)
  BY <1>1
<1> HIDE DEF found
<1>4. ASSUME NEW f \in Table, formats["bitstream"][f] <= 1
      PROVE  f \in Listed(formats'["bitstream"]) <=> Level[f] \in Decodes(sink)
  <2>1. f \in Formats /\ Level[f] \in Levels
    BY TableAssumption DEF Levels
  <2>2. f \in Listed(formats'["bitstream"]) <=> Level[f] \in found
    BY <1>2, <1>4, <2>1, UpdatedList
  <2>. QED
    BY <1>3, <2>1, <2>2
<1>. QED
  BY <1>1, <1>4 DEF infor

\* Every hot plug in auto mode makes the list follow the sink, whatever sinks
\* there are and however long their EDIDs.
THEOREM FollowsSinkAlways == HdmiSpec => FollowsSink
<1> DEFINE SinkInv == TypeOK /\ sink \in Sinks
<1>1. HdmiInit => SinkInv
  BY InitTypes DEF HdmiInit
<1>2. SinkInv /\ [HdmiNext]_hdmiVars => SinkInv'
  <2> SUFFICES ASSUME SinkInv, [HdmiNext]_hdmiVars
               PROVE  SinkInv'
    OBVIOUS
  <2>1. TypeOK'
    BY HdmiStep, NextTypes DEF hdmiVars, vars
  <2>2. sink' \in Sinks
    BY DEF HdmiNext, Connect, hdmiVars
  <2>. QED
    BY <2>1, <2>2
<1>3. SinkInv /\ [HdmiNext]_hdmiVars =>
         [BitStreamMode = 0 /\ HotPlug(TRUE) /\ AtMostOne(DataBlocks(sink, "audio")) =>
            LET infor == ParseHdmiAudio(sink, TRUE)
            IN  /\ \A f \in Table :
                      formats["bitstream"][f] <= 1 =>
                         (f \in Listed(formats'["bitstream"]) <=> Level[f] \in Decodes(sink))
                /\ DestoryHdmiAudio(infor) = InitHdmiAudio
                /\ DataBlocks(sink, "speakers") # {} /\ AtMostOne(DataBlocks(sink, "speakers")) =>
                      SpeakerAllocation(infor) = Speakers(sink) \cap Places]_hdmiVars
  BY HotPlugFollows
<1>. QED
  BY <1>1, <1>2, <1>3, PTL DEF HdmiSpec, FollowsSink
---------------------------------------------------------------------------
(* The configuration file, for any number of processes, settings, tries,   *)
(* saves and kills.                                                        *)

\* A constructor that goes on has an attempt left, and who saves has settings.
GoesOn ==
    \A p \in Processes :
       /\ at[p] \in {"probe", "clean", "open", "write", "rename", "load", "discard"}
             => tries[p] >= 1
       /\ at[p] = "save" => doc[p] # Partial

FileTypeInv == FileTypeOK /\ GoesOn

LEMMA NoneIsNoInode == None \notin Inodes
BY DEF None, Inodes

\* What opening a file for writing leaves.
LEMMA OpenedFile ==
    ASSUME FileTypeOK, NEW p \in Processes, NEW name, Opened(p, name)
    PROVE  /\ content' \in [Inodes -> Settings \cup {Default, Partial}]
           /\ file' \in [Processes -> Inodes \cup {None}]
           /\ file'[p] \in Inodes /\ content'[file'[p]] = Partial
           /\ name # None => file'[p] = name
           /\ \A i \in Inodes : i # file'[p] => content'[i] = content[i]
           /\ NewName(p, name) = file'[p]
<1>1. PICK i \in Inodes : /\ name # None => i = name
                          /\ content' = [content EXCEPT ![i] = Partial]
                          /\ file' = [file EXCEPT ![p] = i]
  BY DEF Opened
<1>2. file'[p] = i
  BY <1>1 DEF FileTypeOK
<1>3. NewName(p, name) = i
  BY <1>1, <1>2 DEF NewName
<1>. QED
  BY <1>1, <1>2, <1>3 DEF FileTypeOK

\* What a failed attempt leaves.
LEMMA AttemptLeaves ==
    ASSUME FileTypeOK, NEW p \in Processes, tries[p] >= 1, AttemptFailed(p)
    PROVE  /\ tries' \in [Processes -> 0 .. Tries] /\ tries'[p] = tries[p] - 1
           /\ \A q \in Processes : q # p => tries'[q] = tries[q]
           /\ at' = [at EXCEPT ![p] = IF tries[p] = 1 THEN "failed" ELSE "probe"]
BY ConfigAssumption DEF AttemptFailed, Goto, FileTypeOK

LEMMA FileTypeStep ==
    ASSUME FileTypeInv, [FileNext]_fileVars
    PROVE  FileTypeInv'
<1> USE DEF FileTypeInv
<1>1. CASE UNCHANGED fileVars
  BY <1>1 DEF fileVars, FileTypeOK, GoesOn
<1>2. ASSUME NEW p \in Processes, Start(p)
      PROVE  FileTypeInv'
  BY <1>2, ConfigAssumption DEF Start, Goto, FileTypeOK, GoesOn
<1>3. ASSUME NEW p \in Processes, Probe(p) \/ Clean(p) \/ Rename(p)
      PROVE  FileTypeInv'
  BY <1>3 DEF Probe, Clean, Rename, Goto, procVars, FileTypeOK, GoesOn
<1>4. ASSUME NEW p \in Processes, OpenTemp(p)
      PROVE  FileTypeInv'
  <2>1. /\ Opened(p, temp) /\ temp' = NewName(p, temp)
        /\ at' = [at EXCEPT ![p] = "write"] /\ at[p] = "open"
        /\ UNCHANGED <<config, tries, doc, saved, torn, saves, kills>>
    BY <1>4 DEF OpenTemp, Goto
  <2>2. FileTypeOK'
    BY <2>1, OpenedFile DEF FileTypeOK
  <2>3. GoesOn'
    BY <2>1 DEF FileTypeOK, GoesOn
  <2>. QED
    BY <2>2, <2>3
<1>5. ASSUME NEW p \in Processes, WriteTemp(p)
      PROVE  FileTypeInv'
  BY <1>5 DEF WriteTemp, Closed, Goto, FileTypeOK, GoesOn
<1>6. ASSUME NEW p \in Processes, Load(p)
      PROVE  FileTypeInv'
  <2>1. /\ at[p] = "load" /\ tries[p] >= 1
        /\ UNCHANGED <<config, temp, content, file, saved, torn, saves, kills>>
    BY <1>6 DEF Load, GoesOn
  <2>2. CASE config = None
    <3>1. AttemptFailed(p) /\ UNCHANGED doc
      BY <1>6, <2>2 DEF Load
    <3>2. /\ tries' \in [Processes -> 0 .. Tries] /\ tries'[p] = tries[p] - 1
          /\ \A q \in Processes : q # p => tries'[q] = tries[q]
          /\ at' = [at EXCEPT ![p] = IF tries[p] = 1 THEN "failed" ELSE "probe"]
      BY <2>1, <3>1, AttemptLeaves
    <3>. QED
      BY <2>1, <3>1, <3>2 DEF FileTypeOK, GoesOn
  <2>3. CASE config # None /\ content[config] = Partial
    BY <1>6, <2>1, <2>3 DEF Load, Goto, FileTypeOK, GoesOn
  <2>4. CASE config # None /\ content[config] # Partial
    <3>1. /\ at' = [at EXCEPT ![p] = "ready"] /\ doc' = [doc EXCEPT ![p] = content[config]]
          /\ UNCHANGED tries
      BY <1>6, <2>4 DEF Load, Goto
    <3>2. content[config] \in Settings \cup {Default, Partial}
      BY <2>4 DEF FileTypeOK
    <3>. QED
      BY <2>1, <2>4, <3>1, <3>2 DEF FileTypeOK, GoesOn
  <2>. QED
    BY <2>2, <2>3, <2>4
<1>7. ASSUME NEW p \in Processes, Discard(p)
      PROVE  FileTypeInv'
  <2>1. /\ at[p] = "discard" /\ tries[p] >= 1 /\ AttemptFailed(p) /\ config' = None
        /\ UNCHANGED <<temp, content, file, doc, saved, torn, saves, kills>>
    BY <1>7 DEF Discard, GoesOn
  <2>2. /\ tries' \in [Processes -> 0 .. Tries] /\ tries'[p] = tries[p] - 1
        /\ \A q \in Processes : q # p => tries'[q] = tries[q]
        /\ at' = [at EXCEPT ![p] = IF tries[p] = 1 THEN "failed" ELSE "probe"]
    BY <2>1, AttemptLeaves
  <2>. QED
    BY <2>1, <2>2 DEF FileTypeOK, GoesOn
<1>8. ASSUME NEW p \in Processes, NEW s \in Settings, Set(p, s)
      PROVE  FileTypeInv'
  <2>1. /\ Opened(p, config) /\ config' = NewName(p, config)
        /\ at' = [at EXCEPT ![p] = "save"] /\ doc' = [doc EXCEPT ![p] = s]
        /\ saves' = saves + 1 /\ saves < MaxSaves
        /\ UNCHANGED <<temp, tries, saved, torn, kills>>
    BY <1>8 DEF Set, Goto
  <2>2. FileTypeOK'
    BY <2>1, OpenedFile, ConfigAssumption DEF FileTypeOK
  <2>3. GoesOn'
    BY <2>1, ConfigAssumption DEF FileTypeOK, GoesOn
  <2>. QED
    BY <2>2, <2>3
<1>9. ASSUME NEW p \in Processes, EndSave(p)
      PROVE  FileTypeInv'
  BY <1>9 DEF EndSave, Closed, Goto, FileTypeOK, GoesOn
<1>10. ASSUME NEW p \in Processes, Delete(p)
       PROVE  FileTypeInv'
  BY <1>10 DEF Delete, Goto, FileTypeOK, GoesOn
<1>11. ASSUME NEW p \in Processes, Kill(p)
       PROVE  FileTypeInv'
  BY <1>11, ConfigAssumption DEF Kill, Goto, FileTypeOK, GoesOn
<1>. QED
  BY <1>1, <1>2, <1>3, <1>4, <1>5, <1>6, <1>7, <1>8, <1>9, <1>10, <1>11
     DEF FileNext, InitStep, Idle

(* One process with the files for itself.  The attempt that finds a file   *)
(* that does not parse is its first; what it then copies is complete when  *)
(* it gets its name.                                                       *)

Attempts ==
    \A p \in Processes :
       /\ at[p] # "down" => tries[p] >= Tries - 1
       /\ at[p] = "probe" /\ tries[p] < Tries => config = None
       /\ at[p] = "load" /\ tries[p] < Tries => content[config] # Partial
       /\ at[p] = "discard" => tries[p] = Tries

Copying ==
    \A p \in Processes :
       /\ at[p] \in {"clean", "open", "write", "rename"} => config = None
       /\ at[p] \in {"load", "discard", "ready", "save"} => config # None
       /\ at[p] = "write" => temp # None /\ file[p] = temp
       /\ at[p] = "rename" => temp # None /\ content[temp] = Default
       /\ at[p] = "discard" => content[config] = Partial
       /\ at[p] = "save" => file[p] = config

\* What the file says, or will say when there is none.
FileSays ==
    /\ config = None => saved = Default \/ torn
    /\ config # None /\ content[config] # Partial =>
          content[config] = saved \/ (torn /\ content[config] = Default)
    /\ config # None /\ content[config] = Partial =>
          torn \/ \E p \in Processes : at[p] = "save"

FileInv == FileTypeInv /\ Attempts /\ Copying /\ FileSays /\ SettingsSurvive

LEMMA FileInvStep ==
    ASSUME NEW p, Processes = {p}, FileInv, [FileNext]_fileVars
    PROVE  FileInv'
<1>1. FileTypeInv'
  BY FileTypeStep DEF FileInv
<1>2. /\ DOMAIN at = {p} /\ DOMAIN tries = {p} /\ DOMAIN doc = {p} /\ DOMAIN file = {p}
      /\ tries[p] \in 0 .. Tries /\ p \in Processes /\ Tries \in Nat \ {0}
      /\ config \in Inodes \cup {None} /\ temp \in Inodes \cup {None}
      /\ DOMAIN content = Inodes /\ torn \in BOOLEAN
  BY ConfigAssumption DEF FileInv, FileTypeInv, FileTypeOK
<1>3. CASE UNCHANGED fileVars
  BY <1>1, <1>3 DEF fileVars, FileInv, Attempts, Copying, FileSays, SettingsSurvive
<1>4. CASE Start(p)
  BY <1>1, <1>2, <1>4 DEF Start, Goto, FileInv, Attempts, Copying, FileSays, SettingsSurvive
<1>5. CASE Probe(p)
  BY <1>1, <1>2, <1>5 DEF Probe, Goto, procVars, FileInv, Attempts, Copying, FileSays,
     SettingsSurvive
<1>6. CASE Clean(p)
  BY <1>1, <1>2, <1>6 DEF Clean, Goto, procVars, FileInv, Attempts, Copying, FileSays,
     SettingsSurvive
<1>7. CASE OpenTemp(p)
  <2>1. /\ at[p] = "open" /\ at' = [at EXCEPT ![p] = "write"] /\ config = None
        /\ temp' = file'[p] /\ temp' # None
        /\ UNCHANGED <<config, tries, doc, saved, torn>>
    BY <1>2, <1>7, OpenedFile, NoneIsNoInode
       DEF OpenTemp, Goto, FileInv, FileTypeInv, Copying
  <2>. QED
    BY <1>1, <1>2, <2>1 DEF FileInv, Attempts, Copying, FileSays, SettingsSurvive
<1>8. CASE WriteTemp(p)
  BY <1>1, <1>2, <1>8, NoneIsNoInode DEF WriteTemp, Closed, Goto, FileInv, Attempts, Copying,
     FileSays, SettingsSurvive
<1>9. CASE Rename(p)
  <2>1. Default # Partial
    BY ConfigAssumption
  <2>. QED
    BY <1>1, <1>2, <1>9, <2>1 DEF Rename, Goto, procVars, FileInv, Attempts, Copying,
       FileSays, SettingsSurvive
<1>10. CASE Load(p)
  <2>1. config # None
    BY <1>2, <1>10 DEF Load, FileInv, Copying
  <2>. QED
    BY <1>1, <1>2, <1>10, <2>1 DEF Load, Goto, FileInv, Attempts, Copying, FileSays,
       SettingsSurvive
<1>11. CASE Discard(p)
  <2>1. /\ at[p] = "discard" /\ tries[p] = Tries /\ config' = None /\ torn
        /\ UNCHANGED <<temp, content, file, doc, saved, torn>>
    BY <1>2, <1>11 DEF Discard, FileInv, Attempts, Copying, FileSays
  <2>2. tries'[p] = Tries - 1 /\ at'[p] \in {"failed", "probe"}
    BY <1>2, <1>11, <2>1, AttemptLeaves DEF Discard, FileInv, FileTypeInv, FileTypeOK
  <2>. QED
    BY <1>1, <1>2, <2>1, <2>2 DEF FileInv, Attempts, Copying, FileSays, SettingsSurvive
<1>12. ASSUME NEW s \in Settings, Set(p, s)
       PROVE  FileInv'
  <2>1. /\ at[p] = "ready" /\ at' = [at EXCEPT ![p] = "save"] /\ config # None
        /\ UNCHANGED <<temp, tries, saved, torn>>
    BY <1>2, <1>12 DEF Set, mXMLReady, Goto, FileInv, Copying
  <2>2. file'[p] = config /\ config' = config /\ content'[config] = Partial
    BY <1>2, <1>12, <2>1, OpenedFile DEF Set, FileInv, FileTypeInv
  <2>. QED
    BY <1>1, <1>2, <2>1, <2>2 DEF FileInv, Attempts, Copying, FileSays, SettingsSurvive
<1>13. CASE EndSave(p)
  <2>1. doc[p] # Partial /\ config # None /\ file[p] = config /\ at[p] = "save"
    BY <1>2, <1>13 DEF EndSave, FileInv, FileTypeInv, GoesOn, Copying
  <2>2. /\ content'[config] = doc[p] /\ saved' = doc[p] /\ torn' = FALSE
        /\ at' = [at EXCEPT ![p] = "ready"]
        /\ UNCHANGED <<config, temp, tries, doc>>
    BY <1>2, <1>13, <2>1 DEF EndSave, Closed, Goto
  <2>. QED
    BY <1>1, <1>2, <2>1, <2>2 DEF FileInv, Attempts, Copying, FileSays, SettingsSurvive
<1>14. CASE Delete(p)
  BY <1>1, <1>2, <1>14 DEF Delete, Goto, FileInv, Attempts, Copying, FileSays, SettingsSurvive
<1>15. CASE Kill(p)
  BY <1>1, <1>2, <1>15 DEF Kill, Goto, FileInv, Attempts, Copying, FileSays, SettingsSurvive
<1>. QED
  BY <1>2, <1>3, <1>4, <1>5, <1>6, <1>7, <1>8, <1>9, <1>10, <1>11, <1>12, <1>13, <1>14, <1>15
     DEF FileNext, InitStep, Idle

LEMMA FileInitTypes ==
    ASSUME FileInit
    PROVE  FileTypeInv /\ at = [p \in Processes |-> "down"]
<1>1. /\ config = None /\ temp = None /\ saved = Default /\ torn = FALSE
      /\ saves = 0 /\ kills = 0 /\ at = [p \in Processes |-> "down"]
  BY DEF FileInit
<1>2. /\ content \in [Inodes -> Settings \cup {Default, Partial}]
      /\ doc \in [Processes -> Settings \cup {Default, Partial}]
      /\ file \in [Processes -> Inodes \cup {None}]
  BY DEF FileInit
<1>3. tries \in [Processes -> 0 .. Tries]
  BY ConfigAssumption DEF FileInit
<1>4. saves \in 0 .. MaxSaves /\ kills \in 0 .. MaxKills
  BY <1>1, ConfigAssumption
<1>5. FileTypeOK
  BY <1>1, <1>2, <1>3, <1>4 DEF FileTypeOK
<1>6. GoesOn
  BY <1>1 DEF GoesOn
<1>. QED
  BY <1>1, <1>5, <1>6 DEF FileTypeInv

LEMMA FileTypeAlways == FileSpec => []FileTypeInv
<1>1. FileInit => FileTypeInv
  BY FileInitTypes
<1>2. FileTypeInv /\ [FileNext]_fileVars => FileTypeInv'
  BY FileTypeStep
<1>. QED
  BY <1>1, <1>2, PTL DEF FileSpec

LEMMA FileInvAlways ==
    ASSUME \E p : Processes = {p}
    PROVE  FileSpec => []FileInv
<1>1. FileInit => FileInv
  BY FileInitTypes DEF FileInit, FileInv, Attempts, Copying, FileSays, SettingsSurvive
<1>2. FileInv /\ [FileNext]_fileVars => FileInv'
  BY FileInvStep
<1>. QED
  BY <1>1, <1>2, PTL DEF FileSpec

\* Whoever starts, saves or is killed when, no process works with a document
\* that was not loaded or set, and no file has other content than settings.
THEOREM FileTypesHold == FileSpec => []FileTypeOK
<1>1. FileTypeInv => FileTypeOK
  BY DEF FileTypeInv
<1>. QED
  BY <1>1, FileTypeAlways, PTL

\* After a kill at any step a constructor that has the file for itself needs
\* one retry at most.
THEOREM OneRetryIsEnoughAlways ==
    ASSUME \E p : Processes = {p}
    PROVE  FileSpec => []OneRetryIsEnough
<1>1. FileInv => OneRetryIsEnough
  BY DEF FileInv, Attempts, OneRetryIsEnough
<1>. QED
  BY <1>1, FileInvAlways, PTL

\* The settings a process works with are those saved last, or, after a kill in
\* the middle of a save, those of the system file.
THEOREM SettingsSurviveAlways ==
    ASSUME \E p : Processes = {p}
    PROVE  FileSpec => []SettingsSurvive
<1>1. FileInv => SettingsSurvive
  BY DEF FileInv
<1>. QED
  BY <1>1, FileInvAlways, PTL
=============================================================================
