---------------------------- MODULE DrmVopRender ----------------------------
(***************************************************************************)
(* DrmVopRender (rockit/direct/sideband), which puts the sideband window's *)
(* buffers on a plane of the display.  detect looks for a connector, its   *)
(* encoder and a crtc once, when the window is made.  SetDrmPlane makes a  *)
(* framebuffer of each buffer it has not met and keeps it in mFbidMap by   *)
(* the number of the buffer's prime file descriptor, until deinitialize.   *)
(*                                                                         *)
(* A buffer is the memory gralloc allocated for it: an element of Memories *)
(* is allocated at most once, while a number is free for the next buffer   *)
(* when its own is freed.  A framebuffer is named by its memory.           *)
(***************************************************************************)
EXTENDS Naturals, Sequences

CONSTANTS Memories,   \* bound: what gralloc allocates in the renderer's time
          FormatOf,   \* the HAL pixel format of each
          NoFb,       \* framebuffer id 0: AddFB2 failed; a dark plane
          Fds,        \* numbers of prime file descriptors
          Displays    \* the displays the renderer may find, see below

EncoderTypes == {"NONE", "TMDS", "LVDS", "DSI"}

(***************************************************************************)
(* A display as DRM reports it: whether the card opens and answers, and    *)
(* its connectors, encoders, crtcs and planes in order.  Objects are named *)
(* by their position, 0 is none; one that another refers to can be read.   *)
(* DRM lists an encoder for each connector at least.                       *)
(***************************************************************************)
WellFormed(d) ==
    LET Encoders == DOMAIN d.encoders
        Crtcs == DOMAIN d.crtcs
    IN  /\ d.opens \in BOOLEAN /\ d.answers \in BOOLEAN
        /\ d.connectors \in Seq([answers : BOOLEAN, connected : BOOLEAN,
                                 encoder : Encoders \cup {0}])
        /\ d.encoders \in Seq([type : EncoderTypes, crtc : Crtcs \cup {0},
                               possible : SUBSET Crtcs])
        /\ d.crtcs \in Seq([active : BOOLEAN])
        /\ d.planes \in Seq([async : BOOLEAN])

ASSUME RenderAssumption ==
    /\ NoFb \notin Memories
    /\ Fds \subseteq Nat \ {0}
    /\ \A d \in Displays : /\ WellFormed(d)
                           /\ Len(d.connectors) <= Len(d.encoders)

VARIABLES phase,     \* of the renderer; "blind": the card did not open
          display,   \* the display there is
          output,    \* mOutputs[OUTPUT_PRIMARY]: connected and crtc
          mFbidMap,  \* number -> framebuffer, of the numbers met
          fbs,       \* the framebuffers the kernel keeps for mDrmFd
          plane,     \* what the sideband plane scans out
          number,    \* the number each memory has or had, 0 before
          live       \* buffers gralloc has allocated and not freed

vars == <<phase, display, output, mFbidMap, fbs, plane, number, live>>

NoOutput == [connected |-> FALSE, crtc |-> 0]

TypeOK ==
    /\ phase \in {"new", "ready", "blind", "gone", "crashed"}
    /\ display \in Displays
    /\ output \in [connected : BOOLEAN, crtc : DOMAIN display.crtcs \cup {0}]
    /\ DOMAIN mFbidMap \subseteq Fds
    /\ \A n \in DOMAIN mFbidMap : mFbidMap[n] \in Memories \cup {NoFb}
    /\ fbs \subseteq Memories
    /\ plane \in Memories \cup {NoFb}
    /\ number \in [Memories -> Fds \cup {0}]
    /\ live \subseteq {m \in Memories : number[m] # 0}

Init ==
    /\ phase = "new"
    /\ display \in Displays
    /\ output = NoOutput
    /\ mFbidMap = <<>>
    /\ fbs = {}
    /\ plane = NoFb
    /\ number = [m \in Memories |-> 0]
    /\ live = {}
---------------------------------------------------------------------------
(* detect *)

Least(S) == IF S = {} THEN 0 ELSE CHOOSE i \in S : \A j \in S : i <= j
Last(S) == IF S = {} THEN 0 ELSE CHOOSE i \in S : \A j \in S : j <= i

\* Every path through the loop leaves it at the first connector that answers.
Connector(d) == Least({i \in DOMAIN d.connectors : d.connectors[i].answers})

Connected(d) == Connector(d) # 0 /\ d.connectors[Connector(d)].connected

\* getDrmEncoder of the primary display, whose number 2 is that of TMDS.
GetDrmEncoder == "TMDS"

\* The attached encoder; else the scan, which looks at the encoder with the
\* connector's index every time.
Encoder(d) ==
    LET i == Connector(d)
    IN  CASE ~Connected(d) -> 0
          [] Connected(d) /\ d.connectors[i].encoder # 0 -> d.connectors[i].encoder
          [] OTHER -> IF d.encoders[i].type = GetDrmEncoder THEN i ELSE 0

\* Faulty variant: the crtc attached to the encoder is not asked for.
CrtcSpare(d) ==
    LET e == Encoder(d)
    IN  IF e = 0 THEN 0
        ELSE Last({j \in DOMAIN d.crtcs :
                     d.crtcs[j].active \/ j \in d.encoders[e].possible})

\* The attached crtc; else the last one that is possible or ACTIVE.
Crtc(d) ==
    LET e == Encoder(d)
    IN  CASE e = 0 -> 0
          [] e # 0 /\ d.encoders[e].crtc # 0 -> d.encoders[e].crtc
          [] OTHER -> Last({j \in DOMAIN d.crtcs :
                              d.crtcs[j].active \/ j \in d.encoders[e].possible})

\* initialize, and detect if the card opened.  detect returns early when DRM
\* does not answer; with no crtc it dereferences NULL at its end.
Initialize ==
    /\ phase = "new"
    /\ \/ /\ ~display.opens
          /\ phase' = "blind"
          /\ UNCHANGED output
       \/ /\ display.opens /\ ~display.answers
          /\ phase' = "ready"
          /\ output' = NoOutput
       \/ /\ display.opens /\ display.answers
          /\ output' = [connected |-> Connected(display), crtc |-> Crtc(display)]
          /\ phase' = IF Crtc(display) = 0 THEN "crashed" ELSE "ready"
    /\ UNCHANGED <<display, mFbidMap, fbs, plane, number, live>>
---------------------------------------------------------------------------
(* SetDrmPlane *)

\* FindSidebandPlane finds a plane that is ASYNC_COMMIT.
HasSidebandPlane ==
    output.connected /\ \E i \in DOMAIN display.planes : display.planes[i].async

\* Faulty variant: the map is searched before gralloc has set fd.
KeyUnset(m) == 0

\* The number GetFbid finds the framebuffer by.
Key(m) == number[m]

\* ConvertHalFormatToDrm: for any other format a number no DRM format has.
ConvertHalFormatToDrm(hal) ==
    CASE hal = "RGB_888" -> "BGR888"         [] hal = "BGRA_8888" -> "ARGB8888"
      [] hal = "RGBX_8888" -> "XBGR8888"     [] hal = "RGBA_8888" -> "ABGR8888"
      [] hal = "RGB_565" -> "RGB565"         [] hal = "YV12" -> "YVU420"
      [] hal = "YCrCb_NV12" -> "NV12"        [] hal = "YCrCb_NV12_10" -> "NV12_10"
      [] OTHER -> "EINVAL"

\* drmModeAddFB2, which refuses what is no format and may fail in any case.
AddFB2(m) ==
    IF ConvertHalFormatToDrm(FormatOf[m]) = "EINVAL" THEN {NoFb} ELSE {m, NoFb}

\* What GetFbid may return: the cached framebuffer, failed ones included; else
\* that of a new one.
Fbids(m) ==
    IF Key(m) \in DOMAIN mFbidMap THEN {mFbidMap[Key(m)]}
    ELSE IF phase = "ready" THEN AddFB2(m) ELSE {NoFb}

\* mFbidMap.insert, which leaves an entry that is there alone.
Insert(n, fb) ==
    mFbidMap' = [k \in DOMAIN mFbidMap \cup {n} |->
                    IF k \in DOMAIN mFbidMap THEN mFbidMap[k] ELSE fb]

\* A render of buffer m on a renderer that has its card.  The plane's size is
\* that of output->crtc unless the property vendor.sideband.crop is set (crop);
\* drmModeSetPlane refuses the id of a framebuffer that failed.
SetDrmPlane(m, crop) ==
    /\ phase = "ready"
    /\ m \in live
    /\ \E fb \in Fbids(m) :
          /\ Insert(Key(m), fb)
          /\ fbs' = fbs \cup ({fb} \ {NoFb})
          /\ IF output.crtc = 0 /\ ~crop
             THEN phase' = "crashed" /\ UNCHANGED plane
             ELSE /\ UNCHANGED phase
                  /\ plane' = IF HasSidebandPlane /\ fb # NoFb THEN fb ELSE plane
    /\ UNCHANGED <<display, output, number, live>>

\* The same without the card: initialize has returned before it set gralloc_,
\* which holds what the memory held before, the gralloc module or anything.
SetDrmPlaneBlind(m, crop) ==
    /\ phase = "blind"
    /\ m \in live
    /\ \/ phase' = "crashed" /\ UNCHANGED mFbidMap
       \/ crop /\ Insert(Key(m), NoFb) /\ UNCHANGED phase
    /\ UNCHANGED <<display, output, fbs, plane, number, live>>
---------------------------------------------------------------------------
\* Faulty variant: the descriptor is forgotten and not closed.
DeinitializeUnclosed ==
    /\ phase \in {"ready", "blind"}
    /\ phase' = "gone"
    /\ output' = NoOutput
    /\ mFbidMap' = <<>>
    /\ UNCHANGED <<display, fbs, plane, number, live>>

\* deinitialize, and the destructor.  The removal of the framebuffers comes
\* after mDrmFd is closed and set to 0 and fails; the close has removed them,
\* and turned off the plane that showed one.
Deinitialize ==
    /\ phase \in {"ready", "blind"}
    /\ phase' = "gone"
    /\ output' = NoOutput
    /\ mFbidMap' = <<>>
    /\ fbs' = {}
    /\ plane' = NoFb
    /\ UNCHANGED <<display, number, live>>
---------------------------------------------------------------------------
(* gralloc *)

\* A new buffer has a number that no buffer has at that time.
Allocate(m, n) ==
    /\ phase \in {"ready", "blind"}
    /\ number[m] = 0
    /\ n \notin {number[k] : k \in live}
    /\ number' = [number EXCEPT ![m] = n]
    /\ live' = live \cup {m}
    /\ UNCHANGED <<phase, display, output, mFbidMap, fbs, plane>>

\* The memory stays as long as a framebuffer is on it.
FreeMemory(m) ==
    /\ m \in live
    /\ live' = live \ {m}
    /\ UNCHANGED <<phase, display, output, mFbidMap, fbs, plane, number>>

Next ==
    \/ Initialize
    \/ Deinitialize
    \/ \E m \in Memories, crop \in BOOLEAN : \/ SetDrmPlane(m, crop)
                                            \/ SetDrmPlaneBlind(m, crop)
    \/ \E m \in Memories : \/ FreeMemory(m)
                           \/ \E n \in Fds : Allocate(m, n)

Spec == Init /\ [][Next]_vars
---------------------------------------------------------------------------
\* The buffer's number has been another's while the renderer lived.
Reused(m) == \E k \in Memories \ {m} : number[k] = number[m]

(***************************************************************************)
(* A buffer whose number was no other's since the renderer was made is     *)
(* what the plane shows after SetDrmPlane, unless no framebuffer could be  *)
(* made of it, when the plane is left alone: however many buffers were     *)
(* shown and freed before, the cache never answers with the memory of      *)
(* another.  (GetFbid and SetDrmPlane.  For a reused number it does.)      *)
(***************************************************************************)
ShownAsGiven ==
    [][\A m \in Memories, crop \in BOOLEAN :
         SetDrmPlane(m, crop) /\ phase' = "ready" /\ HasSidebandPlane /\ ~Reused(m)
            => /\ number[m] \in DOMAIN mFbidMap'
               /\ plane' = IF mFbidMap'[number[m]] = NoFb THEN plane ELSE m]_vars

(***************************************************************************)
(* The framebuffers the kernel keeps are those of the cache, none is made  *)
(* twice, the plane shows one of them or nothing, and none is left after   *)
(* deinitialize, although the calls that should remove them come too late. *)
(***************************************************************************)
FramebuffersAccounted ==
    /\ phase # "gone" => fbs = {mFbidMap[n] : n \in DOMAIN mFbidMap} \ {NoFb}
    /\ phase = "gone" => fbs = {}
    /\ plane \in fbs \cup {NoFb}

\* A display that something lit before: the first connector that answers is
\* connected, and has an encoder with a crtc attached.
LitCrtc(d) ==
    LET i == Least({j \in DOMAIN d.connectors : d.connectors[j].answers})
    IN  IF i # 0 /\ d.connectors[i].connected /\ d.connectors[i].encoder # 0
        THEN d.encoders[d.connectors[i].encoder].crtc ELSE 0

(***************************************************************************)
(* On a lit display the renderer does not crash, and renders to the crtc   *)
(* that lights it, whatever other crtcs are active or possible.  (detect.  *)
(* With any other display it may end in a NULL dereference, at the end of  *)
(* detect or in SetDrmPlane.)                                              *)
(***************************************************************************)
LitDisplayWorks ==
    display.opens /\ display.answers /\ LitCrtc(display) # 0
       => /\ phase # "crashed"
          /\ phase = "ready" => output = [connected |-> TRUE,
                                          crtc |-> LitCrtc(display)]
=============================================================================
