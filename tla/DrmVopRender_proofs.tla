------------------------ MODULE DrmVopRender_proofs ------------------------
(***************************************************************************)
(* Proofs about DrmVopRender, for every set of displays, any number of     *)
(* buffers and any set of descriptor numbers.                              *)
(***************************************************************************)
EXTENDS DrmVopRender, WellFoundedInduction, TLAPS

\* A nonempty set of natural numbers has a least element, which Least finds.
LEMMA LeastExists ==
    ASSUME NEW S, S \subseteq Nat, S # {}
    PROVE  /\ Least(S) \in S
           /\ \A j \in S : Least(S) <= j
<1> DEFINE R == {ss \in Nat \X Nat : ss[1] < ss[2]}
<1>1. IsWellFoundedOn(R, Nat)
  BY NatLessThanWellFounded, Zenon DEF OpToRel
<1>2. PICK x \in S : \A y \in S : ~(<<y, x>> \in R)
  <2> HIDE DEF R
  <2> QED  BY <1>1, WFMin
<1>3. ASSUME NEW y \in S
      PROVE  x <= y
  <2>1. ~(y < x)
    BY <1>2
  <2> QED
    BY <2>1
<1> QED
  BY <1>3 DEF Least

\* A nonempty set of positions of a sequence has a greatest element.
LEMMA LastExists ==
    ASSUME NEW n \in Nat, NEW S, S \subseteq 1..n, S # {}
    PROVE  Last(S) \in S
<1> DEFINE T == {n - i : i \in S}
<1>1. T \subseteq Nat /\ T # {}
  <2>1. \A i \in S : n - i \in Nat
    OBVIOUS
  <2> QED
    BY <2>1
<1>2. Least(T) \in T /\ \A k \in T : Least(T) <= k
  <2> HIDE DEF T
  <2> QED  BY <1>1, LeastExists
<1>3. PICK x \in S : Least(T) = n - x
  BY <1>2
<1>4. ASSUME NEW j \in S
      PROVE  j <= x
  <2>1. n - j \in T
    OBVIOUS
  <2>2. Least(T) <= n - j
    BY <2>1, <1>2
  <2> QED
    <3>1. x \in 1..n /\ j \in 1..n /\ n - x <= n - j
      BY <2>2, <1>3
    <3> QED
      BY <3>1
<1> QED
  BY <1>4 DEF Last

\* The objects of a display refer to objects of it.
LEMMA DisplayTyped ==
    ASSUME NEW d \in Displays
    PROVE  /\ DOMAIN d.connectors = 1..Len(d.connectors)
           /\ DOMAIN d.encoders = 1..Len(d.encoders)
           /\ DOMAIN d.crtcs = 1..Len(d.crtcs)
           /\ Len(d.connectors) \in Nat /\ Len(d.encoders) \in Nat
           /\ Len(d.crtcs) \in Nat
           /\ Len(d.connectors) <= Len(d.encoders)
           /\ \A i \in DOMAIN d.connectors :
                 /\ d.connectors[i].connected \in BOOLEAN
                 /\ d.connectors[i].encoder \in DOMAIN d.encoders \cup {0}
           /\ \A i \in DOMAIN d.encoders :
                 d.encoders[i].crtc \in DOMAIN d.crtcs \cup {0}
<1> DEFINE C == [answers : BOOLEAN, connected : BOOLEAN,
                 encoder : DOMAIN d.encoders \cup {0}]
           E == [type : EncoderTypes, crtc : DOMAIN d.crtcs \cup {0},
                 possible : SUBSET DOMAIN d.crtcs]
           T == [active : BOOLEAN]
<1>1. /\ d.connectors \in Seq(C)
      /\ d.encoders \in Seq(E)
      /\ d.crtcs \in Seq(T)
      /\ Len(d.connectors) <= Len(d.encoders)
  BY RenderAssumption DEF WellFormed
<1>2. \A i \in DOMAIN d.connectors : d.connectors[i] \in C
  <2> HIDE DEF C, E, T
  <2> QED  BY <1>1
<1>3. \A i \in DOMAIN d.encoders : d.encoders[i] \in E
  <2> HIDE DEF C, E, T
  <2> QED  BY <1>1
<1>4. /\ DOMAIN d.connectors = 1..Len(d.connectors)
      /\ DOMAIN d.encoders = 1..Len(d.encoders)
      /\ DOMAIN d.crtcs = 1..Len(d.crtcs)
      /\ Len(d.connectors) \in Nat /\ Len(d.encoders) \in Nat
      /\ Len(d.crtcs) \in Nat
  <2> HIDE DEF C, E, T
  <2> QED  BY <1>1
<1> QED
  BY <1>1, <1>2, <1>3, <1>4

\* The connector detect stops at, if any, is one of the display's.
LEMMA ConnectorAnswers ==
    ASSUME NEW d \in Displays
    PROVE  \/ Connector(d) = 0
           \/ Connector(d) \in DOMAIN d.connectors
<1> DEFINE S == {i \in DOMAIN d.connectors : d.connectors[i].answers}
<1>1. DOMAIN d.connectors = 1..Len(d.connectors) /\ Len(d.connectors) \in Nat
  BY DisplayTyped
<1>2. CASE S = {}
  BY <1>2 DEF Connector, Least
<1>3. CASE S # {}
  <2>1. S \subseteq Nat
    BY <1>1
  <2>2. Least(S) \in S
    BY <2>1, <1>3, LeastExists
  <2> QED
    BY <2>2 DEF Connector
<1> QED
  BY <1>2, <1>3

\* What detect chooses are objects of the display.
LEMMA DetectInRange ==
    ASSUME NEW d \in Displays
    PROVE  /\ Connected(d) \in BOOLEAN
           /\ Encoder(d) \in DOMAIN d.encoders \cup {0}
           /\ Crtc(d) \in DOMAIN d.crtcs \cup {0}
<1>1. /\ DOMAIN d.connectors = 1..Len(d.connectors)
      /\ DOMAIN d.encoders = 1..Len(d.encoders)
      /\ DOMAIN d.crtcs = 1..Len(d.crtcs)
      /\ Len(d.connectors) \in Nat /\ Len(d.encoders) \in Nat
      /\ Len(d.crtcs) \in Nat
      /\ Len(d.connectors) <= Len(d.encoders)
  BY DisplayTyped
<1>2. \A i \in DOMAIN d.connectors :
         /\ d.connectors[i].connected \in BOOLEAN
         /\ d.connectors[i].encoder \in DOMAIN d.encoders \cup {0}
  BY DisplayTyped
<1>3. \A i \in DOMAIN d.encoders : d.encoders[i].crtc \in DOMAIN d.crtcs \cup {0}
  BY DisplayTyped
<1>4. Connected(d) \in BOOLEAN
  BY <1>2, ConnectorAnswers DEF Connected
<1>5. Encoder(d) \in DOMAIN d.encoders \cup {0}
  <2>1. CASE ~Connected(d)
    BY <2>1 DEF Encoder
  <2>2. CASE Connected(d)
    <3>1. Connector(d) \in DOMAIN d.connectors
      BY <2>2, ConnectorAnswers DEF Connected
    <3>2. Connector(d) \in DOMAIN d.encoders
      BY <3>1, <1>1
    <3> QED
      BY <2>2, <3>1, <3>2, <1>2 DEF Encoder
  <2> QED
    BY <2>1, <2>2, <1>4
<1>6. Crtc(d) \in DOMAIN d.crtcs \cup {0}
  <2> DEFINE e == Encoder(d)
             S == {j \in DOMAIN d.crtcs :
                     d.crtcs[j].active \/ j \in d.encoders[e].possible}
  <2>1. S = {} \/ Last(S) \in S
    <3>1. S \subseteq 1..Len(d.crtcs)
      BY <1>1
    <3> QED
      BY <3>1, <1>1, LastExists
  <2>2. Last(S) \in DOMAIN d.crtcs \cup {0}
    BY <2>1 DEF Last
  <2>3. CASE e = 0
    BY <2>3 DEF Crtc
  <2>4. CASE e # 0 /\ d.encoders[e].crtc # 0
    BY <2>4, <1>3, <1>5 DEF Crtc
  <2>5. CASE e # 0 /\ d.encoders[e].crtc = 0
    BY <2>5, <2>2 DEF Crtc
  <2> QED
    BY <2>3, <2>4, <2>5
<1> QED
  BY <1>4, <1>5, <1>6

\* On a lit display detect finds the crtc that lights it.
LEMMA LitIsFound ==
    ASSUME NEW d \in Displays, LitCrtc(d) # 0
    PROVE  Connected(d) /\ Crtc(d) = LitCrtc(d)
<1>1. Connector(d) # 0 /\ d.connectors[Connector(d)].connected
                       /\ d.connectors[Connector(d)].encoder # 0
  BY DEF LitCrtc, Connector
<1>2. Connected(d)
  BY <1>1 DEF Connected
<1>3. Encoder(d) = d.connectors[Connector(d)].encoder
  BY <1>1, <1>2 DEF Encoder
<1>4. LitCrtc(d) = d.encoders[Encoder(d)].crtc
  BY <1>1, <1>3 DEF LitCrtc, Connector
<1> QED
  BY <1>1, <1>2, <1>3, <1>4 DEF Crtc
---------------------------------------------------------------------------
(***************************************************************************)
(* Type correctness, for every display and any number of buffers.          *)
(***************************************************************************)
THEOREM TypeCorrect == Spec => []TypeOK
<1>1. Init => TypeOK
  BY RenderAssumption DEF Init, TypeOK, NoOutput
<1>2. TypeOK /\ [Next]_vars => TypeOK'
  <2> SUFFICES ASSUME TypeOK, [Next]_vars
               PROVE  TypeOK'
    OBVIOUS
  <2> USE DEF TypeOK
  <2>1. CASE Initialize
    <3>1. output' \in [connected : BOOLEAN, crtc : DOMAIN display.crtcs \cup {0}]
      <4>1. /\ Connected(display) \in BOOLEAN
            /\ Crtc(display) \in DOMAIN display.crtcs \cup {0}
        BY DetectInRange
      <4>2. output' \in {output, NoOutput,
                         [connected |-> Connected(display), crtc |-> Crtc(display)]}
        BY <2>1, Zenon DEF Initialize
      <4> HIDE DEF TypeOK
      <4>3. output \in [connected : BOOLEAN, crtc : DOMAIN display.crtcs \cup {0}]
        BY DEF TypeOK
      <4>4. CASE output' = output
        BY <4>3, <4>4
      <4>5. CASE output' = NoOutput
        BY <4>5 DEF NoOutput
      <4>6. CASE output' = [connected |-> Connected(display), crtc |-> Crtc(display)]
        BY <4>1, <4>6
      <4> QED
        BY <4>2, <4>4, <4>5, <4>6
    <3>2. phase' \in {"blind", "ready", "crashed"}
      BY <2>1 DEF Initialize
    <3> QED
      BY <2>1, <3>1, <3>2 DEF Initialize
  <2>2. ASSUME NEW m \in Memories, NEW crop \in BOOLEAN, SetDrmPlane(m, crop)
        PROVE  TypeOK'
    <3>1. number[m] \in Fds
      BY <2>2 DEF SetDrmPlane
    <3>2. PICK fb \in Fbids(m) :
             /\ Insert(number[m], fb)
             /\ fbs' = fbs \cup ({fb} \ {NoFb})
             /\ phase' \in {phase, "crashed"}
             /\ plane' \in {plane, fb}
      BY <2>2 DEF SetDrmPlane, Key
    <3>3. fb \in Memories \cup {NoFb}
      BY <3>2 DEF Fbids, AddFB2, Key
    <3> QED
      BY <2>2, <3>1, <3>2, <3>3 DEF SetDrmPlane, Insert
  <2>3. ASSUME NEW m \in Memories, NEW crop \in BOOLEAN, SetDrmPlaneBlind(m, crop)
        PROVE  TypeOK'
    <3>1. number[m] \in Fds
      BY <2>3 DEF SetDrmPlaneBlind
    <3> QED
      BY <2>3, <3>1 DEF SetDrmPlaneBlind, Insert, Key
  <2>4. CASE Deinitialize
    BY <2>4 DEF Deinitialize, NoOutput
  <2>5. ASSUME NEW m \in Memories, NEW n \in Fds, Allocate(m, n)
        PROVE  TypeOK'
    BY <2>5, RenderAssumption DEF Allocate
  <2>6. ASSUME NEW m \in Memories, FreeMemory(m)
        PROVE  TypeOK'
    BY <2>6 DEF FreeMemory
  <2>7. CASE UNCHANGED vars
    BY <2>7 DEF vars
  <2> QED
    BY <2>1, <2>2, <2>3, <2>4, <2>5, <2>6, <2>7 DEF Next
<1> QED
  BY <1>1, <1>2, PTL DEF Spec

(***************************************************************************)
(* A lit display is found and kept, and nothing crashes on it (detect and  *)
(* SetDrmPlane), whatever else the display has.                            *)
(***************************************************************************)
THEOREM LitIsSafe == Spec => []LitDisplayWorks
<1> DEFINE CardIsOpen == phase = "blind" => ~display.opens
           Inv == TypeOK /\ LitDisplayWorks /\ CardIsOpen
<1>1. Init => CardIsOpen /\ LitDisplayWorks
  BY DEF Init, LitDisplayWorks
<1>2. TypeOK /\ TypeOK' /\ LitDisplayWorks /\ CardIsOpen /\ [Next]_vars
         => LitDisplayWorks' /\ CardIsOpen'
  <2> SUFFICES ASSUME TypeOK, TypeOK', LitDisplayWorks, CardIsOpen, [Next]_vars
               PROVE  LitDisplayWorks' /\ CardIsOpen'
    OBVIOUS
  <2> USE DEF LitDisplayWorks
  <2>1. CASE Initialize
    <3>1. LitCrtc(display) # 0 => /\ Connected(display)
                                  /\ Crtc(display) = LitCrtc(display)
      BY LitIsFound DEF TypeOK
    <3>2. Connected(display) \in BOOLEAN
      BY DetectInRange DEF TypeOK
    <3> QED
      BY <2>1, <3>1, <3>2 DEF Initialize
  <2>2. ASSUME NEW m \in Memories, NEW crop \in BOOLEAN, SetDrmPlane(m, crop)
        PROVE  LitDisplayWorks' /\ CardIsOpen'
    <3>1. /\ phase = "ready"
          /\ UNCHANGED <<display, output>>
          /\ \/ output.crtc = 0 /\ phase' = "crashed"
             \/ UNCHANGED phase
      BY <2>2 DEF SetDrmPlane
    <3> QED
      BY <3>1
  <2>3. ASSUME NEW m \in Memories, NEW crop \in BOOLEAN, SetDrmPlaneBlind(m, crop)
        PROVE  LitDisplayWorks' /\ CardIsOpen'
    BY <2>3 DEF SetDrmPlaneBlind
  <2>4. CASE Deinitialize
    BY <2>4 DEF Deinitialize
  <2>5. ASSUME NEW m \in Memories, NEW n \in Fds, Allocate(m, n)
        PROVE  LitDisplayWorks' /\ CardIsOpen'
    BY <2>5 DEF Allocate
  <2>6. ASSUME NEW m \in Memories, FreeMemory(m)
        PROVE  LitDisplayWorks' /\ CardIsOpen'
    BY <2>6 DEF FreeMemory
  <2>7. CASE UNCHANGED vars
    BY <2>7 DEF vars
  <2> QED
    BY <2>1, <2>2, <2>3, <2>4, <2>5, <2>6, <2>7 DEF Next
<1> QED
  BY <1>1, <1>2, TypeCorrect, PTL DEF Spec
---------------------------------------------------------------------------
\* A cached framebuffer is of a memory that has or had the cached number.
CacheIsOwn ==
    \A n \in DOMAIN mFbidMap :
       mFbidMap[n] \in Memories => number[mFbidMap[n]] = n

\* What a render does to the cache, and what it finds there.
LEMMA RenderCaches ==
    ASSUME NEW m \in Memories, NEW crop \in BOOLEAN,
           TypeOK, CacheIsOwn, SetDrmPlane(m, crop)
    PROVE  /\ CacheIsOwn'
           /\ DOMAIN mFbidMap' = DOMAIN mFbidMap \cup {number[m]}
           /\ \A n \in DOMAIN mFbidMap : mFbidMap'[n] = mFbidMap[n]
           /\ fbs' = fbs \cup ({mFbidMap'[number[m]]} \ {NoFb})
           /\ plane' \in {plane, mFbidMap'[number[m]]}
           /\ phase' = "ready" /\ HasSidebandPlane =>
                 plane' = IF mFbidMap'[number[m]] = NoFb THEN plane
                          ELSE mFbidMap'[number[m]]
<1>1. PICK fb \in Fbids(m) :
         /\ Insert(number[m], fb)
         /\ fbs' = fbs \cup ({fb} \ {NoFb})
         /\ plane' = plane \/ plane' = fb
         /\ phase' = "ready" =>
               plane' = IF HasSidebandPlane /\ fb # NoFb THEN fb ELSE plane
  BY DEF SetDrmPlane, Key
<1>2. DOMAIN mFbidMap' = DOMAIN mFbidMap \cup {number[m]}
  BY <1>1 DEF Insert
<1>3. \A n \in DOMAIN mFbidMap : mFbidMap'[n] = mFbidMap[n]
  BY <1>1 DEF Insert
<1>4. mFbidMap'[number[m]] = fb
  <2>1. CASE number[m] \in DOMAIN mFbidMap
    BY <1>1, <1>3, <2>1 DEF Fbids, AddFB2, Key
  <2>2. CASE number[m] \notin DOMAIN mFbidMap
    BY <1>1, <2>2 DEF Insert
  <2> QED
    BY <2>1, <2>2
<1>5. CacheIsOwn'
  <2> SUFFICES ASSUME NEW n \in DOMAIN mFbidMap', mFbidMap'[n] \in Memories
               PROVE  number[mFbidMap'[n]] = n
    BY DEF CacheIsOwn, SetDrmPlane
  <2>1. CASE n \in DOMAIN mFbidMap
    BY <1>3, <2>1 DEF CacheIsOwn
  <2>2. CASE n \notin DOMAIN mFbidMap
    <3>1. n = number[m] /\ fb \in {m, NoFb}
      BY <1>1, <1>2, <2>2 DEF Fbids, AddFB2, Key
    <3> QED
      BY <3>1, <1>4, RenderAssumption
  <2> QED
    BY <2>1, <2>2
<1> QED
  BY <1>1, <1>2, <1>3, <1>4, <1>5

\* CacheIsOwn is an invariant: a number of a memory never changes, and what is
\* cached under a number is a memory that had it when it was cached.
LEMMA OwnCache == Spec => []CacheIsOwn
<1>1. Init => CacheIsOwn
  BY DEF Init, CacheIsOwn
<1>2. TypeOK /\ CacheIsOwn /\ [Next]_vars => CacheIsOwn'
  <2> SUFFICES ASSUME TypeOK, CacheIsOwn, [Next]_vars
               PROVE  CacheIsOwn'
    OBVIOUS
  <2>1. CASE Initialize
    BY <2>1 DEF Initialize, CacheIsOwn
  <2>2. ASSUME NEW m \in Memories, NEW crop \in BOOLEAN, SetDrmPlane(m, crop)
        PROVE  CacheIsOwn'
    BY <2>2, RenderCaches
  <2>3. ASSUME NEW m \in Memories, NEW crop \in BOOLEAN, SetDrmPlaneBlind(m, crop)
        PROVE  CacheIsOwn'
    <3>1. CASE UNCHANGED mFbidMap
      BY <2>3, <3>1 DEF SetDrmPlaneBlind, CacheIsOwn
    <3>2. CASE Insert(number[m], NoFb)
      BY <2>3, <3>2, RenderAssumption DEF SetDrmPlaneBlind, Insert, CacheIsOwn
    <3> QED
      BY <2>3, <3>1, <3>2 DEF SetDrmPlaneBlind, Key
  <2>4. CASE Deinitialize
    BY <2>4 DEF Deinitialize, CacheIsOwn
  <2>5. ASSUME NEW k \in Memories, NEW i \in Fds, Allocate(k, i)
        PROVE  CacheIsOwn'
    <3> SUFFICES ASSUME NEW n \in DOMAIN mFbidMap, mFbidMap[n] \in Memories
                 PROVE  number'[mFbidMap[n]] = n
      BY <2>5 DEF Allocate, CacheIsOwn
    <3>1. number[mFbidMap[n]] = n /\ n # 0
      BY RenderAssumption DEF CacheIsOwn, TypeOK
    <3>2. mFbidMap[n] # k
      BY <2>5, <3>1 DEF Allocate
    <3> QED
      BY <2>5, <3>1, <3>2 DEF Allocate, TypeOK
  <2>6. ASSUME NEW m \in Memories, FreeMemory(m)
        PROVE  CacheIsOwn'
    BY <2>6 DEF FreeMemory, CacheIsOwn
  <2>7. CASE UNCHANGED vars
    BY <2>7 DEF vars, CacheIsOwn
  <2> QED
    BY <2>1, <2>2, <2>3, <2>4, <2>5, <2>6, <2>7 DEF Next
<1> QED
  BY <1>1, <1>2, TypeCorrect, PTL DEF Spec

(***************************************************************************)
(* A render shows the buffer it is given if the buffer's number was no     *)
(* other's: what GetFbid finds under the number is of a memory that had    *)
(* it, and that can only be the buffer.                                    *)
(***************************************************************************)
THEOREM GivenIsShown == Spec => ShownAsGiven
<1> DEFINE Step == \A m \in Memories, crop \in BOOLEAN :
         SetDrmPlane(m, crop) /\ phase' = "ready" /\ HasSidebandPlane /\ ~Reused(m)
            => /\ number[m] \in DOMAIN mFbidMap'
               /\ plane' = IF mFbidMap'[number[m]] = NoFb THEN plane ELSE m
<1>1. TypeOK /\ TypeOK' /\ CacheIsOwn /\ [Next]_vars => [Step]_vars
  <2> SUFFICES ASSUME TypeOK, TypeOK', CacheIsOwn,
                      NEW m \in Memories, NEW crop \in BOOLEAN,
                      SetDrmPlane(m, crop), phase' = "ready", HasSidebandPlane,
                      ~Reused(m)
               PROVE  /\ number[m] \in DOMAIN mFbidMap'
                      /\ plane' = IF mFbidMap'[number[m]] = NoFb THEN plane ELSE m
    OBVIOUS
  <2> DEFINE n == number[m]
             fb == mFbidMap'[n]
  <2>1. n \in DOMAIN mFbidMap' /\ CacheIsOwn'
        /\ plane' = IF fb = NoFb THEN plane ELSE fb
    BY RenderCaches
  <2>2. fb \in Memories \cup {NoFb} /\ number' = number
    BY <2>1 DEF TypeOK, SetDrmPlane
  <2>3. CASE fb # NoFb
    <3>1. number[fb] = number[m]
      BY <2>1, <2>2, <2>3 DEF CacheIsOwn
    <3>2. fb = m
      BY <2>2, <2>3, <3>1 DEF Reused
    <3> QED
      BY <2>1, <2>3, <3>2
  <2> QED
    BY <2>1, <2>3
<1> QED
  BY <1>1, TypeCorrect, OwnCache, PTL DEF Spec, ShownAsGiven

(***************************************************************************)
(* The kernel's framebuffers are the cached ones, the plane shows one of   *)
(* them or nothing, and deinitialize leaves none.                          *)
(***************************************************************************)
THEOREM NoFramebufferLeaks == Spec => []FramebuffersAccounted
<1>1. Init => FramebuffersAccounted
  BY DEF Init, FramebuffersAccounted
<1>2. TypeOK /\ CacheIsOwn /\ FramebuffersAccounted /\ [Next]_vars
         => FramebuffersAccounted'
  <2> SUFFICES ASSUME TypeOK, CacheIsOwn, FramebuffersAccounted, [Next]_vars
               PROVE  FramebuffersAccounted'
    OBVIOUS
  <2> USE DEF FramebuffersAccounted
  <2>1. CASE Initialize
    BY <2>1 DEF Initialize
  <2>2. ASSUME NEW m \in Memories, NEW crop \in BOOLEAN, SetDrmPlane(m, crop)
        PROVE  FramebuffersAccounted'
    <3> DEFINE fb == mFbidMap'[number[m]]
    <3>1. /\ DOMAIN mFbidMap' = DOMAIN mFbidMap \cup {number[m]}
          /\ \A n \in DOMAIN mFbidMap : mFbidMap'[n] = mFbidMap[n]
          /\ fbs' = fbs \cup ({fb} \ {NoFb})
          /\ plane' \in {plane, fb}
      BY <2>2, RenderCaches
    <3>2. phase = "ready" /\ phase' # "gone"
      BY <2>2 DEF SetDrmPlane
    <3>3. {mFbidMap'[n] : n \in DOMAIN mFbidMap'}
             = {mFbidMap[n] : n \in DOMAIN mFbidMap} \cup {fb}
      BY <3>1
    <3> QED
      BY <3>1, <3>2, <3>3
  <2>3. ASSUME NEW m \in Memories, NEW crop \in BOOLEAN, SetDrmPlaneBlind(m, crop)
        PROVE  FramebuffersAccounted'
    <3>1. phase = "blind" /\ phase' # "gone" /\ UNCHANGED <<fbs, plane>>
      BY <2>3 DEF SetDrmPlaneBlind
    <3>2. {mFbidMap'[n] : n \in DOMAIN mFbidMap'} \ {NoFb}
             = {mFbidMap[n] : n \in DOMAIN mFbidMap} \ {NoFb}
      BY <2>3 DEF SetDrmPlaneBlind, Insert
    <3> QED
      BY <3>1, <3>2
  <2>4. CASE Deinitialize
    BY <2>4 DEF Deinitialize
  <2>5. ASSUME NEW m \in Memories, NEW n \in Fds, Allocate(m, n)
        PROVE  FramebuffersAccounted'
    BY <2>5 DEF Allocate
  <2>6. ASSUME NEW m \in Memories, FreeMemory(m)
        PROVE  FramebuffersAccounted'
    BY <2>6 DEF FreeMemory
  <2>7. CASE UNCHANGED vars
    BY <2>7 DEF vars
  <2> QED
    BY <2>1, <2>2, <2>3, <2>4, <2>5, <2>6, <2>7 DEF Next
<1> QED
  BY <1>1, <1>2, TypeCorrect, OwnCache, PTL DEF Spec
=============================================================================
