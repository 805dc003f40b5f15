------------------------- MODULE RockitDirect_proofs -------------------------
(***************************************************************************)
(* Proofs about the parts of rockit/direct that know nothing of each other: *)
(* SubtitleSink, for any number of creates, RockitPlayer, for any files,   *)
(* rates and positions, and MetadataRetriever, for any sources.            *)
(*                                                                         *)
(* ShownAsFlagged rests on the new window being hidden: create's number is *)
(* not among the visible ones until the window is there, and a show that   *)
(* slept through the destroy finds no window until then.                   *)
(*                                                                         *)
(* DrawsOnOwnSurface rests on mBindThread: while a context is there it is  *)
(* TRUE only if the thread is bound to the surface there is, since create  *)
(* clears it before there is one and no bind succeeds until there is.      *)
(*                                                                         *)
(* CallsLiveObjects rests on the player's order: what the library holds is *)
(* alive until the destructor, which resets the library first.             *)
(* SinkHasRate rests on mAudioPlayRateChanged, which until there is a sink *)
(* tells whether a rate waits for it.  The other properties of the player  *)
(* are about an answer, and follow from how it was made and, for tracks,   *)
(* from the reply being of the file the library has.                       *)
(*                                                                         *)
(* The retriever has nothing of a file before it parses, so that parsing   *)
(* makes one picture; and fetch_data, for a sample of which the position   *)
(* in the line has remainder 0, 1, 2 or 3 by 4, takes ten bits of two      *)
(* bytes, whatever the samples around it.                                  *)
(***************************************************************************)
EXTENDS SubtitleSink, RockitPlayer, MetadataRetriever, FiniteSetTheorems, WellFoundedInduction,
        TLAPS

\* Where create is, told by the fields.
Phases ==
    /\ owner \in {"window", "egl"} => creates # 0 /\ ~mInitialized /\ ~mBindThread
                                      /\ mEGLSurface = None /\ ~mContext
    /\ owner = "window" => mSurfaceControl = None /\ creates \notin visible
    /\ owner = "show" => mSurfaceControl # None
    /\ owner \in {"show", "clean", "destroy", "dispose"} => mInitialized

\* Only windows that have been made are visible.
OnlyMade == mSurfaceControl <= creates /\ \A n \in visible : n <= creates

Flagged ==
    mInitialized \/ owner # "idle" => (mSurfaceShow <=> mSurfaceControl \in visible)

\* What the rendering thread may take mBindThread to mean.
Bound ==
    /\ mBindThread /\ mContext => bound = mEGLSurface
    /\ drawer = "test" /\ ~raced /\ mContext /\ mRenderType = "GPU" /\ mEGLSurface # None
          => mBindThread
    /\ drawer = "draw" /\ ~raced /\ mContext => mBindThread

\* A surface that nobody will destroy any more is one of RGA.
Current(s) == mInitialized /\ owner # "dispose" /\ s = <<mEGLSurface, mRenderType>>
OnlyRgaLeft == \A s \in made : s[2] = "RGA" \/ Current(s)

IInv == TypeOK /\ Phases /\ OnlyMade /\ Flagged /\ Bound /\ OnlyRgaLeft

-----------------------------------------------------------------------------

LEMMA InvInit == Init => IInv
<1> SUFFICES ASSUME Init PROVE IInv
  OBVIOUS
<1>1. TypeOK
  <2>1. {mInitialized, mSurfaceShow, mBindThread, mContext, raced} \subseteq BOOLEAN
    BY DEF Init
  <2> QED BY <2>1, SubtitleAssumption DEF Init, TypeOK, Types
<1>2. Phases /\ Flagged /\ Bound
  BY DEF Init, Phases, Flagged, Bound
<1>3. OnlyMade /\ OnlyRgaLeft
  BY DEF Init, OnlyMade, OnlyRgaLeft, None
<1> QED BY <1>1, <1>2, <1>3 DEF IInv

LEMMA NumbersAre ==
    /\ Numbers \subseteq Nat /\ None \in Nat /\ None \notin Numbers
    /\ \A n \in 0 .. MaxCreates : n # 0 => n \in Numbers
BY SubtitleAssumption DEF Numbers, None

LEMMA CreateStep ==
    ASSUME IInv, NEW type \in Types, Create(type)
    PROVE  IInv'
<1> USE NumbersAre
<1>1. TypeOK'
  <2>1. creates' \in 0 .. MaxCreates
    BY SubtitleAssumption DEF IInv, TypeOK, Create
  <2>2. {mInitialized, mSurfaceShow, mBindThread, mContext, raced}' \subseteq BOOLEAN
    BY DEF IInv, TypeOK, Create, OwnerStep, Emptied
  <2> QED BY <2>1, <2>2 DEF IInv, TypeOK, Create, OwnerStep, Emptied, callVars
<1>2. Phases' /\ OnlyMade'
  BY SubtitleAssumption
  DEF IInv, TypeOK, OnlyMade, Phases, Create, OwnerStep, Emptied, None
<1>3. Flagged'
  BY DEF IInv, TypeOK, Flagged, Create, OwnerStep, Emptied
<1>4. Bound'
  BY DEF IInv, Bound, Create, OwnerStep, Emptied, callVars
<1>5. OnlyRgaLeft'
  <2>1. made' = made /\ \A s \in made : s[2] = "RGA"
    BY DEF IInv, OnlyRgaLeft, Current, Create
  <2> QED BY <2>1 DEF OnlyRgaLeft
<1> QED BY <1>1, <1>2, <1>3, <1>4, <1>5 DEF IInv

LEMMA CreateWindowStep ==
    ASSUME IInv, NEW given \in BOOLEAN, CreateWindow(given)
    PROVE  IInv'
<1> USE NumbersAre
<1>1. TypeOK'
  BY DEF IInv, TypeOK, Phases, CreateWindow, OwnerStep, callVars, showVars
<1>2. Phases' /\ OnlyMade'
  BY DEF IInv, TypeOK, OnlyMade, Phases, CreateWindow, OwnerStep, None, showVars
<1>3. Flagged'
  BY DEF IInv, TypeOK, Phases, Flagged, CreateWindow, OwnerStep, showVars
<1>4. Bound'
  BY DEF IInv, Bound, CreateWindow, OwnerStep, callVars
<1>5. OnlyRgaLeft'
  BY DEF IInv, OnlyRgaLeft, Current, Phases, CreateWindow, OwnerStep
<1> QED BY <1>1, <1>2, <1>3, <1>4, <1>5 DEF IInv

LEMMA CreateEGLStep ==
    ASSUME IInv, NEW surface \in BOOLEAN, NEW context \in BOOLEAN,
           CreateEGLSurface(surface, context)
    PROVE  IInv'
<1> USE NumbersAre
<1>1. TypeOK'
  <2>1. creates \in Numbers /\ <<creates, mRenderType>> \in Numbers \X Types
    BY DEF IInv, TypeOK, Phases, CreateEGLSurface, OwnerStep
  <2> QED BY <2>1 DEF IInv, TypeOK, CreateEGLSurface, OwnerStep, callVars, showVars
<1>2. Phases' /\ OnlyMade'
  BY DEF IInv, TypeOK, OnlyMade, Phases, CreateEGLSurface, OwnerStep, None, showVars
<1>3. Flagged'
  BY DEF IInv, Phases, Flagged, CreateEGLSurface, OwnerStep, showVars
<1>4. Bound'
  BY DEF IInv, TypeOK, Phases, Bound, CreateEGLSurface, OwnerStep, callVars
<1>5. OnlyRgaLeft'
  BY DEF IInv, TypeOK, OnlyRgaLeft, Current, Phases, CreateEGLSurface, OwnerStep
<1> QED BY <1>1, <1>2, <1>3, <1>4, <1>5 DEF IInv

LEMMA CreateShowStep ==
    ASSUME IInv, CreateShow
    PROVE  IInv'
<1> USE NumbersAre
<1>1. TypeOK'
  BY DEF IInv, TypeOK, Phases, CreateShow, OwnerStep, callVars, surfaceVars
<1>2. Phases' /\ OnlyMade'
  BY DEF IInv, OnlyMade, Phases, CreateShow, OwnerStep, surfaceVars
<1>3. Flagged'
  BY DEF IInv, Phases, Flagged, CreateShow, OwnerStep, surfaceVars
<1>4. Bound'
  BY DEF IInv, TypeOK, Bound, CreateShow, OwnerStep, callVars, surfaceVars
<1>5. OnlyRgaLeft'
  BY DEF IInv, OnlyRgaLeft, Current, Phases, CreateShow, OwnerStep, surfaceVars
<1> QED BY <1>1, <1>2, <1>3, <1>4, <1>5 DEF IInv

LEMMA CleanStep ==
    ASSUME IInv, Destroy \/ CleanSwap
    PROVE  IInv'
<1>1. /\ UNCHANGED <<mInitialized, mBindThread, surfaceVars, showVars, callVars>>
      /\ mInitialized /\ owner \in {"idle", "clean"} /\ owner' \in {"clean", "destroy"}
      /\ raced' = (raced \/ drawer # "idle")
  BY DEF IInv, Phases, Destroy, CleanSwap, OwnerStep
<1>2. TypeOK'
  BY <1>1 DEF IInv, TypeOK, callVars, surfaceVars, showVars
<1>3. Phases' /\ OnlyMade' /\ Flagged'
  BY <1>1 DEF IInv, Phases, OnlyMade, Flagged, surfaceVars, showVars
<1>4. Bound' /\ OnlyRgaLeft'
  BY <1>1 DEF IInv, TypeOK, Bound, OnlyRgaLeft, Current, callVars, surfaceVars
<1> QED BY <1>2, <1>3, <1>4 DEF IInv

LEMMA DestroyStep ==
    ASSUME IInv, DestroyEGLSurface
    PROVE  IInv'
<1> USE NumbersAre
<1>1. TypeOK'
  BY DEF IInv, TypeOK, DestroyEGLSurface, OwnerStep, callVars, showVars
<1>2. Phases' /\ OnlyMade'
  BY DEF IInv, OnlyMade, Phases, DestroyEGLSurface, OwnerStep, showVars
<1>3. Flagged'
  BY DEF IInv, Flagged, DestroyEGLSurface, OwnerStep, showVars
<1>4. Bound'
  BY DEF IInv, TypeOK, Bound, DestroyEGLSurface, OwnerStep, callVars
<1>5. OnlyRgaLeft'
  <2>1. mRenderType = "RGA" => made' = made
    BY DEF DestroyEGLSurface
  <2>2. mRenderType # "RGA" => mRenderType = "GPU" /\ made' = made \ {<<mEGLSurface, "GPU">>}
    BY DEF DestroyEGLSurface, IInv, TypeOK, Types
  <2>3. \A s \in made' : s[2] = "RGA"
    BY <2>1, <2>2 DEF IInv, OnlyRgaLeft, Current
  <2> QED BY <2>3 DEF OnlyRgaLeft
<1> QED BY <1>1, <1>2, <1>3, <1>4, <1>5 DEF IInv

LEMMA DisposeStep ==
    ASSUME IInv, Dispose
    PROVE  IInv'
<1>1. TypeOK'
  BY DEF IInv, TypeOK, Dispose, OwnerStep, callVars, surfaceVars
<1>2. Phases' /\ OnlyMade' /\ Flagged'
  BY DEF IInv, OnlyMade, Phases, Flagged, Dispose, OwnerStep, surfaceVars
<1>3. Bound'
  BY DEF IInv, TypeOK, Bound, Dispose, OwnerStep, callVars, surfaceVars
<1>4. OnlyRgaLeft'
  BY DEF IInv, OnlyRgaLeft, Current, Dispose, OwnerStep, surfaceVars
<1> QED BY <1>1, <1>2, <1>3, <1>4 DEF IInv

\* render and showScene change the binding and nothing else.
LEMMA DrawerKeeps ==
    ASSUME IInv, Render \/ Bind \/ Test \/ Draw \/ ClearScene \/ Clean \/ ShowScene \/ Swap
    PROVE  IInv'
<1>1. /\ UNCHANGED <<mInitialized, surfaceVars, showVars, owner, switcher>>
      /\ \/ mBindThread' = mBindThread /\ bound' = bound
         \/ mBindThread' = TRUE /\ bound' = mEGLSurface /\ mContext /\ mEGLSurface # None
      /\ raced' \in BOOLEAN /\ drawer' \in {"idle", "bind", "test", "draw", "swap"}
  <2>1. ASSUME NEW from, NEW to \in {"idle", "bind", "test", "draw", "swap"},
               DrawerStep(from, to)
        PROVE  /\ UNCHANGED <<mInitialized, surfaceVars, showVars, owner, switcher>>
               /\ raced' \in BOOLEAN /\ drawer' \in {"idle", "bind", "test", "draw", "swap"}
    BY <2>1 DEF DrawerStep
  <2>2. CASE Render
    BY <2>1, <2>2 DEF Render
  <2>3. CASE Bind
    BY <2>1, <2>3 DEF Bind
  <2>4. CASE Test
    BY <2>1, <2>4 DEF Test
  <2>5. CASE Draw \/ ClearScene \/ Clean \/ ShowScene \/ Swap
    BY <2>1, <2>5 DEF Draw, ClearScene, Clean, ShowScene, Swap
  <2> QED BY <2>2, <2>3, <2>4, <2>5
<1>2. TypeOK'
  BY <1>1 DEF IInv, TypeOK, surfaceVars, showVars
<1>3. Phases'
  BY <1>1 DEF IInv, Phases, surfaceVars, showVars
<1>4. OnlyMade' /\ Flagged' /\ OnlyRgaLeft'
  BY <1>1 DEF IInv, OnlyMade, Flagged, OnlyRgaLeft, Current, surfaceVars, showVars
<1>5. Bound'
  BY DEF IInv, TypeOK, Bound, Render, Bind, Test, Draw, ClearScene, Clean,
         ShowScene, Swap, DrawerStep,
         surfaceVars
<1> QED BY <1>2, <1>3, <1>4, <1>5 DEF IInv

\* Whenever a show or hide ends it leaves flag and window alike.
LEMMA SwitcherKeeps ==
    ASSUME IInv, Show \/ Hide \/ ShowTransaction \/ HideTransaction
    PROVE  IInv'
<1> USE NumbersAre
<1>1. /\ UNCHANGED <<mInitialized, mBindThread, surfaceVars, owner, drawer, bound, raced>>
      /\ switcher' \in {"idle", "show", "hide"}
      /\ \/ UNCHANGED showVars
         \/ /\ mSurfaceControl # None /\ mSurfaceShow' \in BOOLEAN
            /\ mSurfaceShow' <=> mSurfaceControl \in visible'
            /\ visible' \subseteq visible \cup {mSurfaceControl}
  BY DEF Show, Hide, ShowTransaction, HideTransaction, SwitcherStep
<1>2. TypeOK'
  <2>1. {mInitialized, mSurfaceShow, mBindThread, mContext, raced}' \subseteq BOOLEAN
    BY <1>1 DEF IInv, TypeOK, surfaceVars, showVars
  <2>2. visible' \subseteq Numbers
    BY <1>1 DEF IInv, TypeOK, showVars
  <2> QED BY <1>1, <2>1, <2>2 DEF IInv, TypeOK, surfaceVars
<1>5. Flagged'
  BY <1>1 DEF IInv, Flagged, surfaceVars, showVars
<1>3. Phases' /\ OnlyMade'
  BY <1>1 DEF IInv, TypeOK, Phases, OnlyMade, surfaceVars, showVars
<1>4. Bound' /\ OnlyRgaLeft'
  BY <1>1 DEF IInv, Bound, OnlyRgaLeft, Current, surfaceVars
<1> QED BY <1>2, <1>3, <1>4, <1>5 DEF IInv

\* What the three theorems below are read off.
THEOREM Invariant == Spec => []IInv
<1>1. ASSUME IInv, [Next]_vars PROVE IInv'
  <2>1. CASE UNCHANGED vars
    BY <1>1, <2>1
    DEF vars, surfaceVars, showVars, callVars, IInv, TypeOK, Phases, OnlyMade, Flagged, Bound,
        OnlyRgaLeft, Current
  <2> QED
    BY <1>1, <2>1, CreateStep, CreateWindowStep, CreateEGLStep, CreateShowStep, CleanStep, DestroyStep,
       DisposeStep, DrawerKeeps, SwitcherKeeps DEF Next
<1> QED BY <1>1, InvInit, PTL DEF Spec

\* Windows and surfaces keep the numbers of the creates that made them.
THEOREM TypeCorrect == Spec => []TypeOK
BY Invariant, PTL DEF IInv

\* A call that nothing overlaps draws on the surface the sink has, however
\* often it was destroyed and made again since the thread was bound.
THEOREM DrawsOnOwn == Spec => []DrawsOnOwnSurface
<1>1. IInv => DrawsOnOwnSurface
  BY DEF IInv, Bound, DrawsOnOwnSurface
<1> QED BY <1>1, Invariant, PTL

\* Whenever nobody is in create or destroy, isShowing tells what is visible,
\* whichever shows and hides came in between.
THEOREM FlagTellsTheTruth == Spec => []ShownAsFlagged
<1>1. IInv => ShownAsFlagged
  BY DEF IInv, Flagged, ShownAsFlagged
<1> QED BY <1>1, Invariant, PTL

\* Every EGL surface the sink loses is one that destoryEGLSurface leaves alone
\* for its render type.
THEOREM OnlyRgaSurfacesLeft == Spec => []OnlyRgaLeft
BY Invariant, PTL DEF IInv

-----------------------------------------------------------------------------
(* The player.  Its library runs only while the client is ready: reset     *)
(* stops its threads before deinitPlayer deletes the callback objects.     *)

HeldAreLive ==
    /\ phase = "none" => held = {}
    /\ phase = "ready" => held \subseteq live
    /\ phase # "ready" => state = "idle"

LEMMA HeldAreLiveStep ==
    ASSUME HeldAreLive, [PlayerNext]_playerVars
    PROVE  HeldAreLive'
<1>1. UNCHANGED objectVars => HeldAreLive'
  BY DEF objectVars, HeldAreLive
<1>2. ASSUME NEW loaded \in BOOLEAN, NEW created \in BOOLEAN, Construct(loaded, created)
      PROVE  HeldAreLive'
  BY <1>2 DEF Construct, Hand, HeldAreLive
<1>3. CASE DestructorReset \/ DeinitPlayer \/ DestroyPlayer
  BY <1>3 DEF DestructorReset, LibraryReset, DeinitPlayer, DestroyPlayer, HeldAreLive
<1>4. CASE SetVideoSurfaceTexture
  BY <1>4 DEF SetVideoSurfaceTexture, SetNativeWindow, Called, Hand, HeldAreLive
<1>5. ASSUME NEW i \in Sinks, SetAudioSink(i)
      PROVE  HeldAreLive'
  BY <1>5 DEF SetAudioSink, NewSink, Called, Hand, HeldAreLive
<1>6. ASSUME NEW file \in TrackLists, NEW stream \in BOOLEAN, SetDataSource(file, stream)
      PROVE  HeldAreLive'
  BY <1>6 DEF SetDataSource, Called, HeldAreLive
<1>7. ASSUME NEW call \in DOMAIN Taken, Control(call)
      PROVE  HeldAreLive'
  BY <1>7 DEF Control, Called, HeldAreLive
<1>8. CASE Reset
  BY <1>8 DEF Reset, Called, HeldAreLive
<1>9. ASSUME NEW us \in Positions, GetCurrentPosition(us) \/ Notify(us)
      PROVE  HeldAreLive'
  BY <1>1, <1>9 DEF GetCurrentPosition, Notify
<1>10. ASSUME NEW r \in Rates \cup {Zero, Invalid}, SetPlaybackSettings(r)
       PROVE  HeldAreLive'
  BY <1>1, <1>10 DEF SetPlaybackSettings
<1>11. CASE SeekTo \/ GetPlaybackSettings \/ Open \/ Close \/ GetTrackInfo
  BY <1>1, <1>11 DEF SeekTo, GetPlaybackSettings, Open, Close, GetTrackInfo
<1>12. ASSUME NEW first \in Channels, NEW then \in Channels, NEW n \in 0 .. Len(Frames),
              Write(first, then, n)
       PROVE  HeldAreLive'
  BY <1>1, <1>12 DEF Write
<1>13. ASSUME NEW i \in DOMAIN shown, SelectTrack(i)
       PROVE  HeldAreLive'
  BY <1>1, <1>13 DEF SelectTrack
<1>14. ASSUME NEW type \in AndroidTypes, NEW i \in DOMAIN tracks, GetSelectedTrack(type, i)
       PROVE  HeldAreLive'
  BY <1>1, <1>14 DEF GetSelectedTrack
<1>15. CASE UNCHANGED playerVars
  BY <1>1, <1>15 DEF playerVars
<1>. QED
  BY <1>2, <1>3, <1>4, <1>5, <1>6, <1>7, <1>8, <1>9, <1>10, <1>11, <1>12, <1>13, <1>14,
     <1>15 DEF PlayerNext

\* No thread of the library calls a callback object that does not exist, also
\* while the client is being destroyed.
THEOREM CallsLiveObjectsAlways == PlayerSpec => []CallsLiveObjects
<1>1. PlayerInit => HeldAreLive
  BY DEF PlayerInit, HeldAreLive
<1>2. HeldAreLive /\ [PlayerNext]_playerVars => HeldAreLive'
  BY HeldAreLiveStep
<1>3. HeldAreLive => CallsLiveObjects
  BY DEF HeldAreLive, CallsLiveObjects, Running
<1>. QED
  BY <1>1, <1>2, <1>3, PTL DEF PlayerSpec

(* The rate.  Until the first sink is there, mAudioPlayRateChanged says    *)
(* whether mAudioPlayRate is to be handed to it.                           *)

RateWaits ==
    /\ sink \in Nat /\ rate \in [Sinks -> Rates \cup {Zero}]
    /\ sink = 0 =>
          /\ opened = {} /\ rate = [i \in Sinks |-> Default]
          /\ IF mAudioPlayRateChanged THEN mAudioPlayRate = asked ELSE asked = Default
    /\ mAudioPlayRate \in Rates \cup {Zero}
    /\ sink \in Sinks \cup {0}
    /\ SinkHasRate

LEMMA RateWaitsStep ==
    ASSUME RateWaits, [PlayerNext]_playerVars
    PROVE  RateWaits'
<1>1. CASE UNCHANGED rateVars
  BY <1>1 DEF rateVars, RateWaits, SinkHasRate
<1>2. ASSUME opened' \subseteq opened, UNCHANGED <<sink, rate, mAudioPlayRate,
                                             mAudioPlayRateChanged, asked>>
      PROVE  RateWaits'
  BY <1>2 DEF RateWaits, SinkHasRate
<1>3. CASE Reset \/ DestructorReset \/ Close
  BY <1>2, <1>3 DEF Reset, DestructorReset, LibraryReset, Close
<1>4. CASE Open
  BY <1>4 DEF Open, NoSink, RateWaits, SinkHasRate
<1>5. ASSUME NEW i \in Sinks, SetAudioSink(i)
      PROVE  RateWaits'
  <2>1. /\ i = sink + 1 /\ sink' = i /\ mAudioPlayRateChanged' = FALSE
        /\ IF mAudioPlayRateChanged THEN SinkRate(i, mAudioPlayRate) ELSE UNCHANGED rate
        /\ UNCHANGED <<opened, mAudioPlayRate, asked>>
    BY <1>5 DEF SetAudioSink, NewSink
  <2>2. rate' \in [Sinks -> Rates \cup {Zero}] /\ sink' \in Nat /\ sink' # 0
    BY <2>1 DEF SinkRate, RateWaits
  <2>3. CASE sink = 0
    <3>1. i = 1 /\ opened = {}
      BY <2>1, <2>3 DEF RateWaits
    <3>2. mAudioPlayRateChanged => rate'[1] = asked
      BY <2>1, <2>3, <3>1 DEF SinkRate, RateWaits
    <3>3. ~mAudioPlayRateChanged => rate'[1] = asked
      BY <2>1, <2>3, <3>1 DEF RateWaits
    <3>. QED
      BY <2>1, <2>2, <3>1, <3>2, <3>3 DEF RateWaits, SinkHasRate
  <2>4. CASE sink # 0
    BY <2>1, <2>2, <2>4 DEF RateWaits, SinkHasRate
  <2>. QED
    BY <2>3, <2>4
<1>6. ASSUME NEW r \in Rates \cup {Zero, Invalid}, SetPlaybackSettings(r)
      PROVE  RateWaits'
  <2>1. /\ r \in Rates \cup {Zero} /\ mAudioPlayRate' = r /\ asked' = r
        /\ IF sink # 0 THEN SinkRate(sink, r) /\ UNCHANGED mAudioPlayRateChanged
           ELSE mAudioPlayRateChanged' = TRUE /\ UNCHANGED rate
        /\ UNCHANGED <<sink, opened>>
    BY <1>6 DEF SetPlaybackSettings, TellSpeed, NoSink
  <2>2. CASE sink = 0
    BY <2>1, <2>2 DEF RateWaits, SinkHasRate
  <2>3. CASE sink # 0
    <3>1. rate' \in [Sinks -> Rates \cup {Zero}]
      BY <2>1, <2>3 DEF SinkRate, RateWaits
    <3>2. sink = 1 /\ r # Zero => rate'[1] = r
      BY <2>1, <2>3 DEF SinkRate, RateWaits
    <3>. QED
      BY <2>1, <2>3, <3>1, <3>2 DEF RateWaits, SinkHasRate
  <2>. QED
    BY <2>2, <2>3
<1>7. CASE GetPlaybackSettings
  <2>1. /\ mAudioPlayRate' = IF sink # 0 THEN SinkReports ELSE mAudioPlayRate
        /\ UNCHANGED <<sink, opened, rate, mAudioPlayRateChanged, asked>>
    BY <1>7 DEF GetPlaybackSettings, NoSink
  <2>2. sink # 0 => SinkReports \in Rates \cup {Zero}
    BY PlayerAssumption DEF SinkReports, RateWaits
  <2>. QED
    BY <2>1, <2>2 DEF RateWaits, SinkHasRate
<1>8. ASSUME NEW loaded \in BOOLEAN, NEW created \in BOOLEAN, Construct(loaded, created)
      PROVE  UNCHANGED rateVars
  BY <1>8 DEF Construct
<1>9. ASSUME NEW file \in TrackLists, NEW stream \in BOOLEAN, SetDataSource(file, stream)
      PROVE  UNCHANGED rateVars
  BY <1>9 DEF SetDataSource
<1>10. ASSUME NEW call \in DOMAIN Taken, Control(call)
      PROVE  UNCHANGED rateVars
  BY <1>10 DEF Control
<1>11. ASSUME NEW us \in Positions, GetCurrentPosition(us) \/ Notify(us)
       PROVE  UNCHANGED rateVars
  BY <1>11 DEF GetCurrentPosition, Notify
<1>12. SeekTo \/ DeinitPlayer \/ DestroyPlayer \/ SetVideoSurfaceTexture \/ GetTrackInfo
          \/ UNCHANGED playerVars
       => UNCHANGED rateVars
  BY DEF SeekTo, DeinitPlayer, DestroyPlayer, SetVideoSurfaceTexture, GetTrackInfo, playerVars
<1>13. ASSUME NEW first \in Channels, NEW then \in Channels, NEW n \in 0 .. Len(Frames),
              Write(first, then, n)
       PROVE  UNCHANGED rateVars
  BY <1>13 DEF Write
<1>14. ASSUME NEW i, SelectTrack(i) \/ \E type \in AndroidTypes : GetSelectedTrack(type, i)
       PROVE  UNCHANGED rateVars
  BY <1>14 DEF SelectTrack, GetSelectedTrack
<1>. QED
  BY <1>1, <1>3, <1>4, <1>5, <1>6, <1>7, <1>8, <1>9, <1>10, <1>11, <1>12, <1>13, <1>14
     DEF PlayerNext

\* The first sink plays at the rate that was asked for, whenever that was.
THEOREM SinkHasRateAlways == PlayerSpec => []SinkHasRate
<1>1. PlayerInit => RateWaits
  BY PlayerAssumption DEF PlayerInit, NoSink, RateWaits, SinkHasRate
<1>2. RateWaits /\ [PlayerNext]_playerVars => RateWaits'
  BY RateWaitsStep
<1>3. RateWaits => SinkHasRate
  BY DEF RateWaits
<1>. QED
  BY <1>1, <1>2, <1>3, PTL DEF PlayerSpec

\* Only these operations answer.
LEMMA AnswerStays ==
    ASSUME [PlayerNext]_playerVars
    PROVE  \/ UNCHANGED answer
           \/ \E us \in Positions : GetCurrentPosition(us) \/ Notify(us)
           \/ SeekTo \/ Reset
           \/ \E first, then \in Channels, n \in 0 .. Len(Frames) : Write(first, then, n)
           \/ \E i \in DOMAIN shown : SelectTrack(i)
           \/ \E type \in AndroidTypes, i \in DOMAIN tracks : GetSelectedTrack(type, i)
<1>1. ASSUME NEW loaded, NEW created, Construct(loaded, created)
      PROVE  UNCHANGED answer
  BY <1>1 DEF Construct, trackVars
<1>2. ASSUME NEW file, NEW stream, SetDataSource(file, stream)
      PROVE  UNCHANGED answer
  BY <1>2 DEF SetDataSource
<1>3. ASSUME NEW call, Control(call)
      PROVE  UNCHANGED answer
  BY <1>3 DEF Control, trackVars
<1>4. ASSUME NEW i, SetAudioSink(i)
      PROVE  UNCHANGED answer
  BY <1>4 DEF SetAudioSink, trackVars
<1>5. ASSUME NEW r, SetPlaybackSettings(r)
      PROVE  UNCHANGED answer
  BY <1>5 DEF SetPlaybackSettings, trackVars
<1>6. DestructorReset \/ DeinitPlayer \/ DestroyPlayer \/ SetVideoSurfaceTexture
         \/ GetPlaybackSettings \/ Open \/ Close \/ GetTrackInfo \/ UNCHANGED playerVars
      => UNCHANGED answer
  BY DEF DestructorReset, DeinitPlayer, DestroyPlayer, SetVideoSurfaceTexture,
         GetPlaybackSettings, Open, Close, GetTrackInfo, trackVars, playerVars
<1>. QED
  BY <1>1, <1>2, <1>3, <1>4, <1>5, <1>6 DEF PlayerNext

(* Times.  What the app was told and sought is what Int32 makes of a time  *)
(* of the library, never negative.                                         *)

TimesAre ==
    /\ answer.kind = "position" => answer.of \in Nat /\ answer.ms = ToMs(answer.of)
    /\ answer.kind = "sought" => answer.of \in Nat /\ answer.us = ToUs(ToMs(answer.of))
    /\ answer.kind = "text" => answer.of \in Nat /\ answer.start = Int32(answer.of)

\* An int holds what is below 2^31.
LEMMA Int32Holds ==
    ASSUME NEW n \in Nat, n < Half
    PROVE  Int32(n) = n
<1>1. Half \in Nat \ {0} /\ n + Half \in Nat /\ n + Half < 2 * Half
  BY PlayerAssumption
<1>2. (n + Half) % (2 * Half) = n + Half
  BY <1>1
<1>. QED
  BY <1>1, <1>2 DEF Int32

\* Milliseconds cut off less than one.
LEMMA Milliseconds ==
    ASSUME NEW us \in Nat
    PROVE  /\ us \div PerMs \in Nat
           /\ (us \div PerMs) * PerMs <= us /\ us - (us \div PerMs) * PerMs < PerMs
BY PlayerAssumption

\* As long as the milliseconds fit.
LEMMA MillisecondsFit ==
    ASSUME NEW us \in Nat, us < Half * PerMs
    PROVE  us \div PerMs < Half
<1>1. PerMs \in Nat \ {0} /\ Half \in Nat \ {0}
  BY PlayerAssumption
<1>2. ASSUME NEW q \in Nat, q * PerMs <= us PROVE q < Half
  BY <1>1, <1>2
<1>. QED
  BY <1>2, Milliseconds

\* Seeking to the position that was told, and the time of a text, for positions
\* that an int holds.
THEOREM TimesSurviveAlways == PlayerSpec => []TimesSurvive
<1>1. PlayerInit => TimesAre
  BY DEF PlayerInit, Nothing, TimesAre
<1>2. TimesAre /\ [PlayerNext]_playerVars => TimesAre'
  <2> SUFFICES ASSUME TimesAre, [PlayerNext]_playerVars
               PROVE  TimesAre'
    OBVIOUS
  <2>1. CASE UNCHANGED answer
    BY <2>1 DEF TimesAre
  <2>2. ASSUME NEW us \in Positions, GetCurrentPosition(us) \/ Notify(us)
        PROVE  TimesAre'
    BY <2>2, PlayerAssumption DEF GetCurrentPosition, Notify, TimesAre
  <2>3. CASE SeekTo
    BY <2>3 DEF SeekTo, TimesAre
  <2>4. CASE Reset
    BY <2>4 DEF Reset, Nothing, TimesAre
  <2>5. ASSUME NEW first \in Channels, NEW then \in Channels, NEW n \in 0 .. Len(Frames),
               Write(first, then, n)
        PROVE  TimesAre'
    BY <2>5 DEF Write, TimesAre
  <2>6. ASSUME NEW i, SelectTrack(i) \/ \E type \in AndroidTypes : GetSelectedTrack(type, i)
        PROVE  TimesAre'
    BY <2>6 DEF SelectTrack, GetSelectedTrack, TimesAre
  <2>. QED
    BY <2>1, <2>2, <2>3, <2>4, <2>5, <2>6, AnswerStays DEF PlayerNext
<1>3. TimesAre => TimesSurvive
  <2> SUFFICES ASSUME TimesAre PROVE TimesSurvive
    OBVIOUS
  <2>1. ASSUME answer.kind = "sought", answer.of < Half * PerMs
        PROVE  answer.us <= answer.of /\ answer.of - answer.us < PerMs
    <3>1. answer.of \in Nat /\ answer.us = ToUs(ToMs(answer.of))
      BY <2>1 DEF TimesAre
    <3>2. ToMs(answer.of) = answer.of \div PerMs
      BY <2>1, <3>1, Milliseconds, MillisecondsFit, Int32Holds DEF ToMs
    <3>. QED
      BY <3>1, <3>2, Milliseconds DEF ToUs
  <2>2. answer.kind = "text" /\ answer.of < Half => answer.start = answer.of
    BY Int32Holds DEF TimesAre
  <2>. QED
    BY <2>1, <2>2 DEF TimesSurvive
<1>. QED
  BY <1>1, <1>2, <1>3, PTL DEF PlayerSpec

\* What write makes of a frame, once and twice.
LEMMA MixedTwice ==
    ASSUME NEW first \in Channels, NEW then \in Channels, NEW k \in DOMAIN Frames
    PROVE  LET Chosen(mode) == [side \in 1 .. 2 |-> Frames[k][Sides[mode][side]]]
           IN  /\ Mixed(first, Frames[k]) = Chosen(first)
               /\ Mixed(then, Mixed(first, Frames[k])) =
                      Chosen(IF first = "stereo" THEN then ELSE first)
<1>1. ASSUME NEW frame, frame = <<frame[1], frame[2]>>, NEW mode \in Channels
      PROVE  Mixed(mode, frame) = <<frame[Sides[mode][1]], frame[Sides[mode][2]]>>
  BY <1>1 DEF Mixed, Sides, Channels
<1>2. Frames[k] = <<Frames[k][1], Frames[k][2]>>
  BY DEF Frames
<1> DEFINE once == Mixed(first, Frames[k])
           Chosen(mode) == [side \in 1 .. 2 |-> Frames[k][Sides[mode][side]]]
<1>3. ASSUME NEW mode
      PROVE  Chosen(mode) = <<Frames[k][Sides[mode][1]], Frames[k][Sides[mode][2]]>>
  OBVIOUS
<1>4. once = Chosen(first)
  BY <1>1, <1>2, <1>3
<1>5. once = <<once[1], once[2]>>
  BY <1>3, <1>4
<1>6. Mixed(then, once) = <<once[Sides[then][1]], once[Sides[then][2]]>>
  BY <1>1, <1>5
<1>7. /\ once[1] = Frames[k][Sides[first][1]]
      /\ once[2] = Frames[k][Sides[first][2]]
  BY <1>4
<1>8. Mixed(then, once) = Chosen(IF first = "stereo" THEN then ELSE first)
  <2> HIDE DEF once, Chosen
  <2>1. CASE first = "stereo"
    BY <1>3, <1>6, <1>7, <2>1 DEF Sides, Channels
  <2>2. CASE first # "stereo"
    BY <1>3, <1>6, <1>7, <2>2 DEF Sides, Channels
  <2>. QED
    BY <2>1, <2>2
<1>. QED
  BY <1>4, <1>8

\* Listeners hear the channel that was chosen, whatever part of a buffer the
\* sink takes at once.
THEOREM HeardAsChosenAlways == PlayerSpec => []HeardAsChosen
<1>1. PlayerInit => HeardAsChosen
  BY DEF PlayerInit, Nothing, HeardAsChosen
<1>2. HeardAsChosen /\ [PlayerNext]_playerVars => HeardAsChosen'
  <2> SUFFICES ASSUME HeardAsChosen, [PlayerNext]_playerVars
               PROVE  HeardAsChosen'
    OBVIOUS
  <2>1. CASE UNCHANGED answer
    BY <2>1 DEF HeardAsChosen
  <2>2. ASSUME answer'.kind # "heard" PROVE HeardAsChosen'
    BY <2>2 DEF HeardAsChosen
  <2>3. ASSUME NEW us, GetCurrentPosition(us) \/ Notify(us) PROVE answer'.kind # "heard"
    BY <2>3 DEF GetCurrentPosition, Notify
  <2>4. SeekTo \/ Reset => answer'.kind # "heard"
    BY DEF SeekTo, Reset, Nothing
  <2>5. ASSUME NEW i, SelectTrack(i) \/ \E type \in AndroidTypes : GetSelectedTrack(type, i)
        PROVE  answer'.kind # "heard"
    BY <2>5 DEF SelectTrack, GetSelectedTrack
  <2>6. ASSUME NEW first \in Channels, NEW then \in Channels, NEW n \in 0 .. Len(Frames),
               Write(first, then, n)
        PROVE  HeardAsChosen'
    <3>1. answer'.first = first /\ answer'.then = then
      BY <2>6 DEF Write
    <3>2. ASSUME NEW k \in DOMAIN Frames
          PROVE  answer'.frames[k] = Mixed(first, Frames[k])
                    \/ answer'.frames[k] = Mixed(then, Mixed(first, Frames[k]))
      BY <2>6, <3>2 DEF Write
    <3>. QED
      BY <3>1, <3>2, MixedTwice DEF HeardAsChosen
  <2>. QED
    BY <2>1, <2>2, <2>3, <2>4, <2>5, <2>6, AnswerStays
<1>. QED
  BY <1>1, <1>2, PTL DEF PlayerSpec

(* Tracks.  A track of the reply is found by its place among those listed, *)
(* an answer about a track is of the file the library has.                 *)

\* The first row of the table in which a column has a type.
LEMMA FirstRow ==
    ASSUME NEW from \in {1, 2}, NEW to \in {1, 2}, NEW type,
           NEW row \in DOMAIN kTrackTypeMap, kTrackTypeMap[row][from] = type,
           \A i \in 1 .. row - 1 : kTrackTypeMap[i][from] # type
    PROVE  Translate(type, from, to) = kTrackTypeMap[row][to]
<1> DEFINE rows == {i \in 1 .. Len(kTrackTypeMap) : kTrackTypeMap[i][from] = type}
<1>1. Len(kTrackTypeMap) = 6 /\ DOMAIN kTrackTypeMap = 1 .. 6
  BY DEF kTrackTypeMap
<1>2. row \in rows /\ \A i \in rows : row <= i
  BY <1>1
<1>3. \A i \in rows : (\A j \in rows : i <= j) => i = row
  BY <1>1, <1>2
<1>4. Min(rows) = row
  BY <1>2, <1>3 DEF Min
<1>5. SelectInSeq(kTrackTypeMap, LAMBDA r : r[from] = type) = row
  BY <1>2, <1>4 DEF SelectInSeq
<1>6. row # 0
  BY <1>1
<1>. QED
  BY <1>5, <1>6 DEF Translate

\* Types but SUBTITLE come back from the library as they went.
LEMMA ThereAndBack ==
    ASSUME NEW type \in AndroidTypes, type # "subtitle"
    PROVE  ToAndroid(ToLibrary(type)) = type
<1>1. DOMAIN kTrackTypeMap = 1 .. 6
  BY DEF kTrackTypeMap
<1>2. PICK row \in {1, 2, 3, 4, 6} : kTrackTypeMap[row][1] = type
  <2>1. PICK i \in 1 .. 6 : kTrackTypeMap[i][1] = type
    BY <1>1 DEF AndroidTypes
  <2>. QED
    BY <2>1 DEF kTrackTypeMap
<1>3. /\ \A i \in 1 .. row - 1 : kTrackTypeMap[i][1] # type
      /\ \A i \in 1 .. row - 1 : kTrackTypeMap[i][2] # kTrackTypeMap[row][2]
  BY <1>2 DEF kTrackTypeMap
<1>4. ToLibrary(type) = kTrackTypeMap[row][2]
  BY <1>1, <1>2, <1>3, FirstRow DEF ToLibrary
<1>5. ToAndroid(kTrackTypeMap[row][2]) = kTrackTypeMap[row][1]
  BY <1>1, <1>3, FirstRow DEF ToAndroid
<1>. QED
  BY <1>2, <1>4, <1>5

\* As long as every track is listed, the place of a type in the reply is that of
\* the track.
LEMMA PlaceInReply ==
    ASSUME tracks \in Seq(LibraryTypes), NEW n \in DOMAIN Shown,
           \A i \in 1 .. n : IsListed(i)
    PROVE  n \in DOMAIN tracks /\ Shown[n] = ToAndroid(tracks[n])
<1> DEFINE upTo(k) == {i \in 1 .. k : IsListed(i)}
<1>1. Len(tracks) \in Nat /\ DOMAIN tracks = 1 .. Len(tracks)
  OBVIOUS
<1>2. ASSUME NEW k \in Nat
      PROVE  IsFiniteSet(upTo(k)) /\ Cardinality(upTo(k)) \in 0 .. k
  <2>1. IsFiniteSet(1 .. k) /\ Cardinality(1 .. k) = k
    BY FS_Interval
  <2>. QED
    BY <2>1, FS_Subset, FS_CardinalityType
<1>3. \A k \in Nat : ListedUpTo(k) = Cardinality(upTo(k))
  BY DEF ListedUpTo
<1>4. n \in 1 .. Len(tracks)
  <2>1. n \in 1 .. ListedUpTo(Len(tracks))
    BY DEF Shown
  <2>2. ListedUpTo(Len(tracks)) \in 0 .. Len(tracks)
    BY <1>1, <1>2, <1>3
  <2>. QED
    BY <1>1, <2>1, <2>2
<1>5. ASSUME NEW k \in 0 .. n
      PROVE  ListedUpTo(k) = k
  <2>1. upTo(k) = 1 .. k
    BY <1>4
  <2>2. k \in Nat /\ Cardinality(1 .. k) = k
    BY <1>4, FS_Interval
  <2>. QED
    BY <1>3, <2>1, <2>2
<1>6. ASSUME NEW i \in DOMAIN tracks, IsListed(i), ListedUpTo(i) = n
      PROVE  i = n
  <2>1. i <= n => i = n
    BY <1>1, <1>4, <1>5, <1>6
  <2>2. ASSUME i > n PROVE FALSE
    <3>1. upTo(n) \subseteq upTo(i) /\ upTo(n) # upTo(i)
      BY <1>1, <1>4, <1>6, <2>2
    <3>2. Cardinality(upTo(n)) < Cardinality(upTo(i))
      <4>1. IsFiniteSet(upTo(i)) /\ Cardinality(upTo(n)) \in Nat /\ Cardinality(upTo(i)) \in Nat
        BY <1>1, <1>2, <1>4
      <4>2. Cardinality(upTo(n)) <= Cardinality(upTo(i))
            /\ (Cardinality(upTo(n)) = Cardinality(upTo(i)) => upTo(n) = upTo(i))
        BY <3>1, <4>1, FS_Subset
      <4>. QED
        BY <3>1, <4>1, <4>2
    <3>3. Cardinality(upTo(n)) = n /\ Cardinality(upTo(i)) = n
      BY <1>1, <1>3, <1>4, <1>5, <1>6
    <3>. QED
      BY <1>4, <3>2, <3>3
  <2>. QED
    BY <1>1, <1>4, <2>1, <2>2
<1>7. n \in DOMAIN tracks /\ IsListed(n) /\ ListedUpTo(n) = n
  BY <1>1, <1>4, <1>5
<1>8. (CHOOSE i \in DOMAIN tracks : IsListed(i) /\ ListedUpTo(i) = n) = n
  BY <1>6, <1>7
<1>. QED
  BY <1>7, <1>8 DEF Shown

AnswersAreOfFile ==
    /\ tracks \in Seq(LibraryTypes)
    /\ phase # "ready" => state = "idle"
    /\ state = "idle" => tracks = <<>>
    /\ phase \in {"none", "ready"} /\ state = "idle" => DOMAIN shown = {} /\ answer.kind # "track"
    /\ phase = "ready" => DOMAIN shown = {} \/ shown = Shown
    /\ PicksWhatIsShown

\* The app picks the tracks that it is shown, however often the source changed.
THEOREM PicksWhatIsShownAlways == PlayerSpec => []PicksWhatIsShown
<1>1. PlayerInit => AnswersAreOfFile
  BY DEF PlayerInit, Nothing, AnswersAreOfFile, PicksWhatIsShown
<1>2. AnswersAreOfFile /\ [PlayerNext]_playerVars => AnswersAreOfFile'
  <2> SUFFICES ASSUME AnswersAreOfFile, [PlayerNext]_playerVars
               PROVE  AnswersAreOfFile'
    OBVIOUS
  <2>0. UNCHANGED tracks => Shown' = Shown
    BY DEF Shown, ListedUpTo, IsListed
  <2>1. UNCHANGED <<phase, state, tracks, shown, answer>> => AnswersAreOfFile'
    BY <2>0 DEF AnswersAreOfFile, PicksWhatIsShown
  <2>2. ASSUME UNCHANGED <<phase, tracks, shown, answer>>,
               state # "idle" /\ state' # "idle"
        PROVE  AnswersAreOfFile'
    BY <2>0, <2>2 DEF AnswersAreOfFile, PicksWhatIsShown
  <2>3. ASSUME UNCHANGED <<phase, state, tracks, shown>>, phase = "ready",
               answer'.kind # "track"
        PROVE  AnswersAreOfFile'
    BY <2>0, <2>3 DEF AnswersAreOfFile, PicksWhatIsShown
  <2>4. ASSUME NEW loaded \in BOOLEAN, NEW created \in BOOLEAN, Construct(loaded, created)
        PROVE  AnswersAreOfFile'
    BY <2>0, <2>4 DEF Construct, trackVars, AnswersAreOfFile, PicksWhatIsShown
  <2>5. ASSUME NEW file \in TrackLists, NEW stream \in BOOLEAN, SetDataSource(file, stream)
        PROVE  AnswersAreOfFile'
    <3>1. CASE state = "idle" /\ state' = "sourced" /\ tracks' = file
      BY <2>5, <3>1, TracksAssumption
      DEF SetDataSource, Called, AnswersAreOfFile, PicksWhatIsShown
    <3>2. CASE UNCHANGED <<state, tracks>>
      BY <2>1, <2>5, <3>2 DEF SetDataSource
    <3>. QED
      BY <2>5, <3>1, <3>2 DEF SetDataSource, GivesSource, Sourced
  <2>6. ASSUME NEW call \in DOMAIN Taken, Control(call)
        PROVE  AnswersAreOfFile'
    BY <2>1, <2>2, <2>6 DEF Control, LibraryCall, Taken, Leads, trackVars
  <2>7. ASSUME NEW us \in Positions, GetCurrentPosition(us) \/ Notify(us)
        PROVE  AnswersAreOfFile'
    BY <2>3, <2>7 DEF GetCurrentPosition, Notify, Called, objectVars
  <2>8. CASE SeekTo
    BY <2>3, <2>8 DEF SeekTo, Called, objectVars
  <2>9. CASE Reset \/ DestructorReset
    <3>1. state' = "idle" /\ tracks' = <<>>
      BY <2>9 DEF Reset, DestructorReset, LibraryReset
    <3>2. \/ phase' = "resetting"
          \/ phase' = "ready" /\ DOMAIN shown' = {} /\ answer'.kind # "track"
      BY <2>9 DEF Reset, DestructorReset, Called, Nothing
    <3>. QED
      BY <3>1, <3>2 DEF AnswersAreOfFile, PicksWhatIsShown
  <2>10. CASE DeinitPlayer \/ DestroyPlayer
    BY <2>10 DEF DeinitPlayer, DestroyPlayer, trackVars, AnswersAreOfFile, PicksWhatIsShown
  <2>11. ASSUME NEW i, SetAudioSink(i)
         PROVE  AnswersAreOfFile'
    BY <2>1, <2>11 DEF SetAudioSink, trackVars
  <2>12. ASSUME NEW r, SetPlaybackSettings(r)
         PROVE  AnswersAreOfFile'
    BY <2>1, <2>12 DEF SetPlaybackSettings, objectVars, trackVars
  <2>13. CASE SetVideoSurfaceTexture \/ GetPlaybackSettings \/ Open \/ Close
              \/ UNCHANGED playerVars
    BY <2>1, <2>13 DEF SetVideoSurfaceTexture, GetPlaybackSettings, Open, Close, objectVars,
                       trackVars, playerVars
  <2>14. ASSUME NEW first, NEW then, NEW n, Write(first, then, n)
         PROVE  AnswersAreOfFile'
    <3>1. phase = "ready"
      BY <2>14 DEF Write, Running, AnswersAreOfFile
    <3>. QED
      BY <2>3, <2>14, <3>1 DEF Write, objectVars
  <2>15. CASE GetTrackInfo
    <3>1. UNCHANGED <<phase, state, tracks, answer>> /\ phase = "ready" /\ shown' = Shown
      BY <2>15 DEF GetTrackInfo, Called, objectVars
    <3>2. Shown' = Shown
      BY <2>0, <3>1
    <3>3. tracks = <<>> => DOMAIN Shown = {}
      BY FS_EmptySet DEF Shown, ListedUpTo
    <3>. QED
      BY <3>1, <3>2, <3>3 DEF AnswersAreOfFile, PicksWhatIsShown
  <2>16. ASSUME NEW i \in DOMAIN shown, SelectTrack(i)
         PROVE  AnswersAreOfFile'
    <3>1. UNCHANGED <<phase, state, tracks, shown>> /\ phase = "ready" /\ shown = Shown
      BY <2>16 DEF SelectTrack, Called, objectVars, AnswersAreOfFile
    <3>2. Shown' = Shown
      BY <2>0, <3>1
    <3>3. answer'.type = Shown[i] /\ answer'.index = i
      BY <2>16, <3>1 DEF SelectTrack
    <3>4. (\A j \in 1 .. i : Listed(ToAndroid(tracks[j]))) => ToAndroid(tracks[i]) = Shown[i]
      BY <3>1, PlaceInReply DEF IsListed, AnswersAreOfFile
    <3>5. PicksWhatIsShown'
      BY <3>1, <3>3, <3>4 DEF PicksWhatIsShown
    <3>6. state # "idle"
      BY <3>1 DEF AnswersAreOfFile
    <3>. QED
      BY <3>1, <3>2, <3>5, <3>6 DEF AnswersAreOfFile
  <2>17. ASSUME NEW type \in AndroidTypes, NEW i \in DOMAIN tracks, GetSelectedTrack(type, i)
         PROVE  AnswersAreOfFile'
    <3>1. /\ UNCHANGED <<phase, state, tracks, shown>> /\ phase = "ready"
          /\ answer'.type = type /\ answer'.index = i /\ tracks[i] = ToLibrary(type)
      BY <2>17 DEF GetSelectedTrack, Called, objectVars
    <3>2. Shown' = Shown
      BY <2>0, <3>1
    <3>3. PicksWhatIsShown'
      BY <3>1, ThereAndBack DEF PicksWhatIsShown
    <3>4. state # "idle"
      BY DEF AnswersAreOfFile
    <3>. QED
      BY <3>1, <3>2, <3>3, <3>4 DEF AnswersAreOfFile
  <2>. QED
    BY <2>4, <2>5, <2>6, <2>7, <2>8, <2>9, <2>10, <2>11, <2>12, <2>13, <2>14, <2>15,
       <2>16, <2>17 DEF PlayerNext
<1>3. AnswersAreOfFile => PicksWhatIsShown
  BY DEF AnswersAreOfFile
<1>. QED
  BY <1>1, <1>2, <1>3, PTL DEF PlayerSpec

(* The types of the player's variables.                                    *)

\* Whatever the library says, the app is told a type of Android's.
LEMMA TypesOfAndroid ==
    ASSUME NEW type
    PROVE  ToAndroid(type) \in AndroidTypes
<1> DEFINE rows == {i \in 1 .. 6 : kTrackTypeMap[i][2] = type}
<1>1. DOMAIN kTrackTypeMap = 1 .. 6 /\ Len(kTrackTypeMap) = 6
  BY DEF kTrackTypeMap
<1>2. \A i \in 1 .. 6 : kTrackTypeMap[i][1] \in AndroidTypes
  BY <1>1 DEF AndroidTypes
<1>3. CASE \E row \in rows : \A i \in rows : row <= i
  <2>1. PICK row \in rows : \A i \in rows : row <= i
    BY <1>3
  <2>2. \A i \in 1 .. row - 1 : kTrackTypeMap[i][2] # type
    BY <2>1
  <2>3. ToAndroid(type) = kTrackTypeMap[row][1]
    BY <1>1, <2>1, <2>2, FirstRow DEF ToAndroid
  <2>. QED
    BY <1>2, <2>1, <2>3
<1>4. CASE rows = {}
  <2>1. SelectInSeq(kTrackTypeMap, LAMBDA r : r[2] = type) = 0
    BY <1>1, <1>4 DEF SelectInSeq
  <2>2. ToAndroid(type) = "unknown"
    BY <2>1 DEF ToAndroid, Translate
  <2>3. "unknown" \in AndroidTypes
    BY <1>1 DEF AndroidTypes, kTrackTypeMap
  <2>. QED
    BY <2>2, <2>3
<1>5. (\E row \in rows : \A i \in rows : row <= i) \/ rows = {}
  <2>1. \A i \in rows : i \in {1, 2, 3, 4, 5, 6}
    OBVIOUS
  <2> HIDE DEF rows
  <2>. QED
    BY <2>1
<1>. QED
  BY <1>3, <1>4, <1>5

\* The list the app is shown.
LEMMA ShownIsList ==
    ASSUME tracks \in Seq(LibraryTypes)
    PROVE  Shown \in Seq(AndroidTypes)
<1> DEFINE k == Len(tracks)
<1>1. k \in Nat /\ IsFiniteSet(1 .. k)
  BY FS_Interval
<1>2. IsFiniteSet({i \in 1 .. k : IsListed(i)})
  BY <1>1, FS_Subset
<1>3. ListedUpTo(k) \in Nat
  BY <1>2, FS_CardinalityType DEF ListedUpTo
<1>4. Shown \in [1 .. ListedUpTo(k) -> AndroidTypes]
  BY TypesOfAndroid DEF Shown
<1>. QED
  BY <1>3, <1>4

PlayerTypes ==
    /\ PlayerTypeOK
    /\ tracks \in Seq(LibraryTypes) /\ shown \in Seq(AndroidTypes)

LEMMA AnInt == \A n \in Nat : Int32(n) \in -Half .. Half - 1
<1>1. Half \in Nat \ {0}
  BY PlayerAssumption
<1>2. \A n \in Nat : (n + Half) % (2 * Half) \in 0 .. 2 * Half - 1
  BY <1>1
<1>. QED
  BY <1>1, <1>2 DEF Int32

LEMMA AnswerTypes ==
    ASSUME PlayerTypes, [PlayerNext]_playerVars
    PROVE  \/ answer' = Nothing
           \/ answer' \in [kind : {"track"}, type : AndroidTypes, index : Nat]
           \/ answer' \in [kind : {"position"}, of : Positions, ms : -Half .. Half - 1]
           \/ answer' \in [kind : {"sought"}, of : Positions, us : Int]
           \/ answer' \in [kind : {"text"}, of : Positions, start : -Half .. Half - 1]
           \/ answer'.kind = "heard" /\ answer'.first \in Channels /\ answer'.then \in Channels
<1>1. UNCHANGED answer \/ Reset => answer' = answer \/ answer' = Nothing
  BY DEF Reset
<1>2. ASSUME NEW us \in Positions, GetCurrentPosition(us)
      PROVE  answer' \in [kind : {"position"}, of : Positions, ms : -Half .. Half - 1]
  <2>1. us \in Nat /\ us \div PerMs \in Nat
    BY PlayerAssumption, Milliseconds
  <2>. QED
    BY <1>2, <2>1, AnInt DEF GetCurrentPosition, ToMs
<1>3. ASSUME NEW us \in Positions, Notify(us)
      PROVE  answer' \in [kind : {"text"}, of : Positions, start : -Half .. Half - 1]
  BY <1>3, PlayerAssumption, AnInt DEF Notify
<1>4. ASSUME SeekTo
      PROVE  answer' \in [kind : {"sought"}, of : Positions, us : Int]
  <2>1. answer.kind = "position"
        /\ answer' = [kind |-> "sought", of |-> answer.of, us |-> ToUs(answer.ms)]
    BY <1>4 DEF SeekTo
  <2>2. answer \in [kind : {"position"}, of : Positions, ms : -Half .. Half - 1]
    BY <2>1 DEF PlayerTypes, PlayerTypeOK, Nothing
  <2>3. answer.of \in Positions /\ ToUs(answer.ms) \in Int
    BY <2>2, PlayerAssumption DEF ToUs
  <2>. QED
    BY <2>1, <2>3
<1>5. ASSUME NEW first \in Channels, NEW then \in Channels, NEW n, Write(first, then, n)
      PROVE  answer'.kind = "heard" /\ answer'.first \in Channels /\ answer'.then \in Channels
  BY <1>5 DEF Write
<1>6. ASSUME NEW i, SelectTrack(i)
      PROVE  answer' \in [kind : {"track"}, type : AndroidTypes, index : Nat]
  BY <1>6 DEF SelectTrack, PlayerTypes
<1>7. ASSUME NEW type \in AndroidTypes, NEW i \in DOMAIN tracks, GetSelectedTrack(type, i)
      PROVE  answer' \in [kind : {"track"}, type : AndroidTypes, index : Nat]
  BY <1>7 DEF GetSelectedTrack, PlayerTypes
<1>. QED
  BY <1>1, <1>2, <1>3, <1>4, <1>5, <1>6, <1>7, AnswerStays DEF PlayerTypes, PlayerTypeOK

\* The other variables, of which each call sets a few.
ObjectTypes ==
    /\ phase \in {"none", "ready", "resetting", "deleting", "gone", "crashed"}
    /\ live \subseteq Objects /\ held \subseteq Objects
    /\ state \in States
RateTypes ==
    /\ sink \in Sinks \cup {NoSink} /\ opened \subseteq Sinks
    /\ rate \in [Sinks -> Rates \cup {Zero}]
    /\ mAudioPlayRate \in Rates \cup {Zero} /\ mAudioPlayRateChanged \in BOOLEAN
    /\ asked \in Rates \cup {Zero}

LEMMA PlayerTypesStep ==
    ASSUME PlayerTypes, [PlayerNext]_playerVars
    PROVE  ObjectTypes' /\ RateTypes' /\ tracks' \in Seq(LibraryTypes)
           /\ shown' \in Seq(AndroidTypes)
<1> DEFINE Trk == tracks \in Seq(LibraryTypes)
           Shw == shown \in Seq(AndroidTypes)
           Good == ObjectTypes' /\ RateTypes' /\ Trk' /\ Shw'
<1> SUFFICES Good
  OBVIOUS
<1>0. ObjectTypes /\ RateTypes /\ Trk /\ Shw
  BY DEF PlayerTypes, PlayerTypeOK, ObjectTypes, RateTypes
<1>1. /\ UNCHANGED objectVars => ObjectTypes'
      /\ UNCHANGED rateVars => RateTypes'
      /\ UNCHANGED tracks => Trk'
      /\ UNCHANGED shown => Shw'
  BY <1>0 DEF objectVars, rateVars, ObjectTypes, RateTypes
<1>2. /\ Msg \in Objects /\ Subtitle \in Objects /\ Video \in Objects
      /\ \A i \in Sinks : Audio(i) \in Objects
      /\ <<>> \in Seq(LibraryTypes) /\ <<>> \in Seq(AndroidTypes) /\ "idle" \in States
  BY DEF Objects, States
<1>3. ASSUME NEW loaded \in BOOLEAN, NEW created \in BOOLEAN, Construct(loaded, created)
      PROVE  Good
  BY <1>0, <1>1, <1>2, <1>3 DEF Construct, Hand, ObjectTypes, trackVars
<1>4. ASSUME NEW file \in TrackLists, NEW stream \in BOOLEAN, SetDataSource(file, stream)
      PROVE  Good
  <2>1. state' \in States /\ Trk'
    BY <1>0, <1>4, TracksAssumption DEF SetDataSource, GivesSource, Sourced, ObjectTypes, States
  <2>. QED
    BY <1>0, <1>1, <1>4, <2>1 DEF SetDataSource, ObjectTypes
<1>5. ASSUME NEW call \in DOMAIN Taken, Control(call)
      PROVE  Good
  <2>1. state' \in States
    BY <1>0, <1>5 DEF Control, LibraryCall, Taken, Leads, ObjectTypes, States
  <2>. QED
    BY <1>0, <1>1, <1>5, <2>1 DEF Control, ObjectTypes, trackVars
<1>6. ASSUME UNCHANGED <<objectVars, rateVars, tracks, shown>>
      PROVE  Good
  BY <1>1, <1>6
<1>7. ASSUME NEW us, GetCurrentPosition(us) \/ Notify(us)
      PROVE  Good
  BY <1>6, <1>7 DEF GetCurrentPosition, Notify
<1>8. CASE Reset \/ DestructorReset
  <2>1. /\ state' = "idle" /\ tracks' = <<>> /\ opened' = {}
        /\ phase' \in {phase, "resetting"} /\ shown' \in {shown, <<>>}
        /\ UNCHANGED <<live, held, sink, rate, mAudioPlayRate, mAudioPlayRateChanged, asked>>
    BY <1>8 DEF Reset, DestructorReset, LibraryReset
  <2>2. ObjectTypes' /\ RateTypes'
    BY <1>0, <1>2, <2>1 DEF ObjectTypes, RateTypes
  <2>. QED
    BY <1>0, <1>2, <2>1, <2>2
<1>9. CASE DeinitPlayer \/ DestroyPlayer
  <2>1. ObjectTypes'
    BY <1>0, <1>2, <1>9 DEF DeinitPlayer, DestroyPlayer, ObjectTypes
  <2>. QED
    BY <1>1, <1>9, <2>1 DEF DeinitPlayer, DestroyPlayer, trackVars
<1>10. CASE SetVideoSurfaceTexture
  <2>1. ObjectTypes'
    BY <1>0, <1>2, <1>10 DEF SetVideoSurfaceTexture, SetNativeWindow, Hand, ObjectTypes
  <2>. QED
    BY <1>1, <1>10, <2>1 DEF SetVideoSurfaceTexture, trackVars
<1>11. ASSUME NEW i \in Sinks, NEW r \in Rates \cup {Zero}, SinkRate(i, r)
       PROVE  rate' \in [Sinks -> Rates \cup {Zero}]
  BY <1>0, <1>11 DEF SinkRate, RateTypes
<1>12. ASSUME NEW i \in Sinks, SetAudioSink(i)
       PROVE  Good
  <2>1. ObjectTypes'
    BY <1>0, <1>2, <1>12 DEF SetAudioSink, NewSink, Hand, ObjectTypes
  <2>2. RateTypes'
    BY <1>0, <1>11, <1>12 DEF SetAudioSink, NewSink, RateTypes
  <2>. QED
    BY <1>1, <1>12, <2>1, <2>2 DEF SetAudioSink, trackVars
<1>13. ASSUME NEW r \in Rates \cup {Zero, Invalid}, SetPlaybackSettings(r)
       PROVE  Good
  <2>1. r \in Rates \cup {Zero}
    BY <1>13 DEF SetPlaybackSettings
  <2>2. RateTypes'
    BY <1>0, <1>11, <1>13, <2>1 DEF SetPlaybackSettings, TellSpeed, RateTypes
  <2>. QED
    BY <1>1, <1>13, <2>2 DEF SetPlaybackSettings, trackVars
<1>14. CASE GetPlaybackSettings
  <2>1. SinkReports \in Rates \cup {Zero}
    BY <1>0, PlayerAssumption DEF SinkReports, RateTypes
  <2>2. RateTypes'
    BY <1>0, <1>14, <2>1 DEF GetPlaybackSettings, RateTypes
  <2>. QED
    BY <1>1, <1>14, <2>2 DEF GetPlaybackSettings, trackVars
<1>15. CASE Open \/ Close
  <2>1. RateTypes'
    BY <1>0, <1>15 DEF Open, Close, RateTypes
  <2>. QED
    BY <1>1, <1>15, <2>1 DEF Open, Close, trackVars
<1>16. ASSUME NEW first, NEW then, NEW n, Write(first, then, n)
       PROVE  Good
  BY <1>6, <1>16 DEF Write
<1>17. CASE GetTrackInfo
  BY <1>0, <1>1, <1>17, ShownIsList DEF GetTrackInfo
<1>18. (\E i \in DOMAIN shown : SelectTrack(i)) => Good
  BY <1>6 DEF SelectTrack
<1>19. (\E type \in AndroidTypes, i \in DOMAIN tracks : GetSelectedTrack(type, i)) => Good
  BY <1>6 DEF GetSelectedTrack
<1>20. SeekTo \/ UNCHANGED playerVars => Good
  BY <1>6 DEF SeekTo, playerVars, trackVars
<1> HIDE DEF Good
<1>21. /\ (\E loaded, created \in BOOLEAN : Construct(loaded, created)) => Good
       /\ (\E file \in TrackLists, stream \in BOOLEAN : SetDataSource(file, stream)) => Good
       /\ (\E call \in DOMAIN Taken : Control(call)) => Good
       /\ (\E us \in Positions : GetCurrentPosition(us) \/ Notify(us)) => Good
       /\ (\E i \in Sinks : SetAudioSink(i)) => Good
       /\ (\E r \in Rates \cup {Zero, Invalid} : SetPlaybackSettings(r)) => Good
       /\ (\E first, then \in Channels, n \in 0 .. Len(Frames) : Write(first, then, n)) => Good
  <2>1. (\E file \in TrackLists, stream \in BOOLEAN : SetDataSource(file, stream)) => Good
    BY <1>4
  <2>2. (\E r \in Rates \cup {Zero, Invalid} : SetPlaybackSettings(r)) => Good
    BY <1>13
  <2>3. (\E us \in Positions : GetCurrentPosition(us) \/ Notify(us)) => Good
    BY <1>7
  <2>. QED
    BY <2>1, <2>2, <2>3, <1>3, <1>5, <1>12, <1>16
<1>22. SeekTo \/ Reset \/ DestructorReset \/ DeinitPlayer \/ DestroyPlayer \/ SetVideoSurfaceTexture
       \/ GetPlaybackSettings \/ Open \/ Close \/ GetTrackInfo \/ UNCHANGED playerVars => Good
  BY <1>8, <1>9, <1>10, <1>14, <1>15, <1>17, <1>20
<1>23. CASE PlayerNext
  BY <1>18, <1>19, <1>21, <1>22, <1>23 DEF PlayerNext
<1>. QED
  BY <1>22, <1>23

\* The player's variables keep their types: an answer is a record of its kind,
\* with times that an int holds, and a rate is never one that was refused.
THEOREM PlayerTypesHold == PlayerSpec => []PlayerTypeOK
<1>1. PlayerInit => PlayerTypes
  <2> SUFFICES ASSUME PlayerInit PROVE PlayerTypes
    OBVIOUS
  <2>1. /\ phase \in {"none", "ready", "resetting", "deleting", "gone", "crashed"}
        /\ live \subseteq Objects /\ held \subseteq Objects /\ state \in States
    BY DEF PlayerInit, States
  <2>2. /\ sink \in Sinks \cup {NoSink} /\ opened \subseteq Sinks
        /\ rate \in [Sinks -> Rates \cup {Zero}]
        /\ mAudioPlayRate \in Rates \cup {Zero} /\ mAudioPlayRateChanged \in BOOLEAN
        /\ asked \in Rates \cup {Zero}
    BY PlayerAssumption DEF PlayerInit
  <2>3. tracks \in Seq(LibraryTypes) /\ shown \in Seq(AndroidTypes) /\ shown = <<>>
        /\ answer = Nothing
    BY DEF PlayerInit
  <2>4. \A i \in DOMAIN shown : shown[i] \in AndroidTypes
    BY <2>3
  <2>. QED
    BY <2>1, <2>2, <2>3, <2>4, Zenon DEF PlayerTypes, PlayerTypeOK
<1>2. PlayerTypes /\ [PlayerNext]_playerVars => PlayerTypes'
  <2> SUFFICES ASSUME PlayerTypes, [PlayerNext]_playerVars
               PROVE  PlayerTypes'
    OBVIOUS
  <2>1. ObjectTypes' /\ RateTypes' /\ tracks' \in Seq(LibraryTypes) /\ shown' \in Seq(AndroidTypes)
    BY PlayerTypesStep
  <2>2. \A i \in DOMAIN shown' : shown'[i] \in AndroidTypes
    BY <2>1
  <2>. QED
    BY <2>1, <2>2, AnswerTypes DEF PlayerTypes, PlayerTypeOK, ObjectTypes, RateTypes
<1>3. PlayerTypes => PlayerTypeOK
  BY DEF PlayerTypes
<1>. QED
  BY <1>1, <1>2, <1>3, PTL DEF PlayerSpec

(* The metadata retriever.  While nothing is parsed nothing is kept, and    *)
(* the caller has no string of what was kept before.                       *)

Kept ==
    /\ Check =>
          /\ CachedIsOfSource
          /\ ~mParsedMetaData => mMetaData = {} /\ mAlbumArt = Nil /\ ~lent
    /\ mCtx = "none" =>
          /\ ~mParsedMetaData /\ mMetaData = {} /\ mAlbumArt = Nil /\ arts = 0
          /\ ~lent /\ ~dangling
    /\ libSource \in Sources \cup {Nil} /\ mParsedMetaData \in BOOLEAN

\* What the first request for metadata keeps.
LEMMA ParseKeeps ==
    ASSUME Kept, Check, Parse, UNCHANGED <<mCtx, libSource>>, mParsedMetaData' = TRUE
    PROVE  Kept'
<1>1. CASE mParsedMetaData
  BY <1>1 DEF Parse, Kept, CachedIsOfSource, Check
<1>2. CASE ~mParsedMetaData
  <2>1. PICK tags, art, described, duration \in BOOLEAN : ParseMetaData(tags, art, described, duration)
    BY <1>2 DEF Parse
  <2>2. \A e \in TrackEntries(libSource) : e[2] = libSource
    <3> DEFINE list == TracksOf[libSource]
               audio == FirstTrack(list, "audio")
               video == FirstTrack(list, "video")
    <3> HIDE DEF audio, video
    <3>1. /\ \A e \in {<<"sample rate", libSource, audio>>, <<"bits", libSource, 1>>} :
                e[2] = libSource
          /\ \A e \in {<<"width", libSource, video>>, <<"rotation", libSource, 1>>} :
                e[2] = libSource
          /\ \A e \in {<<"bitrate", libSource, 1>>} : e[2] = libSource
      OBVIOUS
    <3>2. TrackEntries(libSource) =
              (IF audio = 0 THEN {} ELSE
                  {<<"sample rate", libSource, audio>>, <<"bits", libSource, 1>>})
              \cup (IF video = 0 THEN {} ELSE
                  {<<"width", libSource, video>>, <<"rotation", libSource, 1>>})
              \cup (IF Len(list) = 1 /\ audio # 0 THEN {<<"bitrate", libSource, 1>>} ELSE {})
      BY DEF TrackEntries, audio, video
    <3>. QED
      BY <3>1, <3>2
  <2>3. \A e \in mMetaData' : e[2] \in {Nil, libSource}
    BY <2>1, <2>2 DEF ParseMetaData
  <2>4. mMetaData' # {}
    BY <2>1 DEF ParseMetaData
  <2>5. mAlbumArt' \in {Nil, libSource} /\ arts' = IF mAlbumArt' = Nil THEN 0 ELSE 1
    BY <1>2, <2>1, RetrieverAssumption DEF ParseMetaData, Kept, CachedIsOfSource
  <2>6. ~dangling'
    BY <1>2 DEF Parse, Kept, CachedIsOfSource
  <2>. QED
    BY <2>3, <2>4, <2>5, <2>6 DEF Kept, CachedIsOfSource, Check
<1>. QED
  BY <1>1, <1>2 DEF Kept

LEMMA KeptStep ==
    ASSUME Kept, [RetrieverNext]_retrieverVars
    PROVE  Kept'
<1>1. CASE UNCHANGED <<mCtx, libSource, cache, lent, dangling>>
  BY <1>1 DEF cache, Kept, CachedIsOfSource, Check
<1>2. ASSUME NEW enabled, NEW symbols, NEW objects,
             CreateMetadataRetriever(enabled, symbols, objects)
      PROVE  Kept'
  BY <1>2 DEF CreateMetadataRetriever, cache, Kept, CachedIsOfSource, Check
<1>3. CASE DestroyRetriever
  BY <1>3 DEF DestroyRetriever, ClearMetadata, DestoryMetadataRetriever, Kept, Check
<1>4. ASSUME NEW s \in Sources, NEW passed \in BOOLEAN, NEW accepted \in BOOLEAN,
             SetRetrieverSource(s, passed, accepted)
      PROVE  Kept'
  <2>1. /\ mParsedMetaData' = FALSE /\ mMetaData' = {} /\ mAlbumArt' = Nil
        /\ lent' = FALSE /\ UNCHANGED <<mCtx, dangling>> /\ mCtx = "ready"
        /\ libSource' \in Sources \cup {Nil}
    BY <1>4 DEF SetRetrieverSource, ClearMetadata, Kept, Check
  <2>2. arts' = 0
    BY <1>4 DEF SetRetrieverSource, ClearMetadata, Kept, CachedIsOfSource, Check
  <2>. QED
    BY <2>1, <2>2 DEF Kept, CachedIsOfSource, Check
<1>5. CASE ExtractAlbumArt \/ ExtractMetadata
  BY <1>5, ParseKeeps DEF ExtractAlbumArt, ExtractMetadata
<1>6. ASSUME NEW format, NEW called, NEW handedOn, NEW src, NEW p, NEW allocated,
             NEW converted, GetFrame(format, called, handedOn, src, p, allocated, converted)
      PROVE  UNCHANGED <<mCtx, libSource, cache, lent, dangling>>
  BY <1>6 DEF GetFrame
<1>7. GetImage \/ UNCHANGED retrieverVars => UNCHANGED <<mCtx, libSource, cache, lent, dangling>>
  BY DEF GetImage, retrieverVars
<1>. QED
  BY <1>1, <1>2, <1>3, <1>4, <1>5, <1>6, <1>7 DEF RetrieverNext

\* Metadata are of the source the library has, whichever of its queries failed
\* and whichever source was set before.
THEOREM CachedIsOfSourceAlways == RetrieverSpec => []CachedIsOfSource
<1>1. RetrieverInit => Kept
  BY DEF RetrieverInit, Kept, Check
<1>2. Kept /\ [RetrieverNext]_retrieverVars => Kept'
  BY KeptStep
<1>3. Kept => CachedIsOfSource
  BY DEF Kept, CachedIsOfSource
<1>. QED
  BY <1>1, <1>2, <1>3, PTL DEF RetrieverSpec

(* The types of the retriever's variables.  Without a library, and before  *)
(* one is looked for, there is no picture.                                 *)

\* A nonempty set of natural numbers has a least element.
LEMMA LeastOfTracks ==
    ASSUME NEW S \in SUBSET Nat, S # {}
    PROVE  Min(S) \in S
<1> DEFINE R == {ss \in Nat \X Nat : ss[1] < ss[2]}
<1>1. IsWellFoundedOn(R, Nat)
  BY NatLessThanWellFounded, Zenon DEF OpToRel
<1>2. PICK m \in S : \A k \in S : ~(<<k, m>> \in R)
  <2> HIDE DEF R
  <2>. QED
    BY <1>1, WFMin
<1>3. \A k \in S : m <= k
  <2>1. \A k \in S : ~(k < m)
    BY <1>2
  <2>. QED
    BY <2>1
<1>. QED
  BY <1>3 DEF Min

LEMMA FirstTrackIs ==
    ASSUME NEW s \in Sources, NEW type
    PROVE  FirstTrack(TracksOf[s], type) \in Nat
<1> DEFINE places == {i \in 1 .. Len(TracksOf[s]) : TracksOf[s][i] = type}
<1>1. Len(TracksOf[s]) \in Nat
  BY RetrieverAssumption
<1>2. places \in SUBSET Nat
  BY <1>1
<1>3. places # {} => Min(places) \in Nat
  BY <1>2, LeastOfTracks
<1>4. FirstTrack(TracksOf[s], type) = IF places # {} THEN Min(places) ELSE 0
  BY DEF FirstTrack, SelectInSeq
<1>. QED
  BY <1>3, <1>4

LEMMA TrackEntriesAre ==
    ASSUME NEW s \in Sources
    PROVE  TrackEntries(s) \subseteq Entries
<1> DEFINE list == TracksOf[s]
           audio == FirstTrack(list, "audio")
           video == FirstTrack(list, "video")
<1>1. audio \in Nat /\ video \in Nat
  BY FirstTrackIs
<1> HIDE DEF audio, video
<1>2. /\ <<"sample rate", s, audio>> \in Entries /\ <<"bits", s, 1>> \in Entries
      /\ <<"width", s, video>> \in Entries /\ <<"rotation", s, 1>> \in Entries
      /\ <<"bitrate", s, 1>> \in Entries
  BY <1>1 DEF Entries
<1>3. TrackEntries(s) =
          (IF audio = 0 THEN {} ELSE {<<"sample rate", s, audio>>, <<"bits", s, 1>>})
          \cup (IF video = 0 THEN {} ELSE {<<"width", s, video>>, <<"rotation", s, 1>>})
          \cup (IF Len(list) = 1 /\ audio # 0 THEN {<<"bitrate", s, 1>>} ELSE {})
  BY DEF TrackEntries, audio, video
<1>. QED
  BY <1>2, <1>3

RetrieverTypes ==
    /\ RetrieverTypeOK /\ Kept
    /\ ~Check => arts = 0 /\ mAlbumArt = Nil

LEMMA ParseTypes ==
    ASSUME RetrieverTypes, Check, Parse, UNCHANGED <<mCtx, libSource>>
    PROVE  /\ mMetaData' \subseteq Entries
           /\ mAlbumArt' \in Sources \cup {Nil} /\ arts' \in 0 .. 2
           /\ dangling' \in BOOLEAN
<1>1. CASE mParsedMetaData
  BY <1>1 DEF Parse, RetrieverTypes, RetrieverTypeOK
<1>2. CASE ~mParsedMetaData
  <2>1. PICK tags, art, described, duration \in BOOLEAN : ParseMetaData(tags, art, described, duration)
    BY <1>2 DEF Parse
  <2>2. mAlbumArt = Nil /\ arts = 0 /\ libSource \in Sources \cup {Nil}
        /\ dangling \in BOOLEAN /\ lent \in BOOLEAN
    BY <1>2 DEF RetrieverTypes, RetrieverTypeOK, Kept, CachedIsOfSource
  <2>3. \A of \in Sources \cup {Nil} : <<"tags", of, 0>> \in Entries /\ <<"duration", of, 0>> \in Entries
    BY DEF Entries
  <2>4. described => TrackEntries(libSource) \subseteq Entries
    BY <2>1, <2>2, TrackEntriesAre DEF ParseMetaData
  <2>5. mMetaData' \subseteq Entries
    <3>1. /\ (IF tags THEN {<<"tags", libSource, 0>>} ELSE {}) \subseteq Entries
          /\ (IF described THEN TrackEntries(libSource) ELSE {}) \subseteq Entries
          /\ {<<"duration", IF duration THEN libSource ELSE Nil, 0>>} \subseteq Entries
      BY <2>2, <2>3, <2>4
    <3>. QED
      BY <2>1, <3>1 DEF ParseMetaData
  <2>6. mAlbumArt' \in Sources \cup {Nil} /\ arts' \in 0 .. 2
    BY <2>1, <2>2 DEF ParseMetaData
  <2>7. dangling' \in BOOLEAN
    BY <1>2, <2>2 DEF Parse
  <2>. QED
    BY <2>5, <2>6, <2>7
<1>. QED
  BY <1>1, <1>2 DEF RetrieverTypes, RetrieverTypeOK

\* A frame's line is one of the library's, or there is none.
LEMMA FrameTypes ==
    ASSUME RetrieverTypes, NEW format, NEW called, NEW handedOn, NEW src, NEW p \in Pictures,
           NEW allocated \in BOOLEAN, NEW converted \in BOOLEAN,
           GetFrameInternal(format, called, handedOn, src, p, allocated, converted)
    PROVE  mFrameMemory'.made \in BOOLEAN
           /\ mFrameMemory'.picture \in Pictures \cup {NoPicture}
<1> DEFINE ctx == InitCallback(p, src, IF handedOn THEN format ELSE Nil)
           blank == AllocVideoFrame(ctx)
           pixels == ColorConverterReads(IF ctx.src = "YUV420SP_10BIT"
                                         THEN Convert10bitTo8bit(Stored(ctx.src, p), ctx)
                                         ELSE Stored(ctx.src, p), ctx)
<1>1. \/ mFrameMemory' = mFrameMemory
      \/ mFrameMemory' = blank
      \/ mFrameMemory' = [blank EXCEPT !.picture = p, !.pixels = pixels]
  BY DEF GetFrameInternal, FillVideoFrame
<1>2. blank.made = TRUE /\ blank.picture = NoPicture
  BY DEF AllocVideoFrame, Frame
<1> HIDE DEF pixels
<1>3. /\ [blank EXCEPT !.picture = p, !.pixels = pixels].made = TRUE
      /\ [blank EXCEPT !.picture = p, !.pixels = pixels].picture = p
  BY DEF AllocVideoFrame, Frame
<1> HIDE DEF blank
<1>. QED
  BY <1>1, <1>2, <1>3 DEF RetrieverTypes, RetrieverTypeOK

\* The retriever's variables keep their types: of one file there is at most one
\* picture, and what is kept of a track has the track's place.
THEOREM RetrieverTypesHold == RetrieverSpec => []RetrieverTypeOK
<1>1. RetrieverInit => RetrieverTypes
  <2> SUFFICES ASSUME RetrieverInit PROVE RetrieverTypes
    OBVIOUS
  <2>1. {mParsedMetaData, lent, dangling} \subseteq BOOLEAN
    BY DEF RetrieverInit
  <2>2. mFrameMemory.made \in BOOLEAN /\ mFrameMemory.picture \in Pictures \cup {NoPicture}
    BY DEF RetrieverInit, NoFrame, Frame
  <2>3. Kept
    BY DEF RetrieverInit, Kept, Check
  <2>. QED
    BY <2>1, <2>2, <2>3 DEF RetrieverInit, RetrieverTypes, RetrieverTypeOK
<1>2. RetrieverTypes /\ [RetrieverNext]_retrieverVars => RetrieverTypes'
  <2> SUFFICES ASSUME RetrieverTypes, [RetrieverNext]_retrieverVars
               PROVE  RetrieverTypes'
    OBVIOUS
  <2>0. Kept'
    BY KeptStep DEF RetrieverTypes
  <2>1. ASSUME NEW enabled, NEW symbols, NEW objects,
               CreateMetadataRetriever(enabled, symbols, objects)
        PROVE  RetrieverTypes'
    BY <2>0, <2>1 DEF CreateMetadataRetriever, cache, RetrieverTypes, RetrieverTypeOK, Check
  <2>2. CASE DestroyRetriever
    <3>1. arts' = 0 /\ mAlbumArt' = Nil
      BY <2>2 DEF DestroyRetriever, ClearMetadata, RetrieverTypes, Kept, CachedIsOfSource, Check
    <3>2. mFrameMemory'.made \in BOOLEAN /\ mFrameMemory'.picture = NoPicture
      BY <2>2 DEF DestroyRetriever, DestoryMetadataRetriever, NoFrame, Frame
    <3>3. {mParsedMetaData', lent', dangling'} \subseteq BOOLEAN /\ mMetaData' = {}
          /\ UNCHANGED <<source, libSource>> /\ mCtx' \in {"crashed", "gone"}
      BY <2>2 DEF DestroyRetriever, ClearMetadata, DestoryMetadataRetriever, RetrieverTypes,
         RetrieverTypeOK
    <3>. QED
      BY <2>0, <3>1, <3>2, <3>3 DEF RetrieverTypes, RetrieverTypeOK
  <2>3. ASSUME NEW s \in Sources, NEW passed \in BOOLEAN, NEW accepted \in BOOLEAN,
               SetRetrieverSource(s, passed, accepted)
        PROVE  RetrieverTypes'
    <3>1. arts' = 0 /\ mAlbumArt' = Nil
      BY <2>3 DEF SetRetrieverSource, ClearMetadata, RetrieverTypes, Kept, CachedIsOfSource
    <3>2. {mParsedMetaData', lent', dangling'} \subseteq BOOLEAN /\ mMetaData' = {}
          /\ {source', libSource'} \subseteq Sources \cup {Nil}
          /\ UNCHANGED <<mCtx, mFrameMemory>>
      BY <2>3 DEF SetRetrieverSource, ClearMetadata, RetrieverTypes, RetrieverTypeOK
    <3>. QED
      BY <2>0, <3>1, <3>2 DEF RetrieverTypes, RetrieverTypeOK
  <2>4. CASE ExtractAlbumArt \/ ExtractMetadata
    <3>1. Check /\ Check' /\ Parse /\ UNCHANGED <<mCtx, source, libSource, mFrameMemory>>
          /\ mParsedMetaData' = TRUE /\ lent' \in BOOLEAN
      BY <2>4 DEF ExtractAlbumArt, ExtractMetadata, Check, RetrieverTypes, RetrieverTypeOK
    <3>. QED
      BY <2>0, <3>1, ParseTypes DEF RetrieverTypes, RetrieverTypeOK
  <2>5. ASSUME NEW format, NEW src, NEW p \in Pictures, NEW called, NEW handedOn,
               NEW allocated \in BOOLEAN, NEW converted \in BOOLEAN,
               GetFrame(format, called, handedOn, src, p, allocated, converted)
        PROVE  RetrieverTypes'
    BY <2>0, <2>5, FrameTypes DEF GetFrame, cache, RetrieverTypes, RetrieverTypeOK, Check
  <2>6. CASE GetImage \/ UNCHANGED retrieverVars
    BY <2>0, <2>6 DEF GetImage, retrieverVars, cache, RetrieverTypes, RetrieverTypeOK, Check
  <2>. QED
    BY <2>1, <2>2, <2>3, <2>4, <2>5, <2>6 DEF RetrieverNext
<1>3. RetrieverTypes => RetrieverTypeOK
  BY DEF RetrieverTypes
<1>. QED
  BY <1>1, <1>2, <1>3, PTL DEF RetrieverSpec

(* Ten-bit pictures.  Four samples lie in five bytes; the two bytes that    *)
(* FetchData looks at hold the ten bits of its sample, from bit 2r on for   *)
(* the r-th of the four.  Bits are named one by one, for the provers to do  *)
(* linear arithmetic with them.                                             *)

LEMMA Powers ==
    /\ 2^0 = 1 /\ 2^1 = 2 /\ 2^2 = 4 /\ 2^3 = 8 /\ 2^4 = 16 /\ 2^5 = 32
    /\ 2^6 = 64 /\ 2^7 = 128 /\ 2^8 = 256 /\ 2^9 = 512
OBVIOUS

\* Samples, a set without structure where only membership counts.
Sample == 0 .. 1023

\* A sample is made of its bits.
LEMMA TenBits ==
    ASSUME NEW n \in Sample
    PROVE  /\ Bit(n, 0) \in 0 .. 1 /\ Bit(n, 1) \in 0 .. 1 /\ Bit(n, 2) \in 0 .. 1
           /\ Bit(n, 3) \in 0 .. 1 /\ Bit(n, 4) \in 0 .. 1 /\ Bit(n, 5) \in 0 .. 1
           /\ Bit(n, 6) \in 0 .. 1 /\ Bit(n, 7) \in 0 .. 1 /\ Bit(n, 8) \in 0 .. 1
           /\ Bit(n, 9) \in 0 .. 1
           /\ n = Bit(n, 0) + 2 * Bit(n, 1) + 4 * Bit(n, 2) + 8 * Bit(n, 3) + 16 *
                  Bit(n, 4) + 32 * Bit(n, 5) + 64 * Bit(n, 6) + 128 * Bit(n, 7) +
                  256 * Bit(n, 8) + 512 * Bit(n, 9)
<1> DEFINE b0 == Bit(n, 0)
           b1 == Bit(n, 1)
           b2 == Bit(n, 2)
           b3 == Bit(n, 3)
           b4 == Bit(n, 4)
           b5 == Bit(n, 5)
           b6 == Bit(n, 6)
           b7 == Bit(n, 7)
           b8 == Bit(n, 8)
           b9 == Bit(n, 9)
           h1 == n \div 2
           h2 == n \div 4
           h3 == n \div 8
           h4 == n \div 16
           h5 == n \div 32
           h6 == n \div 64
           h7 == n \div 128
           h8 == n \div 256
           h9 == n \div 512
<1>. n \in 0 .. 1023
  BY DEF Sample
<1>1. b0 \in 0 .. 1 /\ h1 \in Nat /\ n = 2 * h1 + b0
  BY Powers DEF Bit
<1>2. b1 \in 0 .. 1 /\ h2 \in Nat /\ h1 = 2 * h2 + b1
  BY <1>1, Powers DEF Bit
<1>3. b2 \in 0 .. 1 /\ h3 \in Nat /\ h2 = 2 * h3 + b2
  BY <1>2, Powers DEF Bit
<1>4. b3 \in 0 .. 1 /\ h4 \in Nat /\ h3 = 2 * h4 + b3
  BY <1>3, Powers DEF Bit
<1>5. b4 \in 0 .. 1 /\ h5 \in Nat /\ h4 = 2 * h5 + b4
  BY <1>4, Powers DEF Bit
<1>6. b5 \in 0 .. 1 /\ h6 \in Nat /\ h5 = 2 * h6 + b5
  BY <1>5, Powers DEF Bit
<1>7. b6 \in 0 .. 1 /\ h7 \in Nat /\ h6 = 2 * h7 + b6
  BY <1>6, Powers DEF Bit
<1>8. b7 \in 0 .. 1 /\ h8 \in Nat /\ h7 = 2 * h8 + b7
  BY <1>7, Powers DEF Bit
<1>9. b8 \in 0 .. 1 /\ h9 \in Nat /\ h8 = 2 * h9 + b8
  BY <1>8, Powers DEF Bit
<1>10. b9 \in 0 .. 1 /\ h9 = b9
  BY <1>9, Powers DEF Bit
<1> HIDE DEF b0, b1, b2, b3, b4, b5, b6, b7, b8, b9, h1, h2, h3, h4, h5, h6, h7, h8,
             h9
<1>11. n = b0 + 2 * b1 + 4 * b2 + 8 * b3 + 16 * b4 + 32 * b5 + 64 * b6 + 128 * b7 +
           256 * b8 + 512 * b9
  BY ONLY <1>1, <1>2, <1>3, <1>4, <1>5, <1>6, <1>7, <1>8, <1>9, <1>10
<1>. QED
  BY ONLY <1>1, <1>2, <1>3, <1>4, <1>5, <1>6, <1>7, <1>8, <1>9, <1>10, <1>11
     DEF b0, b1, b2, b3, b4, b5, b6, b7, b8, b9

LEMMA BitOfSample ==
    ASSUME NEW n \in Sample, NEW k \in 0 .. 9
    PROVE  Bit(n, k) \in 0 .. 1
<1>1. k \in {0, 1, 2, 3, 4, 5, 6, 7, 8, 9}
  OBVIOUS
<1>2. /\ Bit(n, 0) \in 0 .. 1 /\ Bit(n, 1) \in 0 .. 1 /\ Bit(n, 2) \in 0 .. 1
      /\ Bit(n, 3) \in 0 .. 1 /\ Bit(n, 4) \in 0 .. 1 /\ Bit(n, 5) \in 0 .. 1
      /\ Bit(n, 6) \in 0 .. 1 /\ Bit(n, 7) \in 0 .. 1 /\ Bit(n, 8) \in 0 .. 1
      /\ Bit(n, 9) \in 0 .. 1
  BY TenBits
<1>3. \A j \in {0, 1, 2, 3, 4, 5, 6, 7, 8, 9} : Bit(n, j) \in 0 .. 1
  BY ONLY <1>2, Zenon
<1>. QED
  BY ONLY <1>1, <1>3

\* Fetching from where the packed line is gives the upper eight bits of the
\* sample.
LEMMA FetchesSample ==
    ASSUME NEW line \in Seq(Sample), NEW num \in 0 .. Len(line) - 1,
           NEW memory, NEW begin \in Nat,
           \A k \in DOMAIN Packed(line) : memory[begin + (k - 1)] = Packed(line)[k]
    PROVE  FetchData(memory, begin, num) = line[num + 1] \div 4
<1>1. DOMAIN line = 1 .. Len(line) /\ Len(line) \in Nat
  OBVIOUS
<1>2. \A i \in 1 .. Len(line) : line[i] \in Sample
  OBVIOUS
<1>a. num \in Nat
  BY <1>1
<1>3. PICK q \in Nat, r \in {0, 1, 2, 3} : num = 4 * q + r
  <2>1. num \div 4 \in Nat /\ num % 4 \in 0 .. 3 /\ num % 4 = num - 4 * (num \div 4)
    BY ONLY <1>a
  <2>2. num % 4 \in {0, 1, 2, 3}
    BY ONLY <2>1
  <2>. QED
    BY <2>1, <2>2
<1>4. PICK sample \in Sample : sample = line[num + 1]
  BY <1>1, <1>2
<1>5. ASSUME NEW k \in Nat
      PROVE  LineBit(line, k) \in 0 .. 1
  <2>1. k \div 10 \in Nat /\ k % 10 \in 0 .. 9
    BY <1>5
  <2>2. ASSUME k \div 10 < Len(line) PROVE Bit(line[k \div 10 + 1], k % 10) \in 0 .. 1
    <3>1. line[k \div 10 + 1] \in Sample
      BY <1>1, <1>2, <2>1, <2>2
    <3>. QED
      BY <2>1, <3>1, BitOfSample
  <2>. QED
    BY <2>2 DEF LineBit
<1>6. ASSUME NEW i \in 0 .. 9
      PROVE  LineBit(line, 10 * num + i) = Bit(sample, i)
  <2>1. (10 * num + i) \div 10 = num /\ (10 * num + i) % 10 = i /\ num < Len(line)
    BY <1>1
  <2>. QED
    BY <1>4, <2>1 DEF LineBit
<1> DEFINE at == 40 * q + 8 * r
           c(j) == LineBit(line, at + j)
           one == Packed(line)[5 * q + r + 1]
           two == Packed(line)[5 * q + r + 2]
<1>7. ASSUME NEW j \in 0 .. 15
      PROVE  c(j) \in 0 .. 1
  <2>1. at + j \in Nat
    BY <1>3
  <2>. QED
    BY <1>5, <2>1
<1>8. /\ (num * 10) \div 8 = 5 * q + r /\ (num * 2) % 8 = 2 * r
      /\ 5 * q + r + 1 \in 1 .. (Len(line) * 10 + 7) \div 8
      /\ 5 * q + r + 2 \in 1 .. (Len(line) * 10 + 7) \div 8
  <2>1. (num * 10) \div 8 = 5 * q + r /\ (num * 2) % 8 = 2 * r
    BY ONLY <1>3, <1>a
  <2>2. 5 * q + r + 2 <= (Len(line) * 10 + 7) \div 8
    <3> DEFINE L == Len(line)
    <3>1. L \in Nat /\ 4 * q + r + 1 <= L
      BY <1>1, <1>3
    <3> HIDE DEF L
    <3>2. CASE r = 0
      BY ONLY <1>3, <3>1, <3>2
    <3>3. CASE r = 1
      BY ONLY <1>3, <3>1, <3>3
    <3>4. CASE r = 2
      BY ONLY <1>3, <3>1, <3>4
    <3>5. CASE r = 3
      BY ONLY <1>3, <3>1, <3>5
    <3>6. 5 * q + r + 2 <= (L * 10 + 7) \div 8
      BY <1>3, <3>2, <3>3, <3>4, <3>5 DEF L
    <3>. QED
      BY ONLY <3>6 DEF L
  <2>. QED
    BY <1>1, <1>3, <2>1, <2>2
<1>9. /\ one = c(0) + 2 * c(1) + 4 * c(2) + 8 * c(3) + 16 * c(4) + 32 * c(5) + 64 *
               c(6) + 128 * c(7)
      /\ two = c(8) + 2 * c(9) + 4 * c(10) + 8 * c(11) + 16 * c(12) + 32 * c(13) +
               64 * c(14) + 128 * c(15)
  <2>1. \A k \in 0 .. 7 : /\ 8 * ((5 * q + r + 1) - 1) + k = at + k
                          /\ 8 * ((5 * q + r + 2) - 1) + k = at + (8 + k)
    BY <1>3
  <2>. QED
    BY <1>8, <2>1 DEF Packed
<1>10. ASSUME NEW i \in 0 .. 9
       PROVE  c(2 * r + i) = Bit(sample, i)
  <2>1. at + (2 * r + i) = 10 * num + i
    BY <1>3
  <2>. QED
    BY <1>6, <2>1
<1>11. FetchData(memory, begin, num)
         = ((one \div 2^(2 * r) + two * 2^(8 - 2 * r)) % 1024) \div 4
  <2>1. DOMAIN Packed(line) = 1 .. (Len(line) * 10 + 7) \div 8
    BY DEF Packed
  <2>2. /\ memory[begin + ((5 * q + r + 1) - 1)] = one
        /\ memory[begin + ((5 * q + r + 2) - 1)] = two
    BY <1>8, <2>1
  <2>3. /\ begin + (num * 10) \div 8 = begin + ((5 * q + r + 1) - 1)
        /\ begin + (num * 10) \div 8 + 1 = begin + ((5 * q + r + 2) - 1)
    BY <1>3, <1>8
  <2> HIDE DEF one, two
  <2>. QED
    BY <1>8, <2>2, <2>3 DEF FetchData
<1> HIDE DEF c, one, two
<1> DEFINE c0 == c(0)
           c1 == c(1)
           c2 == c(2)
           c3 == c(3)
           c4 == c(4)
           c5 == c(5)
           c6 == c(6)
           c7 == c(7)
           c8 == c(8)
           c9 == c(9)
           c10 == c(10)
           c11 == c(11)
           c12 == c(12)
           c13 == c(13)
           c14 == c(14)
           c15 == c(15)
           b0 == Bit(sample, 0)
           b1 == Bit(sample, 1)
           b2 == Bit(sample, 2)
           b3 == Bit(sample, 3)
           b4 == Bit(sample, 4)
           b5 == Bit(sample, 5)
           b6 == Bit(sample, 6)
           b7 == Bit(sample, 7)
           b8 == Bit(sample, 8)
           b9 == Bit(sample, 9)
<1>12. /\ c0 \in 0 .. 1 /\ c1 \in 0 .. 1 /\ c2 \in 0 .. 1 /\ c3 \in 0 .. 1
       /\ c4 \in 0 .. 1 /\ c5 \in 0 .. 1 /\ c6 \in 0 .. 1 /\ c7 \in 0 .. 1
       /\ c8 \in 0 .. 1 /\ c9 \in 0 .. 1 /\ c10 \in 0 .. 1 /\ c11 \in 0 .. 1
       /\ c12 \in 0 .. 1 /\ c13 \in 0 .. 1 /\ c14 \in 0 .. 1 /\ c15 \in 0 .. 1
  BY <1>7
<1>13. /\ b0 \in 0 .. 1 /\ b1 \in 0 .. 1 /\ b2 \in 0 .. 1 /\ b3 \in 0 .. 1 /\ b4 \in 0 .. 1
       /\ b5 \in 0 .. 1 /\ b6 \in 0 .. 1 /\ b7 \in 0 .. 1 /\ b8 \in 0 .. 1 /\ b9 \in 0 .. 1
       /\ sample = b0 + 2 * b1 + 4 * b2 + 8 * b3 + 16 * b4 + 32 * b5 + 64 * b6 + 128
                   * b7 + 256 * b8 + 512 * b9
  BY ONLY <1>4, TenBits
<1>14. /\ one = c0 + 2 * c1 + 4 * c2 + 8 * c3 + 16 * c4 + 32 * c5 + 64 * c6 + 128 *
                c7
       /\ two = c8 + 2 * c9 + 4 * c10 + 8 * c11 + 16 * c12 + 32 * c13 + 64 * c14 +
                128 * c15
  BY <1>9
<1> HIDE DEF c0, c1, c2, c3, c4, c5, c6, c7, c8, c9, c10, c11, c12, c13, c14, c15,
             b0, b1, b2, b3, b4, b5, b6, b7, b8, b9
<1>15. one \in Int /\ two \in Int /\ sample \in 0 .. 1023
  BY ONLY <1>12, <1>13, <1>14
<1>16. (one \div 2^(2 * r) + two * 2^(8 - 2 * r)) % 1024 = sample
  <2>1. CASE r = 0
    <3>1. /\ c0 = b0 /\ c1 = b1 /\ c2 = b2 /\ c3 = b3 /\ c4 = b4 /\ c5 = b5 /\ c6 = b6 /\ c7 = b7
          /\ c8 = b8 /\ c9 = b9
      <4>1. \A i \in 0 .. 9 : c(2 * 0 + i) = Bit(sample, i)
        BY <1>10, <2>1
      <4>2. /\ c(0) = Bit(sample, 0) /\ c(1) = Bit(sample, 1) /\ c(2) = Bit(sample, 2)
            /\ c(3) = Bit(sample, 3) /\ c(4) = Bit(sample, 4) /\ c(5) = Bit(sample, 5)
            /\ c(6) = Bit(sample, 6) /\ c(7) = Bit(sample, 7) /\ c(8) = Bit(sample, 8)
            /\ c(9) = Bit(sample, 9)
        BY ONLY <4>1
      <4>. QED
        BY ONLY <4>2 DEF c0, c1, c2, c3, c4, c5, c6, c7, c8, c9, b0, b1, b2, b3, b4, b5, b6, b7,
            b8, b9
    <3>2. (one \div 1 + two * 256) % 1024 = sample
      <4> DEFINE mid == c0 + 2 * c1 + 4 * c2 + 8 * c3 + 16 * c4 + 32 * c5 + 64 * c6
                        + 128 * c7
                 high == c10 + 2 * c11 + 4 * c12 + 8 * c13 + 16 * c14 + 32 * c15
      <4>1. mid \in Nat /\ high \in Nat
        BY ONLY <1>12
      <4>2. mid + two * 256 = sample + 1024 * high
        BY ONLY <1>12, <1>13, <1>14, <3>1
      <4>3. one = mid
        BY ONLY <1>12, <1>14
      <4> HIDE DEF mid, high
      <4>4. one \div 1 = mid
        BY ONLY <4>1, <4>3
      <4>5. (sample + 1024 * high) % 1024 = sample
        BY ONLY <1>15, <4>1
      <4>. QED
        BY ONLY <4>2, <4>4, <4>5
    <3>3. 2^(2 * r) = 1 /\ 2^(8 - 2 * r) = 256
      BY ONLY <2>1, Powers
    <3>. QED
      BY ONLY <3>2, <3>3
  <2>2. CASE r = 1
    <3>1. /\ c2 = b0 /\ c3 = b1 /\ c4 = b2 /\ c5 = b3 /\ c6 = b4 /\ c7 = b5 /\ c8 = b6 /\ c9 = b7
          /\ c10 = b8 /\ c11 = b9
      <4>1. \A i \in 0 .. 9 : c(2 * 1 + i) = Bit(sample, i)
        BY <1>10, <2>2
      <4>2. /\ c(2) = Bit(sample, 0) /\ c(3) = Bit(sample, 1) /\ c(4) = Bit(sample, 2)
            /\ c(5) = Bit(sample, 3) /\ c(6) = Bit(sample, 4) /\ c(7) = Bit(sample, 5)
            /\ c(8) = Bit(sample, 6) /\ c(9) = Bit(sample, 7) /\ c(10) = Bit(sample, 8)
            /\ c(11) = Bit(sample, 9)
        BY ONLY <4>1
      <4>. QED
        BY ONLY <4>2 DEF c2, c3, c4, c5, c6, c7, c8, c9, c10, c11, b0, b1, b2, b3, b4, b5, b6,
            b7, b8, b9
    <3>2. (one \div 4 + two * 64) % 1024 = sample
      <4> DEFINE mid == c2 + 2 * c3 + 4 * c4 + 8 * c5 + 16 * c6 + 32 * c7
                 low == c0 + 2 * c1
                 high == c12 + 2 * c13 + 4 * c14 + 8 * c15
      <4>1. mid \in Nat /\ high \in Nat /\ low \in 0 .. 3
        BY ONLY <1>12
      <4>2. mid + two * 64 = sample + 1024 * high
        BY ONLY <1>12, <1>13, <1>14, <3>1
      <4>3. one = low + 4 * mid
        BY ONLY <1>12, <1>14
      <4> HIDE DEF mid, high, low
      <4>4. one \div 4 = mid
        BY ONLY <4>1, <4>3
      <4>5. (sample + 1024 * high) % 1024 = sample
        BY ONLY <1>15, <4>1
      <4>. QED
        BY ONLY <4>2, <4>4, <4>5
    <3>3. 2^(2 * r) = 4 /\ 2^(8 - 2 * r) = 64
      BY ONLY <2>2, Powers
    <3>. QED
      BY ONLY <3>2, <3>3
  <2>3. CASE r = 2
    <3>1. /\ c4 = b0 /\ c5 = b1 /\ c6 = b2 /\ c7 = b3 /\ c8 = b4 /\ c9 = b5 /\ c10 = b6
          /\ c11 = b7 /\ c12 = b8 /\ c13 = b9
      <4>1. \A i \in 0 .. 9 : c(2 * 2 + i) = Bit(sample, i)
        BY <1>10, <2>3
      <4>2. /\ c(4) = Bit(sample, 0) /\ c(5) = Bit(sample, 1) /\ c(6) = Bit(sample, 2)
            /\ c(7) = Bit(sample, 3) /\ c(8) = Bit(sample, 4) /\ c(9) = Bit(sample, 5)
            /\ c(10) = Bit(sample, 6) /\ c(11) = Bit(sample, 7)
            /\ c(12) = Bit(sample, 8) /\ c(13) = Bit(sample, 9)
        BY ONLY <4>1
      <4>. QED
        BY ONLY <4>2 DEF c4, c5, c6, c7, c8, c9, c10, c11, c12, c13, b0, b1, b2, b3, b4, b5, b6,
            b7, b8, b9
    <3>2. (one \div 16 + two * 16) % 1024 = sample
      <4> DEFINE mid == c4 + 2 * c5 + 4 * c6 + 8 * c7
                 low == c0 + 2 * c1 + 4 * c2 + 8 * c3
                 high == c14 + 2 * c15
      <4>1. mid \in Nat /\ high \in Nat /\ low \in 0 .. 15
        BY ONLY <1>12
      <4>2. mid + two * 16 = sample + 1024 * high
        BY ONLY <1>12, <1>13, <1>14, <3>1
      <4>3. one = low + 16 * mid
        BY ONLY <1>12, <1>14
      <4> HIDE DEF mid, high, low
      <4>4. one \div 16 = mid
        BY ONLY <4>1, <4>3
      <4>5. (sample + 1024 * high) % 1024 = sample
        BY ONLY <1>15, <4>1
      <4>. QED
        BY ONLY <4>2, <4>4, <4>5
    <3>3. 2^(2 * r) = 16 /\ 2^(8 - 2 * r) = 16
      BY ONLY <2>3, Powers
    <3>. QED
      BY ONLY <3>2, <3>3
  <2>4. CASE r = 3
    <3>1. /\ c6 = b0 /\ c7 = b1 /\ c8 = b2 /\ c9 = b3 /\ c10 = b4 /\ c11 = b5 /\ c12 = b6
          /\ c13 = b7 /\ c14 = b8 /\ c15 = b9
      <4>1. \A i \in 0 .. 9 : c(2 * 3 + i) = Bit(sample, i)
        BY <1>10, <2>4
      <4>2. /\ c(6) = Bit(sample, 0) /\ c(7) = Bit(sample, 1) /\ c(8) = Bit(sample, 2)
            /\ c(9) = Bit(sample, 3) /\ c(10) = Bit(sample, 4)
            /\ c(11) = Bit(sample, 5) /\ c(12) = Bit(sample, 6)
            /\ c(13) = Bit(sample, 7) /\ c(14) = Bit(sample, 8)
            /\ c(15) = Bit(sample, 9)
        BY ONLY <4>1
      <4>. QED
        BY ONLY <4>2 DEF c6, c7, c8, c9, c10, c11, c12, c13, c14, c15, b0, b1, b2, b3, b4, b5,
            b6, b7, b8, b9
    <3>2. (one \div 64 + two * 4) % 1024 = sample
      <4> DEFINE mid == c6 + 2 * c7
                 low == c0 + 2 * c1 + 4 * c2 + 8 * c3 + 16 * c4 + 32 * c5
                 high == 0
      <4>1. mid \in Nat /\ high \in Nat /\ low \in 0 .. 63
        BY ONLY <1>12
      <4>2. mid + two * 4 = sample + 1024 * high
        BY ONLY <1>12, <1>13, <1>14, <3>1
      <4>3. one = low + 64 * mid
        BY ONLY <1>12, <1>14
      <4> HIDE DEF mid, high, low
      <4>4. one \div 64 = mid
        BY ONLY <4>1, <4>3
      <4>5. (sample + 1024 * high) % 1024 = sample
        BY ONLY <1>15, <4>1
      <4>. QED
        BY ONLY <4>2, <4>4, <4>5
    <3>3. 2^(2 * r) = 64 /\ 2^(8 - 2 * r) = 4
      BY ONLY <2>4, Powers
    <3>. QED
      BY ONLY <3>2, <3>3
  <2>. QED
    BY <1>3, <2>1, <2>2, <2>3, <2>4
<1>. QED
  BY <1>4, <1>11, <1>16
----------------------------------------------------------------------------
(* Pictures.  Row q begins at q strides: an address is a row and a place in *)
(* it, of which the rest follows by linear arithmetic once products of the  *)
(* stride have names of their own.                                          *)

LEMMA ProductGrows ==
    ASSUME NEW S \in Nat, NEW a \in Nat, NEW b \in Nat, a <= b
    PROVE  a * S \in Nat /\ b * S \in Nat /\ a * S <= b * S
<1>1. PICK d \in Nat : b = a + d
  <2>1. b - a \in Nat /\ b = a + (b - a)
    OBVIOUS
  <2>. QED
    BY <2>1
<1>2. (a + d) * S = a * S + d * S /\ a * S \in Nat /\ d * S \in Nat
  OBVIOUS
<1>. QED
  BY <1>1, <1>2

\* A place of a row lies before any later row.
LEMMA PlaceBefore ==
    ASSUME NEW S \in Nat \ {0}, NEW a \in Nat, NEW b \in Nat, a < b, NEW x \in 0 .. S - 1
    PROVE  /\ a * S \in Nat /\ b * S \in Nat /\ S * b = b * S
           /\ a * S + x \in Nat /\ a * S + x < b * S
<1>1. (a + 1) * S <= b * S /\ a * S \in Nat /\ b * S \in Nat
  <2>1. a + 1 \in Nat /\ a + 1 <= b /\ S \in Nat
    OBVIOUS
  <2>. QED
    BY <2>1, ProductGrows
<1>2. (a + 1) * S = a * S + S /\ S * b = b * S
  OBVIOUS
<1> DEFINE m == a * S
           n == b * S
<1>3. m \in Nat /\ n \in Nat /\ m + S <= n
  BY <1>1, <1>2
<1> HIDE DEF m, n
<1>4. m + x \in Nat /\ m + x < n
  BY <1>3
<1>. QED
  BY <1>1, <1>2, <1>4 DEF m, n

LEMMA RowAndColumn ==
    ASSUME NEW S \in Nat \ {0}, NEW q \in Nat, NEW x \in 0 .. S - 1
    PROVE  (q * S + x) \div S = q /\ (q * S + x) % S = x
<1> DEFINE n == q * S + x
           k == n \div S
<1>1. n \in Nat /\ q * S \in Nat
  OBVIOUS
<1>2. k \in Nat /\ n % S \in 0 .. S - 1 /\ n = k * S + (n % S)
  <2> HIDE DEF n
  <2>. QED
    BY <1>1
<1>3. ~(k < q)
  <2> SUFFICES ASSUME k < q PROVE FALSE
    OBVIOUS
  <2>1. (k + 1) * S <= q * S /\ (k + 1) * S = k * S + S
    BY <1>2, ProductGrows
  <2>. QED
    BY <1>1, <1>2, <2>1, ProductGrows
<1>4. ~(q < k)
  <2> SUFFICES ASSUME q < k PROVE FALSE
    OBVIOUS
  <2>1. (q + 1) * S <= k * S /\ (q + 1) * S = q * S + S
    BY <1>2, ProductGrows
  <2>. QED
    BY <1>1, <1>2, <2>1, ProductGrows
<1>5. k = q
  BY <1>2, <1>3, <1>4
<1>. QED
  BY <1>1, <1>2, <1>5

\* The places of a picture.
LEMMA Sizes ==
    ASSUME NEW p \in Pictures
    PROVE  /\ p.wStride \in Nat \ {0} /\ p.hStride \in Nat
           /\ p.width \in 0 .. p.wStride /\ p.height \in 0 .. p.hStride
           /\ Len(p.rows) \in Nat /\ DOMAIN p.rows = 1 .. Len(p.rows)
           /\ Len(p.rows) = p.hStride + p.hStride \div 2
           /\ \A q \in 1 .. Len(p.rows) :
                 /\ p.rows[q] \in Seq(Sample) /\ Len(p.rows[q]) = p.width
                 /\ DOMAIN p.rows[q] = 1 .. p.width
<1>1. p.rows \in Seq(Seq(Sample)) /\ \A q \in DOMAIN p.rows : Len(p.rows[q]) = p.width
  BY RetrieverAssumption DEF Sample
<1>2. DOMAIN p.rows = 1 .. Len(p.rows) /\ Len(p.rows) \in Nat
  BY <1>1
<1>3. \A q \in 1 .. Len(p.rows) :
         p.rows[q] \in Seq(Sample) /\ DOMAIN p.rows[q] = 1 .. Len(p.rows[q])
  BY <1>1, <1>2
<1>. QED
  BY <1>1, <1>2, <1>3, RetrieverAssumption

LEMMA ShownRows ==
    ASSUME NEW p \in Pictures, NEW q \in RowsShown(p)
    PROVE  /\ q \in 0 .. Len(p.rows) - 1
           /\ q < p.hStride
              \/ q - p.hStride \in 0 .. p.hStride \div 2 - 1
BY Sizes DEF RowsShown

\* What lies at a place of a row.
LEMMA StoredRow ==
    ASSUME NEW p \in Pictures, NEW format, NEW q \in 0 .. Len(p.rows) - 1,
           NEW x \in 0 .. p.wStride - 1
    PROVE  /\ format = "YUV420SP_10BIT" /\ x + 1 \in DOMAIN Packed(p.rows[q + 1])
                 => Stored(format, p)[q * p.wStride + x] = Packed(p.rows[q + 1])[x + 1]
           /\ format # "YUV420SP_10BIT" /\ x < p.width
                 => Stored(format, p)[q * p.wStride + x] = p.rows[q + 1][x + 1] \div 4
<1> DEFINE S == p.wStride
           a == q * S + x
           bytes == [i \in DOMAIN p.rows |->
                       IF format = "YUV420SP_10BIT" THEN Packed(p.rows[i])
                       ELSE [k \in 1 .. p.width |-> p.rows[i][k] \div 4]]
<1>1. S \in Nat \ {0} /\ q \in Nat /\ q + 1 \in DOMAIN p.rows /\ Len(p.rows) + 1 \in Nat
  BY Sizes
<1>2. a \div S = q /\ a % S = x
  BY <1>1, RowAndColumn
<1>3. a \in 0 .. (Len(p.rows) + 1) * S
  <2> DEFINE b == Len(p.rows) + 1
             end == b * S
  <2>1. q \in Nat /\ b \in Nat /\ q < b
    BY <1>1
  <2>2. end \in Nat /\ a \in Nat /\ a < end
    <3> HIDE DEF b
    <3>. QED
      BY <1>1, <2>1, PlaceBefore
  <2> HIDE DEF a, b
  <2>3. a \in 0 .. end
    <3> HIDE DEF end
    <3>. QED
      BY <2>2
  <2>. QED
    BY <2>3 DEF b
<1>4. Stored(format, p)[a] =
         IF q + 1 \in DOMAIN p.rows /\ x + 1 \in DOMAIN bytes[q + 1]
         THEN bytes[q + 1][x + 1] ELSE p.pad
  BY <1>2, <1>3 DEF Stored
<1>5. bytes[q + 1] = IF format = "YUV420SP_10BIT" THEN Packed(p.rows[q + 1])
                     ELSE [k \in 1 .. p.width |-> p.rows[q + 1][k] \div 4]
  BY <1>1
<1> HIDE DEF bytes
<1>6. x < p.width => x + 1 \in 1 .. p.width
  BY Sizes
<1>. QED
  BY <1>1, <1>4, <1>5, <1>6

\* Fetching from a row gives what it has to show, wherever its plane begins.
LEMMA RowFetched ==
    ASSUME NEW p \in Pictures, RowsFit(p), NEW q \in 0 .. Len(p.rows) - 1,
           NEW x \in 0 .. p.width - 1
    PROVE  FetchData(Stored("YUV420SP_10BIT", p), q * p.wStride, x)
           = p.rows[q + 1][x + 1] \div 4
<1> DEFINE line == p.rows[q + 1]
           memory == Stored("YUV420SP_10BIT", p)
           begin == q * p.wStride
<1>1. /\ line \in Seq(Sample) /\ x \in 0 .. Len(line) - 1
      /\ q \in Nat /\ p.wStride \in Nat /\ begin \in Nat /\ Len(line) = p.width
  <2>1. q + 1 \in 1 .. Len(p.rows) /\ q \in Nat /\ p.wStride \in Nat
    BY Sizes
  <2>2. q <= q
    BY <2>1
  <2>3. begin \in Nat
    BY <2>1, <2>2, ProductGrows
  <2> HIDE DEF begin
  <2>. QED
    BY <2>1, <2>3, Sizes
<1>2. ASSUME NEW k \in DOMAIN Packed(line)
      PROVE  memory[begin + (k - 1)] = Packed(line)[k]
  <2>1. k \in 1 .. (Len(line) * 10 + 7) \div 8
    BY DEF Packed
  <2>2. k - 1 \in 0 .. p.wStride - 1 /\ (k - 1) + 1 = k
    <3> HIDE DEF line, begin
    <3>. QED
      BY <1>1, <2>1 DEF RowsFit
  <2>. QED
    BY <2>2, StoredRow
<1> HIDE DEF line, memory, begin
<1>3. FetchData(memory, begin, x) = line[x + 1] \div 4
  BY <1>1, <1>2, FetchesSample
<1>. QED
  BY <1>3 DEF line, memory, begin

\* The converted picture has the samples of the rows shown where the rows of an
\* eight-bit picture have them.
LEMMA ConvertedRow ==
    ASSUME NEW p \in Pictures, RowsFit(p), NEW ctx,
           ctx.wStride = p.wStride, ctx.hStride = p.hStride,
           NEW q \in RowsShown(p), NEW x \in 0 .. p.width - 1
    PROVE  Convert10bitTo8bit(Stored("YUV420SP_10BIT", p), ctx)[q * p.wStride + x]
           = p.rows[q + 1][x + 1] \div 4
<1> DEFINE S == p.wStride
           h == p.hStride
           memory == Stored("YUV420SP_10BIT", p)
           n == q * S + x
           sample(plane, m) == FetchData(memory, plane + (m \div S) * S, m % S)
           dst == [m \in 0 .. S * h + S * (h \div 2) - 1 |->
                     IF m < S * h THEN sample(0, m) ELSE sample(h * S, m - S * h)]
<1>1. Convert10bitTo8bit(memory, ctx) = dst
  BY DEF Convert10bitTo8bit
<1>2. /\ S \in Nat \ {0} /\ h \in Nat /\ q \in Nat /\ x \in 0 .. S - 1 /\ n \in Nat
      /\ q \in 0 .. Len(p.rows) - 1 /\ h * S \in Nat /\ q * S \in Nat
      /\ S * h = h * S /\ h \div 2 \in Nat
  <2>1. /\ S \in Nat \ {0} /\ h \in Nat /\ q \in 0 .. Len(p.rows) - 1 /\ x \in 0 .. S - 1
    BY Sizes, ShownRows
  <2>2. q \in Nat /\ q <= q /\ h <= h /\ S * h = h * S /\ h \div 2 \in Nat
    BY <2>1
  <2>3. h * S \in Nat /\ q * S \in Nat
    BY <2>1, <2>2, ProductGrows
  <2>4. n \in Nat
    <3> DEFINE begin == q * S
    <3> HIDE DEF begin, S
    <3>. QED
      BY <2>1, <2>3 DEF begin
  <2>. QED
    BY <2>1, <2>2, <2>3, <2>4
<1>3. FetchData(memory, q * S, x) = p.rows[q + 1][x + 1] \div 4
  BY <1>2, RowFetched
<1> HIDE DEF memory
<1>4. CASE q < h
  <2>1. q * S \in Nat /\ h * S \in Nat /\ S * h = h * S /\ n \in Nat /\ n < h * S
    BY <1>2, <1>4, PlaceBefore
  <2>2. n \div S = q /\ n % S = x
    BY <1>2, RowAndColumn
  <2>3. dst[n] = sample(0, n)
    <3> DEFINE luma == S * h
               chroma == S * (h \div 2)
    <3>1. luma \in Nat /\ chroma \in Nat /\ n < luma /\ n \in Nat
      BY <1>2, <2>1
    <3>2. n \in 0 .. luma + chroma - 1
      <4> HIDE DEF luma, chroma, n
      <4>. QED
        BY <3>1
    <3> HIDE DEF n, sample
    <3>. QED
      BY <3>1, <3>2
  <2>4. 0 + q * S = q * S
    BY <2>1
  <2>5. sample(0, n) = FetchData(memory, q * S, x)
    <3> HIDE DEF n
    <3>. QED
      BY <2>2, <2>4
  <2> HIDE DEF dst, n, sample
  <2>6. dst[n] = p.rows[q + 1][x + 1] \div 4
    BY <1>3, <2>3, <2>5
  <2>. QED
    BY <1>1, <2>6 DEF n, memory
<1>5. CASE ~(q < h)
  <2> DEFINE c == q - h
             m == c * S + x
             luma == S * h
             chroma == S * (h \div 2)
  <2>1. c \in Nat /\ q = h + c /\ c < h \div 2 /\ h \div 2 \in Nat
    <3>1. c \in 0 .. h \div 2 - 1
      BY <1>5, ShownRows
    <3> DEFINE half == h \div 2
    <3>2. half \in Nat /\ h \in Nat /\ q \in Nat
      BY <1>2
    <3> HIDE DEF half, h
    <3>. QED
      BY <3>1, <3>2 DEF half
  <2>2. /\ c * S \in Nat /\ (h \div 2) * S \in Nat
        /\ S * (h \div 2) = (h \div 2) * S /\ m \in Nat /\ m < (h \div 2) * S
    <3> HIDE DEF c
    <3>. QED
      BY <1>2, <2>1, PlaceBefore
  <2>3. q * S = h * S + c * S
    <3>1. \A u, v, w \in Nat : (u + v) * w = u * w + v * w
      OBVIOUS
    <3> HIDE DEF c, S, h
    <3>. QED
      BY <1>2, <2>1, <3>1
  <2>4. m \div S = c /\ m % S = x
    <3> HIDE DEF c
    <3>. QED
      BY <1>2, <2>1, RowAndColumn
  <2>5. /\ luma \in Nat /\ chroma \in Nat /\ luma = h * S /\ m < chroma /\ m \in Nat
        /\ n = luma + m
    <3>1. luma \in Nat /\ luma = h * S
      BY <1>2
    <3> DEFINE qS == q * S
               hS == h * S
               cS == c * S
    <3>2. qS = hS + cS /\ hS \in Nat /\ cS \in Nat /\ x \in Nat
      BY <1>2, <2>2, <2>3
    <3>3. qS + x = hS + (cS + x)
      <4> HIDE DEF qS, hS, cS
      <4>. QED
        BY <3>2
    <3>. QED
      BY <2>2, <3>1, <3>3
  <2>6. n \in 0 .. luma + chroma - 1 /\ ~(n < luma) /\ n - luma = m
    <3> HIDE DEF luma, chroma, n, m
    <3>. QED
      BY <2>5
  <2>7. dst[n] = sample(h * S, n - luma)
    <3> HIDE DEF n, sample
    <3>. QED
      BY <2>6
  <2>8. sample(h * S, m) = FetchData(memory, h * S + c * S, x)
    <3> HIDE DEF m, c
    <3>. QED
      BY <2>4
  <2> HIDE DEF dst, n, c, m, luma, sample
  <2>9. dst[n] = p.rows[q + 1][x + 1] \div 4
    BY <1>3, <2>3, <2>6, <2>7, <2>8
  <2>. QED
    BY <1>1, <2>9 DEF n, memory
<1>. QED
  BY <1>4, <1>5

\* What the color converter reads of the picture in memory, converted or not.
LEMMA ReadsPicture ==
    ASSUME NEW p \in Pictures, NEW src, NEW dst,
           src = "YUV420SP_10BIT" => RowsFit(p)
    PROVE  LET ctx == InitCallback(p, src, dst)
               stored == Stored(ctx.src, p)
           IN  ColorConverterReads(IF ctx.src = "YUV420SP_10BIT"
                                   THEN Convert10bitTo8bit(stored, ctx) ELSE stored, ctx)
               = Pixels(p)
<1> DEFINE ctx == InitCallback(p, src, dst)
           stored == Stored(ctx.src, p)
           memory == IF ctx.src = "YUV420SP_10BIT"
                     THEN Convert10bitTo8bit(stored, ctx) ELSE stored
<1>1. /\ ctx.width = p.width /\ ctx.height = p.height
      /\ ctx.wStride = p.wStride /\ ctx.hStride = p.hStride
      /\ ctx.src = "YUV420SP_10BIT" => RowsFit(p)
  BY DEF InitCallback, Nil
<1> HIDE DEF ctx
<1>2. RowsShown(ctx) = RowsShown(p)
  BY <1>1 DEF RowsShown
<1>3. ASSUME NEW q \in RowsShown(p), NEW x \in 0 .. p.width - 1
      PROVE  memory[q * p.wStride + x] = p.rows[q + 1][x + 1] \div 4
  <2>1. CASE ctx.src = "YUV420SP_10BIT"
    BY <1>1, <1>3, <2>1, ConvertedRow
  <2>2. CASE ctx.src # "YUV420SP_10BIT"
    <3>1. q \in 0 .. Len(p.rows) - 1 /\ x \in 0 .. p.wStride - 1 /\ x < p.width
      BY Sizes, ShownRows
    <3>. QED
      BY <2>2, <3>1, StoredRow
  <2>. QED
    BY <2>1, <2>2
<1> HIDE DEF memory
<1>4. ColorConverterReads(memory, ctx) =
         [q \in RowsShown(p) |-> [x \in 0 .. p.width - 1 |-> memory[q * p.wStride + x]]]
  BY <1>1, <1>2 DEF ColorConverterReads
<1>5. ColorConverterReads(memory, ctx) = Pixels(p)
  BY <1>3, <1>4 DEF Pixels
<1>. QED
  BY <1>5 DEF memory, ctx

\* A frame shows the picture the caller asked for, of any size and strides, in
\* whichever form the decoder had it.
THEOREM FrameIsPictureAlways == RetrieverSpec => []FrameIsPicture
<1>1. ASSUME NEW format, NEW bpp
      PROVE  Frame(format, bpp).pixels = Pixels(Frame(format, bpp).picture)
  BY DEF Frame
<1>2. NoFrame.pixels = Pixels(NoFrame.picture)
  BY DEF NoFrame, Frame
<1>3. RetrieverInit => FrameIsPicture
  BY <1>2 DEF RetrieverInit, FrameIsPicture
<1>4. FrameIsPicture /\ [RetrieverNext]_retrieverVars => FrameIsPicture'
  <2> SUFFICES ASSUME FrameIsPicture, [RetrieverNext]_retrieverVars
               PROVE  FrameIsPicture'
    OBVIOUS
  <2>1. CASE UNCHANGED mFrameMemory
    BY <2>1 DEF FrameIsPicture
  <2>2. ASSUME mFrameMemory' = NoFrame PROVE FrameIsPicture'
    BY <1>2, <2>2 DEF FrameIsPicture
  <2>3. ASSUME NEW format \in {"RGB565", "RGBA8888", "YV12"}, NEW src \in SrcFormats,
               NEW p \in Pictures, NEW called \in BOOLEAN, NEW handedOn \in BOOLEAN,
               NEW allocated \in BOOLEAN, NEW converted \in BOOLEAN,
               GetFrame(format, called, handedOn, src, p, allocated, converted)
        PROVE  FrameIsPicture'
    <3> DEFINE dst == IF handedOn THEN format ELSE Nil
               ctx == InitCallback(p, src, dst)
               stored == Stored(ctx.src, p)
               pixels == ColorConverterReads(IF ctx.src = "YUV420SP_10BIT"
                                             THEN Convert10bitTo8bit(stored, ctx)
                                             ELSE stored, ctx)
    <3>1. CASE mFrameMemory' = AllocVideoFrame(ctx)
      BY <1>1, <3>1 DEF AllocVideoFrame, FrameIsPicture
    <3>2. CASE mFrameMemory' = [AllocVideoFrame(ctx) EXCEPT !.picture = p, !.pixels = pixels]
      <4>1. pixels = Pixels(p)
        BY <2>3, ReadsPicture DEF GetFrame
      <4> HIDE DEF pixels
      <4>2. mFrameMemory'.picture = p /\ mFrameMemory'.pixels = pixels
        BY <3>2 DEF AllocVideoFrame, Frame
      <4>. QED
        BY <4>1, <4>2 DEF FrameIsPicture
    <3>. QED
      BY <2>1, <2>3, <3>1, <3>2 DEF GetFrame, GetFrameInternal, FillVideoFrame
  <2>4. ASSUME NEW enabled, NEW symbols, NEW objects,
               CreateMetadataRetriever(enabled, symbols, objects)
        PROVE  UNCHANGED mFrameMemory
    BY <2>4 DEF CreateMetadataRetriever
  <2>5. ASSUME NEW s, NEW passed, NEW accepted, SetRetrieverSource(s, passed, accepted)
        PROVE  UNCHANGED mFrameMemory
    BY <2>5 DEF SetRetrieverSource
  <2>6. ExtractAlbumArt \/ ExtractMetadata \/ GetImage \/ UNCHANGED retrieverVars
           => UNCHANGED mFrameMemory
    BY DEF ExtractAlbumArt, ExtractMetadata, GetImage, retrieverVars
  <2>7. DestroyRetriever => mFrameMemory' = NoFrame
    BY DEF DestroyRetriever, DestoryMetadataRetriever
  <2>. QED
    BY <2>1, <2>2, <2>3, <2>4, <2>5, <2>6, <2>7 DEF RetrieverNext
<1>. QED
  BY <1>3, <1>4, PTL DEF RetrieverSpec
=============================================================================
