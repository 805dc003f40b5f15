---------------------------- MODULE RockitPlayer ----------------------------
(***************************************************************************)
(* The player: RockitPlayerClient, which the media service calls, one call *)
(* at a time; RockitPlayerManager, which owns the callback objects;        *)
(* RockitPlayer, which passes calls to the closed player library; and the  *)
(* callback objects, which the library calls from threads of its own.      *)
(*                                                                         *)
(* The library is external.  It follows the states of a media player and   *)
(* may refuse any call; from prepare until reset it may call every object  *)
(* it was given and has not been told to replace; after reset and in its   *)
(* destructor it calls none.  An AudioSink belongs to the media service:   *)
(* it keeps a playback rate set before it is opened, has none to report    *)
(* until then, and refuses speed 0 once it is open.                        *)
(***************************************************************************)
EXTENDS Integers, Sequences, FiniteSets, SequencesExt

CONSTANTS Rates,       \* speeds an AudioSink takes
          Default,     \* AUDIO_PLAYBACK_RATE_DEFAULT
          Zero,        \* speed 0, which setPlaybackSettings lets through
          Invalid,     \* a speed or pitch out of range
          TrackLists,  \* what a file may hold: sequences of library types
          Positions,   \* what the library may report, in microseconds
          PerMs,       \* 1000
          Half,        \* 2^31: int is from -Half to Half - 1
          MaxSinks     \* bound: calls of setAudioSink

ASSUME PlayerAssumption ==
    /\ Default \in Rates /\ Zero \notin Rates /\ Invalid \notin Rates \cup {Zero}
    /\ Positions \subseteq Nat /\ 0 \in Positions
    /\ PerMs \in Nat \ {0} /\ Half \in Nat \ {0} /\ MaxSinks \in Nat

NoSink == 0

VARIABLES phase,    \* of the RockitPlayerClient
          live,     \* callback objects that exist
          held,     \* those the library has a pointer to
          state,    \* of the library's player
          sink,     \* number of mAudioSinkCB, or None
          opened,   \* AudioSinks that are open
          rate,     \* per AudioSink: its playback rate
          mAudioPlayRate, mAudioPlayRateChanged,
          asked,    \* the rate the library was told last, and plays the picture at
          tracks,   \* library types of the file's tracks
          shown,    \* the types in the last answer to GET_TRACK_INFO
          answer    \* what the app last selected, was told of, sought or heard

objectVars == <<phase, live, held, state>>
rateVars == <<sink, opened, rate, mAudioPlayRate, mAudioPlayRateChanged, asked>>
trackVars == <<tracks, shown, answer>>
playerVars == <<objectVars, rateVars, trackVars>>

Msg == <<"msg", 1>>
Subtitle == <<"subtitle", 1>>
Video == <<"video", 1>>
Audio(i) == <<"audio", i>>
Sinks == 1 .. MaxSinks
Objects == {Msg, Subtitle, Video} \cup {Audio(i) : i \in Sinks}

\* Faulty variant: with the rows of the two text types the other way round.
SwappedTypeMap ==
    << <<"unknown", "unknown">>, <<"video", "video">>, <<"audio", "audio">>,
       <<"subtitle", "subtitle">>, <<"timedtext", "subtitle">>,
       <<"metadata", "attachment">> >>

\* MEDIA_TRACK_TYPE_ and RTTRACK_TYPE_, in the order of the table.
kTrackTypeMap ==
    << <<"unknown", "unknown">>, <<"video", "video">>, <<"audio", "audio">>,
       <<"timedtext", "subtitle">>, <<"subtitle", "subtitle">>,
       <<"metadata", "attachment">> >>

AndroidTypes == {kTrackTypeMap[i][1] : i \in DOMAIN kTrackTypeMap}
LibraryTypes == {kTrackTypeMap[i][2] : i \in DOMAIN kTrackTypeMap}

ASSUME TracksAssumption == TrackLists \subseteq Seq(LibraryTypes)

\* translateMediaType: the first row that matches decides.
Translate(type, from, to) ==
    LET row == SelectInSeq(kTrackTypeMap, LAMBDA r : r[from] = type)
    IN  IF row = 0 THEN "unknown" ELSE kTrackTypeMap[row][to]
ToAndroid(type) == Translate(type, 2, 1)
ToLibrary(type) == Translate(type, 1, 2)

\* The library's threads run, and call what they were given.
States == {"idle", "sourced", "prepared", "started", "paused", "stopped"}
Running == state \in States \ {"idle", "sourced"}

Nothing == [kind |-> "nothing"]

Channels == {"stereo", "left", "right"}
Frames == << <<"l1", "r1">>, <<"l2", "r2">> >>  \* a buffer of the library

PlayerTypeOK ==
    /\ phase \in {"none", "ready", "resetting", "deleting", "gone", "crashed"}
    /\ live \subseteq Objects /\ held \subseteq Objects
    /\ state \in States
    /\ sink \in Sinks \cup {NoSink} /\ opened \subseteq Sinks
    /\ rate \in [Sinks -> Rates \cup {Zero}]
    /\ mAudioPlayRate \in Rates \cup {Zero} /\ mAudioPlayRateChanged \in BOOLEAN
    /\ asked \in Rates \cup {Zero}
    /\ \A i \in DOMAIN shown : shown[i] \in AndroidTypes
    /\ \/ answer = Nothing
       \/ answer \in [kind : {"track"}, type : AndroidTypes, index : Nat]
       \/ answer \in [kind : {"position"}, of : Positions, ms : -Half .. Half - 1]
       \/ answer \in [kind : {"sought"}, of : Positions, us : Int]
       \/ answer \in [kind : {"text"}, of : Positions, start : -Half .. Half - 1]
       \/ answer.kind = "heard" /\ answer.first \in Channels /\ answer.then \in Channels

PlayerInit ==
    /\ phase = "none" /\ live = {} /\ held = {} /\ state = "idle"
    /\ sink = NoSink /\ opened = {} /\ rate = [i \in Sinks |-> Default]
    /\ mAudioPlayRate = Default /\ mAudioPlayRateChanged = FALSE
    /\ asked = Default
    /\ tracks = <<>> /\ shown = <<>> /\ answer = Nothing
---------------------------------------------------------------------------
(* Construction and destruction.                                           *)

\* setListener, setSubteSink, setVideoSink and setAudioSink give the library a
\* pointer in the place of the one it had, if it had one.
Hand(objects, instead) == held' = (held \ instead) \cup objects

\* RockitPlayer::setPlaybackSettings: the library is told the speed.
TellSpeed(r) == asked' = r

\* createPlayer goes on after each message, and calls what dlsym gave it.
LibraryWorks(loaded, created) == loaded /\ created

\* The library is given the listener and the subtitle sink.  Without a
\* library, or a player of it, the constructor calls through NULL.
Construct(loaded, created) ==
    /\ phase = "none"
    /\ IF LibraryWorks(loaded, created)
       THEN /\ phase' = "ready"
            /\ live' = {Msg, Subtitle} /\ Hand({Msg, Subtitle}, {})
       ELSE phase' = "crashed" /\ UNCHANGED <<live, held>>
    /\ UNCHANGED <<state, rateVars, trackVars>>

\* From the constructor to the destructor mPlayer is set, and a call of the
\* client is passed on.
Called == phase = "ready"

(* The source, playing and seeking.  What the library answers is dropped:  *)
(* the app is told OK.                                                     *)

\* The library takes a source when it has none.
Sourced(file) ==
    \/ state = "idle" /\ state' = "sourced" /\ tracks' = file
    \/ UNCHANGED <<state, tracks>>

\* A descriptor or a URL is handed to the library, a stream is dropped.
GivesSource(file, stream) ==
    IF stream THEN UNCHANGED <<state, tracks>> ELSE Sourced(file)

SetDataSource(file, stream) ==
    /\ Called /\ GivesSource(file, stream)
    /\ UNCHANGED <<phase, live, held, rateVars, shown, answer>>

\* The states from which the library takes a call, and where it leads.
Taken ==
    [prepare |-> {"sourced", "stopped"}, prepareAsync |-> {"sourced", "stopped"},
     start |-> {"prepared", "paused"}, pause |-> {"started"},
     stop |-> {"prepared", "started", "paused"}]
Leads ==
    [prepare |-> "prepared", prepareAsync |-> "prepared", start |-> "started",
     pause |-> "paused", stop |-> "stopped"]

LibraryCall(call) ==
    \/ state \in Taken[call] /\ state' = Leads[call]
    \/ UNCHANGED state

Control(call) ==
    /\ Called /\ LibraryCall(call)
    /\ UNCHANGED <<phase, live, held, rateVars, trackVars>>

Int32(n) == ((n + Half) % (2 * Half)) - Half

\* Microseconds of the library and milliseconds of Android, cut to an int.
ToMs(us) == Int32(us \div PerMs)

\* Faulty variant: the library is given milliseconds.
ToUsUnscaled(ms) == ms

ToUs(ms) == ms * PerMs

GetCurrentPosition(us) ==
    /\ Called /\ answer' = [kind |-> "position", of |-> us, ms |-> ToMs(us)]
    /\ UNCHANGED <<objectVars, rateVars, tracks, shown>>

\* An app seeks to where it was told it is.
SeekTo ==
    /\ Called /\ answer.kind = "position"
    /\ answer' = [kind |-> "sought", of |-> answer.of, us |-> ToUs(answer.ms)]
    /\ UNCHANGED <<objectVars, rateVars, tracks, shown>>

\* RTMsgCallback: the library's thread sends a text with its time, cut to an int.
Notify(pts) ==
    /\ phase = "ready" /\ Running /\ Msg \in held
    /\ answer' = [kind |-> "text", of |-> pts, start |-> Int32(pts)]
    /\ UNCHANGED <<objectVars, rateVars, tracks, shown>>

\* What the library does in reset: it forgets the source and closes the sink.
LibraryReset == state' = "idle" /\ tracks' = <<>> /\ opened' = {}

\* The app drops what it knows of the file.
Reset ==
    /\ Called /\ LibraryReset
    /\ shown' = <<>> /\ answer' = Nothing
    /\ UNCHANGED <<phase, live, held, sink, rate, mAudioPlayRate, mAudioPlayRateChanged,
                   asked>>

\* Faulty variant: the callbacks are deleted under a library that plays.
DestructorUnreset ==
    /\ Called /\ phase' = "resetting"
    /\ UNCHANGED <<live, held, state, rateVars, trackVars>>

DestructorReset ==
    /\ Called /\ phase' = "resetting" /\ LibraryReset
    /\ UNCHANGED <<live, held, sink, rate, mAudioPlayRate, mAudioPlayRateChanged,
                   asked, shown, answer>>

\* deinitPlayer deletes the objects it has, which is the last audio sink.
DeinitPlayer ==
    /\ phase = "resetting" /\ phase' = "deleting"
    /\ live' = live \ {Msg, Subtitle, Video, Audio(sink)}
    /\ UNCHANGED <<held, state, rateVars, trackVars>>

DestroyPlayer ==
    /\ phase = "deleting" /\ phase' = "gone"
    /\ held' = {} /\ state' = "idle"
    /\ UNCHANGED <<live, rateVars, trackVars>>
---------------------------------------------------------------------------
(* Sinks and the playback rate.                                            *)

\* RTSurfaceCallback::setNativeWindow: its constructor has made a native window,
\* also of no surface, and another surface is ignored.
SetNativeWindow == UNCHANGED <<live, held>>

\* The first surface makes the callback.
SetVideoSurfaceTexture ==
    /\ Called
    /\ IF Video \in live THEN SetNativeWindow
       ELSE live' = live \cup {Video} /\ Hand({Video}, {})
    /\ UNCHANGED <<phase, state, rateVars, trackVars>>

\* RTAudioSinkCallback::setPlaybackRate, whose result no caller looks at.
SinkRate(i, r) ==
    rate' = IF r = Zero /\ i \in opened THEN rate ELSE [rate EXCEPT ![i] = r]

\* The callback made before is neither deleted nor held any longer.
NewSink(i) ==
    /\ sink' = i
    /\ live' = live \cup {Audio(i)}
    /\ Hand({Audio(i)}, {Audio(sink)})

\* Faulty variant: a rate set before is not handed over.
SetAudioSinkAsIs(i) ==
    /\ Called /\ i = sink + 1
    /\ NewSink(i)
    /\ UNCHANGED <<phase, state, opened, rate, mAudioPlayRate, mAudioPlayRateChanged,
                   asked, trackVars>>

SetAudioSink(i) ==
    /\ Called /\ i = sink + 1
    /\ NewSink(i)
    /\ IF mAudioPlayRateChanged THEN SinkRate(i, mAudioPlayRate) ELSE UNCHANGED rate
    /\ mAudioPlayRateChanged' = FALSE
    /\ UNCHANGED <<phase, state, opened, mAudioPlayRate, asked, trackVars>>

\* Faulty variant: speed and pitch are not looked at.
SetPlaybackSettingsUnchecked(r) ==
    /\ Called
    /\ mAudioPlayRate' = r /\ TellSpeed(r)
    /\ IF sink # NoSink
       THEN SinkRate(sink, r) /\ UNCHANGED mAudioPlayRateChanged
       ELSE mAudioPlayRateChanged' = TRUE /\ UNCHANGED rate
    /\ UNCHANGED <<objectVars, sink, opened, trackVars>>

SetPlaybackSettings(r) ==
    /\ Called /\ r # Invalid
    /\ mAudioPlayRate' = r /\ TellSpeed(r)
    /\ IF sink # NoSink
       THEN SinkRate(sink, r) /\ UNCHANGED mAudioPlayRateChanged
       ELSE mAudioPlayRateChanged' = TRUE /\ UNCHANGED rate
    /\ UNCHANGED <<objectVars, sink, opened, trackVars>>

\* RTAudioSinkCallback::getPlaybackRate.
SinkReports == IF sink \in opened THEN rate[sink] ELSE Default

GetPlaybackSettings ==
    /\ Called
    /\ mAudioPlayRate' = IF sink # NoSink THEN SinkReports ELSE mAudioPlayRate
    /\ UNCHANGED <<objectVars, sink, opened, rate, mAudioPlayRateChanged, asked, trackVars>>

\* Threads of the library open and close the sink they were given.
Open ==
    /\ Running /\ sink # NoSink /\ opened' = opened \cup {sink}
    /\ UNCHANGED <<objectVars, sink, rate, mAudioPlayRate, mAudioPlayRateChanged, asked, trackVars>>

Close ==
    /\ Running /\ sink \in opened /\ opened' = opened \ {sink}
    /\ UNCHANGED <<objectVars, sink, rate, mAudioPlayRate, mAudioPlayRateChanged, asked, trackVars>>
\* Faulty variant: the channels change places.
MixedSwapped(mode, frame) ==
    IF mode = "stereo" THEN frame ELSE <<frame[2], frame[1]>>

\* One channel is copied over the other in the library's buffer, of two channels
\* of PCM; others are as in stereo.
Mixed(mode, frame) ==
    CASE mode = "left" -> <<frame[1], frame[1]>>
      [] mode = "right" -> <<frame[2], frame[2]>>
      [] OTHER -> frame

\* The sink takes n frames of a buffer, and the library writes the rest again;
\* it may have set another mode by then.
Write(first, then, n) ==
    /\ Running /\ sink \in opened
    /\ answer' = [kind |-> "heard", first |-> first, then |-> then,
                  frames |-> [i \in DOMAIN Frames |->
                     IF i <= n THEN Mixed(first, Frames[i])
                               ELSE Mixed(then, Mixed(first, Frames[i]))]]
    /\ UNCHANGED <<objectVars, rateVars, tracks, shown>>
---------------------------------------------------------------------------
(* invoke.                                                                 *)

\* The types fillTrackInfoReply writes; others are counted but not written.
Listed(type) == type \in {"video", "audio", "subtitle", "timedtext"}

IsListed(i) == Listed(ToAndroid(tracks[i]))

\* How many of the first n tracks are written.
ListedUpTo(n) == Cardinality({i \in 1 .. n : IsListed(i)})

\* The types in the reply, in the order of the tracks.
Shown ==
    [n \in 1 .. ListedUpTo(Len(tracks)) |->
       ToAndroid(tracks[CHOOSE i \in DOMAIN tracks : IsListed(i) /\ ListedUpTo(i) = n])]

GetTrackInfo ==
    /\ Called /\ shown' = Shown
    /\ UNCHANGED <<objectVars, rateVars, tracks, answer>>

\* SELECT_TRACK: the library is given the place in the list the app was shown.
SelectTrack(i) ==
    /\ Called /\ i \in DOMAIN shown
    /\ answer' = [kind |-> "track", type |-> shown[i], index |-> i]
    /\ UNCHANGED <<objectVars, rateVars, tracks, shown>>

\* GET_SELECTED_TRACK: the library answers with the place of a track of the
\* type, or -1.
GetSelectedTrack(type, i) ==
    /\ Called /\ i \in DOMAIN tracks /\ tracks[i] = ToLibrary(type)
    /\ answer' = [kind |-> "track", type |-> type, index |-> i]
    /\ UNCHANGED <<objectVars, rateVars, tracks, shown>>
---------------------------------------------------------------------------
PlayerNext ==
    \/ \E loaded, created \in BOOLEAN : Construct(loaded, created)
    \/ \E file \in TrackLists, stream \in BOOLEAN : SetDataSource(file, stream)
    \/ \E call \in DOMAIN Taken : Control(call)
    \/ \E us \in Positions : GetCurrentPosition(us) \/ Notify(us)
    \/ SeekTo \/ Reset
    \/ DestructorReset \/ DeinitPlayer \/ DestroyPlayer
    \/ SetVideoSurfaceTexture
    \/ \E i \in Sinks : SetAudioSink(i)
    \/ \E r \in Rates \cup {Zero, Invalid} : SetPlaybackSettings(r)
    \/ GetPlaybackSettings
    \/ Open \/ Close
    \/ \E first, then \in Channels, n \in 0 .. Len(Frames) : Write(first, then, n)
    \/ GetTrackInfo
    \/ \E i \in DOMAIN shown : SelectTrack(i)
    \/ \E type \in AndroidTypes, i \in DOMAIN tracks : GetSelectedTrack(type, i)

PlayerSpec == PlayerInit /\ [][PlayerNext]_playerVars
---------------------------------------------------------------------------
(* Whatever the library may call exists, while callbacks are set, replaced *)
(* and deleted under its threads (deinitPlayer deletes them before the     *)
(* library's player).                                                      *)
CallsLiveObjects == Running => held \subseteq live

(* The only AudioSink plays at the rate asked for last, whether that was   *)
(* before it was set, before it was opened or while it plays, and however  *)
(* often the settings were read (setAudioSink, lines 214-224).  Speed 0 is *)
(* left out: an open sink refuses it.                                      *)
SinkHasRate == sink = 1 /\ asked # Zero => rate[1] = asked

(* The track an app selects, or is told is selected, is of the type it     *)
(* sees: the types survive both directions of the table, and a place in    *)
(* the reply is the library's place, when every track up to it is listed.  *)
(* A SUBTITLE is reported as TIMEDTEXT, the first row with its type.       *)
PicksWhatIsShown ==
    answer.kind = "track" /\ answer.type # "subtitle" /\ tracks # <<>>
        /\ (\A j \in 1 .. answer.index : Listed(ToAndroid(tracks[j])))
        => ToAndroid(tracks[answer.index]) = answer.type

(* An app that seeks to the position it was told is sent back by less than *)
(* a millisecond, and never forward (seekTo, getCurrentPosition), and a    *)
(* text has its time (notify), up to what an int holds: beyond 24 days of  *)
(* playing, and times of that size, both are negative.                     *)
TimesSurvive ==
    /\ answer.kind = "sought" /\ answer.of < Half * PerMs
           => answer.us <= answer.of /\ answer.of - answer.us < PerMs
    /\ answer.kind = "text" /\ answer.of < Half => answer.start = answer.of

Sides == [stereo |-> <<1, 2>>, left |-> <<1, 1>>, right |-> <<2, 2>>]

(* A listener hears the channel that was chosen from both sides, also of   *)
(* frames that a full sink makes the library write, and so convert, twice  *)
(* (write).  If the mode changes in between, the rest of that buffer may   *)
(* be of the channel chosen first, which is all the buffer has by then.    *)
HeardAsChosen ==
    answer.kind = "heard" =>
       \A i \in DOMAIN Frames :
          \E mode \in {answer.first} \cup
                      (IF answer.first = "stereo" THEN {answer.then} ELSE {}) :
             answer.frames[i] = [side \in 1 .. 2 |-> Frames[i][Sides[mode][side]]]
=============================================================================
