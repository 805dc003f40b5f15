# TLA+ specifications of the Rockchip media HAL layer

The repository holds the vendor-side interface code of Rockchip's Android platform: a video player that
draws through a tunnelled window, a codec HAL in a service of its own, audio settings shared by several
processes, a neural-network HAL and an output-manager HAL. This directory models the parts that own state,
in particular state shared between threads or processes, checks them with TLC and proves the most important
results with TLAPS.
All paths below are relative to `src/interfaces/`.

## 1. Inventory

| # | Component (source) | State | Operations | Interacts with | What is hard | What makes it correct |
|---|---|---|---|---|---|---|
| A1 | Message queue (`rockit/direct/sideband/MessageQueue.cpp`, `MessageThread.cpp`) | list, reply statuses, mutexes, condition variables | `send`, `send` with reply, `receive`, `reply` | sideband window | two locks per synchronous send, lost wake-ups, stale statuses | each send is served once, in order, and its caller wakes with its own status |
| A2 | Sideband window (`.../RTSidebandWindow.cpp`) | `mRenderingQueue`, `mThreadRunning`, geometry | allocate, free, remain, queue, dequeue, flush, release; handlers of the render thread | queue, renderer, gralloc, surface callback | two threads on an unlocked vector; dequeue looks now and removes later | each buffer has one owner, none is lent while on screen, nothing is left after release |
| A3 | DRM renderer (`.../DrmVopRender.cpp`) | outputs, framebuffer cache | initialize, detect, SetDrmPlane, deinitialize | window, kernel | one look at the display, error paths that go on without a crtc, cache keyed by a number the kernel reuses | the plane shows the buffer it is given; no framebuffer is left; nothing crashes on a display that is on |
| B | Surface callback (`rockit/direct/RTSurfaceCallback.cpp`) | native window, `mTunnel`, sideband handle, its DRM file | buffer calls, setSidebandStream, destructor | player, window, BufferQueue, C1 | global names the kernel reuses, ignored results, second setSidebandStream | a name given to the decoder opens the buffer it was given for |
| C1 | Codec decoder (`rockit/hw/hidl/1.0/utils/hw/mpi/RockitHwMpi.cpp`) | `mCommitList`, `mDataList`, mpp group | enqueue, dequeue, commit, give back, reset, flush, control, destructor | client process, mpp, DRM names | references kept by two processes, info change, reuse of names | references balance; no frame on loan is decoded into; old frames are freed |
| C2 | Codec service, manager, client (`RockitHwService.cpp`, `RockitHwManager.cpp`, `client/`) | client list, one decoder per manager | create, destroy, forwarded calls | binder, C1 | a destroy that overtakes the create, killed clients, failed init, a crash of the service | every client has its own live decoder, and nothing stays when it is gone |
| D | Player (`rockit/direct/RockitPlayer*.cpp`, callbacks) | player object, sinks, callbacks, rate | create, destroy, set sinks, invoke, notify | closed library, A, E | order of destruction against callbacks, settings made before there is a sink, conversions both ways | no callback reaches a deleted sink; rates, tracks and times survive |
| E | Subtitle sink (`rockit/direct/RTSubtitleSink.cpp`) | EGL surface, show and bind flags | create, destroy, render, show, hide, clean | player | three threads that test flags before they take the lock, a thread bound to an old surface | drawn on the surface of now; visible when the flag says so |
| F | Metadata retriever (`rockit/direct/RockitMetadataRetriever.cpp`, callback) | parsed keys, album art, frame | setDataSource, getFrame, extract | closed library | caches over data sources, queries that fail, samples across bytes | what is kept belongs to the current source; a frame shows its picture |
| G1 | Audio document (`rksoundsetting/RkAudioSettingManager.cpp`) | XML document: select, device, mode, formats | set and get of each; update from EDID | settings app, audio HAL | lists without checks; user and hot plug change the same list | one device selected, no format listed twice unasked, formats follow the sink |
| G2 | Audio configuration file (same, and `RkAudioSetting.cpp`) | the file and a temporary one | construct, load, save | other processes, kills | a kill between any two file calls | it always starts again, with the settings saved last |
| G3 | EDID parser (`rksoundsetting/audio_hw_hdmi.cpp`) | formats found | parse | G1, kernel | counts and block bounds | the formats of all blocks are found |
| H | Neural networks HAL (`neuralnetworks/1.0/`) | `ctx`, a member of the one service object; an app's context and pool | init, destroy, inputs, run, outputs | rknn library, binder | eight threads on one member; results that are not passed on | each app works with its own context, inputs and outputs |
| I | Output manager HAL (`outputmanager/1.0/`) | none | forwarded calls | composer library | - | - |

Build files, policies, vendored headers (mpp, drm, rknn), prebuilt libraries, `heapsnap.cpp` and
`RTChips.cpp` hold no logic to model. The repository has no tests; the documentation of behaviour is the
comments, the macros and the log messages of the code.

`PROJECT.json` lists the components with their status, and under `hazards` every point of the code where
an ordering, a race, a kill or a boundary can go wrong, with the properties that watch it or the reason
none does.

## 2. Modules

| Module | What it is | Correspondence to the code |
|---|---|---|
| `RequestChannel` | abstract: pending requests in order, and an answer per caller | the promise of `MessageQueue` |
| `MessageQueue` | A1 | a step is what a thread does under one lock; `caller` is a sender's place in `send(&msg, id)`, `receiver` that of the receiving thread |
| `BufferFifo` | abstract: a queue of buffers and the player's own | the promise of the window |
| `SidebandWindow` | A2 with the tunnel half of B; an instance of `MessageQueue` | player thread: one action per call of `RTSurfaceCallback`, `dequeueBuffer` in three (size, front, send) because the render thread may come between; render thread: `receive`, one action per handler, `reply` |
| `SurfaceCallback` | B without a tunnel, with the names of buffers | one action per call of the callback object; the kernel's names, the BufferQueue and the HAL's commit are external actions |
| `DrmVopRender` | A3 | `Initialize` is `initialize` and `detect`, `SetDrmPlane` a render, `Deinitialize` the end; gralloc's allocate and free are external actions. A framebuffer is named by its memory |
| `HwParams` | parameters of a HAL call | operators: get and set by key, and the conversions of client and service |
| `RockitHwMpi` | C1; extends `HwParams` | one action per HAL operation (all but `flush` run under `mLock`), plus external actions of the decoder (`Decode`, `Drop`) and the client (`AllocateData`, `FreeData`) |
| `CodecService` | C2 | client: constructor, call, destructor in its steps, kill; service: `create` in two steps (answer, `addClient`), end of a call, crash, restart |
| `RockitPlayer` | D | one action per call of `RockitPlayerClient` with what manager and player do in it, except the destructor, which is three; the library's calls of the callbacks are actions of their own |
| `SubtitleSink` | E | three threads; a step ends where `mRenderLock` is free or a flag was tested |
| `MetadataRetriever` | F | one action per operation (they run under `mLock`), with the calls of the callback object in it |
| `AudioSetting` | G1 | one action per setter; a format list is the number of times each format is in it |
| `HdmiAudio` | G3; extends `AudioSetting` | the parser as operators over blocks, and the hot plug with a whole EDID |
| `AudioConfigFile` | G2 | one action per file-system call; a kill may come between any two |
| `RKNeuralnetworks` | H | `InitLoad`, `InitReply` and `GetModelInfo` are `rknn_init` up to and from the service's second use of `ctx`, and the queries after it; one action per other call of an app, which covers API, bridge, service and library |
| `MCMessageQueue`, `MCDrmVopRender`, `MCAudioSetting`, `MCRKNeuralnetworks`, `MCRockitPlayer`, `MCMetadataRetriever`, `MCSurfaceCallback` | constants of the runs | - |
| `MessageQueue_proofs`, `SidebandWindow_proofs`, `DrmVopRender_proofs`, `RKNeuralnetworks_proofs`, `CodecService_proofs` | theorems about the module of that name | - |
| `AudioSetting_proofs` | theorems about `AudioSetting`, `HdmiAudio` and `AudioConfigFile` | - |
| `RockitDirect_proofs` | theorems about `SubtitleSink`, `RockitPlayer` and `MetadataRetriever` | - |
| `RockitHwMpi_proofs` | theorems about `RockitHwMpi` and `SurfaceCallback` | - |

Definitions whose comment begins with "Faulty variant" are not part of any specification. Each is a
plausible bug in the definition that follows it; put in its place it must violate a property, which shows
that the property depends on that code.

Components that a proof module takes together have definitions of different names: the specification of
`RockitPlayer` is `PlayerSpec`, that of `MetadataRetriever` `RetrieverSpec`, of `SurfaceCallback` `SurfaceSpec`,
of `AudioConfigFile` `FileSpec` and of `HdmiAudio` `HdmiSpec`; their parts are named likewise. A loop of the
code is a recursive function, or the set of what it counts, where a theorem is about it.

How the modules meet. A player's buffer is `SidebandWindow`'s (with a tunnel) or `SurfaceCallback`'s (without);
`SurfaceCallback` gives it the name under which `RockitHwMpi` has it in `mCommitList`, and `NamesAreUnique` is
what `RockitHwMpi` assumes of names (`FreshNames`) for as long as the callback lives. `CodecService` decides
how long the object `RockitHwMpi` describes lives. `SidebandWindow` takes a render as putting the buffer on
screen, which is `DrmVopRender` in detail. `HdmiAudio` computes the formats `AudioSetting` takes as an input,
which is a theorem (`ParserFeedsSetting`), and `FollowsSinkAlways` says which formats those are. `RockitPlayer`
holds the callback objects by name only; what is inside them is in the modules of B and E.

### MessageQueue and SidebandWindow

`send(&msg, EXIT)` pushes the message and sets the status to WOULD_BLOCK under `mQueueMutex`, and then
waits under `mReplyMutex[EXIT]`; `reply` sets the status under the latter. So `SendSync`, `CheckReply`,
`Reply` and the spurious wake-ups interleave freely with the receiver. `mReplyStatus` starts with any value
because the code allocates it uninitialised. `remove()` has no caller and is left out.

In `SidebandWindow` a buffer is allocated by the player, handed over (`held` to a RENDER_REQUEST), put on
screen and appended to `mRenderingQueue` by the render thread, and returned by `dequeueBuffer`, which only
looks at the front and sends a DEQUEUE_REQUEST that makes the render thread remove it. Between the two the
buffer is in `held` and in the vector. `DequeueFront` on an empty vector returns any buffer (what `front()`
finds there), and `HandleDequeue` on an empty vector ends in the phase `crashed`: both are undefined in the
code, and the run has both. A buffer that is shown or freed after it was freed may end the process too
(`UseFreed`, `ReleaseFreed`), or not.

The player may call `dequeueBuffer` and `flush` whenever it likes. A `dequeueBuffer` that begins while an earlier
removal is still to come looks at a vector that is about to change: it may return the same front again, and a
buffer that was never returned is then removed in its place. Nothing in the code keeps a player from such a call,
and what it does to the window is in the model: the same buffer lent twice, buffers without an owner, the
buffer on screen lent, fewer than `MIN_BUFFER_COUNT_UNDEQUEUE` in the vector, an erase from an empty one and so
the end of the process. The history variable `raced` remembers that there was one; no guard reads it. The
properties of ownership, lending, order and release say what holds until then, and `CrashIsRace`, a part of
`ReleaseFreesAll`, that this one kind of call is all that can make the process die. The other interleavings of
the two threads, flushes behind dequeues, renders and other flushes among them, do no harm.

Assumptions about the player, which is a closed library:

* it calls `remainBuffer` only while nothing is shown or under way, since that call pushes to the vector
  from the player's thread without a lock.
* it frees, queues and gives back only buffers it has.

`flush()` frees the buffers of the vector, including the one on screen; no code of the repository calls it.
`StructSizeOK = FALSE` stands for the ignored failure of `init` in `setSidebandStream`: there is then no
render thread, and `release` waits for ever. The runs take it as TRUE; the hazard is listed. The display
is taken to have a sideband plane.

### SurfaceCallback

`allocateBuffer` and `dequeueBufferAndWait` import the buffer's memory into the callback's DRM file and tell
the library its global name. The handle is never freed (the `drm_free` is commented out), so the kernel keeps
the name until the callback closes the file; the faulty variant `DescribeAndFree` frees it, and a name then
comes to open other memory. A failed import leaves the name what the stack held: such names are told with
`sound = FALSE`, and the properties are about sound ones. `allocateBuffer` looks into what it dequeued even
if that failed, which ends in the phase `crashed`. Assumed: the library gives a buffer back once, unmapped,
commits only buffers it has, and destroys the callback when it has given all back.

### DrmVopRender

`SidebandWindow` takes a render as putting the buffer on screen. `DrmVopRender` is that render in detail, by
itself: its environment allocates and frees buffers in any order, which includes all the window does. A
display is a record of what DRM reports. `detect` is a function of it (`Connected`, `Encoder`, `Crtc`), with
what the code does and not what its messages say: it decides at the first connector that answers, its scan
for an encoder looks at the encoder with the connector's index each time, and an ACTIVE crtc is taken
whether or not it is possible for the encoder. Without a crtc it dereferences NULL (line 236), so an
unplugged display ends in the phase `crashed`, which the messages "is not connected" (133, 291) do not
expect. If the card does not open, `gralloc_` is never set and `SetDrmPlaneBlind` allows what the value left
in memory may do.

The number of a buffer's descriptor is free for another when the buffer is freed, and `mFbidMap` never drops
an entry: a buffer whose number was another's while the renderer lived is shown as the old memory.
`ShownAsGiven` states what holds, for every other buffer (`~Reused`); the run contains both kinds. A
failed framebuffer is cached like a good one, and the buffer is then never shown.

The pixel format decides whether a framebuffer can be made at all (`ConvertHalFormatToDrm`).
`drmModeSetPlane` is taken to accept a valid framebuffer, and the kernel to remove the framebuffers of a
descriptor that is closed, with the plane that shows one of them.

### RockitHwMpi

`mCommitList` is a set: an entry of it is only ever looked for by its id or its site. `mpp` is the list of
MppBuffers ever imported with their reference counts, as mpp keeps them: `live` in the
group, `old` after the group was cleared while referenced, `freed`. `lent` is what the client has a
reference to. Assumptions about the client, from how the HAL is used: it gives back only frames it has
(an import takes a reference the first give-back puts); it clears the group only after an info change and
when every committed frame has been given back, since mSite of a frame never given back is MPI as well;
`FreshNames`: it commits no name an entry still has (without it an entry points to the freed buffer of an
earlier frame). Packet
names are reused only when no handle to the old memory is open, as DRM does it: enqueue leaves its handle
open, and `DecodesNamedMemory` depends on that.

Every operation runs under `mLock` but `flush` (`RockitHwMpi.cpp:854`). It calls the reset of mpp, which has locks of
its own, and touches nothing else of the object, so it comes before or after what another operation does with
the decoder, and is the same action as `reset`. A `flush` while the object is initialised or destroyed is left out:
the service keeps a manager alive for the length of a call.

Codec, width and height of init, flags, names and the answers of `query` travel as parameters (`HwParams`),
through `RTHWParam2RockitHWParam` on the way there and `RockitHWParam2RTHWParam` on the way back. What is told of
unused buffers (`UnusedIsTold`) goes all the way: mpp's count, `setValue`, the copy into the client's array,
`getValue`. The clients bring arrays with room for the answer.

### CodecService

hwbinder sends the answer of `create` before the service's thread is in `addClient`, so the client may use and
destroy its manager first; `fate` tells how a manager ended up: `removed`, `overtaken` (destroyed before it
was added, and then added for good), `killed`, `lost` with the service. A manager is deleted when neither the
list, nor a client, nor a running call refers to it (`Alive`), and takes its decoder along. `init` reports
success always; `enqueue` and `dequeue` use `mImpl` without a look, so without an `init` of the one type that is
supported they end the service (`Crash`), for every client. The other calls are `checked`. Init starts the
service again. A client's destructor is three steps: a call, `destroy`, and the end of its reference.

### RockitPlayer

The media service makes one call at a time, so a call is an action, with what manager, player and callback
object do in it. The closed library is external: it may refuse any call, and from prepare to reset its
threads may call what they were given. The destructor is three steps, because `deinitPlayer` deletes the
callback objects before the library's player goes; `DestructorReset` is what keeps the library from calling
them (`CallsLiveObjects`). A second `setAudioSink` replaces the first, which stays allocated.

The playback rate of a sink belongs to Android's AudioSink: it keeps a rate set before it is opened, reports
the default until then, and refuses speed 0 once it is open. `SinkHasRate` is about the first sink; a rate
set before is handed over once, so that a second sink gets none. Tracks are told by type and place;
`kTrackTypeMap` is the table of the code, and `PicksWhatIsShown` holds where every track up to the selected
one is listed. The list an app is shown (`Shown`) has in its n-th place the track up to which n are listed. Times are computed with `Half` and `PerMs` in place of 2^31 and 1000. The channel mode
overwrites the library's buffer in place, so what a full sink left is converted again (`HeardAsChosen`).

### SubtitleSink

Flags are tested before `mRenderLock` is taken, so each call is several steps. The rendering thread stays bound
to the EGL surface it made current, destroyed or not; only `mBindThread`, one flag for all threads, says
whether that is a surface of now. `raced` marks a call that a create or destroy overlapped: what it draws is
then not stated, nor what `destroy`'s own `clean` draws, which runs on a thread that is bound to none. With a
render type of RGA the EGL surface is made all the same and never destroyed (`OnlyRgaSurfacesLeft`).

### MetadataRetriever

An entry of `mMetaData` is what its value is about: a key, the source it came from and the track it was read
from. Each of the four queries may fail without ending the parsing. `dangling` says that a string the caller
has was freed under it, and `arts` counts pictures, so that `CachedIsOfSource` finds leaks and stale
pointers as well as stale answers. A DataSource object is not passed to the library, which keeps what it had:
`libSource` and `source` then differ.

A picture is rows of samples with the strides and the bytes that lie beside them. `Stored` is the picture in the
library's memory, the chroma rows behind all luma rows; in `Packed` ten-bit samples lie in five bytes as the
decoder stores them, each byte the sum of its bits. `Convert10bitTo8bit` walks both planes as the code does: a
row begins a stride of bytes after the one before, and as many samples as the stride has bytes are taken from
it (`FetchData`, with the code's shifts), so that what lies beside a row, and behind the last one, is read too.
The converter, which is external, reads the part that is shown. `FrameIsPicture` compares it with the samples
of the picture, through the plane of the packed bytes and the one the code makes of it. Assumed is what the
source's use of `horStride` for bytes means: ten-bit rows fit into the stride (`RowsFit`). That the library may
leave out the source format, or the destination format (the frame is then one of RGB565, whatever was asked
for), is in `InitCallback`. `mFrameMemory` is never reset, so a caller may get the frame of an earlier request: no property forbids that.

### AudioSetting, HdmiAudio and AudioConfigFile

`AudioSetting` is the document of one process. `setFormat` adds without a look at the list, so that a format may be
listed twice; its removal then takes the first node, and the second survives it and the hot plug of a sink that
cannot decode it. `setSelect` and the EDID update look before they add, which is `ListedTwiceOnlyByRequest`.
`FollowsEdid` and `FollowsSink` say what a hot plug makes of every format that was not listed twice, in auto mode, of
which the comment of the code speaks (`RkAudioSettingManager.cpp:490-493`). The action does the same in manual
mode, as the code does. The set of formats the EDID yields is an input of `UpdataFormatForEdid`, the
empty set included, which is also what an unreadable EDID gives. `MaxListed` bounds how often requests list a
format in a port; it is the only bound of the module, and the theorems hold for all its values.

`HdmiAudio` computes that set from the sink's EDID: a sequence of extension blocks, of which as many are read
as the base block declares, at most seven and none beyond the end of the file. The two loops, over blocks and
over the data blocks of one, are recursive functions. The data blocks of a block lie inside it: the code takes the
offset up to which it reads from the block itself (`audio_hw_hdmi.cpp:204`), without a look at the 128 bytes there
are, and what it reads beyond them is not modelled. A block that is damaged, of
another kind or of another version is passed over; a second audio data block takes the place of the first,
whose array is lost. `FollowsSink` states what is found for sinks with at most one, and compares with a
definition of its own (`Decodes`), not with the parser.

`AudioConfigFile` gives each file an inode, so that a rename or removal under an open file does what it
does on Linux. A file is `Partial` from `fopen(..., "w")` until its writer closes it, and for ever if the
writer is killed; TinyXML refuses such a file. A kill is that of a process, not of the machine.

### RKNeuralnetworks

`rknnInit` lets the library write a new context into `ctx` and reads `ctx` again for the answer. A second
thread in between gives both apps its own context: both then run the second app's model, and whoever
destroys first takes the context from the other. The model has all of this; `overlap` is a history
variable that holds the contexts it may have happened to, and `ContextsAccounted` and `OutputsAreOwn` say
what holds for all others, even while mixed-up apps use and destroy contexts around them.

`Pooled` is what the library finds when each input was copied to the start of the pool and is read at its own
offset. With one input it is the identity, which `OutputsAreOwn` says by its condition; with two the library
gets the second one's data as its first and fresh memory as its second. After a failed `rknnInit` the bridge
returns 0 and leaves the app's context unset; `UseLost` is what a call with it may do. A device without the
bridge, or one that is too old, has none of the functions, and the first call goes through NULL (`Load`). The
rknn library is external: a context has a model, its inputs and the outputs of the last run, and a destroyed
one is refused. Assumed: calls other than `rknnInit` do not fail, inputs are of one size, and an app makes one
call at a time and uses one context.

## 3. Runs

| Run | Bounds | What it shows |
|---|---|---|
| `mq` | 2 synchronous callers, one asynchronous id with 2 payloads, asynchronous sends extend lists shorter than 2, 2 statuses | no lost wake-up, every synchronous send returns, `RequestChannel` is implemented: no answer goes to another send |
| `window` | 3 buffers, minimum 2, asynchronous sends extend lists shorter than 2 | ownership, lending, order and release until a dequeue begins while a removal is to come, and that nothing else breaks them or ends the process; `BufferFifo` is implemented; a queued buffer is shown and release returns |
| `names` | 3 buffers in at most 2 slots, 3 numbers, 2 names told after a failed import | the decoder opens the buffer it was given the name for; no two buffers of a callback had one name |
| `vop` | 10 displays, 3 allocations of 3 formats on 2 descriptor numbers | a buffer with a number of its own is shown, framebuffers are accounted for, a lit display never crashes |
| `hwmpi` | 2 frame names, 3 imports, 2 packet names each used twice, 3 mappings | reference counts, lending, give-back over an info change, packets decoded from the memory named, unused buffers told, old frames freed |
| `codec_service` | 2 clients, 3 managers, 2 inits of each | only kills and overtaken creates leave a manager; a decoder lives as long as its manager |
| `player` | 4 files, 2 audio sinks, 2 rates, 4 positions; a millisecond is 2, an int from -4 to 3 | callbacks exist while the library may call them; rates, tracks, times and channels arrive |
| `subtitle` | 3 creates | drawing goes to the surface of now; window and flag agree |
| `retriever` | 2 files, 3 pictures of 3 or 6 rows with 2 to 5 ten-bit samples, strides as wide as the packed row or wider, rows that are not shown, 5 source and 3 target formats | caches and pictures are of the current source; frames show their picture |
| `audio_config` | 1 process, 2 settings, 6 tries, 3 saves, 3 kills | a start needs at most one retry, settings survive, the constructor succeeds |
| `audio_setting` | 4 formats, 3 in the table, 2 of them one to the EDID; requests list two of them up to twice; 16 sinks | only requests list a format twice; in auto mode the formats of a sink with one audio data block, whatever other blocks are damaged |
| `nn` | 5 devices, 2 apps, 3 contexts, one input, 2 contents | who was alone in `rknnInit` keeps its context, gets its own results and leaves no context behind unless killed |

Why the bounds are enough. Two callers are the least at which one answer could be taken for another's; a third
adds no new kind of interference, as callers meet only in the list. Three buffers are the least with
which the vector passes the minimum of two, so that a removal and a second dequeue can meet. Three imports on two names are a
first frame, a frame kept over an info change and a new one beside it. Three allocations on two numbers are
the least in which a number is reused while another is not, and the ten displays take `detect` along each of
its paths. Three numbers for three buffers leave one for another process's memory at any time, and with two
slots a buffer has to go before the third comes, so that its number could return. Three managers are a killed
client's, an overtaken one's and a good one's at once; a second init is the least that replaces a decoder.
Three creates are one whose surface was destroyed, one of the other render type and one of now. The samples of the
three pictures differ from row to row and take each of the four places in five bytes; five samples reach the
second group of four. The 16 sinks have good and damaged blocks, blocks of
another kind or version, and an audio block in the last block that is read and in the first that is not. Two
apps can mix up their contexts, and a third context is one that is made while those are in use. Three kills
reach a kill in the copy, in a save and in the recovery from either. Every safety property of these runs is
proved without these bounds besides (section 4).

Deadlock is checked in `mq`, `window`, `hwmpi`, `audio_config` and `audio_setting`; the last steps of a window, a
decoder or a process are explicit stuttering actions (`Done`, `Gone`, `Idle`). It is not checked where the
system really stops: a renderer, player, retriever or surface callback that is gone or has crashed, a subtitle
sink whose creates are used up, apps that were killed, a codec service whose managers are.

Fairness. `MessageQueue`: the receiving thread and a caller inside `send` are ordinary scheduled threads, so
each enabled step is weakly fair; no sender must send and no spurious wake-up must happen. `SidebandWindow`:
the same for the render thread, and for the player thread inside a call. `RockitHwMpi`: the client gives back
what it has shown (needed only for `OldBuffersFreed`). `AudioConfigFile`: a process that is not killed
goes on with its call. The other modules need none: nothing in their code waits for anything but a lock.

Texts of the repository that the code does not keep, as the models show them:

* `RTSidebandWindow.cpp:38` names a minimum of two undequeued buffers; a player that calls dequeueBuffer again
  before the render thread has removed the first gets below it (`KeepsMinUndequeued` without its condition
  `~raced` is violated).
* `RockitHwMpi.cpp:55` names a maximum of five entries of `mDataList`; a client with two packet buffers passes
  it, because `findDataBuffer` looks only at the first entry (line 193).
* `RockitHwMpi.cpp:63-64` says which buffer an entry stands for; a name committed again while an entry of a
  freed buffer has it leaves the entry at the freed one (line 763; `FreshNames = FALSE`).
* `rknn_api.h:373` says that inputs are set by index; the bridge copies each to the start of the pool
  (`RockchipNeuralnetworksBuilder.cpp:202`; `NInputs = 2`).
* `RkAudioSettingManager.cpp:490-493` says that the formats follow the EDID in "auto" mode; the code (494-517)
  never reads the mode.
* `IRkOutputManager.hal:41` says "OK upon success"; `RkOutputManager.cpp:48` answers OK always (not modelled).

## 4. Proofs

Each invariant, action property and refinement the runs check is a theorem, for all values of the constants
that satisfy the named assumptions of the modules (`SyncIdAssumption`, `StatusAssumption`, `BoundAssumption`,
`WindowAssumption`, `RenderAssumption`, `TableAssumption`, `SinkAssumption`, `ConfigAssumption`,
`NetworksAssumption`, `ServiceAssumption`, `SubtitleAssumption`, `PlayerAssumption`, `TracksAssumption`,
`RetrieverAssumption`, `MpiAssumption`, `SurfaceAssumption`). Of a refinement whose abstract specification is
fair it is the safety part; liveness is only model-checked. Two hypotheses go beyond the constants' types, both
stated in the theorems: the client commits no name an entry still has (`FreshNames`, which `NamesAreUnique` gives
for a surface's buffers), and one process has the configuration file for itself.

* `MessageQueue_proofs`: `TypeCorrect`, `ReceiverIsAwake`, `RequestPerWaiter`, `NoWakeupIsLost`, and
  `QueueImplementsChannel` (the safety part of the refinement). `OneRequestPerWaiter` is inductive on top of
  `TypeOK`: it ties the status of a caller to the position of its message in the list or in the receiver's
  hands. `NoLostWakeup` follows from it, because the only step that makes an answer also wakes its caller.
* `SidebandWindow_proofs`: `TypeCorrect`, `ExitComesLast`, `OwnedOnce`, `LentRightly`, `RemovalsFindEnough` and
  `ReleasedAll`, for every player. The invariant is `~raced => Ownership`. `Ownership` adds to `OneOwner` what the
  three-step dequeue relies on: at most one dequeue is unhandled, and no flush is before it; the buffer looked at
  is still the head of the vector, and the vector is longer than the minimum, until the removal is handled; the
  buffer on screen is the last of the vector. None of the conjuncts is inductive alone: that the head is
  stable needs the single removal. A step that leaves `raced` FALSE is no racing dequeue, and each other one
  keeps `Ownership`; among them none finds a buffer that was freed (`NoFreedUsed`) or an empty vector, so that a
  crash comes after a race (`CrashIsRace`).
  `WindowIsFifo` is the refinement of `BufferFifo`, whose `broken` is `raced`. The abstract queue is the vector
  without a buffer that a waiting removal will take, followed by the buffers of the render requests on their
  way; the abstract number of doomed buffers is what the last waiting flush will have freed with those before
  it. Both are functions of the unhandled messages and the vector (`Given`, `Fated`), so a step of the window is
  looked at as what it does to those two: a message added, the head handled, or neither. `Ownership` makes the
  head of the vector the head of the queue when it is dequeued. That the render thread receives or replies
  changes nothing.
* `DrmVopRender_proofs`: `TypeCorrect`, `LitIsSafe`, `GivenIsShown`, `NoFramebufferLeaks`. The inductive
  invariant is `CacheIsOwn`: what is cached under a number is a memory that has or had that number. As a
  memory keeps its number, a cached framebuffer of another memory means that the number was reused. That
  `detect` chooses objects the display has rests on the existence of least and greatest elements
  (`LeastExists`, `LastExists`), which follow from the well-foundedness of < on the naturals.
* `AudioSetting_proofs`, the document: `TypeCorrect`, `ListedTwiceWhenAsked`, `SelectionIsTaken`, `EdidIsFollowed`,
  and with the EDID parser `ParserFeedsSetting`, `HotPlugLooksFirst` and `FollowsSinkAlways`. They need no more
  invariant than `TypeOK`: each is about one step, from any document, with formats listed twice or not.
  `ParserFeedsSetting` shows that each step with the parser is a step of the
  document with some set of formats, or changes nothing of it, so that what is proved of the document holds
  for every EDID. `FollowsSinkAlways` is about EDIDs of any length. `FoundIn` and `FoundUpTo` say what a loop
  has found after n turns, in terms of the blocks so far (`DataBlockStep`, `BlockStep` take one turn). That
  they hold after all turns is an induction over data; in place of the induction theorem, which the provers
  cannot instantiate, the proof looks at the least n for which they would not hold (`LeastOf`, from the
  well-foundedness of < on the naturals), and shows in the same way that the recursive functions exist.
* `AudioSetting_proofs`, the file: `FileTypesHold` for any number of processes; `OneRetryIsEnoughAlways` and
  `SettingsSurviveAlways` for one, any number of saves, kills and tries (with several the temporary file is
  shared, which is a hazard without a property). The inductive invariant adds where a constructor is in its
  attempts (`Attempts`: only the first finds a file that does not parse), what of the copy is complete
  (`Copying`) and what the file says at any moment (`FileSays`).
* `RKNeuralnetworks_proofs`: `TypeCorrect`, `ContextsAreAccounted`, `OutputsAreTheApps`. The inductive
  invariant `ContextInv` adds to `ContextsAccounted` that a context whose thread has still to read `ctx` is
  `ctx`, or both are in `overlap` (`CtxIsLast`), and that each context has one maker (`MadeOnce`); so an
  app that holds a context outside `overlap` made it, and no destroy reaches another's. `DataInv` then
  follows the inputs and outputs of such contexts.
* `CodecService_proofs`: `TypeCorrect`, `OnlyLostStay`, `DecodersLiveWithManagers`. Neither property is
  inductive: `Places` says where a manager of each fate is, `References` that a used manager has exactly one
  client, `Running` that a call's manager is used unless its client was killed. With them a manager without a
  reference is one that was removed, so that `Release` deletes what it should and nothing a call still uses.
* `RockitDirect_proofs`, the subtitle sink: `TypeCorrect`, `DrawsOnOwn`, `FlagTellsTheTruth`,
  `OnlyRgaSurfacesLeft`. The invariant `IInv` adds where the owner is in create and destroy (`Phases`), that
  only surfaces that were made are bound or current (`OnlyMade`), and what each thread may rely on between its
  test and the lock (`Flagged`, `Bound`).
* `RockitDirect_proofs`, the player: `CallsLiveObjectsAlways` (`HeldAreLive`: the library's threads run only while
  the client is ready), `SinkHasRateAlways`, `PicksWhatIsShownAlways` (`AnswersAreOfFile`: what the app was shown
  is of the file the library has), `TimesSurviveAlways`, for every size of an int and every number of
  microseconds in a millisecond, and `HeardAsChosenAlways`, whatever part of a buffer the sink takes first. That
  the n-th track listed is unique follows from counting the tracks listed up to each place. `PlayerTypesHold`
  is the type invariant.
* `RockitDirect_proofs`, the retriever: `CachedIsOfSourceAlways` (`Kept`), and `FrameIsPictureAlways`, for
  pictures of any size, strides and padding. `RowFetched`: the shifts of `FetchData` take a sample out of the bytes
  it was put in, for each of the four places it may have in five bytes, from its ten bits. `RowAndColumn` and
  `StoredRow`: what lies at a row's place in the memory is that row, whatever its stride. `ConvertedRow` and
  `ReadsPicture` put them together: the plane the conversion makes has the row at its own place, in luma and
  chroma, and nothing that was read beside a row comes to be shown. `RetrieverTypesHold` is the
  type invariant: that a file has at most one picture rests on `Kept`, that a track's place is a number on a
  least element of the places of its type.
* `RockitHwMpi_proofs`, the decoder: `RefsAccountedAlways`, `NoDecodeIntoLentAlways`, `CanBeGivenBackAlways`,
  `UnusedIsToldAlways` and `TypeCorrect` with the hypothesis `FreshNames`; `DecodesNamedMemoryAlways` without.
  The inductive invariant of frames, `FrameInv`, adds to the first two that an entry of the list is the only one
  of its name (`OneEntry`), that a buffer that is lent or in the group has its entry (`HasEntry`), and that only
  buffers of the group are decoded into (`DecodesLive`). `HasEntry` is what makes a give-back find the
  buffer it is about, and is false without `FreshNames`. `UnusedIsTold` is the count of these buffers, brought
  through four conversions of parameters. `DataInv` is about packets: a mapped name's handle is open
  (`MappedStaysOpen`), so its number names no other memory.
* `RockitHwMpi_proofs`, the surface callback: `OpensWhatWasGivenAlways` and `NamesAreUniqueAlways`. What makes
  both inductive is `ToldNamesStay`: until the callback goes, it has a handle to each buffer it told a name
  of, and the kernel's name is still that buffer's. `SurfaceTypesHold`, the type invariant, says of the buffers
  that the library has buffers of the queue only, and that a name it commits is of some memory.

Only model-checked: liveness (`SendReturns`, `QueuedIsShown`, `ReleaseReturns`, `OldBuffersFreed`,
`ConstructorSucceeds`, and the fairness of the channel in `ImplementsChannel`), which depends on fairness and
`ENABLED` and is out of the prover's reach.

## 5. Plan

1. Done: the modules and proofs above.
2. Proofs: what of the window's ownership is left after a dequeue that raced; what of the document's theorems
   carries over to several processes on one file.
3. Runs: two processes on the configuration file; file descriptors of the codec service.

Not modelled, and why:

* the output manager (`RkOutputManager.cpp`): it keeps no state; each call is passed to the composer library.
* code without a caller: `MessageQueue::remove`, `RockitHwMpi::process`, `copyRockitHWParam`, the service's
  `rknnOutputsRelease`, `setAudioSettingDecodeDevice` and the nodes of devices nothing reads, `translate_sample`,
  `is_support_ac4`, the private setters of the subtitle sink, `drm_map` and `ion_map` in
  `RTSurfaceCallback.cpp`, `RTChips.cpp`; and the rknn API functions that say "No Implement".
* what is passed through unchanged: the wrappers of `RTGraphicWindowApi.cpp`; crop, transform and data
  space of windows, `isPlaying`, `getDuration`, looping, volumes and other parameters of the player.
* what is drawn, the rectangles of planes, colour conversion and scaling, which hardware does; what is printed,
  the functions that print an EDID included; `heapsnap.cpp`.
* vendored headers (mpp, drm, rknn), prebuilt libraries, build files and policies: no logic of this repository.
* failures that the code does not look at and that no other part of a model tells apart: a thread that does not
  start, memory that cannot be had, a closed file descriptor that is closed again.
