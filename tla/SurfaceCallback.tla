-------------------------- MODULE SurfaceCallback --------------------------
(***************************************************************************)
(* RTSurfaceCallback (rockit/direct) without a sideband stream: the player *)
(* library's way to the buffers of a Surface, and the names under which    *)
(* their memory reaches the codec HAL.  (With a sideband stream the        *)
(* buffers are SidebandWindow's; they are named in the same way.)          *)
(*                                                                         *)
(* allocateBuffer and dequeueBufferAndWait import the memory of a buffer   *)
(* into the callback's own DRM file, which gives a handle, and ask for its *)
(* global name.  The library passes the name on; commitBuffer of the HAL   *)
(* opens the memory by it, and mpp keeps it open.  The kernel keeps a name *)
(* as long as any file has a handle to the memory, and then gives its      *)
(* number to other memory.                                                 *)
(*                                                                         *)
(* External: the BufferQueue, the kernel, and the library, which gives     *)
(* back what it has, once and unmapped, and commits only what it has.      *)
(***************************************************************************)
EXTENDS Naturals, FiniteSets

CONSTANTS MaxMemory,  \* bound: buffers the BufferQueue allocates
          MaxSlots,   \* bound: buffers a BufferQueue has at one time
          MaxFailed,  \* bound: names told after a failed import
          Numbers     \* global names

ASSUME SurfaceAssumption ==
    /\ MaxMemory \in Nat /\ MaxSlots \in Nat \ {0} /\ MaxFailed \in Nat

Memory == 1 .. MaxMemory
Nobody == 0                \* no memory has this name
Other == MaxMemory + 1     \* memory of another process has it

VARIABLES phase,      \* "none", "alive", "gone", or "crashed"
          mDrmFd,     \* "closed", "open", or "failed"
          connected,  \* to the BufferQueue
          allocated,  \* buffers allocated so far
          buffers,    \* buffers of the queue
          slots,      \* how many buffers it may have
          held,       \* those the library has
          mapped,     \* those it has mapped, to draw into them itself
          outdated,   \* those of another geometry or usage than the one set
          drmHandles, \* memory the callback's DRM file has a handle to
          named,      \* per number: the memory it names
          told,       \* what the library was told: [buf, name, sound]
          entries     \* of mCommitList: [buf, name, sound, mem]

queueVars == <<connected, allocated, buffers, slots, held, mapped, outdated>>
drmVars == <<mDrmFd, drmHandles, named, told>>
surfaceVars == <<phase, queueVars, drmVars, entries>>

\* A told name is sound if the kernel gave it, and not the stack.
Told == [buf : Memory, name : Numbers, sound : BOOLEAN]

SurfaceTypeOK ==
    /\ phase \in {"none", "alive", "gone", "crashed"}
    /\ mDrmFd \in {"closed", "open", "failed"}
    /\ connected \in BOOLEAN
    /\ allocated \in 0 .. MaxMemory
    /\ buffers \subseteq 1 .. allocated
    /\ slots \in 1 .. MaxSlots
    /\ held \subseteq buffers /\ mapped \subseteq held /\ outdated \subseteq buffers
    /\ drmHandles \subseteq Memory
    /\ named \in [Numbers -> {Nobody, Other} \cup Memory]
    /\ told \subseteq Told
    /\ \A e \in entries : e.mem \in Memory \cup {Other}

SurfaceInit ==
    /\ phase = "none" /\ mDrmFd = "closed" /\ connected = FALSE
    /\ allocated = 0 /\ buffers = {} /\ slots = 1 /\ held = {} /\ mapped = {} /\ outdated = {}
    /\ drmHandles = {} /\ named = [n \in Numbers |-> Nobody]
    /\ told = {} /\ entries = {}
---------------------------------------------------------------------------
(* The kernel's names.                                                     *)

\* Memory with a handle in the callback's file or, by an entry, in mpp's.
HasHandle(hs, es) == hs \cup {e.mem : e \in es} \cup {Other}

\* The numbers that stay when these handles and entries are left.
Kept(names, hs, es) ==
    [n \in Numbers |-> IF names[n] \in HasHandle(hs, es) THEN names[n] ELSE Nobody]

\* Another process names memory of its own, or drops it.
OthersName(n) ==
    /\ named[n] \in {Nobody, Other}
    /\ \A e \in entries : e.mem # Other
    /\ named' = [named EXCEPT ![n] = IF @ = Other THEN Nobody ELSE Other]
    /\ UNCHANGED <<phase, queueVars, mDrmFd, drmHandles, told, entries>>

\* drm_fd_to_handle: the same memory has the same handle each time.
FdToHandle(b, imported) == drmHandles' = IF imported THEN drmHandles \cup {b} ELSE drmHandles

\* DRM_IOCTL_GEM_FLINK: the name the memory has, or a number no memory has.
\* When the import or this call has failed, or there is no DRM file, the field
\* has whatever was on the stack.
Flink(b, imported, n) ==
    /\ imported => IF \E k \in Numbers : named[k] = b THEN named[n] = b
                                                      ELSE named[n] = Nobody
    /\ named' = IF imported THEN [named EXCEPT ![n] = b] ELSE named
    /\ told' = told \cup {[buf |-> b, name |-> n, sound |-> imported]}

\* Faulty variant: the handle is freed once the name is known (the drm_free that
\* is commented out).
DescribeAndFree(b) ==
    \E imported \in BOOLEAN, n \in Numbers :
       /\ imported => mDrmFd = "open"
       /\ imported => named[n] = Nobody
       /\ told' = told \cup {[buf |-> b, name |-> n, sound |-> imported]}
       /\ named' = IF imported /\ b \in HasHandle(drmHandles, entries)
                   THEN [named EXCEPT ![n] = b] ELSE named
       /\ UNCHANGED drmHandles

\* What both ways to a buffer do with it: the handle is kept.
Describe(b) ==
    \E imported \in BOOLEAN, n \in Numbers :
       /\ imported => mDrmFd = "open"
       /\ ~imported => Cardinality({t \in told : ~t.sound}) < MaxFailed
       /\ FdToHandle(b, imported) /\ Flink(b, imported, n)
---------------------------------------------------------------------------
(* The callback's life.                                                    *)

\* drm_open, whose failure is only logged.
DrmOpen == mDrmFd' \in {"open", "failed"}

\* drm_close: the handles of the file go with it.
CloseDrm ==
    /\ mDrmFd' = "closed" /\ drmHandles' = {}
    /\ named' = Kept(named, {}, entries)

Construct ==
    /\ phase = "none" /\ phase' = "alive"
    /\ DrmOpen
    /\ UNCHANGED <<queueVars, drmHandles, named, told, entries>>

Connect ==
    /\ phase = "alive" /\ connected' = TRUE
    /\ UNCHANGED <<phase, allocated, buffers, slots, held, mapped, outdated, drmVars, entries>>

\* The queue frees every buffer.
Disconnect ==
    /\ phase = "alive" /\ connected
    /\ held = {}
    /\ connected' = FALSE /\ buffers' = {} /\ outdated' = {}
    /\ UNCHANGED <<phase, allocated, slots, held, mapped, drmVars, entries>>

\* The library is done with the callback when it has given every buffer back.
DestroySurface ==
    /\ phase = "alive" /\ phase' = "gone"
    /\ held = {}
    /\ CloseDrm
    /\ connected' = FALSE /\ buffers' = {} /\ outdated' = {}
    /\ UNCHANGED <<allocated, slots, held, mapped, told, entries>>
---------------------------------------------------------------------------
(* Buffers.                                                                *)

\* Dequeue from the queue: a free buffer, or a new one for a free slot or in
\* place of a free buffer of an old geometry.
Dequeued(b) ==
    /\ connected /\ held' = held \cup {b}
    /\ \/ /\ b \in buffers \ (held \cup outdated)
          /\ UNCHANGED <<allocated, buffers, outdated>>
       \/ /\ b = allocated + 1 /\ b \in Memory /\ allocated' = b
          /\ \/ /\ Cardinality(buffers) < slots
                /\ buffers' = buffers \cup {b} /\ UNCHANGED outdated
             \/ \E old \in outdated \ held :
                   /\ buffers' = (buffers \ {old}) \cup {b}
                   /\ outdated' = outdated \ {old}

\* A buffer that cannot be had is NULL.
DequeueFails == ~connected

\* allocateBuffer looks into the buffer whatever dequeue says.
AllocateBuffer ==
    /\ phase = "alive"
    /\ \/ \E b \in Memory : Dequeued(b) /\ Describe(b) /\ UNCHANGED phase
       \/ DequeueFails /\ phase' = "crashed"
          /\ UNCHANGED <<allocated, buffers, held, outdated, drmHandles, named, told>>
    /\ UNCHANGED <<connected, slots, mapped, mDrmFd, entries>>

DequeueBufferAndWait ==
    /\ phase = "alive"
    /\ \E b \in Memory : Dequeued(b) /\ Describe(b)
    /\ UNCHANGED <<phase, connected, slots, mapped, mDrmFd, entries>>

\* freeBuffer, remainBuffer and queueBuffer: at once, or when it has been shown,
\* the queue can give the buffer out again.
GiveBack(b) ==
    /\ phase = "alive" /\ b \in held \ mapped /\ held' = held \ {b}
    /\ UNCHANGED <<phase, connected, allocated, buffers, slots, mapped, outdated, drmVars, entries>>

\* mmapBuffer: the buffer is locked for writing, which may fail.
MmapBuffer(b) ==
    /\ phase = "alive" /\ b \in held /\ mapped' = mapped \cup {b}
    /\ UNCHANGED <<phase, connected, allocated, buffers, slots, held, outdated, drmVars, entries>>

MunmapBuffer(b) ==
    /\ phase = "alive" /\ b \in mapped /\ mapped' = mapped \ {b}
    /\ UNCHANGED <<phase, connected, allocated, buffers, slots, held, outdated, drmVars, entries>>

\* The queue replaces what it has, buffer by buffer.
Outdate ==
    /\ phase = "alive" /\ outdated' = buffers
    /\ UNCHANGED <<phase, connected, allocated, buffers, slots, held, mapped, drmVars, entries>>

SetBufferGeometry == Outdate
SetUsage == Outdate

\* The queue frees what is too much.
SetBufferCount(n) ==
    /\ phase = "alive" /\ slots' = n
    /\ \E kept \in SUBSET buffers :
          /\ held \subseteq kept /\ Cardinality(kept) <= n
          /\ kept = buffers \/ Cardinality(kept) = n
          /\ buffers' = kept /\ outdated' = outdated \cap kept
    /\ UNCHANGED <<phase, connected, allocated, held, mapped, drmVars, entries>>
---------------------------------------------------------------------------
(* The HAL.                                                                *)

\* drm_get_info_from_name.
Opened(n) == named[n]

\* commitBuffer, with a name the library was told and a buffer it has: with a
\* name nobody has, nothing happens.  The HAL's own handle is freed; mpp's stays.
Commit(t) ==
    /\ t \in told /\ t.buf \in held
    /\ Opened(t.name) # Nobody
    /\ \A e \in entries : e.name # t.name
    /\ entries' = entries \cup {[buf |-> t.buf, name |-> t.name, sound |-> t.sound,
                                 mem |-> Opened(t.name)]}
    /\ UNCHANGED <<phase, queueVars, drmVars>>

\* The decoder's group is cleared, or the decoder destroyed.
ClearEntries ==
    /\ entries # {} /\ entries' = {}
    /\ named' = Kept(named, drmHandles, {})
    /\ UNCHANGED <<phase, queueVars, mDrmFd, drmHandles, told>>

SurfaceNext ==
    \/ Construct \/ Connect \/ Disconnect \/ DestroySurface
    \/ AllocateBuffer \/ DequeueBufferAndWait
    \/ SetBufferGeometry \/ SetUsage
    \/ \E n \in 1 .. MaxSlots : SetBufferCount(n)
    \/ \E b \in Memory : GiveBack(b) \/ MmapBuffer(b) \/ MunmapBuffer(b)
    \/ \E t \in told : Commit(t)
    \/ ClearEntries
    \/ \E n \in Numbers : OthersName(n)

SurfaceSpec == SurfaceInit /\ [][SurfaceNext]_surfaceVars
---------------------------------------------------------------------------
(* The decoder writes into the buffer it was given the name for, although  *)
(* the memory is opened by a number, later and in another process: while   *)
(* the callback lives no number it gave away comes to name other memory.   *)
OpensWhatWasGiven == \A e \in entries : e.sound => e.mem = e.buf

(* No two buffers of a callback's life were given one name, also when the  *)
(* first was freed by the queue long before: the library and mCommitList   *)
(* know buffers by name only.  (What RockitHwMpi's FreshNames assumes; the *)
(* price is that the memory stays until the callback goes.)                *)
NamesAreUnique ==
    \A s, t \in told : s.sound /\ t.sound /\ s.name = t.name => s.buf = t.buf
=============================================================================
