---------------------------- MODULE RockitHwMpi ----------------------------
(***************************************************************************)
(* RockitHwMpi (rockit/hw/hidl/1.0/utils/hw/mpi), the decoder behind the   *)
(* IRockitHwInterface HAL: one object per client, whose operations run on  *)
(* the threads of the HAL service, one at a time under mLock except flush. *)
(*                                                                         *)
(* Frames travel by the global name of their memory.  mCommitList says     *)
(* which MppBuffer a name stands for and who has it (mSite); mpp counts    *)
(* the references.  The decoder, which runs on its own, and the client in  *)
(* the other process are external: the client commits a frame, gives it    *)
(* back, dequeues it decoded, gives it back again, and on an info change   *)
(* clears the group, commits frames of the new size and says READY.        *)
(*                                                                         *)
(* Packets travel by name as well; mDataList has the mappings of the       *)
(* memory the client writes them to.  What client and decoder say beyond   *)
(* names goes through the parameters of HwParams, both ways.               *)
(***************************************************************************)
EXTENDS Integers, Sequences, SequencesExt, HwParams

CONSTANTS Names,       \* names of memory for frames
          DataNames,   \* names of memory for packets
          FreshNames,  \* the client commits no name mCommitList still has
          MaxImports,  \* bound: MppBuffers imported in a behaviour
          MaxMappings, \* bound: length of mDataList
          MaxReuse     \* bound: memories that get the same packet name

ASSUME MpiAssumption ==
    /\ FreshNames \in BOOLEAN
    /\ MaxImports \in Nat /\ MaxMappings \in Nat /\ MaxReuse \in Nat

NoBuf == 0          \* NULL; the n-th import makes MppBuffer n

\* RockitHWBufferFlags
HW_FLAGS_EOS == 1
HW_FLAGS_ERROR_INFOR == 2
HW_FLAGS_INFOR_CHANGE == 4
Flagged(flags, flag) == (flags \div flag) % 2 = 1

VARIABLES impl,        \* "none", "failed" (mCtx is NULL), "ready" or "gone"
          mCommitList, \* of [id, buf, site], one entry for a name
          mpp,         \* of [id, refs, state]: the MppBuffers imported so far
          decoding,    \* MppBuffers of frames the decoder has
          lent,        \* MppBuffers the client has a reference to
          changing,    \* an info change was reported and not answered yet
          mDataList,   \* of [id, mem], oldest first
          memory,      \* per packet name: the memory that has it, 0 for none
          ever,        \* per packet name: the last memory that had it
          handles,     \* packet names with an open handle in mDrmFd
          uncleared    \* packet names enqueued since their DATA_CLEAR

frameVars == <<mCommitList, mpp, decoding, lent, changing>>
dataVars == <<mDataList, memory, ever, handles, uncleared>>
vars == <<impl, frameVars, dataVars>>

\* An entry of mCommitList: the buffer of a name and who has it.
MppBufferCtx == [id : Names, buf : Nat, site : {"MPI", "ROCKIT"}]

\* An entry of mDataList: the memory that was mapped under a name.
DataBufferCtx == [id : DataNames, mem : Nat]

TypeOK ==
    /\ impl \in {"none", "failed", "ready", "gone"}
    /\ mCommitList \subseteq MppBufferCtx
    /\ mpp \in Seq([id : Names, refs : Nat, state : {"live", "old", "freed"}])
    /\ decoding \subseteq DOMAIN mpp
    /\ lent \subseteq DOMAIN mpp
    /\ changing \in BOOLEAN
    /\ mDataList \in Seq(DataBufferCtx)
    /\ memory \in [DataNames -> Nat]
    /\ ever \in [DataNames -> Nat]
    /\ handles \subseteq DataNames
    /\ uncleared \subseteq DataNames

Init ==
    /\ impl = "none"
    /\ mCommitList = {} /\ mpp = <<>>
    /\ decoding = {} /\ lent = {} /\ changing = FALSE
    /\ mDataList = <<>>
    /\ memory = [d \in DataNames |-> 0]
    /\ ever = [d \in DataNames |-> 0]
    /\ handles = {} /\ uncleared = {}
---------------------------------------------------------------------------
\* findMppBuffer: the entry of a name; an order among the entries of
\* mCommitList would tell nothing.
Committed == {e.id : e \in mCommitList}
FindMppBuffer(n) == CHOOSE e \in mCommitList : e.id = n

\* mCommitList when the frame of this name has changed its owner.
OwnedBy(site, n) ==
    {IF e.id = n THEN [e EXCEPT !.site = site] ELSE e : e \in mCommitList}

\* The client has a reference to the frame of this name.
InHand(n) == \E b \in lent : mpp[b].id = n

\* The memory of a frame stays while an MppBuffer of it does, so that no other
\* memory gets its name.
InUse(n) == \E b \in DOMAIN mpp : mpp[b].id = n /\ mpp[b].state # "freed"

\* mpp_buffer_put of these buffers: a buffer of a cleared group goes when its
\* last reference does.
PutAll(m, bufs) ==
    [b \in DOMAIN m |->
        IF b \notin bufs THEN m[b]
        ELSE [id |-> m[b].id, refs |-> m[b].refs - 1,
              state |-> IF m[b].state = "old" /\ m[b].refs = 1 THEN "freed"
                        ELSE m[b].state]]

\* mpp_buffer_group_clear and mpp_buffer_group_put: unused buffers go, used
\* ones stay until they are put.
ClearGroup(m) ==
    [b \in DOMAIN m |->
        [m[b] EXCEPT !.state =
            IF @ = "freed" \/ m[b].refs = 0 THEN "freed" ELSE "old"]]

\* Faulty variant: cleanMppBuffer() where cleanMppBuffer(site) is meant.
Emptied(list, site) == {}

\* cleanMppBuffer(), which deletes every entry, whoever has its frame ...
CleanMppBuffers == mCommitList' = {}

\* ... cleanMppBuffer(site), and freeDataBufferList.
WithoutSite(list, site) == {e \in list : e.site # site}

FreeDataBufferList == mDataList' = <<>>

\* What dequeue writes about a frame, and what the client reads of it.  Of size
\* and time only that they are there is told.
FrameParams(flags) ==
    LET strides == SetValue(SetValue(Sized(10), "WIDTH_STRIDE", 1), "HEIGHT_STRIDE", 1)
        size == SetValue(SetValue(strides, "WIDTH", 1), "HEIGHT", 1)
        times == SetValue(SetValue(size, "PTS", 1), "DTS", 1)
    IN  SetValue(times, "FLAGS", flags)

ClientBuffer == [bufferId |-> 0, length |-> 0, pair |-> Sized(10)]

Received(id, flags) ==
    HwBuffer2RTBuffer([bufferId |-> id, length |-> 0, pair |-> FrameParams(flags)],
                      InitRTHWBuffer(ClientBuffer))

TellsChange(buffer) == Flagged(GetValue(buffer.pair, "FLAGS"), HW_FLAGS_INFOR_CHANGE)

\* drm_get_info_from_name: while the name has memory, a handle to it.
OpenName(d) == memory[d] # 0 /\ handles' = handles \cup {d}

\* drm_close, and the end of the process, close every handle of mDrmFd.
DrmClose == handles' = {}
---------------------------------------------------------------------------
\* init, through RockitHwManager::init, which drops its result: what the client
\* leaves out reads like 0.
InitMpi ==
    /\ impl = "none"
    /\ \E codec, width, height \in {0, 1} :
          LET param == RTHWParam2RockitHWParam(Pairs(
                 << <<"CODECID", codec>>, <<"WIDTH", width>>, <<"HEIGHT", height>> >>))
              given(key) == GetValue(param, key) > 0
          IN  impl' \in IF given("CODECID") /\ given("WIDTH") /\ given("HEIGHT")
                        THEN {"ready", "failed"} ELSE {"failed"}
    /\ UNCHANGED <<frameVars, dataVars>>

\* commitBuffer: with a name that has no memory any more, or no file
\* descriptor left, nothing happens; import takes a reference for the caller,
\* and its failure is not looked at.
CommitBuffer(n) ==
    /\ impl = "ready"
    /\ Len(mpp) < MaxImports
    /\ ~InUse(n)
    /\ FreshNames => n \notin Committed
    /\ \E imported \in BOOLEAN :
          LET b == IF imported THEN Len(mpp) + 1 ELSE NoBuf
          IN  /\ mpp' = IF imported
                        THEN Append(mpp, [id |-> n, refs |-> 1, state |-> "live"])
                        ELSE mpp
              /\ lent' = IF imported THEN lent \cup {b} ELSE lent
              /\ mCommitList' =
                    IF n \in Committed THEN mCommitList
                    ELSE mCommitList \cup {[id |-> n, buf |-> b, site |-> "MPI"]}
    /\ UNCHANGED <<impl, decoding, changing, dataVars>>

\* Faulty variant: the owner is changed and the reference not put.
KeepBuffer(n) ==
    /\ impl = "ready"
    /\ InHand(n)
    /\ mCommitList' = OwnedBy("MPI", n)
    /\ lent' = IF n \in Committed THEN lent \ {FindMppBuffer(n).buf} ELSE lent
    /\ UNCHANGED mpp
    /\ UNCHANGED <<impl, decoding, changing, dataVars>>

\* giveBackBuffer: of a frame the client has.
GiveBackBuffer(n) ==
    /\ impl = "ready"
    /\ InHand(n)
    /\ mCommitList' = OwnedBy("MPI", n)
    /\ IF n \in Committed
       THEN LET b == FindMppBuffer(n).buf
            IN  mpp' = PutAll(mpp, {b}) /\ lent' = lent \ {b}
       ELSE UNCHANGED <<mpp, lent>>
    /\ UNCHANGED <<impl, decoding, changing, dataVars>>

\* Faulty variant: the frame is deinitialised and no reference kept for the
\* client.
DequeueUncounted(b, flags) ==
    /\ impl = "ready"
    /\ b \in decoding
    /\ decoding' = decoding \ {b}
    /\ lent' = lent \cup {b}
    /\ mpp' = PutAll(mpp, {b})
    /\ mCommitList' = OwnedBy("ROCKIT", mpp[b].id)
    /\ UNCHANGED <<impl, changing, dataVars>>

\* dequeue of a frame, which may be damaged or the last one: the client's
\* reference is taken before the frame, with the decoder's, goes.
DequeueFrame(b, flags) ==
    /\ impl = "ready"
    /\ b \in decoding
    /\ decoding' = decoding \ {b}
    /\ lent' = lent \cup {b}
    /\ mCommitList' = OwnedBy("ROCKIT", mpp[b].id)
    /\ changing' = (changing \/ TellsChange(Received(mpp[b].id, flags)))
    /\ UNCHANGED <<impl, mpp, dataVars>>

\* dequeue of an info change: the decoder has handed out its frames before, and
\* waits; the client learns of it from the flags.
DequeueInfoChange ==
    /\ impl = "ready"
    /\ ~changing /\ decoding = {}
    /\ changing' = TellsChange(Received(-1, HW_FLAGS_INFOR_CHANGE))
    /\ UNCHANGED <<impl, mCommitList, mpp, decoding, lent, dataVars>>

\* reset, under mLock, and flush, without: the decoder drops its frames.  Beyond
\* mCtx flush touches only the decoder, which has locks of its own, so that it
\* comes before or after what another operation does to it.
Reset ==
    /\ impl = "ready"
    /\ mpp' = PutAll(mpp, decoding)
    /\ decoding' = {}
    /\ UNCHANGED <<impl, mCommitList, lent, changing, dataVars>>

\* control(HW_CMD_BUFFER_GROUP_CLEAR).  The client has given back every frame
\* it has committed: mSite of a frame never given back is MPI as well.
GroupClear ==
    /\ impl = "ready"
    /\ changing
    /\ \A e \in mCommitList : e.site = "MPI" => e.buf \notin lent
    /\ FreeDataBufferList
    /\ mCommitList' = WithoutSite(mCommitList, "MPI")
    /\ mpp' = ClearGroup(mpp)
    /\ UNCHANGED <<impl, decoding, lent, changing, memory, ever, handles, uncleared>>

\* control(HW_CMD_BUFFER_READY)
BufferReady ==
    /\ impl = "ready"
    /\ changing
    /\ changing' = FALSE
    /\ UNCHANGED <<impl, mCommitList, mpp, decoding, lent, dataVars>>

\* ~RockitHwMpi, when the client has gone: drm_close closes every handle.
Destroy ==
    /\ impl \in {"ready", "failed"}
    /\ impl' = "gone"
    /\ FreeDataBufferList /\ DrmClose
    /\ CleanMppBuffers
    /\ mpp' = ClearGroup(PutAll(mpp, decoding))
    /\ decoding' = {}
    /\ UNCHANGED <<lent, changing, memory, ever, uncleared>>
---------------------------------------------------------------------------
\* findDataBuffer: the loop looks at item 0 each time.
FindDataBuffer(d) ==
    IF mDataList # <<>> /\ Head(mDataList).id = d THEN 1 ELSE 0

\* addDataBufferList: a full list is only logged.
AddDataBuffer(d) ==
    /\ Len(mDataList) < MaxMappings
    /\ mDataList' = Append(mDataList, [id |-> d, mem |-> memory[d]])

\* freeDataBuffer: the first entry of the name goes.
FreeDataBuffer(d) ==
    LET i == SelectInSeq(mDataList, LAMBDA e : e.id = d)
    IN  mDataList' = IF i = 0 THEN mDataList ELSE RemoveAt(mDataList, i)

\* drm_map: the mapping, or a failure, which adds no entry.
DrmMap(d) == \/ AddDataBuffer(d) /\ uncleared' = uncleared \cup {d}
             \/ UNCHANGED <<mDataList, uncleared>>

\* A packet of the client, as it comes to the service.
Packet(d, flags) ==
    RTBuffer2HwBuffer([bufferId |-> d, length |-> 1,
        pair |-> Pairs(<< <<"FLAGS", flags>>, <<"PTS", 1>>, <<"DTS", 1>> >>)])

IsEos(packet) == Flagged(GetValue(packet.pair, "FLAGS"), HW_FLAGS_EOS)

\* Faulty variant: the handle is closed once the memory is mapped.
EnqueueClosing(d, flags) ==
    LET packet == Packet(d, flags)
    IN  /\ impl = "ready"
        /\ memory[d] # 0
        /\ IF IsEos(packet) THEN UNCHANGED <<mDataList, uncleared>>
           ELSE IF FindDataBuffer(packet.bufferId) # 0
           THEN uncleared' = uncleared \cup {packet.bufferId} /\ UNCHANGED mDataList
           ELSE DrmMap(packet.bufferId)
        /\ UNCHANGED <<impl, frameVars, memory, ever, handles>>

\* enqueue of a packet the client has written to memory d: with no mapping of
\* d, the name is opened and mapped.  The handle stays open, also when the
\* mapping fails.  The end of the stream has no data.
Enqueue(d, flags) ==
    LET packet == Packet(d, flags)
    IN  /\ impl = "ready"
        /\ memory[d] # 0
        /\ IF IsEos(packet) THEN UNCHANGED <<mDataList, uncleared, handles>>
           ELSE IF FindDataBuffer(packet.bufferId) # 0
           THEN /\ uncleared' = uncleared \cup {packet.bufferId}
                /\ UNCHANGED <<mDataList, handles>>
           ELSE OpenName(packet.bufferId) /\ DrmMap(packet.bufferId)
        /\ UNCHANGED <<impl, frameVars, memory, ever>>

\* control(HW_CMD_BUFFER_DATA_CLEAR)
DataClear(d) ==
    LET param == RTHWParam2RockitHWParam(Pairs(<< <<"DATA_BUFFER", d>> >>))
    IN  /\ impl = "ready"
        /\ memory[d] # 0
        /\ FreeDataBuffer(GetValue(param, "DATA_BUFFER"))
        /\ uncleared' = uncleared \ {d}
        /\ UNCHANGED <<impl, frameVars, memory, ever, handles>>
---------------------------------------------------------------------------
\* query: the strides are those of init, the unused buffers those of the group.
\* The first part of an answer is RockitHwManager's status.
Unused == Cardinality({b \in DOMAIN mpp : mpp[b].state = "live" /\ mpp[b].refs = 0})
mStride == [WIDTH_STRIDE |-> 16, HEIGHT_STRIDE |-> 8]

Query(cmd) ==
    LET answer(key, value) == [status |-> "OK", param |-> SetValue(Sized(1), key, value)]
    IN  CASE impl # "ready" -> [status |-> "BAD_VALUE", param |-> Sized(0)]
          [] cmd \in DOMAIN mStride -> answer(cmd, mStride[cmd])
          [] cmd = "UNUSED_BUFFER_COUNTER" -> answer("TOKEN", Unused)
          [] OTHER -> [status |-> "BAD_VALUE", param |-> Sized(0)]

\* RockitHwClient::query: the client's array has the answer after an OK.
Asked(cmd, rt) ==
    IF Query(cmd).status = "OK" THEN RockitHWParam2RTHWParam(Query(cmd).param, rt) ELSE rt
---------------------------------------------------------------------------
\* The client allocates memory for packets.  A name is given again when no
\* handle to the memory that had it is open.
AllocateData(d) ==
    /\ impl = "ready"
    /\ memory[d] = 0 /\ d \notin handles
    /\ ever[d] < MaxReuse
    /\ ever' = [ever EXCEPT ![d] = @ + 1]
    /\ memory' = [memory EXCEPT ![d] = ever[d] + 1]
    /\ UNCHANGED <<impl, frameVars, mDataList, handles, uncleared>>

\* The client frees memory after its DATA_CLEAR.
FreeData(d) ==
    /\ memory[d] # 0 /\ d \notin uncleared
    /\ memory' = [memory EXCEPT ![d] = 0]
    /\ UNCHANGED <<impl, frameVars, mDataList, ever, handles, uncleared>>

\* The decoder takes an unused buffer of the group for a frame ...
Decode(b) ==
    /\ impl = "ready" /\ ~changing
    /\ mpp[b].state = "live" /\ mpp[b].refs = 0
    /\ mpp' = [mpp EXCEPT ![b].refs = 1]
    /\ decoding' = decoding \cup {b}
    /\ UNCHANGED <<impl, mCommitList, lent, changing, dataVars>>

\* ... and may drop it without showing it.
Drop(b) ==
    /\ b \in decoding
    /\ mpp' = PutAll(mpp, {b})
    /\ decoding' = decoding \ {b}
    /\ UNCHANGED <<impl, mCommitList, lent, changing, dataVars>>

\* The object is gone; the client may go on without it.
Gone == impl = "gone" /\ UNCHANGED vars
---------------------------------------------------------------------------
Next ==
    \/ InitMpi \/ Destroy \/ Reset
    \/ \E n \in Names : CommitBuffer(n) \/ GiveBackBuffer(n)
    \/ DequeueInfoChange \/ GroupClear \/ BufferReady
    \/ \E b \in DOMAIN mpp :
          \/ \E flags \in {0, HW_FLAGS_EOS, HW_FLAGS_ERROR_INFOR} : DequeueFrame(b, flags)
          \/ Decode(b) \/ Drop(b)
    \/ \E d \in DataNames : \/ \E flags \in {0, HW_FLAGS_EOS} : Enqueue(d, flags)
                            \/ DataClear(d) \/ AllocateData(d) \/ FreeData(d)
    \/ Gone

SafeSpec == Init /\ [][Next]_vars

\* The client gives back what it has shown.
Spec == SafeSpec /\ \A n \in Names : WF_vars(GiveBackBuffer(n))
---------------------------------------------------------------------------
\* The references of an MppBuffer are the decoder's and the client's: none is
\* put twice, none is put by the wrong name, and what is freed has none.
RefsAccounted ==
    \A b \in DOMAIN mpp :
       /\ mpp[b].refs = (IF b \in decoding THEN 1 ELSE 0) + (IF b \in lent THEN 1 ELSE 0)
       /\ mpp[b].state = "freed" => mpp[b].refs = 0
       /\ mpp[b].state = "old" => mpp[b].refs > 0

\* The decoder does not write into a frame the client shows.
NoDecodeIntoLent == decoding \cap lent = {}

\* As long as the client has a frame, its name leads to its own MppBuffer: also
\* a frame kept over an info change can be given back.
CanBeGivenBack ==
    impl = "ready" =>
       \A b \in lent : \E e \in mCommitList : e.id = mpp[b].id /\ e.buf = b

\* A packet is decoded from the memory its name stands for, not from a mapping
\* of memory that had the name before.
DecodesNamedMemory ==
    \A d \in DataNames :
       memory[d] # 0 /\ FindDataBuffer(d) # 0
          => mDataList[FindDataBuffer(d)].mem = memory[d]

\* The client, who commits a new frame only when it must, is told how many of
\* its frames are with neither it nor the decoder.
UnusedIsTold ==
    LET told == Asked("UNUSED_BUFFER_COUNTER", Pairs(<< <<"none", -1>> >>))
        now == {b \in DOMAIN mpp : mpp[b].state = "live"}
    IN  impl = "ready" =>
           GetValue(told, "TOKEN") = Cardinality(now) - Cardinality(now \cap (decoding \cup lent))

\* The frames of the old size are freed once the client has shown them.
OldBuffersFreed ==
    \A b \in 1 .. MaxImports :
       (b \in DOMAIN mpp /\ mpp[b].state = "old")
          ~> (impl = "gone" \/ (b \in DOMAIN mpp /\ mpp[b].state = "freed"))
===========================================================================
