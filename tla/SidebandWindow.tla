-------------------------- MODULE SidebandWindow --------------------------
(***************************************************************************)
(* RTSidebandWindow (rockit/direct/sideband), the window RTSurfaceCallback *)
(* plays into in tunnel mode, with the player thread that calls it and the *)
(* render thread behind its MessageQueue.                                  *)
(*                                                                         *)
(* The player thread allocates buffers, hands them over to be shown        *)
(* (queueBuffer), gets them back (dequeueBuffer) and frees them; the       *)
(* render thread shows them one after the other and keeps them in          *)
(* mRenderingQueue.  Both threads touch mRenderingQueue, and the lock that *)
(* would order them is commented out: dequeueBuffer looks at the front of  *)
(* the vector and leaves the removal to a message.                         *)
(***************************************************************************)
EXTENDS Naturals, Sequences, FiniteSets

CONSTANTS Buffers,        \* what gralloc can hand out
          NoBuffer,       \* NULL
          MinUndequeued,  \* MIN_BUFFER_COUNT_UNDEQUEUE
          StructSizeOK,   \* init is given an RTSidebandInfo of the right size
          MaxQueued       \* bound: longest message list the player extends

ASSUME WindowAssumption ==
    /\ NoBuffer \notin Buffers
    /\ MinUndequeued \in Nat \ {0}
    /\ StructSizeOK \in BOOLEAN
    /\ MaxQueued \in Nat \ {0}

Player == "player"

\* RTSidebandWindow::MessageId and Message.
Message ==
    [id : {"RENDER"}, buf : Buffers] \cup
    [id : {"EXIT", "DEQUEUE", "FLUSH"}, buf : {NoBuffer}]

Request(id) == [id |-> id, buf |-> NoBuffer]
Render(b) == [id |-> "RENDER", buf |-> b]

VARIABLES mList, mReplyStatus, caller, receiver,  \* mMessageQueue, the threads
          mRenderingQueue,  \* shown buffers, oldest first
          mThreadRunning,   \* loop condition of the render thread
          phase,            \* where the player thread is, see TypeOK
          front,            \* the buffer dequeueBuffer has looked at
          mTunnel,          \* RTSurfaceCallback's mTunnel
          allocated,        \* buffers gralloc has allocated and not freed
          held,             \* buffers the player may write to
          onScreen,         \* the buffer the plane was last set to
          raced             \* history: a dequeue began while a removal was to come

queueVars == <<mList, mReplyStatus, caller, receiver>>
bufferVars == <<mRenderingQueue, allocated, held, onScreen>>
vars == <<queueVars, bufferVars, mThreadRunning, phase, front, mTunnel, raced>>

MQ == INSTANCE MessageQueue WITH
          Callers <- {Player}, SyncId <- [c \in {Player} |-> "EXIT"],
          Status <- {"NO_ERROR"}

TypeOK ==
    /\ MQ!TypeOK
    /\ mRenderingQueue \in Seq(Buffers)
    /\ mThreadRunning \in BOOLEAN
    /\ phase \in {"unset", "running", "front", "send", "exit", "released", "crashed"}
    /\ front \in Buffers \cup {NoBuffer}
    /\ phase = "send" => front \in Buffers
    /\ mTunnel \in BOOLEAN
    /\ allocated \in SUBSET Buffers
    /\ held \in SUBSET Buffers
    /\ onScreen \in Buffers \cup {NoBuffer}
    /\ raced \in BOOLEAN

Init ==
    /\ mList = <<>>
    /\ mReplyStatus \in [{"EXIT"} -> {"NO_ERROR", "WOULD_BLOCK"}]
    /\ caller = [c \in {Player} |-> "running"]
    /\ receiver = [at |-> "absent", msg |-> Request("EXIT"), status |-> "NO_ERROR"]
    /\ mRenderingQueue = <<>>
    /\ mThreadRunning = FALSE
    /\ phase = "unset"
    /\ front = NoBuffer
    /\ mTunnel = FALSE
    /\ allocated = {}
    /\ held = {}
    /\ onScreen = NoBuffer
    /\ raced = FALSE
---------------------------------------------------------------------------
Elements(s) == {s[i] : i \in DOMAIN s}

\* Messages whose handler has not run, in the order the handlers will run.
Unhandled ==
    IF receiver.at = "handling" THEN <<receiver.msg>> \o mList ELSE mList

Removals == {Request("DEQUEUE"), Request("FLUSH")}

RemovalInFlight == \E i \in DOMAIN Unhandled : Unhandled[i] \in Removals

\* A freed buffer is not on screen as a buffer of the window any more.
OnScreenWithout(freed) == IF onScreen \in freed THEN NoBuffer ELSE onScreen

\* A handler frees every buffer of the vector: one is in it twice, or is not
\* allocated any more.
FreesTwice ==
    \/ ~(Elements(mRenderingQueue) \subseteq allocated)
    \/ \E i, j \in DOMAIN mRenderingQueue :
          i # j /\ mRenderingQueue[i] = mRenderingQueue[j]

\* The process dies, with both threads.
Dies ==
    /\ phase' = "crashed"
    /\ receiver' = [receiver EXCEPT !.at = "gone"]
    /\ UNCHANGED <<mList, mReplyStatus, caller>>

\* The player is between two calls of RTSurfaceCallback, in tunnel mode.
Tunnelling == phase = "running" /\ mTunnel
---------------------------------------------------------------------------
\* MessageThread::run, of a render thread that begins with receive.
ThreadRun ==
    /\ receiver' = [receiver EXCEPT !.at = "receiving"]
    /\ mThreadRunning' = TRUE

\* MessageThread::requestExitAndWait: pthread_join returns.
ThreadJoin == receiver.at = "gone"

\* allocateSidebandHandle: gralloc gives a buffer for the stream's handle or not.
AllocateSidebandHandle == mTunnel' \in BOOLEAN

\* RTSurfaceCallback::setSidebandStream: init(info), whose failure is not
\* looked at, and the sideband handle; without the handle mTunnel stays 0.
SetSidebandStream ==
    /\ phase = "unset"
    /\ phase' = "running"
    /\ AllocateSidebandHandle
    /\ IF StructSizeOK THEN ThreadRun
       ELSE UNCHANGED <<receiver, mThreadRunning>>
    /\ UNCHANGED <<mList, mReplyStatus, caller, bufferVars, front, raced>>

\* allocateBuffer: alloc and registerBuffer.
AllocateBuffer(b) ==
    /\ Tunnelling
    /\ b \notin allocated
    /\ allocated' = allocated \cup {b}
    /\ held' = held \cup {b}
    /\ UNCHANGED <<queueVars, mRenderingQueue, mThreadRunning, phase, front,
                   mTunnel, raced, onScreen>>

\* freeBuffer: unregisterBuffer and free, of a buffer the player has.
FreeBuffer(b) ==
    /\ Tunnelling
    /\ b \in held
    /\ held' = held \ {b}
    /\ allocated' = allocated \ {b}
    /\ onScreen' = OnScreenWithout({b})
    /\ UNCHANGED <<queueVars, mRenderingQueue, mThreadRunning, phase, front,
                   mTunnel, raced>>

\* remainBuffer: push_back from the player thread.  The player gives buffers
\* back unshown only while nothing is shown and nothing is in flight, so that
\* the render thread is not in the vector at the same time.
RemainBuffer(b) ==
    /\ Tunnelling
    /\ b \in held
    /\ onScreen = NoBuffer /\ Unhandled = <<>>
    /\ held' = held \ {b}
    /\ mRenderingQueue' = Append(mRenderingQueue, b)
    /\ UNCHANGED <<queueVars, mThreadRunning, phase, front, mTunnel, raced, allocated,
                   onScreen>>

\* queueBuffer: the buffer travels in a RENDER_REQUEST.
QueueBuffer(b) ==
    /\ Tunnelling
    /\ b \in held
    /\ held' = held \ {b}
    /\ MQ!Send(Player, Render(b))
    /\ UNCHANGED <<mRenderingQueue, mThreadRunning, phase, front, mTunnel, raced,
                   allocated, onScreen>>

\* dequeueBuffer reads size(), whatever the render thread has still to take out
\* of the vector ...
DequeueSize ==
    /\ Tunnelling
    /\ Len(mRenderingQueue) > MinUndequeued
    /\ phase' = "front"
    /\ raced' = (raced \/ RemovalInFlight)
    /\ UNCHANGED <<queueVars, bufferVars, mThreadRunning, front, mTunnel>>

\* ... then front(), whatever lies there if the vector is empty by now ...
DequeueFront ==
    /\ phase = "front"
    /\ phase' = "send"
    /\ front' \in IF mRenderingQueue = <<>> THEN Buffers
                  ELSE {Head(mRenderingQueue)}
    /\ UNCHANGED <<queueVars, bufferVars, mThreadRunning, mTunnel, raced>>

\* ... then sends the request to remove it and returns it.
DequeueSend ==
    /\ phase = "send"
    /\ phase' = "running"
    /\ front' = NoBuffer
    /\ held' = held \cup {front}
    /\ MQ!Send(Player, Request("DEQUEUE"))
    /\ UNCHANGED <<mRenderingQueue, mThreadRunning, mTunnel, raced, allocated, onScreen>>

\* flush
Flush ==
    /\ Tunnelling
    /\ MQ!Send(Player, Request("FLUSH"))
    /\ UNCHANGED <<bufferVars, mThreadRunning, phase, front, mTunnel, raced>>

\* ~RTSurfaceCallback, up to release(): the EXIT request is sent.
Destroy ==
    /\ phase = "running"
    /\ phase' = "exit"
    /\ MQ!SendSync(Player, Request("EXIT"))
    /\ UNCHANGED <<bufferVars, mThreadRunning, front, mTunnel, raced>>

\* Faulty variant: release() does not join the render thread.
ReleaseUnjoined ==
    /\ phase = "exit"
    /\ phase' = "released"
    /\ allocated' = allocated \ Elements(mRenderingQueue)
    /\ onScreen' = OnScreenWithout(Elements(mRenderingQueue))
    /\ mRenderingQueue' = <<>>
    /\ UNCHANGED <<queueVars, mThreadRunning, front, mTunnel, raced, held>>

\* The rest of release(): send has returned, pthread_join returns once the
\* thread has ended, and what is left in mRenderingQueue is freed.
Release ==
    /\ phase = "exit"
    /\ caller[Player] = "running"
    /\ ThreadJoin
    /\ phase' = "released"
    /\ allocated' = allocated \ Elements(mRenderingQueue)
    /\ onScreen' = OnScreenWithout(Elements(mRenderingQueue))
    /\ mRenderingQueue' = <<>>
    /\ UNCHANGED <<queueVars, mThreadRunning, front, mTunnel, raced, held>>

\* ... or that dies, of what was freed before.
ReleaseFreed ==
    /\ phase = "exit"
    /\ caller[Player] = "running"
    /\ ThreadJoin
    /\ FreesTwice
    /\ Dies
    /\ UNCHANGED <<bufferVars, mThreadRunning, front, mTunnel, raced>>

PlayerWait ==
    /\ MQ!CheckReply(Player) \/ MQ!WakeCaller(Player)
    /\ UNCHANGED <<bufferVars, mThreadRunning, phase, front, mTunnel, raced>>
---------------------------------------------------------------------------
\* messageThreadLoop: receive, handle, reply, while mThreadRunning.
RenderReceive ==
    /\ MQ!Receive \/ MQ!WakeReceiver
    /\ UNCHANGED <<bufferVars, mThreadRunning, phase, front, mTunnel, raced>>

HandleExit ==
    /\ receiver.msg.id = "EXIT"
    /\ MQ!Handled("NO_ERROR")
    /\ mThreadRunning' = FALSE
    /\ UNCHANGED <<bufferVars, phase, front, mTunnel, raced>>

\* Faulty variant: the buffer joins the vector at its begin.
HandleRenderFirst ==
    /\ receiver.msg.id = "RENDER"
    /\ MQ!Handled("NO_ERROR")
    /\ onScreen' = receiver.msg.buf
    /\ mRenderingQueue' = <<receiver.msg.buf>> \o mRenderingQueue
    /\ UNCHANGED <<mThreadRunning, phase, front, mTunnel, raced, allocated, held>>

\* SetDrmPlane, of which the display is taken to have a plane, then the buffer
\* joins the vector.
HandleRender ==
    /\ receiver.msg.id = "RENDER"
    /\ MQ!Handled("NO_ERROR")
    /\ onScreen' = receiver.msg.buf
    /\ mRenderingQueue' = Append(mRenderingQueue, receiver.msg.buf)
    /\ UNCHANGED <<mThreadRunning, phase, front, mTunnel, raced, allocated, held>>

\* erase(begin()), with no look at whether there is a first element: on an
\* empty vector it moves a range of negative length, and the process dies.
HandleDequeue ==
    /\ receiver.at = "handling"
    /\ receiver.msg.id = "DEQUEUE"
    /\ IF mRenderingQueue # <<>>
       THEN /\ MQ!Handled("NO_ERROR")
            /\ mRenderingQueue' = Tail(mRenderingQueue)
            /\ UNCHANGED phase
       ELSE Dies /\ UNCHANGED mRenderingQueue
    /\ UNCHANGED <<mThreadRunning, front, mTunnel, raced, allocated, held, onScreen>>

\* Faulty variant: the vector is emptied and nothing freed.
HandleFlushForgets ==
    /\ receiver.msg.id = "FLUSH"
    /\ MQ!Handled("NO_ERROR")
    /\ mRenderingQueue' = <<>>
    /\ UNCHANGED <<mThreadRunning, phase, front, mTunnel, raced, allocated, held, onScreen>>

\* Every buffer of the vector is erased and freed.
HandleFlush ==
    /\ receiver.msg.id = "FLUSH"
    /\ MQ!Handled("NO_ERROR")
    /\ allocated' = allocated \ Elements(mRenderingQueue)
    /\ onScreen' = OnScreenWithout(Elements(mRenderingQueue))
    /\ mRenderingQueue' = <<>>
    /\ UNCHANGED <<mThreadRunning, phase, front, mTunnel, raced, held>>

\* A buffer that has been freed is shown or freed again: the handlers go on, or
\* the process dies of it.
UseFreed ==
    /\ receiver.at = "handling"
    /\ \/ receiver.msg.id = "RENDER" /\ receiver.msg.buf \notin allocated
       \/ receiver.msg.id = "FLUSH" /\ FreesTwice
    /\ Dies
    /\ UNCHANGED <<bufferVars, mThreadRunning, front, mTunnel, raced>>

RenderReply ==
    /\ MQ!Reply(IF mThreadRunning THEN "receiving" ELSE "gone")
    /\ UNCHANGED <<bufferVars, mThreadRunning, phase, front, mTunnel, raced>>
---------------------------------------------------------------------------
PlayerStep ==
    \/ SetSidebandStream
    \/ \E b \in Buffers :
          AllocateBuffer(b) \/ FreeBuffer(b) \/ RemainBuffer(b) \/ QueueBuffer(b)
    \/ DequeueSize \/ DequeueFront \/ DequeueSend
    \/ Flush
    \/ Destroy \/ Release \/ ReleaseFreed \/ PlayerWait

RenderStep ==
    RenderReceive \/ HandleExit \/ HandleRender \/ HandleDequeue \/ HandleFlush
    \/ UseFreed \/ RenderReply

\* After release() or a crash there is nothing left to do.
Done == phase \in {"released", "crashed"} /\ UNCHANGED vars

Next == PlayerStep \/ RenderStep \/ Done

SafeSpec == Init /\ [][Next]_vars

\* The render thread runs whenever it can, and the player thread finishes the
\* call it is in; neither has to call or to be woken for nothing.
Spec ==
    /\ SafeSpec
    /\ WF_vars(MQ!Receive /\ RenderReceive)
    /\ WF_vars(HandleExit \/ HandleRender \/ HandleDequeue \/ HandleFlush)
    /\ WF_vars(RenderReply)
    /\ WF_vars(DequeueFront \/ DequeueSend \/ Release)
    /\ WF_vars(MQ!CheckReply(Player) /\ PlayerWait)
---------------------------------------------------------------------------
InFlight(b) == \E i \in DOMAIN Unhandled : Unhandled[i] = Render(b)

\* The first buffer of the vector, while the request to remove it is pending.
Leaving ==
    IF Request("DEQUEUE") \in Elements(Unhandled) /\ mRenderingQueue # <<>>
    THEN {Head(mRenderingQueue)} ELSE {}

\* How many of the first n messages of a list are RENDER_REQUESTs.
Renders(list, n) == Cardinality({i \in 1 .. n : list[i].id = "RENDER"})

\* The buffers of the RENDER_REQUESTs of a list, in their order.
Coming(list) ==
    LET isNth(i, n) == list[i].id = "RENDER" /\ Renders(list, i) = n
    IN  [n \in 1 .. Renders(list, Len(list)) |->
           list[CHOOSE i \in DOMAIN list : isNth(i, n)].buf]

\* The buffers of the window, in the order they were handed over.
HandedOver ==
    (IF Leaving = {} THEN mRenderingQueue ELSE Tail(mRenderingQueue)) \o Coming(Unhandled)

\* Where the last FLUSH of a list is, 0 if there is none.
LastFlush(list) ==
    CHOOSE k \in 0 .. Len(list) :
        /\ k > 0 => list[k] = Request("FLUSH")
        /\ \A i \in k + 1 .. Len(list) : list[i] # Request("FLUSH")

\* How many of those the unhandled FLUSHes will have freed in the end.
Doomed ==
    LET last == LastFlush(Unhandled)
    IN  IF last = 0 THEN 0
        ELSE Len(mRenderingQueue) - Cardinality(Leaving) + Renders(Unhandled, last)

Fifo == INSTANCE BufferFifo WITH
    fifo <- HandedOver, mine <- held, doomed <- Doomed, broken <- raced

\* Through the messages and the two threads the window is a queue of buffers:
\* queueBuffer and remainBuffer add to its end, dequeueBuffer returns its head,
\* flush frees exactly what was handed over before it.  Only a dequeue that
\* begins while a removal is to come breaks it: size() and front() see a buffer
\* that is gone by right.  Nothing in the code keeps a player from that, so the
\* properties that depend on it say that there has been no such dequeue.
ImplementsFifo == Fifo!Spec

\* Every allocated buffer is with one owner: the player, a RENDER_REQUEST or
\* the vector, and it is there once. dequeueBuffer hands a buffer to the player
\* before it leaves the vector, so for that time, and only then, it is in both.
OneOwner ==
    LET stored == Elements(mRenderingQueue) \ Leaving
        moving == {b \in Buffers : InFlight(b)}
    IN  ~raced =>
        /\ allocated = held \cup stored \cup moving
        /\ held \cap stored = {} /\ held \cap moving = {} /\ stored \cap moving = {}
        /\ \A i, j \in DOMAIN mRenderingQueue :
              mRenderingQueue[i] = mRenderingQueue[j] => i = j
        /\ \A i, j \in DOMAIN Unhandled :
              Unhandled[i] = Unhandled[j] /\ Unhandled[i].id = "RENDER" => i = j

\* dequeueBuffer never returns a buffer the player already has.
NeverLentTwice == phase = "send" /\ ~raced => front \notin held

\* A dequeue leaves MIN_BUFFER_COUNT_UNDEQUEUE buffers in the vector, and so
\* never erases from an empty one (RTSidebandWindow.cpp:38, 204, 309).
KeepsMinUndequeued ==
    receiver.at = "handling" /\ receiver.msg.id = "DEQUEUE" /\ ~raced
       => Len(mRenderingQueue) > MinUndequeued

\* The process dies, of an erase from an empty vector or of a buffer that was
\* freed before, only where a dequeue began while a removal was to come.
CrashIsRace == phase = "crashed" => raced

\* The player is never given the buffer the plane is scanning out, which is
\* what the two undequeued buffers are kept for.
NeverLentOnScreen == ~raced => onScreen \notin held

\* The last message the render thread receives is EXIT, and the queue is empty
\* when it has ended (MessageQueue.cpp:41-45).
ExitIsLast == receiver.at = "gone" /\ phase # "crashed" => mList = <<>>

\* release() frees all the window has, and does not die of it: what is left was
\* with the player.
ReleaseFreesAll ==
    /\ phase = "released" /\ ~raced => allocated = held
    /\ CrashIsRace

\* A buffer handed to queueBuffer is shown, unless the process dies before.
QueuedIsShown == \A b \in Buffers : InFlight(b) ~> onScreen = b \/ phase = "crashed"

\* release() returns, or dies of what a player that raced has left.
ReleaseReturns == phase = "exit" ~> phase = "released" \/ phase = "crashed"
===========================================================================
