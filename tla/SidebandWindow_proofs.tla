---------------------- MODULE SidebandWindow_proofs -----------------------
(***************************************************************************)
(* Proofs about SidebandWindow, for any set of buffers and any             *)
(* MinUndequeued and every player.  Who owns a buffer is right as long as  *)
(* no dequeue began while a removal was to come; the window is the queue   *)
(* of BufferFifo, which such a dequeue breaks; and nothing else breaks it. *)
(***************************************************************************)
EXTENDS SidebandWindow, SequenceTheorems, FiniteSetTheorems, TLAPS

(* A list of which one message has been taken, with that message before it. *)

\* An element taken from a list and put in front of the rest is the list.
LEMMA HeadTailConcat ==
    ASSUME NEW S, NEW s \in Seq(S), s # <<>>
    PROVE  /\ Head(s) \in S
           /\ Tail(s) \in Seq(S)
           /\ <<Head(s)>> \o Tail(s) = s
<1>1. Head(s) \in S /\ Tail(s) \in Seq(S) /\ Len(Tail(s)) = Len(s) - 1 /\ Len(s) > 0
  OBVIOUS
<1>2. <<Head(s)>> \o Tail(s) \in Seq(S)
  BY <1>1
<1>3. Len(<<Head(s)>> \o Tail(s)) = Len(s)
  BY <1>1
<1>4. \A i \in 1 .. Len(s) : (<<Head(s)>> \o Tail(s))[i] = s[i]
  BY <1>1
<1>. QED
  BY <1>1, <1>2, <1>3, <1>4, SeqEqual

\* Adding at the end and taking at the front do not meet.
LEMMA PushConcat ==
    ASSUME NEW S, NEW s \in Seq(S), NEW m \in S, NEW n \in S
    PROVE  /\ <<n>> \o s \in Seq(S)
           /\ <<n>> \o Append(s, m) = Append(<<n>> \o s, m)
           /\ Head(<<n>> \o s) = n
           /\ Tail(<<n>> \o s) = s
           /\ <<n>> \o s # <<>>
<1>1. <<n>> \o s \in Seq(S) /\ Len(<<n>> \o s) = Len(s) + 1
  OBVIOUS
<1>2. <<n>> \o Append(s, m) = Append(<<n>> \o s, m)
  <2>1. <<n>> \o Append(s, m) \in Seq(S) /\ Append(<<n>> \o s, m) \in Seq(S)
    BY <1>1
  <2>2. Len(<<n>> \o Append(s, m)) = Len(Append(<<n>> \o s, m))
    BY <1>1
  <2>3. \A i \in 1 .. Len(<<n>> \o Append(s, m)) :
           (<<n>> \o Append(s, m))[i] = Append(<<n>> \o s, m)[i]
    BY <1>1
  <2>. QED
    BY <2>1, <2>2, <2>3, SeqEqual
<1>3. Head(<<n>> \o s) = n
  BY <1>1
<1>4. Tail(<<n>> \o s) = s
  <2>1. Tail(<<n>> \o s) \in Seq(S) /\ Len(Tail(<<n>> \o s)) = Len(s)
    BY <1>1
  <2>2. \A i \in 1 .. Len(s) : Tail(<<n>> \o s)[i] = s[i]
    BY <1>1
  <2>. QED
    BY <2>1, <2>2, SeqEqual
<1>. QED
  BY <1>1, <1>2, <1>3, <1>4
----------------------------------------------------------------------------
\* x occurs in s; x occurs at most once in s; every x in s stands before every y.
Has(s, x) == \E i \in DOMAIN s : s[i] = x
Once(s, x) == \A i, j \in DOMAIN s : s[i] = x /\ s[j] = x => i = j
Before(s, x, y) == \A i, j \in DOMAIN s : s[i] = x /\ s[j] = y => i < j

\* What occurs, how often and in which order after an element was added.
LEMMA AfterAppend ==
    ASSUME NEW S, NEW s \in Seq(S), NEW m \in S
    PROVE  /\ \A x : Has(Append(s, m), x) <=> Has(s, x) \/ x = m
           /\ \A x : Once(s, x) /\ (x = m => ~Has(s, x)) => Once(Append(s, m), x)
           /\ \A x, y : Before(s, x, y) /\ x # y /\ (m = x => ~Has(s, y))
                           => Before(Append(s, m), x, y)
<1> DEFINE t == Append(s, m)
<1>1. /\ DOMAIN s = 1 .. Len(s) /\ DOMAIN t = 1 .. Len(s) + 1
      /\ Len(s) \in Nat /\ t[Len(s) + 1] = m
      /\ \A i \in 1 .. Len(s) : t[i] = s[i]
  BY AppendProperties
<1> HIDE DEF t
<1>2. \A x : Has(t, x) <=> Has(s, x) \/ x = m
  BY <1>1 DEF Has
<1>3. ASSUME NEW x, Once(s, x), x = m => ~Has(s, x)
      PROVE  Once(t, x)
  BY <1>1, <1>3 DEF Has, Once
<1>4. ASSUME NEW x, NEW y, Before(s, x, y), x # y, m = x => ~Has(s, y)
      PROVE  Before(t, x, y)
  BY <1>1, <1>4 DEF Has, Before
<1>. QED
  BY <1>2, <1>3, <1>4 DEF t

\* The same after the first element was taken.
LEMMA AfterTail ==
    ASSUME NEW S, NEW s \in Seq(S), s # <<>>
    PROVE  /\ Has(s, Head(s))
           /\ \A x : Has(s, x) <=> x = Head(s) \/ Has(Tail(s), x)
           /\ \A x : Once(s, x) => Once(Tail(s), x)
           /\ Once(s, Head(s)) => ~Has(Tail(s), Head(s))
           /\ \A x, y : Before(s, x, y) => Before(Tail(s), x, y)
           /\ \A x : Before(s, x, Head(s)) => ~Has(s, x)
<1> DEFINE t == Tail(s)
<1>1. /\ DOMAIN s = 1 .. Len(s) /\ DOMAIN t = 1 .. Len(s) - 1
      /\ Len(s) \in Nat \ {0} /\ Head(s) = s[1]
      /\ \A i \in 1 .. Len(s) - 1 : t[i] = s[i + 1]
  OBVIOUS
<1> HIDE DEF t
<1>2. Has(s, Head(s))
  BY <1>1 DEF Has
<1>3. ASSUME NEW x
      PROVE  Has(s, x) <=> x = Head(s) \/ Has(t, x)
  <2>1. ASSUME Has(s, x), x # Head(s)
        PROVE  Has(t, x)
    <3>1. PICK i \in DOMAIN s : s[i] = x
      BY <2>1 DEF Has
    <3>2. i - 1 \in DOMAIN t /\ t[i - 1] = x
      BY <1>1, <2>1, <3>1
    <3>. QED
      BY <3>2 DEF Has
  <2>2. ASSUME Has(t, x)
        PROVE  Has(s, x)
    <3>1. PICK i \in DOMAIN t : t[i] = x
      BY <2>2 DEF Has
    <3>2. i + 1 \in DOMAIN s /\ s[i + 1] = x
      BY <1>1, <3>1
    <3>. QED
      BY <3>2 DEF Has
  <2>. QED
    BY <1>2, <2>1, <2>2
<1>4. ASSUME NEW x, Once(s, x)
      PROVE  Once(t, x)
  <2> SUFFICES ASSUME NEW i \in DOMAIN t, NEW j \in DOMAIN t, t[i] = x, t[j] = x
               PROVE  i = j
    BY DEF Once
  <2>1. i + 1 \in DOMAIN s /\ j + 1 \in DOMAIN s /\ s[i + 1] = x /\ s[j + 1] = x
    BY <1>1
  <2>2. i + 1 = j + 1
    BY <1>4, <2>1 DEF Once
  <2>. QED
    BY <1>1, <2>2
<1>5. Once(s, Head(s)) => ~Has(t, Head(s))
  <2> SUFFICES ASSUME Once(s, Head(s)), NEW i \in DOMAIN t, t[i] = Head(s)
               PROVE  FALSE
    BY DEF Has
  <2>1. i + 1 \in DOMAIN s /\ s[i + 1] = Head(s) /\ 1 \in DOMAIN s /\ s[1] = Head(s)
    BY <1>1
  <2>2. i + 1 = 1
    BY <2>1 DEF Once
  <2>. QED
    BY <1>1, <2>2
<1>6. ASSUME NEW x, NEW y, Before(s, x, y)
      PROVE  Before(t, x, y)
  <2> SUFFICES ASSUME NEW i \in DOMAIN t, NEW j \in DOMAIN t, t[i] = x, t[j] = y
               PROVE  i < j
    BY DEF Before
  <2>1. i + 1 \in DOMAIN s /\ j + 1 \in DOMAIN s /\ s[i + 1] = x /\ s[j + 1] = y
    BY <1>1
  <2>2. i + 1 < j + 1
    BY <1>6, <2>1 DEF Before
  <2>. QED
    BY <1>1, <2>2
<1>7. ASSUME NEW x, Before(s, x, Head(s)), NEW i \in DOMAIN s, s[i] = x
      PROVE  FALSE
  <2>1. i < 1
    BY <1>1, <1>7 DEF Before
  <2>. QED
    BY <1>1, <2>1
<1>. QED
  BY <1>2, <1>3, <1>4, <1>5, <1>6, <1>7 DEF t, Has
----------------------------------------------------------------------------

LEMMA TheSyncIds == MQ!SyncIds = {"EXIT"}
BY DEF MQ!SyncIds, Player

LEMMA Requests ==
    /\ \A id \in {"EXIT", "DEQUEUE", "FLUSH"} :
          Request(id) \in Message /\ Request(id).id = id
    /\ \A b \in Buffers : Render(b) \in Message /\ Render(b).id = "RENDER"
                          /\ Render(b).buf = b
    /\ \A m \in Message : \/ m \in {Request("EXIT"), Request("DEQUEUE"), Request("FLUSH")}
                          \/ m.buf \in Buffers /\ m = Render(m.buf)
BY DEF Message, Request, Render

\* The states of the window have the types the code declares.
THEOREM TypeCorrect == SafeSpec => []TypeOK
<1>1. Init => TypeOK
  <2> SUFFICES ASSUME Init
               PROVE  TypeOK
    OBVIOUS
  <2>1. MQ!TypeOK
    BY Requests, TheSyncIds DEF Init, MQ!TypeOK, MQ!Places, Player
  <2>2. mRenderingQueue \in Seq(Buffers)
    BY EmptySeq, Zenon DEF Init
  <2>4. mThreadRunning \in BOOLEAN /\ mTunnel \in BOOLEAN /\ raced \in BOOLEAN
    BY Zenon DEF Init
  <2>3. /\ phase = "unset" /\ front = NoBuffer /\ onScreen = NoBuffer
        /\ allocated = {} /\ held = {}
    BY DEF Init
  <2>. QED
    BY <2>1, <2>2, <2>3, <2>4 DEF TypeOK
<1>2. TypeOK /\ [Next]_vars => TypeOK'
  <2> SUFFICES ASSUME TypeOK, [Next]_vars
               PROVE  TypeOK'
    OBVIOUS
  <2>0. /\ mList \in Seq(Message)
        /\ mReplyStatus \in [{"EXIT"} -> {"NO_ERROR", "WOULD_BLOCK"}]
        /\ caller \in [{Player} -> {"running", "checking", "waiting"}]
        /\ receiver \in [at : MQ!Places, msg : Message, status : {"NO_ERROR"}]
    BY TheSyncIds DEF TypeOK, MQ!TypeOK
  <2>a. ASSUME /\ mList' \in Seq(Message)
               /\ mReplyStatus' \in [{"EXIT"} -> {"NO_ERROR", "WOULD_BLOCK"}]
               /\ caller' \in [{Player} -> {"running", "checking", "waiting"}]
               /\ receiver' \in [at : MQ!Places, msg : Message, status : {"NO_ERROR"}]
        PROVE  MQ!TypeOK'
    BY <2>a, TheSyncIds DEF MQ!TypeOK
  <2>b. ASSUME UNCHANGED queueVars
        PROVE  MQ!TypeOK'
    BY <2>0, <2>a, <2>b DEF queueVars
  <2>c. ASSUME NEW m \in Message, MQ!Send(Player, m) \/ MQ!SendSync(Player, m)
        PROVE  MQ!TypeOK'
    <3>1. mList' \in Seq(Message)
      BY <2>0, <2>c DEF MQ!Send, MQ!SendSync
    <3>2. mReplyStatus' \in [{"EXIT"} -> {"NO_ERROR", "WOULD_BLOCK"}]
      BY <2>0, <2>c DEF MQ!Send, MQ!SendSync
    <3>3. caller' \in [{Player} -> {"running", "checking", "waiting"}]
      BY <2>0, <2>c DEF MQ!Send, MQ!SendSync
    <3>4. receiver' \in [at : MQ!Places, msg : Message, status : {"NO_ERROR"}]
      BY <2>0, <2>c DEF MQ!Send, MQ!SendSync, MQ!NotifyReceiver, MQ!Places
    <3>. QED
      BY <2>a, <3>1, <3>2, <3>3, <3>4
  <2>d. ASSUME MQ!Handled("NO_ERROR")
        PROVE  MQ!TypeOK'
    BY <2>0, <2>a, <2>d DEF MQ!Handled, MQ!Places
  <2>1. CASE SetSidebandStream
    <3>1. MQ!TypeOK'
      BY <2>0, <2>1, <2>a DEF SetSidebandStream, ThreadRun, AllocateSidebandHandle, MQ!Places
    <3>. QED
      BY <2>1, <3>1 DEF SetSidebandStream, ThreadRun, AllocateSidebandHandle, TypeOK, bufferVars
  <2>2. ASSUME NEW b \in Buffers,
               AllocateBuffer(b) \/ FreeBuffer(b) \/ RemainBuffer(b)
        PROVE  TypeOK'
    BY <2>2, <2>b DEF AllocateBuffer, FreeBuffer, RemainBuffer, OnScreenWithout, TypeOK
  <2>3. ASSUME NEW b \in Buffers, QueueBuffer(b)
        PROVE  TypeOK'
    BY <2>3, <2>c, Requests DEF QueueBuffer, TypeOK
  <2>4. CASE DequeueSize
    <3>1. raced' \in BOOLEAN
      BY <2>4, Zenon DEF DequeueSize
    <3>. QED
      BY <2>4, <2>b, <3>1 DEF DequeueSize, TypeOK, bufferVars
  <2>5. CASE DequeueFront
    <3>1. front' \in Buffers
      BY <2>5, HeadTailProperties DEF DequeueFront, TypeOK
    <3>. QED
      BY <2>5, <2>b, <3>1 DEF DequeueFront, TypeOK, bufferVars
  <2>6. CASE DequeueSend
    <3>1. MQ!TypeOK'
      BY <2>6, <2>c, Requests DEF DequeueSend
    <3>. QED
      BY <2>6, <3>1 DEF DequeueSend, TypeOK
  <2>7. CASE Flush
    BY <2>7, <2>c, Requests DEF Flush, TypeOK, bufferVars
  <2>8. CASE Destroy
    BY <2>8, <2>c, Requests DEF Destroy, TypeOK, bufferVars
  <2>9. CASE Release
    BY <2>9, <2>b DEF Release, ThreadJoin, OnScreenWithout, TypeOK
  <2>10. CASE PlayerWait
    <3>1. MQ!TypeOK'
      BY <2>0, <2>10, <2>a DEF PlayerWait, MQ!CheckReply, MQ!WakeCaller
    <3>. QED
      BY <2>10, <3>1 DEF PlayerWait, TypeOK, bufferVars
  <2>11. CASE RenderReceive
    <3>1. ASSUME MQ!Receive /\ mList # <<>>
          PROVE  MQ!TypeOK'
      <4>1. /\ receiver' = [receiver EXCEPT !.at = "handling", !.msg = Head(mList)]
            /\ mList' = Tail(mList) /\ UNCHANGED <<mReplyStatus, caller>>
        BY <3>1 DEF MQ!Receive
      <4>2. Head(mList) \in Message /\ Tail(mList) \in Seq(Message)
        BY <2>0, <3>1, HeadTailProperties
      <4>. QED
        BY <2>0, <2>a, <4>1, <4>2 DEF MQ!Places
    <3>2. ASSUME MQ!Receive /\ mList = <<>>
          PROVE  MQ!TypeOK'
      BY <2>0, <2>a, <3>2 DEF MQ!Receive, MQ!Places
    <3>3. ASSUME MQ!WakeReceiver
          PROVE  MQ!TypeOK'
      BY <2>0, <2>a, <3>3 DEF MQ!WakeReceiver, MQ!Places
    <3>4. MQ!TypeOK'
      BY <2>11, <3>1, <3>2, <3>3 DEF RenderReceive
    <3>. QED
      BY <2>11, <3>4 DEF RenderReceive, TypeOK, bufferVars
  <2>12. CASE HandleExit
    BY <2>12, <2>d DEF HandleExit, TypeOK, bufferVars
  <2>13. CASE HandleRender
    <3>1. receiver.msg.buf \in Buffers
      BY <2>0, <2>13, Requests DEF HandleRender
    <3>. QED
      BY <2>13, <2>d, <3>1 DEF HandleRender, TypeOK
  <2>14. CASE HandleDequeue
    <3>1. CASE mRenderingQueue # <<>>
      <4>1. mRenderingQueue' \in Seq(Buffers)
        BY <2>14, <3>1, HeadTailProperties DEF HandleDequeue, TypeOK
      <4>. QED
        BY <2>14, <2>d, <3>1, <4>1 DEF HandleDequeue, TypeOK
    <3>2. CASE mRenderingQueue = <<>>
      <4>1. MQ!TypeOK'
        BY <2>0, <2>14, <2>a, <3>2 DEF HandleDequeue, Dies, MQ!Places
      <4>. QED
        BY <2>14, <3>2, <4>1 DEF HandleDequeue, Dies, TypeOK
    <3>. QED
      BY <3>1, <3>2
  <2>15. CASE HandleFlush
    BY <2>15, <2>d DEF HandleFlush, OnScreenWithout, TypeOK
  <2>16. CASE RenderReply
    <3>1. MQ!TypeOK'
      <4>1. ASSUME NEW n \in {"receiving", "gone"}, MQ!Reply(n)
            PROVE  MQ!TypeOK'
        <5>1. mReplyStatus' \in [{"EXIT"} -> {"NO_ERROR", "WOULD_BLOCK"}]
          BY <2>0, <4>1, TheSyncIds DEF MQ!Reply
        <5>2. caller' \in [{Player} -> {"running", "checking", "waiting"}]
          BY <2>0, <4>1 DEF MQ!Reply
        <5>3. receiver' \in [at : MQ!Places, msg : Message, status : {"NO_ERROR"}]
          BY <2>0, <4>1 DEF MQ!Reply, MQ!Places
        <5>. QED
          BY <2>0, <2>a, <4>1, <5>1, <5>2, <5>3 DEF MQ!Reply
      <4>. QED
        BY <2>16, <4>1 DEF RenderReply
    <3>. QED
      BY <2>16, <3>1 DEF RenderReply, TypeOK, bufferVars
  <2>17. CASE UNCHANGED vars
    BY <2>17, <2>b DEF vars, queueVars, bufferVars, TypeOK
  <2>18. CASE UseFreed \/ ReleaseFreed
    <3>1. Dies /\ UNCHANGED <<bufferVars, mThreadRunning, front, mTunnel, raced>>
      BY <2>18 DEF UseFreed, ReleaseFreed
    <3>2. MQ!TypeOK'
      BY <2>0, <2>a, <3>1 DEF Dies, MQ!Places
    <3>. QED
      BY <3>1, <3>2 DEF Dies, TypeOK, bufferVars
  <2>. QED
    BY <2>1, <2>2, <2>3, <2>4, <2>5, <2>6, <2>7, <2>8, <2>9, <2>10, <2>11,
       <2>12, <2>13, <2>14, <2>15, <2>16, <2>17, <2>18
    DEF Next, PlayerStep, RenderStep, Done
<1>. QED
  BY <1>1, <1>2, PTL DEF SafeSpec
---------------------------------------------------------------------------
\* What the steps do to the list of unhandled messages.
LEMMA QueueTypes ==
    ASSUME TypeOK
    PROVE  /\ mList \in Seq(Message)
           /\ receiver \in [at : MQ!Places, msg : Message, status : {"NO_ERROR"}]
           /\ Unhandled \in Seq(Message)
BY PushConcat DEF TypeOK, MQ!TypeOK, Unhandled

LEMMA UnhandledSend ==
    ASSUME TypeOK, NEW m \in Message, MQ!Send(Player, m) \/ MQ!SendSync(Player, m)
    PROVE  /\ Unhandled' = Append(Unhandled, m)
           /\ receiver'.at = IF receiver.at = "waiting" THEN "receiving" ELSE receiver.at
           /\ receiver'.msg = receiver.msg
<1>1. /\ mList' = Append(mList, m)
      /\ receiver'.msg = receiver.msg
      /\ receiver'.at = IF receiver.at = "waiting" THEN "receiving" ELSE receiver.at
  BY QueueTypes DEF MQ!Send, MQ!SendSync, MQ!NotifyReceiver
<1>. QED
  BY <1>1, QueueTypes, PushConcat DEF Unhandled

LEMMA UnhandledReceive ==
    ASSUME TypeOK, MQ!Receive \/ MQ!WakeReceiver
    PROVE  /\ Unhandled' = Unhandled
           /\ receiver.at \in {"receiving", "waiting"}
           /\ receiver'.at \in {"receiving", "waiting", "handling"}
<1>1. CASE MQ!WakeReceiver
  BY <1>1, QueueTypes DEF MQ!WakeReceiver, Unhandled
<1>2. CASE MQ!Receive /\ mList = <<>>
  BY <1>2, QueueTypes DEF MQ!Receive, Unhandled
<1>3. CASE MQ!Receive /\ mList # <<>>
  <2>1. /\ receiver'.at = "handling" /\ receiver'.msg = Head(mList)
        /\ mList' = Tail(mList) /\ receiver.at = "receiving"
    BY <1>3, QueueTypes DEF MQ!Receive
  <2>2. <<Head(mList)>> \o Tail(mList) = mList
    BY <1>3, QueueTypes, HeadTailConcat
  <2>. QED
    BY <2>1, <2>2 DEF Unhandled
<1>. QED
  BY <1>1, <1>2, <1>3 DEF MQ!Receive

LEMMA UnhandledHandled ==
    ASSUME TypeOK, MQ!Handled("NO_ERROR")
    PROVE  /\ Unhandled # <<>>
           /\ Head(Unhandled) = receiver.msg
           /\ Unhandled' = Tail(Unhandled)
           /\ receiver'.at = "replying"
<1>1. receiver.at = "handling" /\ receiver'.at = "replying" /\ mList' = mList
  BY QueueTypes DEF MQ!Handled
<1>. QED
  BY <1>1, QueueTypes, PushConcat DEF Unhandled

LEMMA UnhandledReply ==
    ASSUME TypeOK, RenderReply
    PROVE  /\ Unhandled' = Unhandled
           /\ receiver.at = "replying"
           /\ receiver'.at = IF mThreadRunning THEN "receiving" ELSE "gone"
BY QueueTypes DEF RenderReply, MQ!Reply, Unhandled

LEMMA UnhandledSame ==
    ASSUME TypeOK, UNCHANGED queueVars \/ MQ!CheckReply(Player) \/ MQ!WakeCaller(Player)
    PROVE  Unhandled' = Unhandled /\ receiver' = receiver
BY DEF queueVars, MQ!CheckReply, MQ!WakeCaller, Unhandled
---------------------------------------------------------------------------
\* The exit protocol: until the player asks for it no EXIT is on its way and
\* the thread runs; from then on EXIT is the last of the messages, until it is
\* handled and there are none.
ExitNext ==
    /\ Has(Unhandled, Request("EXIT"))
    /\ Once(Unhandled, Request("EXIT"))
    /\ \A m \in Message \ {Request("EXIT")} : Before(Unhandled, m, Request("EXIT"))

ThreadUp == receiver.at # "gone" /\ (receiver.at # "absent" => mThreadRunning)

Protocol ==
    /\ phase = "unset" => receiver.at = "absent"
    /\ phase \in {"unset", "running", "front", "send"} =>
          ThreadUp /\ ~Has(Unhandled, Request("EXIT"))
    /\ phase = "exit" =>
          \/ ThreadUp /\ ExitNext
          \/ ~mThreadRunning /\ Unhandled = <<>> /\ receiver.at \in {"replying", "gone"}
    /\ phase = "released" => Unhandled = <<>> /\ receiver.at = "gone"

\* Taking EXIT from a list in which it is the last message empties the list.
LEMMA ExitEmpties ==
    ASSUME TypeOK, Unhandled # <<>>, ExitNext, Head(Unhandled) = Request("EXIT")
    PROVE  Tail(Unhandled) = <<>>
<1>1. Unhandled \in Seq(Message) /\ Tail(Unhandled) \in Seq(Message)
  BY QueueTypes, HeadTailProperties
<1>2. ~Has(Tail(Unhandled), Request("EXIT"))
  BY <1>1, AfterTail DEF ExitNext
<1>3. \A m \in Message \ {Request("EXIT")} : ~Has(Unhandled, m)
  BY <1>1, AfterTail DEF ExitNext
<1>4. \A m \in Message : ~Has(Tail(Unhandled), m)
  BY <1>1, <1>2, <1>3, AfterTail
<1>5. ASSUME Tail(Unhandled) # <<>>
      PROVE  FALSE
  <2>1. 1 \in DOMAIN Tail(Unhandled) /\ Tail(Unhandled)[1] \in Message
    BY <1>1, <1>5
  <2>. QED
    BY <1>4, <2>1 DEF Has
<1>. QED
  BY <1>5

LEMMA ExitNextTail ==
    ASSUME TypeOK, Unhandled # <<>>, ExitNext, Head(Unhandled) # Request("EXIT"),
           Unhandled' = Tail(Unhandled)
    PROVE  ExitNext'
<1>1. Unhandled \in Seq(Message)
  BY QueueTypes
<1>2. Has(Tail(Unhandled), Request("EXIT")) /\ Once(Tail(Unhandled), Request("EXIT"))
  BY <1>1, AfterTail DEF ExitNext
<1>3. \A m \in Message \ {Request("EXIT")} : Before(Tail(Unhandled), m, Request("EXIT"))
  BY <1>1, AfterTail DEF ExitNext
<1>4. Request("EXIT")' = Request("EXIT")
  BY DEF Request
<1>. QED
  BY <1>2, <1>3, <1>4 DEF ExitNext

LEMMA ProtocolStep == TypeOK /\ Protocol /\ [Next]_vars => Protocol'
<1> SUFFICES ASSUME TypeOK, Protocol, [Next]_vars
             PROVE  Protocol'
  OBVIOUS
<1> USE DEF ThreadUp
<1>0. Unhandled \in Seq(Message)
  BY QueueTypes
<1>a. ASSUME UNCHANGED <<Unhandled, receiver, mThreadRunning>>,
             \/ phase' = phase
             \/ {phase, phase'} \subseteq {"running", "front", "send"}
      PROVE  Protocol'
  BY <1>a DEF Protocol, ExitNext
<1>b. ASSUME NEW m \in Message, m # Request("EXIT"), MQ!Send(Player, m),
             phase \in {"running", "send"}, phase' = "running",
             mThreadRunning' = mThreadRunning
      PROVE  Protocol'
  <2>1. ~Has(Unhandled', Request("EXIT"))
    <3>1. Unhandled' = Append(Unhandled, m)
      BY <1>b, UnhandledSend
    <3>2. ~Has(Unhandled, Request("EXIT"))
      BY <1>b DEF Protocol
    <3>. QED
      BY <1>0, <1>b, <3>1, <3>2, AfterAppend
  <2>2. ThreadUp'
    BY <1>b, UnhandledSend DEF Protocol
  <2>. QED
    BY <1>b, <2>1, <2>2 DEF Protocol, Request
<1>c. ASSUME MQ!Handled("NO_ERROR"), receiver.msg # Request("EXIT"),
             mThreadRunning' = mThreadRunning, phase' = phase
      PROVE  Protocol'
  <2>1. /\ Unhandled # <<>> /\ Head(Unhandled) = receiver.msg
        /\ Unhandled' = Tail(Unhandled) /\ receiver'.at = "replying"
        /\ receiver.at = "handling"
    BY <1>c, UnhandledHandled DEF MQ!Handled
  <2>2. Has(Unhandled', Request("EXIT")) => Has(Unhandled, Request("EXIT"))
    BY <1>0, <2>1, AfterTail
  <2>3. ExitNext => ExitNext'
    BY <1>c, <2>1, ExitNextTail
  <2>. QED
    BY <1>c, <2>1, <2>2, <2>3 DEF Protocol, Request
<1>1. CASE SetSidebandStream
  <2>1. Unhandled' = Unhandled
    BY <1>1, QueueTypes DEF SetSidebandStream, ThreadRun, AllocateSidebandHandle, Protocol, Unhandled
  <2>2. ThreadUp'
    BY <1>1, QueueTypes DEF SetSidebandStream, ThreadRun, AllocateSidebandHandle, Protocol
  <2>. QED
    BY <1>1, <2>1, <2>2 DEF SetSidebandStream, ThreadRun, AllocateSidebandHandle, Protocol, Request
<1>2. ASSUME NEW b \in Buffers,
             AllocateBuffer(b) \/ FreeBuffer(b) \/ RemainBuffer(b)
      PROVE  Protocol'
  BY <1>2, <1>a, UnhandledSame DEF AllocateBuffer, FreeBuffer, RemainBuffer
<1>3. ASSUME NEW b \in Buffers, QueueBuffer(b)
      PROVE  Protocol'
  <2>1. Render(b) \in Message /\ Render(b) # Request("EXIT")
    BY Requests DEF Render, Request
  <2>. QED
    BY <1>3, <1>b, <2>1 DEF QueueBuffer, Tunnelling
<1>4. CASE DequeueSize \/ DequeueFront
  BY <1>4, <1>a, UnhandledSame DEF DequeueSize, DequeueFront, Tunnelling
<1>5. CASE DequeueSend
  <2>1. Request("DEQUEUE") \in Message /\ Request("DEQUEUE") # Request("EXIT")
    BY Requests DEF Request
  <2>. QED
    BY <1>5, <1>b, <2>1 DEF DequeueSend
<1>6. CASE Flush
  <2>1. Request("FLUSH") \in Message /\ Request("FLUSH") # Request("EXIT")
    BY Requests DEF Request
  <2>. QED
    BY <1>6, <1>b, <2>1 DEF Flush, Tunnelling
<1>7. CASE Destroy
  <2>1. /\ MQ!SendSync(Player, Request("EXIT")) /\ Request("EXIT") \in Message
        /\ phase = "running" /\ phase' = "exit" /\ mThreadRunning' = mThreadRunning
    BY <1>7, Requests DEF Destroy
  <2>2. Unhandled' = Append(Unhandled, Request("EXIT")) /\ ~Has(Unhandled, Request("EXIT"))
    BY <2>1, UnhandledSend DEF Protocol
  <2>3. \A m : Before(Unhandled, m, Request("EXIT")) /\ Once(Unhandled, Request("EXIT"))
    BY <2>2 DEF Before, Once, Has
  <2>4. ExitNext'
    <3>1. /\ Has(Unhandled', Request("EXIT")) /\ Once(Unhandled', Request("EXIT"))
          /\ \A m \in Message \ {Request("EXIT")} : Before(Unhandled', m, Request("EXIT"))
      BY <1>0, <2>1, <2>2, <2>3, AfterAppend
    <3>. QED
      BY <3>1 DEF ExitNext, Request
  <2>5. ThreadUp'
    BY <2>1, UnhandledSend DEF Protocol
  <2>. QED
    BY <2>1, <2>4, <2>5 DEF Protocol
<1>8. CASE Release
  <2>1. Unhandled' = Unhandled /\ receiver' = receiver /\ mThreadRunning' = mThreadRunning
    BY <1>8, UnhandledSame DEF Release, ThreadJoin
  <2>. QED
    BY <1>8, <2>1 DEF Release, ThreadJoin, Protocol
<1>9. CASE PlayerWait
  BY <1>9, <1>a, UnhandledSame DEF PlayerWait
<1>10. CASE RenderReceive
  <2>1. /\ Unhandled' = Unhandled /\ receiver.at \in {"receiving", "waiting"}
        /\ receiver'.at \in {"receiving", "waiting", "handling"}
        /\ phase' = phase /\ mThreadRunning' = mThreadRunning
    BY <1>10, UnhandledReceive DEF RenderReceive
  <2>. QED
    BY <2>1 DEF Protocol, ExitNext
<1>11. CASE HandleExit
  <2>1. /\ Unhandled # <<>> /\ Head(Unhandled) = receiver.msg
        /\ Unhandled' = Tail(Unhandled) /\ receiver'.at = "replying"
        /\ receiver.at = "handling" /\ phase' = phase /\ ~mThreadRunning'
    BY <1>11, UnhandledHandled DEF HandleExit, MQ!Handled
  <2>2. receiver.msg = Request("EXIT")
    BY <1>11, QueueTypes, Requests DEF HandleExit
  <2>3. Has(Unhandled, Request("EXIT"))
    BY <1>0, <2>1, <2>2, AfterTail
  <2>4. ExitNext => Unhandled' = <<>>
    BY <2>1, <2>2, ExitEmpties
  <2>. QED
    BY <2>1, <2>3, <2>4 DEF Protocol
<1>12. CASE HandleRender
  BY <1>12, <1>c, QueueTypes, Requests DEF HandleRender
<1>13. CASE HandleDequeue
  <2>1. CASE mRenderingQueue # <<>>
    BY <1>13, <2>1, <1>c, QueueTypes, Requests DEF HandleDequeue
  <2>2. CASE mRenderingQueue = <<>>
    BY <1>13, <2>2 DEF HandleDequeue, Dies, Protocol
  <2>. QED
    BY <2>1, <2>2
<1>14. CASE HandleFlush
  BY <1>14, <1>c, QueueTypes, Requests DEF HandleFlush
<1>15. CASE RenderReply
  <2>1. phase' = phase /\ mThreadRunning' = mThreadRunning
    BY <1>15 DEF RenderReply
  <2>. QED
    BY <1>15, <2>1, UnhandledReply DEF Protocol, ExitNext
<1>16. CASE UNCHANGED vars
  BY <1>16, <1>a, UnhandledSame DEF vars
<1>17. CASE UseFreed \/ ReleaseFreed
  BY <1>17 DEF UseFreed, ReleaseFreed, Dies, Protocol
<1>. QED
  BY <1>1, <1>2, <1>3, <1>4, <1>5, <1>6, <1>7, <1>8, <1>9, <1>10, <1>11, <1>12,
     <1>13, <1>14, <1>15, <1>16, <1>17
  DEF Next, PlayerStep, RenderStep, Done

THEOREM ProtocolHolds == SafeSpec => []Protocol
<1>1. Init => Protocol
  <2> SUFFICES ASSUME Init
               PROVE  Protocol
    OBVIOUS
  <2>1. phase = "unset" /\ receiver.at = "absent" /\ Unhandled = <<>>
    BY DEF Init, Unhandled
  <2>. QED
    BY <2>1 DEF Protocol, ThreadUp, Has
<1>. QED
  BY <1>1, ProtocolStep, TypeCorrect, PTL DEF SafeSpec

\* The last message the render thread receives is EXIT: however the player
\* interleaves its calls, nothing is left in the queue when the thread ends.
THEOREM ExitComesLast == SafeSpec => []ExitIsLast
<1>1. TypeOK /\ Protocol => ExitIsLast
  <2> SUFFICES ASSUME TypeOK, Protocol, receiver.at = "gone", phase # "crashed"
               PROVE  mList = <<>>
    BY DEF ExitIsLast
  <2>1. Unhandled = <<>>
    BY DEF Protocol, ThreadUp, TypeOK
  <2>. QED
    BY <2>1 DEF Unhandled
<1>. QED
  BY <1>1, TypeCorrect, ProtocolHolds, PTL
---------------------------------------------------------------------------
\* What a step does to the history: a dequeue sets it, nothing resets it.
LEMMA RacedStays ==
    ASSUME TypeOK, [Next]_vars, ~raced'
    PROVE  /\ raced' = raced /\ ~raced
           /\ DequeueSize => ~RemovalInFlight
<1>1. CASE DequeueSize
  <2>1. raced' = (raced \/ RemovalInFlight)
    BY <1>1 DEF DequeueSize
  <2>2. raced \in BOOLEAN
    BY DEF TypeOK
  <2>. QED
    BY <2>1, <2>2, Zenon
<1>2. CASE ~DequeueSize
  <2>1. ASSUME NEW b \in Buffers,
               AllocateBuffer(b) \/ FreeBuffer(b) \/ RemainBuffer(b) \/ QueueBuffer(b)
        PROVE  raced' = raced
    BY <2>1 DEF AllocateBuffer, FreeBuffer, RemainBuffer, QueueBuffer
  <2>2. SetSidebandStream \/ DequeueFront \/ DequeueSend \/ Flush => raced' = raced
    BY DEF SetSidebandStream, DequeueFront, DequeueSend, Flush
  <2>3. Destroy \/ Release \/ ReleaseFreed \/ PlayerWait => raced' = raced
    BY DEF Destroy, Release, ReleaseFreed, PlayerWait
  <2>4. RenderReceive \/ HandleExit \/ HandleRender \/ HandleDequeue => raced' = raced
    BY DEF RenderReceive, HandleExit, HandleRender, HandleDequeue
  <2>5. HandleFlush \/ UseFreed \/ RenderReply \/ UNCHANGED vars => raced' = raced
    BY DEF HandleFlush, UseFreed, RenderReply, vars
  <2>6. raced' = raced
    BY <1>2, <2>1, <2>2, <2>3, <2>4, <2>5 DEF Next, PlayerStep, RenderStep, Done
  <2>. QED
    BY <1>2, <2>6
<1>. QED
  BY <1>1, <1>2
---------------------------------------------------------------------------
\* Ownership, as long as no dequeue began while a removal was to come.
\* OneOwner alone is not inductive: that the handler of DEQUEUE takes out the
\* very buffer dequeueBuffer has returned, and that this buffer is not added
\* again before, depends on where the player is and on the order of messages.
DEQ == Request("DEQUEUE")
FLU == Request("FLUSH")

Stored(b) ==
    /\ Has(mRenderingQueue, b)
    /\ ~(Has(Unhandled, DEQ) /\ b = Head(mRenderingQueue))
Moving(b) == Has(Unhandled, Render(b))

OncePerBuffer == \A b \in Buffers : Once(mRenderingQueue, b) /\ Once(Unhandled, Render(b))

\* One dequeue at a time, before which nothing is to be flushed, and no removal
\* is to come while the player is inside dequeueBuffer.
OneRemoval ==
    /\ Once(Unhandled, DEQ)
    /\ Before(Unhandled, DEQ, FLU)
    /\ phase \in {"front", "send"} =>
          /\ ~Has(Unhandled, DEQ) /\ ~Has(Unhandled, FLU)
          /\ Len(mRenderingQueue) > MinUndequeued
    /\ phase = "send" => front = Head(mRenderingQueue)

\* A pending removal finds enough buffers, and the one it removes is not added
\* again before it.
RemovalFirst ==
    Has(Unhandled, DEQ) =>
       /\ Len(mRenderingQueue) > MinUndequeued
       /\ Before(Unhandled, DEQ, Render(Head(mRenderingQueue)))

Owners ==
    \A b \in Buffers :
       /\ b \in allocated <=> b \in held \/ Stored(b) \/ Moving(b)
       /\ b \in held => ~Stored(b) /\ ~Moving(b)
       /\ ~(Stored(b) /\ Moving(b))

\* What the plane shows is the newest buffer of the vector.
ScreenLast ==
    onScreen # NoBuffer =>
       mRenderingQueue # <<>> /\ onScreen = mRenderingQueue[Len(mRenderingQueue)]

Closed == phase # "crashed" /\ (phase = "released" => mRenderingQueue = <<>>)

Ownership ==
    /\ OncePerBuffer
    /\ OneRemoval
    /\ RemovalFirst
    /\ Owners
    /\ ScreenLast
    /\ Closed

LEMMA Apart ==
    /\ DEQ \in Message /\ FLU \in Message /\ DEQ # FLU
    /\ DEQ # Request("EXIT") /\ FLU # Request("EXIT")
    /\ \A b \in Buffers : /\ Render(b) \in Message
                           /\ Render(b) \notin {DEQ, FLU, Request("EXIT")}
                           /\ \A c \in Buffers : Render(b) = Render(c) => b = c
BY Requests DEF DEQ, FLU, Request, Render

\* Steps that leave the buffers alone and at most take away a message that is
\* neither a removal nor a buffer.
LEMMA OwnershipQuiet ==
    ASSUME TypeOK, Ownership,
           UNCHANGED <<mRenderingQueue, allocated, held, onScreen>>,
           \A x \in Message \ {Request("EXIT")} : Has(Unhandled', x) <=> Has(Unhandled, x),
           \A x : Once(Unhandled, x) => Once(Unhandled', x),
           \A x, y : Before(Unhandled, x, y) => Before(Unhandled', x, y),
           phase' \notin {"released", "crashed"} \/ phase' = phase,
           phase' \in {"front", "send"} => phase' = phase /\ front' = front
    PROVE  Ownership'
<1>0. /\ Has(Unhandled', DEQ) <=> Has(Unhandled, DEQ)
      /\ Has(Unhandled', FLU) <=> Has(Unhandled, FLU)
      /\ \A b \in Buffers : Has(Unhandled', Render(b)) <=> Has(Unhandled, Render(b))
  BY Apart
<1>1. OncePerBuffer'
  BY DEF OncePerBuffer, Ownership
<1>2. OneRemoval'
  BY <1>0 DEF OneRemoval, Ownership, DEQ, FLU, Request
<1>3. RemovalFirst'
  BY <1>0 DEF RemovalFirst, Ownership, DEQ, Request, Render
<1>4. Owners'
  BY <1>0 DEF Owners, Ownership, Stored, Moving, DEQ, Request, Render
<1>5. ScreenLast'
  BY DEF ScreenLast, Ownership
<1>6. Closed'
  BY DEF Closed, Ownership
<1>. QED
  BY <1>1, <1>2, <1>3, <1>4, <1>5, <1>6 DEF Ownership

LEMMA QueueSeq ==
    ASSUME TypeOK
    PROVE  /\ mRenderingQueue \in Seq(Buffers)
           /\ Unhandled \in Seq(Message)
           /\ held \subseteq Buffers /\ allocated \subseteq Buffers
           /\ onScreen \in Buffers \cup {NoBuffer} /\ NoBuffer \notin Buffers
           /\ MinUndequeued \in Nat \ {0}
BY QueueTypes, WindowAssumption DEF TypeOK

\* The first element of a list is in it, and is not the last one of a longer
\* list without repetitions.
LEMMA Ends ==
    ASSUME NEW S, NEW s \in Seq(S), s # <<>>
    PROVE  /\ Head(s) \in S /\ Has(s, Head(s))
           /\ Has(s, s[Len(s)]) /\ s[Len(s)] \in S
           /\ Len(s) > 1 /\ Once(s, Head(s)) => s[Len(s)] # Head(s)
           /\ Len(s) > 1 => Tail(s) # <<>> /\ Tail(s)[Len(Tail(s))] = s[Len(s)]
           /\ \A x : Head(Append(s, x)) = Head(s)
<1>1. Len(s) \in Nat \ {0} /\ Head(s) = s[1] /\ DOMAIN s = 1 .. Len(s)
  OBVIOUS
<1>2. Len(s) > 1 /\ Once(s, Head(s)) => s[Len(s)] # Head(s)
  BY <1>1 DEF Once
<1>3. Has(s, Head(s)) /\ Has(s, s[Len(s)])
  BY <1>1 DEF Has
<1>4. ASSUME Len(s) > 1
      PROVE  Tail(s) # <<>> /\ Tail(s)[Len(Tail(s))] = s[Len(s)]
  <2>1. Tail(s) \in Seq(S) /\ Len(Tail(s)) = Len(s) - 1
    BY HeadTailProperties
  <2>2. Len(s) - 1 \in 1 .. Len(s) - 1 /\ (Len(s) - 1) + 1 = Len(s)
    <3>1. Len(s) \in Nat
      OBVIOUS
    <3>. QED
      BY ONLY <1>4, <3>1
  <2>3. \A i \in 1 .. Len(s) - 1 : Tail(s)[i] = s[i + 1]
    OBVIOUS
  <2>4. Tail(s)[Len(Tail(s))] = s[Len(s)]
    BY ONLY <2>1, <2>2, <2>3
  <2>5. Tail(s) # <<>>
    <3>1. Tail(s) = <<>> => Len(Tail(s)) = 0
      BY <2>1, EmptySeq
    <3>. QED
      BY <1>4, <2>1, <3>1
  <2>. QED
    BY <2>4, <2>5
<1>5. \A x : Head(Append(s, x)) = Head(s)
  BY <1>1, AppendProperties
<1>. QED
  BY <1>1, <1>2, <1>3, <1>4, <1>5

LEMMA OwnershipAllocate ==
    ASSUME TypeOK, Ownership, NEW b \in Buffers, AllocateBuffer(b)
    PROVE  Ownership'
<1>1. /\ Unhandled' = Unhandled /\ mRenderingQueue' = mRenderingQueue
      /\ onScreen' = onScreen /\ phase' = phase /\ front' = front
      /\ allocated' = allocated \cup {b} /\ held' = held \cup {b} /\ b \notin allocated
  BY UnhandledSame DEF AllocateBuffer
<1>2. Owners'
  <2>1. ~Stored(b) /\ ~Moving(b)
    BY <1>1 DEF Owners, Ownership
  <2>2. \A c \in Buffers : (Stored(c)' <=> Stored(c)) /\ (Moving(c)' <=> Moving(c))
    BY <1>1 DEF Stored, Moving, DEQ, Request, Render
  <2>3. \A c \in Buffers : /\ c \in allocated' <=> c \in held' \/ Stored(c) \/ Moving(c)
                           /\ c \in held' => ~Stored(c) /\ ~Moving(c)
                           /\ ~(Stored(c) /\ Moving(c))
    BY <1>1, <2>1 DEF Owners, Ownership
  <2>. QED
    BY <2>2, <2>3 DEF Owners
<1>3. OncePerBuffer' /\ ScreenLast' /\ Closed'
  BY <1>1 DEF OncePerBuffer, ScreenLast, Closed, Ownership, Render
<1>4. OneRemoval' /\ RemovalFirst'
  BY <1>1 DEF OneRemoval, RemovalFirst, Ownership, DEQ, FLU, Request, Render
<1>. QED
  BY <1>2, <1>3, <1>4 DEF Ownership

LEMMA OwnershipFree ==
    ASSUME TypeOK, Ownership, NEW b \in Buffers, FreeBuffer(b)
    PROVE  Ownership'
<1>1. /\ Unhandled' = Unhandled /\ mRenderingQueue' = mRenderingQueue
      /\ onScreen' \in {onScreen, NoBuffer} /\ phase' = phase /\ front' = front
      /\ allocated' = allocated \ {b} /\ held' = held \ {b} /\ b \in held
  BY UnhandledSame DEF FreeBuffer, OnScreenWithout
<1>2. Owners'
  <2>2. \A c \in Buffers : (Stored(c)' <=> Stored(c)) /\ (Moving(c)' <=> Moving(c))
    BY <1>1 DEF Stored, Moving, DEQ, Request, Render
  <2>3. \A c \in Buffers : /\ c \in allocated' <=> c \in held' \/ Stored(c) \/ Moving(c)
                           /\ c \in held' => ~Stored(c) /\ ~Moving(c)
                           /\ ~(Stored(c) /\ Moving(c))
    BY <1>1 DEF Owners, Ownership
  <2>. QED
    BY <2>2, <2>3 DEF Owners
<1>3. OncePerBuffer' /\ ScreenLast' /\ Closed'
  BY <1>1 DEF OncePerBuffer, ScreenLast, Closed, Ownership, Render
<1>4. OneRemoval' /\ RemovalFirst'
  BY <1>1 DEF OneRemoval, RemovalFirst, Ownership, DEQ, FLU, Request, Render
<1>. QED
  BY <1>2, <1>3, <1>4 DEF Ownership

LEMMA OwnershipRemain ==
    ASSUME TypeOK, Ownership, NEW b \in Buffers, RemainBuffer(b)
    PROVE  Ownership'
<1>1. /\ Unhandled = <<>> /\ Unhandled' = <<>>
      /\ mRenderingQueue' = Append(mRenderingQueue, b)
      /\ onScreen' = NoBuffer /\ phase' = phase /\ phase = "running" /\ front' = front
      /\ allocated' = allocated /\ held' = held \ {b} /\ b \in held
  BY UnhandledSame DEF RemainBuffer, Tunnelling
<1>2. \A x : ~Has(Unhandled, x) /\ ~Has(Unhandled', x)
  BY <1>1 DEF Has
<1>3. \A c \in Buffers : Stored(c) <=> Has(mRenderingQueue, c)
  BY <1>2 DEF Stored
<1>4. \A c \in Buffers : Stored(c)' <=> Has(mRenderingQueue, c) \/ c = b
  <2>1. \A c \in Buffers : Has(mRenderingQueue', c) <=> Has(mRenderingQueue, c) \/ c = b
    BY <1>1, QueueSeq, AfterAppend
  <2>. QED
    BY <1>2, <2>1 DEF Stored, DEQ, Request
<1>5. Owners'
  <2>1. \A c \in Buffers : ~Moving(c) /\ ~Moving(c)'
    BY <1>2 DEF Moving, Render
  <2>2. \A c \in Buffers :
           /\ c \in allocated' <=> c \in held' \/ Has(mRenderingQueue, c) \/ c = b
           /\ c \in held' => ~Has(mRenderingQueue, c) /\ c # b
    BY <1>1, <1>3, <2>1 DEF Owners, Ownership
  <2>. QED
    BY <1>4, <2>1, <2>2 DEF Owners
<1>6. OncePerBuffer'
  <2>1. ~Has(mRenderingQueue, b)
    BY <1>1, <1>3 DEF Owners, Ownership
  <2>2. \A c \in Buffers : Once(mRenderingQueue', c)
    BY <1>1, <2>1, QueueSeq, AfterAppend DEF OncePerBuffer, Ownership
  <2>. QED
    BY <1>1, <2>2 DEF OncePerBuffer, Once
<1>7. ScreenLast' /\ Closed'
  BY <1>1 DEF ScreenLast, Closed, Ownership
<1>8. OneRemoval' /\ RemovalFirst'
  <2>1. ~Has(Unhandled', DEQ) /\ Once(Unhandled', DEQ) /\ Before(Unhandled', DEQ, FLU)
    BY <1>1 DEF Has, Once, Before
  <2>. QED
    BY <1>1, <2>1 DEF OneRemoval, RemovalFirst, DEQ, FLU, Request
<1>. QED
  BY <1>5, <1>6, <1>7, <1>8 DEF Ownership

LEMMA OwnershipQueue ==
    ASSUME TypeOK, Ownership, NEW b \in Buffers, QueueBuffer(b)
    PROVE  Ownership'
<1>1. /\ Unhandled' = Append(Unhandled, Render(b)) /\ mRenderingQueue' = mRenderingQueue
      /\ onScreen' = onScreen /\ phase' = phase /\ phase = "running" /\ front' = front
      /\ allocated' = allocated /\ held' = held \ {b} /\ b \in held
  BY UnhandledSend, Apart DEF QueueBuffer, Tunnelling
<1>2. /\ \A x \in {DEQ, FLU} : Has(Unhandled', x) <=> Has(Unhandled, x)
      /\ \A c \in Buffers : Has(Unhandled', Render(c)) <=> Has(Unhandled, Render(c)) \/ c = b
  BY <1>1, QueueSeq, AfterAppend, Apart
<1>3. ~Stored(b) /\ ~Moving(b)
  BY <1>1 DEF Owners, Ownership
<1>4. Owners'
  <2>1. \A c \in Buffers : (Stored(c)' <=> Stored(c)) /\ (Moving(c)' <=> Moving(c) \/ c = b)
    BY <1>1, <1>2 DEF Stored, Moving, DEQ, Request, Render
  <2>2. \A c \in Buffers :
           /\ c \in allocated' <=> c \in held' \/ Stored(c) \/ Moving(c) \/ c = b
           /\ c \in held' => ~Stored(c) /\ ~Moving(c) /\ c # b
           /\ ~(Stored(c) /\ (Moving(c) \/ c = b))
    BY <1>1, <1>3 DEF Owners, Ownership
  <2>. QED
    BY <2>1, <2>2 DEF Owners
<1>5. OncePerBuffer'
  <2>1. \A c \in Buffers : Once(Unhandled', Render(c))
    BY <1>1, <1>3, QueueSeq, AfterAppend, Apart DEF OncePerBuffer, Ownership, Moving
  <2>. QED
    BY <1>1, <2>1 DEF OncePerBuffer, Ownership, Render
<1>6. OneRemoval'
  <2>1. Once(Unhandled', DEQ) /\ Before(Unhandled', DEQ, FLU)
    BY <1>1, QueueSeq, AfterAppend, Apart DEF OneRemoval, Ownership
  <2>. QED
    BY <1>1, <1>2, <2>1 DEF OneRemoval, Ownership, DEQ, FLU, Request
<1>7. RemovalFirst'
  <2> SUFFICES ASSUME Has(Unhandled', DEQ)
               PROVE  /\ Len(mRenderingQueue) > MinUndequeued
                      /\ Before(Unhandled', DEQ, Render(Head(mRenderingQueue)))
    BY <1>1 DEF RemovalFirst, DEQ, Request, Render
  <2>1. /\ Len(mRenderingQueue) > MinUndequeued
        /\ Before(Unhandled, DEQ, Render(Head(mRenderingQueue)))
    BY <1>2 DEF RemovalFirst, Ownership
  <2>2. Head(mRenderingQueue) \in Buffers
    BY <2>1, QueueSeq, Ends
  <2>. QED
    BY <1>1, <2>1, <2>2, QueueSeq, AfterAppend, Apart
<1>8. ScreenLast' /\ Closed'
  BY <1>1 DEF ScreenLast, Closed, Ownership
<1>. QED
  BY <1>4, <1>5, <1>6, <1>7, <1>8 DEF Ownership

LEMMA OwnershipDequeueSend ==
    ASSUME TypeOK, Ownership, DequeueSend
    PROVE  Ownership'
<1> DEFINE b == Head(mRenderingQueue)
<1>1. /\ Unhandled' = Append(Unhandled, DEQ) /\ mRenderingQueue' = mRenderingQueue
      /\ onScreen' = onScreen /\ phase' = "running" /\ front' = NoBuffer
      /\ allocated' = allocated /\ held' = held \cup {front} /\ phase = "send"
  BY UnhandledSend, Apart DEF DequeueSend, DEQ
<1>2. /\ ~Has(Unhandled, DEQ) /\ ~Has(Unhandled, FLU)
      /\ Len(mRenderingQueue) > MinUndequeued /\ front = b
  BY <1>1 DEF OneRemoval, Ownership
<1>3. mRenderingQueue # <<>> /\ b \in Buffers /\ Has(mRenderingQueue, b)
  BY <1>2, QueueSeq, Ends
<1> HIDE DEF b
<1>4. /\ Has(Unhandled', DEQ)
      /\ \A x \in Message \ {DEQ} : Has(Unhandled', x) <=> Has(Unhandled, x)
  BY <1>1, QueueSeq, AfterAppend, Apart
<1>5. Stored(b) /\ ~Moving(b)
  BY <1>2, <1>3 DEF Stored, Owners, Ownership
<1>6. Owners'
  <2>1. \A c \in Buffers : (Stored(c)' <=> Stored(c) /\ c # b) /\ (Moving(c)' <=> Moving(c))
    BY <1>1, <1>2, <1>4, Apart DEF Stored, Moving, DEQ, Request, Render, b
  <2>2. \A c \in Buffers :
           /\ c \in allocated' <=> c \in held' \/ (Stored(c) /\ c # b) \/ Moving(c)
           /\ c \in held' => ~(Stored(c) /\ c # b) /\ ~Moving(c)
           /\ ~(Stored(c) /\ c # b /\ Moving(c))
    BY <1>1, <1>2, <1>5 DEF Owners, Ownership
  <2>. QED
    BY <2>1, <2>2 DEF Owners
<1>7. OncePerBuffer'
  <2>1. \A c \in Buffers : Once(Unhandled', Render(c))
    BY <1>1, QueueSeq, AfterAppend, Apart DEF OncePerBuffer, Ownership
  <2>. QED
    BY <1>1, <2>1 DEF OncePerBuffer, Ownership, Render
<1>8. OneRemoval'
  <2>1. Once(Unhandled', DEQ)
    BY <1>1, <1>2, QueueSeq, AfterAppend, Apart DEF OneRemoval, Ownership
  <2>2. ~Has(Unhandled', FLU)
    BY <1>2, <1>4, Apart
  <2>3. Before(Unhandled', DEQ, FLU)
    BY <2>2 DEF Before, Has
  <2>. QED
    BY <1>1, <2>1, <2>3 DEF OneRemoval, DEQ, FLU, Request
<1>9. RemovalFirst'
  <2>1. Before(Unhandled, DEQ, Render(b))
    BY <1>2 DEF Before, Has
  <2>2. DEQ # Render(b) /\ DEQ \in Message /\ ~Has(Unhandled, Render(b))
    BY <1>3, <1>5, Apart DEF Moving
  <2>3. Before(Unhandled', DEQ, Render(b))
    BY <1>1, <2>1, <2>2, QueueSeq, AfterAppend
  <2>. QED
    BY <1>1, <1>2, <2>3 DEF RemovalFirst, DEQ, Request, Render, b
<1>10. ScreenLast' /\ Closed'
  BY <1>1 DEF ScreenLast, Closed, Ownership
<1>. QED
  BY <1>6, <1>7, <1>8, <1>9, <1>10 DEF Ownership

LEMMA OwnershipFlush ==
    ASSUME TypeOK, Ownership, Flush
    PROVE  Ownership'
<1>1. /\ Unhandled' = Append(Unhandled, FLU) /\ phase = "running" /\ phase' = phase
      /\ UNCHANGED <<mRenderingQueue, onScreen, front, allocated, held>>
  BY UnhandledSend, Apart DEF Flush, FLU, Tunnelling, bufferVars
<1>2. \A x : Before(Unhandled, DEQ, x) /\ x # DEQ => Before(Unhandled', DEQ, x)
  BY <1>1, QueueSeq, AfterAppend, Apart
<1>3. \A x \in Message \ {FLU} : Has(Unhandled', x) <=> Has(Unhandled, x)
  BY <1>1, QueueSeq, AfterAppend, Apart
<1>4. \A x \in Message \ {FLU} : Once(Unhandled, x) => Once(Unhandled', x)
  BY <1>1, QueueSeq, AfterAppend, Apart
<1>5. OncePerBuffer'
  BY <1>1, <1>4, Apart DEF OncePerBuffer, Ownership, Render
<1>6. OneRemoval'
  BY <1>1, <1>2, <1>4, Apart DEF OneRemoval, Ownership, DEQ, FLU, Request
<1>9. RemovalFirst'
  <2> SUFFICES ASSUME Has(Unhandled', DEQ)
               PROVE  /\ Len(mRenderingQueue) > MinUndequeued
                      /\ Before(Unhandled', DEQ, Render(Head(mRenderingQueue)))
    BY <1>1 DEF RemovalFirst, DEQ, Request, Render
  <2>1. /\ Len(mRenderingQueue) > MinUndequeued
        /\ Before(Unhandled, DEQ, Render(Head(mRenderingQueue)))
    BY <1>3, Apart DEF RemovalFirst, Ownership
  <2>2. Head(mRenderingQueue) \in Buffers
    BY <2>1, QueueSeq, Ends
  <2>. QED
    BY <1>2, <2>1, <2>2, Apart
<1>7. Owners'
  <2>1. \A c \in Buffers : (Stored(c)' <=> Stored(c)) /\ (Moving(c)' <=> Moving(c))
    BY <1>1, <1>3, Apart DEF Stored, Moving, DEQ, Request, Render
  <2>. QED
    BY <1>1, <2>1 DEF Owners, Ownership
<1>8. ScreenLast' /\ Closed'
  BY <1>1 DEF ScreenLast, Closed, Ownership
<1>. QED
  BY <1>5, <1>6, <1>7, <1>8, <1>9 DEF Ownership

LEMMA OwnershipRelease ==
    ASSUME TypeOK, Protocol, Ownership, Release
    PROVE  Ownership'
<1>1. /\ Unhandled' = Unhandled /\ mRenderingQueue' = <<>> /\ phase' = "released"
      /\ allocated' = allocated \ Elements(mRenderingQueue) /\ held' = held
      /\ onScreen' = OnScreenWithout(Elements(mRenderingQueue))
      /\ phase = "exit" /\ receiver.at = "gone"
  BY UnhandledSame DEF Release, ThreadJoin
<1>2. Unhandled = <<>>
  BY <1>1 DEF Protocol, ThreadUp
<1>3. \A x : ~Has(Unhandled, x) /\ ~Has(Unhandled', x) /\ ~Has(mRenderingQueue', x)
  BY <1>1, <1>2 DEF Has
<1>4. \A c : c \in Elements(mRenderingQueue) <=> Has(mRenderingQueue, c)
  BY DEF Elements, Has
<1>5. Owners'
  <2>1. \A c \in Buffers : ~Stored(c)' /\ ~Moving(c)' /\ ~Moving(c)
                           /\ (Stored(c) <=> Has(mRenderingQueue, c))
    BY <1>3 DEF Stored, Moving, Render
  <2>2. \A c \in Buffers : c \in allocated' <=> c \in held'
    BY <1>1, <1>4, <2>1 DEF Owners, Ownership
  <2>. QED
    BY <2>1, <2>2 DEF Owners
<1>6. ScreenLast'
  <2>1. onScreen # NoBuffer => onScreen \in Elements(mRenderingQueue)
    BY <1>4, QueueSeq, Ends DEF ScreenLast, Ownership
  <2>. QED
    BY <1>1, <2>1 DEF ScreenLast, OnScreenWithout
<1>7. OncePerBuffer' /\ Closed'
  BY <1>1, <1>2 DEF OncePerBuffer, Closed, Once
<1>8. OneRemoval' /\ RemovalFirst'
  BY <1>1, <1>2, <1>3 DEF OneRemoval, RemovalFirst, Once, Before, DEQ, Request
<1>. QED
  BY <1>5, <1>6, <1>7, <1>8 DEF Ownership

LEMMA OwnershipHandleRender ==
    ASSUME TypeOK, Protocol, Ownership, HandleRender
    PROVE  Ownership'
<1> DEFINE b == receiver.msg.buf
<1>1. /\ b \in Buffers /\ receiver.msg = Render(b)
      /\ mRenderingQueue' = Append(mRenderingQueue, b) /\ onScreen' = b
      /\ UNCHANGED <<phase, front, allocated, held>>
  BY QueueTypes, Requests DEF HandleRender
<1> HIDE DEF b
<1>2. Unhandled # <<>> /\ Head(Unhandled) = Render(b) /\ Unhandled' = Tail(Unhandled)
  BY <1>1, UnhandledHandled DEF HandleRender
<1>3. /\ \A x \in Message \ {Render(b)} : Has(Unhandled', x) <=> Has(Unhandled, x)
      /\ Has(Unhandled, Render(b)) /\ ~Has(Unhandled', Render(b))
  <2>1. Once(Unhandled, Render(b))
    BY <1>1 DEF OncePerBuffer, Ownership
  <2>. QED
    BY <1>2, <2>1, QueueSeq, AfterTail
<1>4. \A c \in Buffers : Has(mRenderingQueue', c) <=> Has(mRenderingQueue, c) \/ c = b
  BY <1>1, QueueSeq, AfterAppend
<1>5. Has(Unhandled', DEQ) => /\ Len(mRenderingQueue) > MinUndequeued
                              /\ mRenderingQueue # <<>>
                              /\ Head(mRenderingQueue') = Head(mRenderingQueue)
                              /\ Head(mRenderingQueue) # b
  <2> SUFFICES ASSUME Has(Unhandled', DEQ)
               PROVE  /\ Len(mRenderingQueue) > MinUndequeued
                      /\ mRenderingQueue # <<>>
                      /\ Head(mRenderingQueue') = Head(mRenderingQueue)
                      /\ Head(mRenderingQueue) # b
    OBVIOUS
  <2>1. Has(Unhandled, DEQ)
    BY <1>1, <1>3, Apart
  <2>2. /\ Len(mRenderingQueue) > MinUndequeued
        /\ Before(Unhandled, DEQ, Render(Head(mRenderingQueue)))
    BY <2>1 DEF RemovalFirst, Ownership
  <2>3. mRenderingQueue # <<>>
    BY <2>2, QueueSeq
  <2>4. Head(mRenderingQueue) # b
    BY <1>2, <2>1, <2>2, QueueSeq, AfterTail
  <2>. QED
    BY <1>1, <2>2, <2>3, <2>4, QueueSeq, Ends
<1>6. ~Has(mRenderingQueue, b)
  <2>1. ~Stored(b)
    BY <1>1, <1>3 DEF Owners, Ownership, Moving
  <2>2. Has(Unhandled, DEQ) => Head(mRenderingQueue) # b
    BY <1>1, <1>3, <1>5, Apart
  <2>. QED
    BY <2>1, <2>2 DEF Stored
<1>7. Owners'
  <2>1. \A c \in Buffers : Stored(c)' <=> Stored(c) \/ c = b
    BY <1>1, <1>3, <1>4, <1>5, <1>6, Apart DEF Stored, DEQ, Request
  <2>2. \A c \in Buffers : (Moving(c)' <=> Moving(c) /\ c # b) /\ Moving(b)
    BY <1>1, <1>3, Apart DEF Moving, Render
  <2>3. \A c \in Buffers :
           /\ c \in allocated' <=> c \in held' \/ (Stored(c) \/ c = b) \/ (Moving(c) /\ c # b)
           /\ c \in held' => ~(Stored(c) \/ c = b) /\ ~(Moving(c) /\ c # b)
           /\ ~((Stored(c) \/ c = b) /\ Moving(c) /\ c # b)
    BY <1>1, <2>2 DEF Owners, Ownership
  <2>. QED
    BY <2>1, <2>2, <2>3 DEF Owners
<1>8. OncePerBuffer'
  <2>1. \A c \in Buffers : Once(Unhandled', Render(c))
    BY <1>2, QueueSeq, AfterTail DEF OncePerBuffer, Ownership
  <2>2. \A c \in Buffers : Once(mRenderingQueue', c)
    BY <1>1, <1>6, QueueSeq, AfterAppend DEF OncePerBuffer, Ownership
  <2>. QED
    BY <2>1, <2>2 DEF OncePerBuffer, Render
<1>9. OneRemoval'
  <2>1. Once(Unhandled', DEQ)
    BY <1>2, QueueSeq, AfterTail DEF OneRemoval, Ownership
  <2>2. /\ Has(Unhandled', DEQ) <=> Has(Unhandled, DEQ)
        /\ Has(Unhandled', FLU) <=> Has(Unhandled, FLU)
        /\ Before(Unhandled', DEQ, FLU)
    BY <1>1, <1>2, <1>3, QueueSeq, AfterTail, Apart DEF OneRemoval, Ownership
  <2>3. ASSUME phase \in {"front", "send"}
        PROVE  /\ Len(mRenderingQueue') > MinUndequeued
               /\ Head(mRenderingQueue') = Head(mRenderingQueue)
    <3>1. Len(mRenderingQueue) > MinUndequeued
      BY <2>3 DEF OneRemoval, Ownership
    <3>2. Len(mRenderingQueue') = Len(mRenderingQueue) + 1 /\ Len(mRenderingQueue) \in Nat
      BY <1>1, QueueSeq
    <3>3. mRenderingQueue # <<>>
      BY <3>1, QueueSeq
    <3>. QED
      BY <1>1, <3>1, <3>2, <3>3, QueueSeq, Ends
  <2>. QED
    BY <1>1, <2>1, <2>2, <2>3 DEF OneRemoval, Ownership, DEQ, FLU, Request
<1>10. RemovalFirst'
  <2> SUFFICES ASSUME Has(Unhandled', DEQ)
               PROVE  /\ Len(mRenderingQueue') > MinUndequeued
                      /\ Before(Unhandled', DEQ, Render(Head(mRenderingQueue')))
    BY DEF RemovalFirst, DEQ, Request, Render
  <2>1. Before(Unhandled, DEQ, Render(Head(mRenderingQueue)))
    BY <1>1, <1>3, Apart DEF RemovalFirst, Ownership
  <2>2. Before(Unhandled', DEQ, Render(Head(mRenderingQueue)))
    BY <1>2, <2>1, QueueSeq, AfterTail
  <2>3. Len(mRenderingQueue') = Len(mRenderingQueue) + 1 /\ Len(mRenderingQueue) \in Nat
    BY <1>1, QueueSeq
  <2>. QED
    BY <1>5, <2>2, <2>3, QueueSeq
<1>11. ScreenLast'
  <2>1. /\ mRenderingQueue' # <<>>
        /\ mRenderingQueue'[Len(mRenderingQueue')] = b
    BY <1>1, QueueSeq, AppendProperties
  <2>. QED
    BY <1>1, <2>1 DEF ScreenLast
<1>12. Closed'
  <2>1. phase # "released"
    BY DEF HandleRender, MQ!Handled, Closed, Ownership, Protocol, ThreadUp
  <2>. QED
    BY <1>1, <2>1 DEF Closed, Ownership
<1>. QED
  BY <1>7, <1>8, <1>9, <1>10, <1>11, <1>12 DEF Ownership

LEMMA OwnershipHandleDequeue ==
    ASSUME TypeOK, Ownership, HandleDequeue
    PROVE  Ownership'
<1> DEFINE b == Head(mRenderingQueue)
<1>1. receiver.at = "handling" /\ receiver.msg = DEQ
  BY QueueTypes, Requests DEF HandleDequeue, DEQ
<1>2. Unhandled # <<>> /\ Head(Unhandled) = DEQ
  BY <1>1, QueueTypes, PushConcat DEF Unhandled
<1>3. Has(Unhandled, DEQ)
  BY <1>2, QueueSeq, AfterTail
<1>4. Len(mRenderingQueue) > MinUndequeued /\ mRenderingQueue # <<>> /\ Len(mRenderingQueue) > 1
  <2>1. Len(mRenderingQueue) > MinUndequeued
    BY <1>3 DEF RemovalFirst, Ownership
  <2>. QED
    BY <2>1, QueueSeq
<1>5. /\ MQ!Handled("NO_ERROR") /\ mRenderingQueue' = Tail(mRenderingQueue)
      /\ UNCHANGED <<phase, front, allocated, held, onScreen>>
  BY <1>4 DEF HandleDequeue
<1>6. Unhandled' = Tail(Unhandled)
  BY <1>5, UnhandledHandled
<1>7. b \in Buffers /\ Once(mRenderingQueue, b)
  BY <1>4, QueueSeq, Ends DEF OncePerBuffer, Ownership
<1>8. /\ ~Has(Unhandled', DEQ)
      /\ \A x \in Message \ {DEQ} : Has(Unhandled', x) <=> Has(Unhandled, x)
  <2>1. Once(Unhandled, DEQ)
    BY <1>3 DEF OneRemoval, Ownership
  <2>. QED
    BY <1>2, <1>6, <2>1, QueueSeq, AfterTail, Apart
<1>9. \A c \in Buffers : Has(mRenderingQueue', c) <=> Has(mRenderingQueue, c) /\ c # b
  BY <1>4, <1>5, <1>7, QueueSeq, AfterTail
<1>10. Owners'
  <2>1. \A c \in Buffers : (Stored(c)' <=> Stored(c)) /\ (Moving(c)' <=> Moving(c))
    BY <1>3, <1>8, <1>9, Apart DEF Stored, Moving, DEQ, Request, Render
  <2>. QED
    BY <1>5, <2>1 DEF Owners, Ownership
<1>11. OncePerBuffer'
  <2>1. \A c \in Buffers : Once(Unhandled', Render(c))
    BY <1>2, <1>6, QueueSeq, AfterTail DEF OncePerBuffer, Ownership
  <2>2. \A c \in Buffers : Once(mRenderingQueue', c)
    BY <1>4, <1>5, QueueSeq, AfterTail DEF OncePerBuffer, Ownership
  <2>. QED
    BY <2>1, <2>2 DEF OncePerBuffer, Render
<1>12. OneRemoval' /\ RemovalFirst'
  <2>1. Once(Unhandled', DEQ) /\ Before(Unhandled', DEQ, FLU)
    BY <1>8 DEF Once, Before, Has
  <2>2. phase \notin {"front", "send"}
    BY <1>3 DEF OneRemoval, Ownership
  <2>. QED
    BY <1>5, <1>8, <2>1, <2>2 DEF OneRemoval, RemovalFirst, DEQ, FLU, Request
<1>13. ScreenLast'
  BY <1>4, <1>5, QueueSeq, Ends DEF ScreenLast, Ownership
<1>14. Closed'
  BY <1>4, <1>5 DEF Closed, Ownership
<1>. QED
  BY <1>10, <1>11, <1>12, <1>13, <1>14 DEF Ownership

LEMMA OwnershipHandleFlush ==
    ASSUME TypeOK, Ownership, HandleFlush
    PROVE  Ownership'
<1>1. /\ receiver.msg = FLU /\ mRenderingQueue' = <<>>
      /\ allocated' = allocated \ Elements(mRenderingQueue)
      /\ onScreen' = OnScreenWithout(Elements(mRenderingQueue))
      /\ UNCHANGED <<phase, front, held>>
  BY QueueTypes, Requests DEF HandleFlush, FLU
<1>2. Unhandled # <<>> /\ Head(Unhandled) = FLU /\ Unhandled' = Tail(Unhandled)
  BY <1>1, UnhandledHandled DEF HandleFlush
<1>3. Has(Unhandled, FLU) /\ ~Has(Unhandled, DEQ) /\ ~Has(Unhandled', DEQ)
  <2>1. Has(Unhandled, FLU)
    BY <1>2, QueueSeq, AfterTail
  <2>. QED
    BY <1>2, <2>1, QueueSeq, AfterTail DEF OneRemoval, Ownership
<1>4. \A c \in Buffers : Has(Unhandled', Render(c)) <=> Has(Unhandled, Render(c))
  BY <1>2, QueueSeq, AfterTail, Apart
<1>5. \A c : (c \in Elements(mRenderingQueue) <=> Has(mRenderingQueue, c))
            /\ ~Has(mRenderingQueue', c)
  BY <1>1 DEF Elements, Has
<1>6. Owners'
  <2>1. \A c \in Buffers : /\ Stored(c) <=> Has(mRenderingQueue, c)
                           /\ ~Stored(c)'
                           /\ Moving(c)' <=> Moving(c)
    BY <1>3, <1>4, <1>5 DEF Stored, Moving, Render
  <2>2. \A c \in Buffers : /\ c \in allocated' <=> c \in held' \/ Moving(c)
                           /\ c \in held' => ~Moving(c)
    BY <1>1, <1>5, <2>1 DEF Owners, Ownership
  <2>. QED
    BY <2>1, <2>2 DEF Owners
<1>7. OncePerBuffer'
  <2>1. \A c \in Buffers : Once(Unhandled', Render(c))
    BY <1>2, QueueSeq, AfterTail DEF OncePerBuffer, Ownership
  <2>. QED
    BY <1>1, <2>1 DEF OncePerBuffer, Once, Render
<1>8. OneRemoval' /\ RemovalFirst'
  <2>1. phase \notin {"front", "send"}
    BY <1>3 DEF OneRemoval, Ownership
  <2>2. Once(Unhandled', DEQ) /\ Before(Unhandled', DEQ, FLU)
    BY <1>3 DEF Once, Before, Has
  <2>. QED
    BY <1>1, <1>3, <2>1, <2>2 DEF OneRemoval, RemovalFirst, DEQ, FLU, Request
<1>9. ScreenLast'
  <2>1. onScreen # NoBuffer => onScreen \in Elements(mRenderingQueue)
    BY <1>5, QueueSeq, Ends DEF ScreenLast, Ownership
  <2>. QED
    BY <1>1, <2>1 DEF ScreenLast, OnScreenWithout
<1>10. Closed'
  BY <1>1 DEF Closed, Ownership
<1>. QED
  BY <1>6, <1>7, <1>8, <1>9, <1>10 DEF Ownership

\* Owned buffers are allocated, and each is in the vector once.
LEMMA NoneFreedTwice ==
    ASSUME TypeOK, Ownership
    PROVE  /\ ~Has(Unhandled, DEQ) => ~FreesTwice
           /\ \A b \in Buffers : Moving(b) => b \in allocated
<1>1. \A b \in Buffers : Moving(b) => b \in allocated
  BY DEF Owners, Ownership
<1>2. ASSUME ~Has(Unhandled, DEQ)
      PROVE  ~FreesTwice
  <2>1. \A b \in Buffers : Has(mRenderingQueue, b) => b \in allocated
    BY <1>2 DEF Owners, Ownership, Stored
  <2>2. \A i \in DOMAIN mRenderingQueue : mRenderingQueue[i] \in Buffers
    BY QueueSeq
  <2>3. Elements(mRenderingQueue) \subseteq allocated
    BY <2>1, <2>2 DEF Elements, Has
  <2>4. \A i, j \in DOMAIN mRenderingQueue :
           mRenderingQueue[i] = mRenderingQueue[j] => i = j
    BY <2>2 DEF OncePerBuffer, Ownership, Once
  <2>. QED
    BY <2>3, <2>4 DEF FreesTwice
<1>. QED
  BY <1>1, <1>2

\* So nothing that has been freed is used.
LEMMA NoFreedUsed ==
    ASSUME TypeOK, Protocol, Ownership
    PROVE  ~UseFreed /\ ~ReleaseFreed
<1>1. receiver.at = "handling" => Unhandled # <<>> /\ Head(Unhandled) = receiver.msg
  BY QueueTypes, PushConcat DEF Unhandled
<1>2. ASSUME UseFreed
      PROVE  FALSE
  <2>1. Unhandled # <<>> /\ Head(Unhandled) = receiver.msg /\ receiver.msg \in Message
    BY <1>1, <1>2, QueueTypes DEF UseFreed
  <2>2. CASE receiver.msg.id = "RENDER" /\ receiver.msg.buf \notin allocated
    <3>1. receiver.msg.buf \in Buffers /\ receiver.msg = Render(receiver.msg.buf)
      BY <2>1, <2>2, Requests
    <3>2. Moving(receiver.msg.buf)
      BY <2>1, <3>1, QueueSeq, AfterTail DEF Moving
    <3>. QED
      BY <2>2, <3>1, <3>2, NoneFreedTwice
  <2>3. CASE receiver.msg.id = "FLUSH" /\ FreesTwice
    <3>1. receiver.msg = FLU
      BY <2>1, <2>3, Requests DEF FLU
    <3>2. ~Has(Unhandled, DEQ)
      BY <2>1, <3>1, QueueSeq, AfterTail DEF OneRemoval, Ownership
    <3>. QED
      BY <2>3, <3>2, NoneFreedTwice
  <2>. QED
    BY <1>2, <2>2, <2>3 DEF UseFreed
<1>3. ASSUME ReleaseFreed
      PROVE  FALSE
  <2>1. Unhandled = <<>>
    BY <1>3 DEF ReleaseFreed, ThreadJoin, Protocol, ThreadUp
  <2>2. ~Has(Unhandled, DEQ)
    BY <2>1 DEF Has
  <2>. QED
    BY <1>3, <2>2, NoneFreedTwice DEF ReleaseFreed
<1>. QED
  BY <1>2, <1>3

LEMMA OwnershipStep ==
    ASSUME TypeOK, Protocol, ~raced => Ownership, [Next]_vars
    PROVE  ~raced' => Ownership'
<1> SUFFICES ASSUME Ownership, ~raced'
             PROVE  Ownership'
  BY RacedStays
<1>a. ASSUME Unhandled' = Unhandled,
             UNCHANGED <<mRenderingQueue, allocated, held, onScreen>>,
             phase' \notin {"released", "crashed"} \/ phase' = phase,
             phase' \in {"front", "send"} => phase' = phase /\ front' = front
      PROVE  Ownership'
  BY <1>a, OwnershipQuiet
<1>1. CASE SetSidebandStream
  <2>1. Unhandled' = Unhandled
    BY <1>1, QueueTypes DEF SetSidebandStream, ThreadRun, AllocateSidebandHandle, Protocol, Unhandled
  <2>. QED
    BY <1>1, <1>a, <2>1 DEF SetSidebandStream, ThreadRun, AllocateSidebandHandle, bufferVars
<1>2. ASSUME NEW b \in Buffers,
             AllocateBuffer(b) \/ FreeBuffer(b) \/ RemainBuffer(b) \/ QueueBuffer(b)
      PROVE  Ownership'
  BY <1>2, OwnershipAllocate, OwnershipFree, OwnershipRemain, OwnershipQueue
<1>3. CASE DequeueSize
  <2>1. /\ Unhandled' = Unhandled /\ Len(mRenderingQueue) > MinUndequeued
        /\ UNCHANGED <<mRenderingQueue, allocated, held, onScreen, front>>
        /\ phase' = "front"
    BY <1>3, UnhandledSame DEF DequeueSize, bufferVars
  <2>2. ~Has(Unhandled, DEQ) /\ ~Has(Unhandled, FLU)
    BY <1>3, RacedStays DEF RemovalInFlight, Removals, Has, DEQ, FLU
  <2>3. OncePerBuffer' /\ ScreenLast' /\ Closed' /\ RemovalFirst'
    BY <2>1 DEF OncePerBuffer, ScreenLast, Closed, RemovalFirst, Ownership, DEQ, Request, Render
  <2>4. OneRemoval'
    BY <2>1, <2>2 DEF OneRemoval, Ownership, DEQ, FLU, Request
  <2>5. Owners'
    BY <2>1 DEF Owners, Ownership, Stored, Moving, DEQ, Request, Render
  <2>. QED
    BY <2>3, <2>4, <2>5 DEF Ownership
<1>4. CASE DequeueFront
  <2>1. /\ Unhandled' = Unhandled /\ phase = "front" /\ phase' = "send"
        /\ UNCHANGED <<mRenderingQueue, allocated, held, onScreen>>
    BY <1>4, UnhandledSame DEF DequeueFront, bufferVars
  <2>2. mRenderingQueue # <<>>
    <3>1. Len(mRenderingQueue) > MinUndequeued
      BY <2>1 DEF OneRemoval, Ownership
    <3>. QED
      BY <3>1, QueueSeq
  <2>3. front' = Head(mRenderingQueue)
    BY <1>4, <2>2 DEF DequeueFront
  <2>4. OncePerBuffer' /\ ScreenLast' /\ Closed' /\ RemovalFirst'
    BY <2>1 DEF OncePerBuffer, ScreenLast, Closed, RemovalFirst, Ownership, DEQ, Request, Render
  <2>5. OneRemoval'
    BY <2>1, <2>3 DEF OneRemoval, Ownership, DEQ, FLU, Request
  <2>6. Owners'
    BY <2>1 DEF Owners, Ownership, Stored, Moving, DEQ, Request, Render
  <2>. QED
    BY <2>4, <2>5, <2>6 DEF Ownership
<1>5. CASE DequeueSend
  BY <1>5, OwnershipDequeueSend
<1>6. CASE Flush
  BY <1>6, OwnershipFlush
<1>7. CASE Destroy
  <2>1. Unhandled' = Append(Unhandled, Request("EXIT"))
    BY <1>7, UnhandledSend, Requests DEF Destroy
  <2>2. /\ UNCHANGED <<mRenderingQueue, allocated, held, onScreen>>
        /\ phase' = "exit" /\ phase = "running"
    BY <1>7 DEF Destroy, bufferVars
  <2>3. ~Has(Unhandled, Request("EXIT"))
    BY <2>2 DEF Protocol
  <2>4. \A x \in Message \ {Request("EXIT")} : Has(Unhandled', x) <=> Has(Unhandled, x)
    BY <2>1, QueueSeq, Requests, AfterAppend
  <2>5. \A x : Once(Unhandled, x) => Once(Unhandled', x)
    BY <2>1, <2>3, QueueSeq, Requests, AfterAppend
  <2>6. OncePerBuffer' /\ ScreenLast' /\ Closed'
    BY <2>2, <2>5 DEF OncePerBuffer, ScreenLast, Closed, Ownership, Render
  <2>7. OneRemoval'
    <3>1. Before(Unhandled', DEQ, FLU)
      BY <2>1, QueueSeq, Requests, AfterAppend, Apart DEF OneRemoval, Ownership
    <3>. QED
      BY <2>2, <2>4, <2>5, <3>1, Apart DEF OneRemoval, Ownership, DEQ, FLU, Request
  <2>8. RemovalFirst'
    <3> SUFFICES ASSUME Has(Unhandled', DEQ)
                 PROVE  /\ Len(mRenderingQueue) > MinUndequeued
                        /\ Before(Unhandled', DEQ, Render(Head(mRenderingQueue)))
      BY <2>2 DEF RemovalFirst, DEQ, Request, Render
    <3>1. /\ Len(mRenderingQueue) > MinUndequeued
          /\ Before(Unhandled, DEQ, Render(Head(mRenderingQueue)))
      BY <2>4, Apart DEF RemovalFirst, Ownership
    <3>2. Head(mRenderingQueue) \in Buffers
      BY <3>1, QueueSeq, Ends
    <3>3. DEQ # Render(Head(mRenderingQueue)) /\ DEQ # Request("EXIT")
      BY <3>2, Apart
    <3>. QED
      BY <2>1, <3>1, <3>3, QueueSeq, Requests, AfterAppend
  <2>9. Owners'
    <3>1. \A c \in Buffers : (Stored(c)' <=> Stored(c)) /\ (Moving(c)' <=> Moving(c))
      BY <2>2, <2>4, Apart DEF Stored, Moving, DEQ, Request, Render
    <3>. QED
      BY <2>2, <3>1 DEF Owners, Ownership
  <2>. QED
    BY <2>6, <2>7, <2>8, <2>9 DEF Ownership
<1>8. CASE Release
  BY <1>8, OwnershipRelease
<1>9. CASE PlayerWait
  BY <1>9, <1>a, UnhandledSame DEF PlayerWait, bufferVars
<1>10. CASE RenderReceive
  BY <1>10, <1>a, UnhandledReceive DEF RenderReceive, bufferVars
<1>11. CASE HandleExit
  <2>1. receiver.msg = Request("EXIT")
    BY <1>11, QueueTypes, Requests DEF HandleExit
  <2>2. /\ Unhandled # <<>> /\ Head(Unhandled) = Request("EXIT")
        /\ Unhandled' = Tail(Unhandled)
    BY <1>11, <2>1, UnhandledHandled DEF HandleExit
  <2>3. /\ \A x \in Message \ {Request("EXIT")} : Has(Unhandled', x) <=> Has(Unhandled, x)
        /\ \A x : Once(Unhandled, x) => Once(Unhandled', x)
        /\ \A x, y : Before(Unhandled, x, y) => Before(Unhandled', x, y)
    BY <2>2, QueueSeq, AfterTail
  <2>. QED
    BY <1>11, <2>3, OwnershipQuiet DEF HandleExit, bufferVars
<1>12. CASE HandleRender
  BY <1>12, OwnershipHandleRender
<1>13. CASE HandleDequeue
  BY <1>13, OwnershipHandleDequeue
<1>14. CASE HandleFlush
  BY <1>14, OwnershipHandleFlush
<1>15. CASE RenderReply
  BY <1>15, <1>a, UnhandledReply DEF RenderReply, bufferVars
<1>16. CASE UNCHANGED vars
  BY <1>16, <1>a, UnhandledSame DEF vars, bufferVars
<1>. QED
  BY <1>1, <1>2, <1>3, <1>4, <1>5, <1>6, <1>7, <1>8, <1>9, <1>10, <1>11, <1>12,
     <1>13, <1>14, <1>15, <1>16, NoFreedUsed
  DEF Next, PlayerStep, RenderStep, Done

LEMMA OwnershipHolds == SafeSpec => [](~raced => Ownership)
<1>1. Init => Ownership
  <2> SUFFICES ASSUME Init
               PROVE  Ownership
    OBVIOUS
  <2>1. /\ Unhandled = <<>> /\ mRenderingQueue = <<>> /\ phase = "unset"
        /\ allocated = {} /\ held = {} /\ onScreen = NoBuffer
    BY DEF Init, Unhandled
  <2>2. OncePerBuffer /\ OneRemoval /\ RemovalFirst
    BY <2>1 DEF OncePerBuffer, OneRemoval, RemovalFirst, Has, Once, Before
  <2>3. Owners
    BY <2>1 DEF Owners, Stored, Moving, Has
  <2>4. ScreenLast /\ Closed
    BY <2>1 DEF ScreenLast, Closed
  <2>. QED
    BY <2>2, <2>3, <2>4 DEF Ownership
<1>2. TypeOK /\ Protocol /\ (~raced => Ownership) /\ [Next]_vars => (~raced' => Ownership')
  BY OwnershipStep
<1>. QED
  BY <1>1, <1>2, TypeCorrect, ProtocolHolds, PTL DEF SafeSpec
---------------------------------------------------------------------------
\* As long as no dequeue began while a removal was to come, a buffer belongs to
\* the player, to a message or to the vector, and to one of them only, for every
\* number of buffers and every MinUndequeued.
THEOREM OwnedOnce == SafeSpec => []OneOwner
<1>1. TypeOK /\ Ownership => OneOwner
  <2> SUFFICES ASSUME TypeOK, Ownership
               PROVE  OneOwner
    OBVIOUS
  <2> DEFINE stored == Elements(mRenderingQueue) \ Leaving
             moving == {b \in Buffers : InFlight(b)}
  <2>1. \A b : b \in Elements(mRenderingQueue) <=> Has(mRenderingQueue, b)
    BY DEF Elements, Has
  <2>2. Request("DEQUEUE") \in Elements(Unhandled) <=> Has(Unhandled, DEQ)
    BY DEF Elements, Has, DEQ
  <2>3. \A b \in Buffers : b \in stored <=> Stored(b)
    <3>1. Has(Unhandled, DEQ) => mRenderingQueue # <<>>
      <4>1. Has(Unhandled, DEQ) => Len(mRenderingQueue) > MinUndequeued
        BY DEF RemovalFirst, Ownership
      <4>. QED
        BY <4>1, QueueSeq
    <3>2. Has(Unhandled, DEQ) => Leaving = {Head(mRenderingQueue)}
      BY <2>2, <3>1 DEF Leaving
    <3>3. ~Has(Unhandled, DEQ) => Leaving = {}
      BY <2>2 DEF Leaving
    <3>. QED
      BY <2>1, <3>2, <3>3 DEF Stored
  <2>4. \A b \in Buffers : b \in moving <=> Moving(b)
    BY DEF Moving, InFlight, Has
  <2>5. stored \subseteq Buffers /\ moving \subseteq Buffers
    BY QueueSeq DEF Elements
  <2> HIDE DEF stored, moving
  <2>6. allocated = held \cup stored \cup moving
    BY <2>3, <2>4, <2>5, QueueSeq DEF Owners, Ownership
  <2>7. held \cap stored = {} /\ held \cap moving = {} /\ stored \cap moving = {}
    BY <2>3, <2>4, <2>5, QueueSeq DEF Owners, Ownership
  <2>8. \A i, j \in DOMAIN mRenderingQueue :
           mRenderingQueue[i] = mRenderingQueue[j] => i = j
    BY QueueSeq DEF OncePerBuffer, Ownership, Once
  <2>9. \A i, j \in DOMAIN Unhandled :
           Unhandled[i] = Unhandled[j] /\ Unhandled[i].id = "RENDER" => i = j
    <3> SUFFICES ASSUME NEW i \in DOMAIN Unhandled, NEW j \in DOMAIN Unhandled,
                        Unhandled[i] = Unhandled[j], Unhandled[i].id = "RENDER"
                 PROVE  i = j
      OBVIOUS
    <3>1. Unhandled[i] \in Message
      BY QueueSeq
    <3>2. PICK b \in Buffers : Unhandled[i] = Render(b)
      BY <3>1, Requests
    <3>. QED
      BY <3>2 DEF OncePerBuffer, Ownership, Once
  <2>. QED
    BY <2>6, <2>7, <2>8, <2>9 DEF OneOwner, stored, moving
<1>2. raced => OneOwner
  BY DEF OneOwner
<1>. QED
  BY <1>1, <1>2, TypeCorrect, OwnershipHolds, PTL

\* dequeueBuffer never returns a buffer the player has, nor the one on screen,
\* unless it began while a removal was to come, or one before it did.
THEOREM LentRightly == SafeSpec => [](NeverLentTwice /\ NeverLentOnScreen)
<1>1. TypeOK /\ Ownership => NeverLentTwice
  <2> SUFFICES ASSUME TypeOK, Ownership, phase = "send"
               PROVE  front \notin held
    BY DEF NeverLentTwice
  <2>1. /\ front = Head(mRenderingQueue) /\ Len(mRenderingQueue) > MinUndequeued
        /\ ~Has(Unhandled, DEQ)
    BY DEF OneRemoval, Ownership
  <2>2. front \in Buffers /\ Has(mRenderingQueue, front)
    BY <2>1, QueueSeq, Ends
  <2>. QED
    BY <2>1, <2>2 DEF Owners, Ownership, Stored
<1>2. TypeOK /\ Ownership => NeverLentOnScreen
  <2> SUFFICES ASSUME TypeOK, Ownership, onScreen \in held
               PROVE  FALSE
    BY DEF NeverLentOnScreen
  <2>1. /\ mRenderingQueue # <<>>
        /\ onScreen = mRenderingQueue[Len(mRenderingQueue)] /\ onScreen \in Buffers
    BY QueueSeq DEF ScreenLast, Ownership
  <2>2. Has(mRenderingQueue, onScreen)
    BY <2>1, QueueSeq, Ends
  <2>3. ASSUME Has(Unhandled, DEQ)
        PROVE  onScreen # Head(mRenderingQueue)
    <3>1. Len(mRenderingQueue) > MinUndequeued
      BY <2>3 DEF RemovalFirst, Ownership
    <3>2. Len(mRenderingQueue) > 1
      BY <3>1, QueueSeq
    <3>3. Once(mRenderingQueue, Head(mRenderingQueue))
      BY <2>1, QueueSeq, Ends DEF OncePerBuffer, Ownership
    <3>. QED
      BY <2>1, <3>2, <3>3, QueueSeq, Ends
  <2>. QED
    BY <2>1, <2>2, <2>3 DEF Owners, Ownership, Stored
<1>3. raced => NeverLentTwice /\ NeverLentOnScreen
  BY DEF NeverLentTwice, NeverLentOnScreen
<1>. QED
  BY <1>1, <1>2, <1>3, TypeCorrect, OwnershipHolds, PTL

\* Every removal finds more than MinUndequeued buffers, so that none erases from
\* an empty vector, and no buffer is used after it was freed: whenever the process
\* dies, a dequeue began while a removal was to come.
THEOREM RemovalsFindEnough == SafeSpec => [](KeepsMinUndequeued /\ CrashIsRace)
<1>1. TypeOK /\ Ownership => KeepsMinUndequeued
  <2> SUFFICES ASSUME TypeOK, Ownership, receiver.at = "handling", receiver.msg.id = "DEQUEUE"
               PROVE  Len(mRenderingQueue) > MinUndequeued
    BY DEF KeepsMinUndequeued
  <2>1. receiver.msg = DEQ
    BY QueueTypes, Requests DEF DEQ
  <2>2. Unhandled # <<>> /\ Head(Unhandled) = DEQ
    BY <2>1, QueueTypes, PushConcat DEF Unhandled
  <2>3. Has(Unhandled, DEQ)
    BY <2>2, QueueSeq, AfterTail
  <2>. QED
    BY <2>3 DEF RemovalFirst, Ownership
<1>2. Ownership => CrashIsRace
  BY DEF CrashIsRace, Closed, Ownership
<1>3. raced => KeepsMinUndequeued /\ CrashIsRace
  BY DEF KeepsMinUndequeued, CrashIsRace
<1>. QED
  BY <1>1, <1>2, <1>3, TypeCorrect, OwnershipHolds, PTL

\* After release() nothing is allocated but what the player still has, unless a
\* dequeue began while a removal was to come; and only then can it die.
THEOREM ReleasedAll == SafeSpec => []ReleaseFreesAll
<1>1. TypeOK /\ Protocol /\ Ownership => ReleaseFreesAll
  <2> SUFFICES ASSUME TypeOK, Protocol, Ownership, phase = "released"
               PROVE  allocated = held
    BY DEF ReleaseFreesAll, CrashIsRace, Closed, Ownership
  <2>1. Unhandled = <<>> /\ mRenderingQueue = <<>>
    BY DEF Protocol, Closed, Ownership
  <2>2. \A b \in Buffers : ~Stored(b) /\ ~Moving(b)
    BY <2>1 DEF Stored, Moving, Has
  <2>. QED
    BY <2>2, QueueSeq DEF Owners, Ownership
<1>2. raced => ReleaseFreesAll
  BY DEF ReleaseFreesAll, CrashIsRace
<1>. QED
  BY <1>1, <1>2, TypeCorrect, ProtocolHolds, OwnershipHolds, PTL
---------------------------------------------------------------------------
\* The refinement.  Coming keeps the order of the RENDER_REQUESTs: its n-th
\* buffer is that of the message up to which there are n of them.
LEMMA RendersFinite ==
    ASSUME NEW s, NEW n \in Nat
    PROVE  /\ IsFiniteSet({i \in 1 .. n : s[i].id = "RENDER"})
           /\ Cardinality({i \in 1 .. n : s[i].id = "RENDER"}) \in 0 .. n
<1>1. IsFiniteSet(1 .. n) /\ Cardinality(1 .. n) = n
  BY FS_Interval
<1>2. {i \in 1 .. n : s[i].id = "RENDER"} \in SUBSET (1 .. n)
  OBVIOUS
<1>. QED
  BY <1>1, <1>2, FS_Subset, FS_CardinalityType

LEMMA RendersType ==
    ASSUME NEW s, NEW n \in Nat
    PROVE  Renders(s, n) \in 0 .. n
BY RendersFinite DEF Renders

LEMMA RendersStep ==
    ASSUME NEW s, NEW n \in Nat
    PROVE  Renders(s, n + 1) = Renders(s, n) + (IF s[n + 1].id = "RENDER" THEN 1 ELSE 0)
<1> DEFINE upTo(k) == {i \in 1 .. k : s[i].id = "RENDER"}
<1>1. CASE s[n + 1].id = "RENDER"
  <2>1. upTo(n + 1) = upTo(n) \cup {n + 1} /\ n + 1 \notin upTo(n)
    BY <1>1
  <2>2. IsFiniteSet(upTo(n)) /\ Renders(s, n) = Cardinality(upTo(n))
    BY RendersFinite DEF Renders
  <2>3. Cardinality(upTo(n + 1)) = Cardinality(upTo(n)) + 1
    BY <2>1, <2>2, FS_AddElement
  <2>. QED
    BY <1>1, <2>2, <2>3 DEF Renders
<1>2. CASE s[n + 1].id # "RENDER"
  <2>1. upTo(n + 1) = upTo(n)
    BY <1>2
  <2>2. Renders(s, n + 1) = Renders(s, n)
    BY <2>1 DEF Renders
  <2>3. Renders(s, n) \in Nat
    BY RendersType
  <2>. QED
    BY <1>2, <2>2, <2>3
<1>. QED
  BY <1>1, <1>2

LEMMA RendersGrow ==
    ASSUME NEW s, NEW j \in Nat, NEW i \in 0 .. j - 1
    PROVE  /\ Renders(s, i) <= Renders(s, j)
           /\ s[j].id = "RENDER" => Renders(s, i) < Renders(s, j)
<1> DEFINE upTo(k) == {n \in 1 .. k : s[n].id = "RENDER"}
<1>1. upTo(i) \subseteq upTo(j) /\ (s[j].id = "RENDER" => upTo(i) # upTo(j))
  <2>1. j \in upTo(j) <=> s[j].id = "RENDER"
    OBVIOUS
  <2>2. j \notin upTo(i)
    OBVIOUS
  <2>. QED
    BY <2>1, <2>2
<1>2. IsFiniteSet(upTo(j)) /\ Cardinality(upTo(j)) \in Nat /\ Cardinality(upTo(i)) \in Nat
  <2>1. i \in Nat
    OBVIOUS
  <2>2. IsFiniteSet(upTo(j)) /\ Cardinality(upTo(j)) \in 0 .. j
    BY RendersFinite, Zenon
  <2>3. Cardinality(upTo(i)) \in 0 .. i
    BY <2>1, RendersFinite, Zenon
  <2>. QED
    BY <2>1, <2>2, <2>3
<1>3. /\ Cardinality(upTo(i)) <= Cardinality(upTo(j))
      /\ Cardinality(upTo(j)) = Cardinality(upTo(i)) => upTo(j) = upTo(i)
  BY <1>1, <1>2, FS_Subset
<1>. QED
  BY <1>1, <1>2, <1>3 DEF Renders

\* There is an n-th RENDER_REQUEST for each n that Renders counts.
LEMMA NthRender ==
    ASSUME NEW s, NEW l \in Nat, NEW n \in 1 .. Renders(s, l)
    PROVE  \E i \in 1 .. l : s[i].id = "RENDER" /\ Renders(s, i) = n
<1> DEFINE upTo == {i \in 1 .. l : s[i].id = "RENDER"}
           place == [i \in upTo |-> Renders(s, i)]
           count == Renders(s, l)
<1>1. IsFiniteSet(upTo) /\ count = Cardinality(upTo) /\ count \in Nat
  <2>1. IsFiniteSet(upTo)
    BY RendersFinite, Zenon
  <2>2. count = Cardinality(upTo)
    BY DEF Renders
  <2>3. count \in 0 .. l
    BY RendersType
  <2>. QED
    BY <2>1, <2>2, <2>3
<1>2. ASSUME NEW i \in upTo
      PROVE  place[i] \in 1 .. count
  <2>1. i \in 1 .. l /\ s[i].id = "RENDER" /\ Renders(s, 0) \in 0 .. 0
    BY RendersType
  <2>2. Renders(s, i) \in Nat /\ Renders(s, 0) < Renders(s, i)
    BY <2>1, RendersType, RendersGrow
  <2>3. i < l => Renders(s, i) <= Renders(s, l)
    BY <2>1, RendersGrow
  <2>. QED
    BY <1>1, <2>1, <2>2, <2>3
<1>3. ASSUME NEW i \in upTo, NEW j \in upTo, i # j
      PROVE  place[i] # place[j]
  <2>1. i \in 1 .. l /\ s[i].id = "RENDER" /\ j \in 1 .. l /\ s[j].id = "RENDER"
    OBVIOUS
  <2>2. Renders(s, i) \in Nat /\ Renders(s, j) \in Nat
    BY <2>1, RendersType
  <2>3. i < j => Renders(s, i) < Renders(s, j)
    BY <2>1, RendersGrow
  <2>4. j < i => Renders(s, j) < Renders(s, i)
    BY <2>1, RendersGrow
  <2>. QED
    BY <1>3, <2>1, <2>2, <2>3, <2>4
<1>4. place \in Injection(upTo, 1 .. count)
  <2>1. place \in [upTo -> 1 .. count]
    BY <1>2
  <2>2. \A i, j \in upTo : place[i] = place[j] => i = j
    BY <1>3
  <2>. QED
    BY <2>1, <2>2, Zenon DEF Injection, IsInjective
<1>5. place \in Surjection(upTo, 1 .. count)
  <2>1. IsFiniteSet(1 .. count) /\ Cardinality(1 .. count) = count
    BY <1>1, FS_Interval
  <2>. QED
    BY <1>1, <1>4, <2>1, FS_Injection
<1>6. \E i \in upTo : place[i] = n
  BY <1>5, Zenon DEF Surjection
<1>. QED
  BY <1>6

LEMMA ComingIs ==
    ASSUME NEW s \in Seq(Message)
    PROVE  /\ Coming(s) \in Seq(Buffers) /\ Len(Coming(s)) = Renders(s, Len(s))
           /\ \A i \in DOMAIN s : s[i].id = "RENDER" =>
                 /\ Renders(s, i) \in 1 .. Len(Coming(s))
                 /\ Coming(s)[Renders(s, i)] = s[i].buf
           /\ \A n \in 1 .. Len(Coming(s)) : \E i \in DOMAIN s :
                 s[i].id = "RENDER" /\ Renders(s, i) = n
<1> DEFINE isNth(i, n) == s[i].id = "RENDER" /\ Renders(s, i) = n
           count == Renders(s, Len(s))
<1>1. Len(s) \in Nat /\ DOMAIN s = 1 .. Len(s) /\ \A i \in DOMAIN s : s[i] \in Message
  OBVIOUS
<1>2. ASSUME NEW i \in DOMAIN s, NEW j \in DOMAIN s, NEW n, isNth(i, n), isNth(j, n)
      PROVE  i = j
  <2>1. i < j => Renders(s, i) < Renders(s, j)
    BY <1>1, <1>2, RendersGrow
  <2>2. j < i => Renders(s, j) < Renders(s, i)
    BY <1>1, <1>2, RendersGrow
  <2>3. Renders(s, i) \in Nat /\ Renders(s, j) \in Nat
    BY <1>1, RendersType
  <2>. QED
    BY <1>1, <1>2, <2>1, <2>2, <2>3
<1>3. ASSUME NEW n \in 1 .. count
      PROVE  \E i \in DOMAIN s : isNth(i, n)
  BY <1>1, NthRender
<1>4. ASSUME NEW i \in DOMAIN s, s[i].id = "RENDER"
      PROVE  Renders(s, i) \in 1 .. count
  <2>1. Renders(s, 0) \in 0 .. 0 /\ Renders(s, i) \in Nat /\ count \in Nat
    BY <1>1, RendersType
  <2>2. Renders(s, 0) < Renders(s, i)
    BY <1>1, <1>4, RendersGrow
  <2>3. i < Len(s) => Renders(s, i) <= count
    BY <1>1, RendersGrow
  <2>. QED
    BY <1>1, <2>1, <2>2, <2>3
<1>5. count \in Nat
  BY <1>1, RendersType
<1>6. Coming(s) = [n \in 1 .. count |-> s[CHOOSE i \in DOMAIN s : isNth(i, n)].buf]
  BY DEF Coming
<1> HIDE DEF isNth, count
<1>7. ASSUME NEW i \in DOMAIN s, NEW n \in 1 .. count, isNth(i, n)
      PROVE  Coming(s)[n] = s[i].buf
  <2>1. (CHOOSE j \in DOMAIN s : isNth(j, n)) = i
    BY <1>2, <1>7
  <2>. QED
    BY <1>6, <2>1
<1>8. ASSUME NEW n \in 1 .. count
      PROVE  Coming(s)[n] \in Buffers
  <2>1. PICK i \in DOMAIN s : isNth(i, n)
    BY <1>3
  <2>2. s[i] \in Message /\ s[i].id = "RENDER"
    BY <1>1, <2>1 DEF isNth
  <2>3. s[i].buf \in Buffers
    BY <2>2 DEF Message
  <2>. QED
    BY <1>7, <2>1, <2>3
<1>9. Coming(s) \in Seq(Buffers) /\ Len(Coming(s)) = count
  <2>1. Coming(s) \in [1 .. count -> Buffers]
    BY <1>6, <1>8
  <2>. QED
    BY <1>5, <2>1
<1>. QED
  BY <1>3, <1>4, <1>7, <1>9 DEF isNth, count


\* Taking the first message shifts the others by one place.
LEMMA RendersTail ==
    ASSUME NEW s \in Seq(Message), s # <<>>, NEW k \in 0 .. Len(s) - 1
    PROVE  Renders(s, k + 1) = Renders(Tail(s), k) + (IF Head(s).id = "RENDER" THEN 1 ELSE 0)
<1> DEFINE t == Tail(s)
           before == {i \in 1 .. k : t[i].id = "RENDER"}
           rest == {i \in 2 .. k + 1 : s[i].id = "RENDER"}
           all == {i \in 1 .. k + 1 : s[i].id = "RENDER"}
           shift == [i \in before |-> i + 1]
<1>1. /\ Len(s) \in Nat /\ k \in Nat /\ Head(s) = s[1]
      /\ \A i \in 1 .. k : t[i] = s[i + 1]
  OBVIOUS
<1>2. shift \in Bijection(before, rest)
  <2>1. \A i \in before : i + 1 \in rest
    BY <1>1
  <2>2. \A j \in rest : j - 1 \in before /\ shift[j - 1] = j
    BY <1>1
  <2>3. \A i, j \in before : shift[i] = shift[j] => i = j
    BY <1>1
  <2>4. shift \in [before -> rest]
    BY <2>1
  <2> HIDE DEF shift, before, rest
  <2>5. shift \in Injection(before, rest)
    BY <2>3, <2>4, Zenon DEF Injection, IsInjective
  <2>6. shift \in Surjection(before, rest)
    BY <2>2, <2>4 DEF Surjection
  <2>. QED
    BY <2>5, <2>6 DEF Bijection
<1>3. IsFiniteSet(before) /\ Renders(t, k) = Cardinality(before) /\ Renders(t, k) \in 0 .. k
  <2>1. IsFiniteSet(before)
    BY <1>1, RendersFinite, Zenon
  <2>2. Renders(t, k) = Cardinality(before)
    BY DEF Renders
  <2>3. Renders(t, k) \in 0 .. k
    BY <1>1, RendersType
  <2>. QED
    BY <2>1, <2>2, <2>3, Zenon
<1>4. IsFiniteSet(rest) /\ Cardinality(rest) = Cardinality(before)
  BY <1>2, <1>3, FS_Bijection DEF ExistsBijection
<1>5. Renders(s, k + 1) = Cardinality(all)
  BY DEF Renders
<1>6. CASE Head(s).id = "RENDER"
  <2>1. all = rest \cup {1} /\ 1 \notin rest
    BY <1>1, <1>6
  <2>2. Cardinality(all) = Cardinality(rest) + 1
    BY <1>4, <2>1, FS_AddElement
  <2>. QED
    BY <1>3, <1>4, <1>5, <1>6, <2>2
<1>7. CASE Head(s).id # "RENDER"
  <2>1. all = rest
    BY <1>1, <1>7
  <2>2. Renders(s, k + 1) = Renders(t, k)
    BY <1>3, <1>4, <1>5, <2>1, Zenon
  <2>3. Renders(t, k) \in Nat
    BY <1>1, <1>3
  <2>. QED
    BY <1>7, <2>2, <2>3
<1>. QED
  BY <1>6, <1>7

LEMMA ComingAppend ==
    ASSUME NEW s \in Seq(Message), NEW m \in Message
    PROVE  /\ Coming(Append(s, m)) = IF m.id = "RENDER" THEN Append(Coming(s), m.buf)
                                                        ELSE Coming(s)
           /\ \A k \in 0 .. Len(s) : Renders(Append(s, m), k) = Renders(s, k)
<1> DEFINE t == Append(s, m)
<1>1. /\ t \in Seq(Message) /\ Len(t) = Len(s) + 1 /\ Len(s) \in Nat
      /\ DOMAIN s = 1 .. Len(s) /\ DOMAIN t = 1 .. Len(s) + 1
      /\ t[Len(s) + 1] = m /\ \A i \in 1 .. Len(s) : t[i] = s[i]
  BY AppendProperties
<1> HIDE DEF t
<1>2. ASSUME NEW k \in 0 .. Len(s)
      PROVE  Renders(t, k) = Renders(s, k)
  <2>1. {i \in 1 .. k : t[i].id = "RENDER"} = {i \in 1 .. k : s[i].id = "RENDER"}
    BY <1>1
  <2>. QED
    BY <2>1 DEF Renders
<1>3. Renders(t, Len(t)) = Renders(s, Len(s)) + (IF m.id = "RENDER" THEN 1 ELSE 0)
  <2>1. Renders(t, Len(s) + 1) = Renders(t, Len(s)) + (IF t[Len(s) + 1].id = "RENDER" THEN 1 ELSE 0)
    BY <1>1, RendersStep
  <2>2. Renders(t, Len(s)) = Renders(s, Len(s))
    BY <1>1, <1>2
  <2>. QED
    BY <1>1, <2>1, <2>2
<1>4. /\ Coming(s) \in Seq(Buffers) /\ Coming(t) \in Seq(Buffers)
      /\ Len(Coming(s)) = Renders(s, Len(s)) /\ Len(Coming(s)) \in Nat
      /\ Len(Coming(t)) = Len(Coming(s)) + (IF m.id = "RENDER" THEN 1 ELSE 0)
  BY <1>1, <1>3, ComingIs
<1>5. ASSUME NEW n \in 1 .. Len(Coming(s))
      PROVE  Coming(t)[n] = Coming(s)[n]
  <2>1. PICK i \in DOMAIN s : s[i].id = "RENDER" /\ Renders(s, i) = n
    BY ComingIs
  <2>2. Coming(s)[n] = s[i].buf
    BY <2>1, ComingIs
  <2>3. i \in DOMAIN t /\ t[i] = s[i] /\ Renders(t, i) = n
    BY <1>1, <1>2, <2>1
  <2>4. Coming(t)[n] = t[i].buf
    BY <1>1, <2>1, <2>3, ComingIs
  <2>. QED
    BY <2>2, <2>3, <2>4
<1>6. CASE m.id = "RENDER"
  <2>1. Coming(t)[Len(Coming(s)) + 1] = m.buf
    <3>1. Len(t) \in DOMAIN t /\ t[Len(t)].id = "RENDER" /\ Renders(t, Len(t)) = Len(Coming(s)) + 1
      BY <1>1, <1>3, <1>4, <1>6
    <3>2. Coming(t)[Renders(t, Len(t))] = t[Len(t)].buf
      BY <1>1, <3>1, ComingIs
    <3>. QED
      BY <1>1, <3>1, <3>2
  <2>2. m.buf \in Buffers
    BY <1>6 DEF Message
  <2>3. /\ Append(Coming(s), m.buf) \in Seq(Buffers)
        /\ Len(Append(Coming(s), m.buf)) = Len(Coming(s)) + 1
        /\ Append(Coming(s), m.buf)[Len(Coming(s)) + 1] = m.buf
        /\ \A n \in 1 .. Len(Coming(s)) : Append(Coming(s), m.buf)[n] = Coming(s)[n]
    BY <1>4, <2>2, AppendProperties
  <2>4. \A n \in 1 .. Len(Coming(t)) : Coming(t)[n] = Append(Coming(s), m.buf)[n]
    BY <1>4, <1>5, <1>6, <2>1, <2>3
  <2>5. Coming(t) = Append(Coming(s), m.buf)
    BY <1>4, <1>6, <2>3, <2>4, SeqEqual
  <2>. QED
    BY <1>2, <1>6, <2>5 DEF t
<1>7. CASE m.id # "RENDER"
  <2>1. Coming(t) = Coming(s)
    BY <1>4, <1>5, <1>7, SeqEqual
  <2>. QED
    BY <1>2, <1>7, <2>1 DEF t
<1>. QED
  BY <1>6, <1>7

LEMMA ComingTail ==
    ASSUME NEW s \in Seq(Message), s # <<>>
    PROVE  Coming(s) = IF Head(s).id = "RENDER" THEN <<Head(s).buf>> \o Coming(Tail(s))
                                                ELSE Coming(Tail(s))
<1> DEFINE t == Tail(s)
           first == IF Head(s).id = "RENDER" THEN 1 ELSE 0
<1>1. /\ t \in Seq(Message) /\ Len(t) = Len(s) - 1 /\ Len(s) \in Nat \ {0}
      /\ DOMAIN s = 1 .. Len(s) /\ DOMAIN t = 1 .. Len(s) - 1
      /\ Head(s) = s[1] /\ Head(s) \in Message
      /\ \A i \in 1 .. Len(s) - 1 : t[i] = s[i + 1]
  OBVIOUS
<1>2. ASSUME NEW k \in 0 .. Len(s) - 1
      PROVE  Renders(s, k + 1) = Renders(t, k) + first
  BY RendersTail
<1> HIDE DEF t, first
<1>3. /\ Coming(s) \in Seq(Buffers) /\ Coming(t) \in Seq(Buffers)
      /\ Len(Coming(t)) \in Nat
      /\ Len(Coming(s)) = Len(Coming(t)) + first
  <2>1. Renders(s, (Len(s) - 1) + 1) = Renders(t, Len(s) - 1) + first
    BY <1>1, <1>2
  <2>2. (Len(s) - 1) + 1 = Len(s)
    BY <1>1
  <2>3. Coming(s) \in Seq(Buffers) /\ Len(Coming(s)) = Renders(s, Len(s))
    BY ComingIs
  <2>4. Coming(t) \in Seq(Buffers) /\ Len(Coming(t)) = Renders(t, Len(t))
    BY <1>1, ComingIs
  <2>. QED
    BY <1>1, <2>1, <2>2, <2>3, <2>4
<1>4. ASSUME NEW n \in 1 .. Len(Coming(t))
      PROVE  Coming(s)[n + first] = Coming(t)[n]
  <2>1. PICK i \in DOMAIN t : t[i].id = "RENDER" /\ Renders(t, i) = n
    BY <1>1, ComingIs
  <2>2. Coming(t)[n] = t[i].buf
    BY <1>1, <2>1, ComingIs
  <2>3. i + 1 \in DOMAIN s /\ s[i + 1] = t[i] /\ Renders(s, i + 1) = n + first
    BY <1>1, <1>2, <2>1
  <2>4. Coming(s)[n + first] = s[i + 1].buf
    BY <2>1, <2>3, ComingIs
  <2>. QED
    BY <2>2, <2>3, <2>4
<1>5. CASE Head(s).id = "RENDER"
  <2>1. first = 1 /\ Head(s).buf \in Buffers
    BY <1>1, <1>5 DEF first, Message
  <2>2. Coming(s)[1] = Head(s).buf
    <3>1. Renders(s, 0 + 1) = Renders(t, 0) + 1 /\ Renders(t, 0) \in 0 .. 0
      BY <1>1, <1>2, <2>1, RendersType
    <3>2. Renders(s, 1) = 1 /\ 1 \in DOMAIN s /\ s[1].id = "RENDER"
      BY <1>1, <1>5, <3>1
    <3>. QED
      BY <1>1, <3>2, ComingIs
  <2>3. /\ <<Head(s).buf>> \o Coming(t) \in Seq(Buffers)
        /\ Len(<<Head(s).buf>> \o Coming(t)) = Len(Coming(t)) + 1
        /\ (<<Head(s).buf>> \o Coming(t))[1] = Head(s).buf
        /\ \A n \in 1 .. Len(Coming(t)) : (<<Head(s).buf>> \o Coming(t))[n + 1] = Coming(t)[n]
    BY <1>3, <2>1
  <2>4. ASSUME NEW n \in 1 .. Len(Coming(s))
        PROVE  Coming(s)[n] = (<<Head(s).buf>> \o Coming(t))[n]
    <3>1. CASE n = 1
      BY <2>2, <2>3, <3>1
    <3>2. CASE n # 1
      <4>1. n - 1 \in 1 .. Len(Coming(t)) /\ (n - 1) + 1 = n
        BY <1>3, <2>1, <3>2
      <4>. QED
        BY <1>4, <2>1, <2>3, <4>1
    <3>. QED
      BY <3>1, <3>2
  <2>5. Coming(s) = <<Head(s).buf>> \o Coming(t)
    BY <1>3, <2>1, <2>3, <2>4, SeqEqual
  <2>. QED
    BY <1>5, <2>5 DEF t
<1>6. CASE Head(s).id # "RENDER"
  <2>1. first = 0
    BY <1>6 DEF first
  <2>2. \A n \in 1 .. Len(Coming(s)) : Coming(s)[n] = Coming(t)[n]
    <3> SUFFICES ASSUME NEW n \in 1 .. Len(Coming(s))
                 PROVE  Coming(s)[n] = Coming(t)[n]
      OBVIOUS
    <3>1. n \in 1 .. Len(Coming(t)) /\ n + 0 = n
      BY <1>3, <2>1
    <3>. QED
      BY <1>4, <2>1, <3>1
  <2>3. Coming(s) = Coming(t)
    BY <1>3, <2>1, <2>2, SeqEqual
  <2>. QED
    BY <1>6, <2>3 DEF t
<1>. QED
  BY <1>5, <1>6

LEMMA ComingHas ==
    ASSUME NEW s \in Seq(Message), NEW n \in 1 .. Len(Coming(s))
    PROVE  Has(s, Render(Coming(s)[n]))
<1>1. PICK i \in DOMAIN s : s[i].id = "RENDER" /\ Renders(s, i) = n
  BY ComingIs
<1>2. Coming(s)[n] = s[i].buf /\ s[i] \in Message
  BY <1>1, ComingIs
<1>3. s[i] = Render(s[i].buf)
  BY <1>1, <1>2 DEF Message, Render
<1>. QED
  BY <1>2, <1>3 DEF Has


\* The buffers handed over, of a list of messages and a vector, and how many of
\* them the FLUSHes of the list will free, of n in the vector that stay in it.
Kept(list, vector) == IF Has(list, DEQ) THEN Tail(vector) ELSE vector

Given(list, vector) == Kept(list, vector) \o Coming(list)

IsLastFlush(list, k) ==
    /\ k > 0 => list[k] = FLU
    /\ \A i \in k + 1 .. Len(list) : list[i] # FLU

HasLastFlush(list) == \E k \in 0 .. Len(list) : IsLastFlush(list, k)

Fated(list, n) ==
    IF LastFlush(list) = 0 THEN 0 ELSE n + Renders(list, LastFlush(list))

LEMMA GivenIs ==
    /\ (Has(Unhandled, DEQ) => mRenderingQueue # <<>>)
          => /\ HandedOver = Given(Unhandled, mRenderingQueue)
             /\ Cardinality(Leaving) = IF Has(Unhandled, DEQ) THEN 1 ELSE 0
    /\ (Has(Unhandled', DEQ) => mRenderingQueue' # <<>>)
          => /\ HandedOver' = Given(Unhandled', mRenderingQueue')
             /\ Cardinality(Leaving') = IF Has(Unhandled', DEQ) THEN 1 ELSE 0
<1>1. /\ Has(Unhandled, DEQ) <=> Request("DEQUEUE") \in Elements(Unhandled)
      /\ Has(Unhandled', DEQ) <=> Request("DEQUEUE") \in Elements(Unhandled')
  BY DEF Has, Elements, DEQ
<1>0. Cardinality({}) = 0 /\ \A x : Cardinality({x}) = 1 /\ {x} # {}
  BY FS_EmptySet, FS_Singleton
<1>2. ASSUME Has(Unhandled, DEQ) => mRenderingQueue # <<>>
      PROVE  /\ Leaving = {} <=> ~Has(Unhandled, DEQ)
             /\ Cardinality(Leaving) = IF Has(Unhandled, DEQ) THEN 1 ELSE 0
  BY <1>0, <1>1, <1>2 DEF Leaving
<1>3. ASSUME Has(Unhandled', DEQ) => mRenderingQueue' # <<>>
      PROVE  /\ Leaving' = {} <=> ~Has(Unhandled', DEQ)
             /\ Cardinality(Leaving') = IF Has(Unhandled', DEQ) THEN 1 ELSE 0
  <2>1. Leaving' = IF Request("DEQUEUE") \in Elements(Unhandled') /\ mRenderingQueue' # <<>>
                   THEN {Head(mRenderingQueue')} ELSE {}
    BY DEF Leaving, Elements, Request
  <2>. QED
    BY <1>0, <1>1, <1>3, <2>1
<1>4. HandedOver = (IF Leaving = {} THEN mRenderingQueue ELSE Tail(mRenderingQueue))
                      \o Coming(Unhandled)
  BY DEF HandedOver
<1>5. HandedOver' = (IF Leaving' = {} THEN mRenderingQueue' ELSE Tail(mRenderingQueue'))
                       \o Coming(Unhandled')
  BY DEF HandedOver, Coming, Renders
<1>. QED
  BY <1>2, <1>3, <1>4, <1>5 DEF Given, Kept

LEMMA FatedIs ==
    /\ Doomed = Fated(Unhandled, Len(mRenderingQueue) - Cardinality(Leaving))
    /\ Doomed' = Fated(Unhandled', Len(mRenderingQueue') - Cardinality(Leaving'))
<1>1. Doomed = Fated(Unhandled, Len(mRenderingQueue) - Cardinality(Leaving))
  BY DEF Doomed, Fated
<1>2. Doomed' = Fated(Unhandled', Len(mRenderingQueue') - Cardinality(Leaving'))
  BY DEF Doomed, Fated, LastFlush, Request, Renders
<1>. QED
  BY <1>1, <1>2

\* There is one last FLUSH at most.
LEMMA FatedAt ==
    ASSUME NEW s \in Seq(Message), NEW n, NEW k \in 0 .. Len(s), IsLastFlush(s, k)
    PROVE  Fated(s, n) = IF k = 0 THEN 0 ELSE n + Renders(s, k)
<1>1. \A i \in 0 .. Len(s) : IsLastFlush(s, i) => i = k
  BY DEF IsLastFlush
<1>2. LastFlush(s) = CHOOSE i \in 0 .. Len(s) : IsLastFlush(s, i)
  BY DEF LastFlush, IsLastFlush, FLU
<1>3. LastFlush(s) = k
  BY <1>1, <1>2
<1>. QED
  BY <1>3 DEF Fated

LEMMA FatedNone ==
    ASSUME NEW s \in Seq(Message), NEW n, ~Has(s, FLU)
    PROVE  Fated(s, n) = 0 /\ HasLastFlush(s)
<1>1. 0 \in 0 .. Len(s) /\ IsLastFlush(s, 0)
  BY DEF IsLastFlush, Has
<1>. QED
  BY <1>1, FatedAt DEF HasLastFlush

LEMMA FatedAppend ==
    ASSUME NEW s \in Seq(Message), NEW m \in Message, NEW n \in Nat, HasLastFlush(s)
    PROVE  /\ HasLastFlush(Append(s, m))
           /\ m # FLU => Fated(Append(s, m), n) = Fated(s, n)
           /\ m = FLU => Fated(Append(s, m), n) = n + Len(Coming(s))
<1> DEFINE t == Append(s, m)
<1>1. /\ DOMAIN s = 1 .. Len(s) /\ DOMAIN t = 1 .. Len(s) + 1 /\ Len(s) \in Nat
      /\ t \in Seq(Message) /\ Len(t) = Len(s) + 1
      /\ t[Len(s) + 1] = m /\ \A i \in 1 .. Len(s) : t[i] = s[i]
  BY AppendProperties
<1>2. CASE m # FLU
  <2>1. PICK k \in 0 .. Len(s) : IsLastFlush(s, k)
    BY DEF HasLastFlush
  <2>2. k \in 0 .. Len(t) /\ IsLastFlush(t, k)
    BY <1>1, <1>2, <2>1 DEF IsLastFlush
  <2>3. Renders(t, k) = Renders(s, k)
    BY <2>1, ComingAppend
  <2>4. /\ Fated(s, n) = IF k = 0 THEN 0 ELSE n + Renders(s, k)
        /\ Fated(t, n) = IF k = 0 THEN 0 ELSE n + Renders(t, k)
    BY <1>1, <2>1, <2>2, FatedAt
  <2>. QED
    BY <1>2, <2>2, <2>3, <2>4 DEF HasLastFlush
<1>3. CASE m = FLU
  <2>1. Len(s) + 1 \in 0 .. Len(t) /\ IsLastFlush(t, Len(s) + 1) /\ Len(s) + 1 # 0
    BY <1>1, <1>3 DEF IsLastFlush
  <2>2. Fated(t, n) = n + Renders(t, Len(s) + 1)
    BY <1>1, <2>1, FatedAt
  <2>3. Renders(t, Len(s) + 1) = Renders(t, Len(s)) /\ Renders(t, Len(s)) = Renders(s, Len(s))
    <3>1. Renders(t, Len(s)) = Renders(s, Len(s)) /\ Renders(t, Len(s)) \in 0 .. Len(s)
      BY <1>1, ComingAppend, RendersType
    <3>2. t[Len(s) + 1].id # "RENDER"
      BY <1>1, <1>3, Requests DEF FLU
    <3>3. Renders(t, Len(s) + 1)
            = Renders(t, Len(s)) + (IF t[Len(s) + 1].id = "RENDER" THEN 1 ELSE 0)
      BY <1>1, RendersStep
    <3>. QED
      BY <3>1, <3>2, <3>3
  <2>. QED
    BY <1>3, <2>1, <2>2, <2>3, ComingIs DEF HasLastFlush
<1>. QED
  BY <1>2, <1>3

LEMMA FatedTail ==
    ASSUME NEW s \in Seq(Message), s # <<>>, NEW n \in Nat, HasLastFlush(s)
    PROVE  /\ HasLastFlush(Tail(s)) /\ Fated(Tail(s), 0) \in Nat
           /\ Head(s) # FLU /\ Head(s).id # "RENDER" => Fated(Tail(s), n) = Fated(s, n)
           /\ Head(s) # FLU /\ Head(s).id = "RENDER" => Fated(Tail(s), n + 1) = Fated(s, n)
           /\ Head(s) = FLU => Fated(s, n) = n + Fated(Tail(s), 0)
<1> DEFINE t == Tail(s)
<1>1. /\ DOMAIN s = 1 .. Len(s) /\ DOMAIN t = 1 .. Len(s) - 1 /\ Len(s) \in Nat \ {0}
      /\ t \in Seq(Message) /\ Len(t) = Len(s) - 1
      /\ Head(s) = s[1] /\ \A i \in 1 .. Len(s) - 1 : t[i] = s[i + 1]
  OBVIOUS
<1>2. PICK k \in 0 .. Len(s) : IsLastFlush(s, k)
  BY DEF HasLastFlush
<1>3. Fated(s, n) = IF k = 0 THEN 0 ELSE n + Renders(s, k)
  BY <1>2, FatedAt
<1>4. ASSUME NEW j \in 0 .. Len(t), IsLastFlush(t, j)
      PROVE  /\ \A x \in Nat : Fated(t, x) = IF j = 0 THEN 0 ELSE x + Renders(t, j)
             /\ Renders(t, j) \in Nat
             /\ Renders(s, j + 1) = Renders(t, j) + (IF Head(s).id = "RENDER" THEN 1 ELSE 0)
             /\ HasLastFlush(t)
  <2>1. j \in 0 .. Len(s) - 1 /\ j \in Nat
    BY <1>1, <1>4
  <2>2. /\ Renders(s, j + 1) = Renders(t, j) + (IF Head(s).id = "RENDER" THEN 1 ELSE 0)
        /\ Renders(t, j) \in 0 .. j
    BY <2>1, RendersTail, RendersType
  <2>3. \A x \in Nat : Fated(t, x) = IF j = 0 THEN 0 ELSE x + Renders(t, j)
    BY <1>1, <1>4, FatedAt
  <2>4. HasLastFlush(t)
    BY <1>4 DEF HasLastFlush
  <2>. QED
    BY <2>2, <2>3, <2>4
<1> HIDE DEF t
<1>5. CASE k = 0
  <2>1. 0 \in 0 .. Len(t) /\ IsLastFlush(t, 0)
    BY <1>1, <1>2, <1>5 DEF IsLastFlush
  <2>2. Head(s) # FLU
    BY <1>1, <1>2, <1>5 DEF IsLastFlush
  <2>3. \A x \in Nat : Fated(t, x) = 0
    BY <1>4, <2>1
  <2>4. Fated(t, n) = 0 /\ Fated(t, n + 1) = 0 /\ Fated(t, 0) = 0 /\ HasLastFlush(t)
    BY <1>4, <2>1, <2>3
  <2>. QED
    BY <1>3, <1>5, <2>2, <2>4 DEF t
<1>6. CASE k > 0
  <2> DEFINE j == k - 1
  <2>1. j \in 0 .. Len(t) /\ j + 1 = k /\ k # 0
    BY <1>1, <1>6
  <2>2. IsLastFlush(t, j)
    <3>1. j > 0 => t[j] = FLU
      BY <1>1, <1>2, <1>6, <2>1 DEF IsLastFlush
    <3>2. ASSUME NEW i \in j + 1 .. Len(t)
          PROVE  t[i] # FLU
      <4>1. i + 1 \in k + 1 .. Len(s) /\ i \in 1 .. Len(s) - 1
        BY <1>1, <2>1
      <4>. QED
        BY <1>1, <1>2, <4>1 DEF IsLastFlush
    <3>. QED
      BY <3>1, <3>2 DEF IsLastFlush
  <2>3. /\ \A x \in Nat : Fated(t, x) = IF j = 0 THEN 0 ELSE x + Renders(t, j)
        /\ Renders(t, j) \in Nat
        /\ Renders(s, k) = Renders(t, j) + (IF Head(s).id = "RENDER" THEN 1 ELSE 0)
        /\ HasLastFlush(t)
    BY <1>4, <2>1, <2>2
  <2>4. j = 0 => Head(s) = FLU /\ Renders(t, j) = 0
    <3>1. j = 0 => s[1] = FLU
      BY <1>2, <1>6, <2>1 DEF IsLastFlush
    <3>2. Renders(t, 0) \in 0 .. 0
      BY RendersType
    <3>. QED
      BY <1>1, <3>1, <3>2
  <2>5. Head(s) = FLU => Head(s).id # "RENDER"
    BY Requests DEF FLU
  <2> HIDE DEF j
  <2>6. /\ Fated(t, n) = IF j = 0 THEN 0 ELSE n + Renders(t, j)
        /\ Fated(t, n + 1) = IF j = 0 THEN 0 ELSE n + 1 + Renders(t, j)
        /\ Fated(t, 0) = IF j = 0 THEN 0 ELSE Renders(t, j)
    BY <2>3
  <2>7. Fated(s, n) = n + Renders(s, k)
    BY <1>3, <2>1
  <2>8. HasLastFlush(t) /\ Fated(t, 0) \in Nat
    BY <2>3, <2>6
  <2>9. Head(s) # FLU => j # 0
    BY <2>4
  <2>10. /\ Head(s) # FLU /\ Head(s).id # "RENDER" => Fated(t, n) = Fated(s, n)
         /\ Head(s) # FLU /\ Head(s).id = "RENDER" => Fated(t, n + 1) = Fated(s, n)
    <3> SUFFICES ASSUME Head(s) # FLU
                 PROVE  /\ Head(s).id # "RENDER" => Fated(t, n) = Fated(s, n)
                        /\ Head(s).id = "RENDER" => Fated(t, n + 1) = Fated(s, n)
      OBVIOUS
    <3>1. Fated(t, n) = n + Renders(t, j) /\ Fated(t, n + 1) = n + 1 + Renders(t, j)
      BY <2>6, <2>9
    <3>2. Head(s).id # "RENDER" => Renders(s, k) = Renders(t, j)
      BY <2>3
    <3>3. Head(s).id = "RENDER" => Renders(s, k) = Renders(t, j) + 1
      BY <2>3
    <3>. QED
      BY <2>3, <2>7, <3>1, <3>2, <3>3
  <2>11. Head(s) = FLU => Fated(s, n) = n + Fated(t, 0)
    <3> SUFFICES ASSUME Head(s) = FLU
                 PROVE  Fated(s, n) = n + Fated(t, 0)
      OBVIOUS
    <3>1. Renders(s, k) = Renders(t, j)
      BY <2>3, <2>5
    <3>2. Fated(t, 0) = Renders(t, j)
      BY <2>4, <2>6
    <3>. QED
      BY <2>7, <3>1, <3>2
  <2>. QED
    BY <2>8, <2>10, <2>11, Zenon DEF t
<1>. QED
  BY <1>5, <1>6

\* A step leaves the unhandled messages alone, adds one or takes the first.
LEMMA UnhandledStep ==
    ASSUME TypeOK, Protocol, [Next]_vars
    PROVE  \/ Unhandled' = Unhandled
           \/ \E m \in Message : Unhandled' = Append(Unhandled, m)
           \/ Unhandled # <<>> /\ Unhandled' = Tail(Unhandled)
<1>1. CASE SetSidebandStream
  BY <1>1, QueueTypes DEF SetSidebandStream, ThreadRun, AllocateSidebandHandle, Protocol, Unhandled
<1>2. ASSUME NEW b \in Buffers, AllocateBuffer(b) \/ FreeBuffer(b) \/ RemainBuffer(b)
      PROVE  Unhandled' = Unhandled
  BY <1>2, UnhandledSame DEF AllocateBuffer, FreeBuffer, RemainBuffer
<1>3. ASSUME NEW b \in Buffers, QueueBuffer(b)
      PROVE  Render(b) \in Message /\ Unhandled' = Append(Unhandled, Render(b))
  BY <1>3, UnhandledSend, Apart DEF QueueBuffer
<1>4. CASE DequeueSize \/ DequeueFront \/ Release \/ PlayerWait \/ UNCHANGED vars
  BY <1>4, UnhandledSame DEF DequeueSize, DequeueFront, Release, PlayerWait, vars
<1>5. CASE DequeueSend
  BY <1>5, UnhandledSend, Apart DEF DequeueSend, DEQ
<1>6. CASE Flush
  BY <1>6, UnhandledSend, Apart DEF Flush, FLU
<1>7. CASE Destroy
  BY <1>7, UnhandledSend, Requests DEF Destroy
<1>8. CASE RenderReceive \/ RenderReply
  BY <1>8, UnhandledReceive, UnhandledReply DEF RenderReceive
<1>9. CASE HandleExit \/ HandleRender \/ HandleFlush
  BY <1>9, UnhandledHandled DEF HandleExit, HandleRender, HandleFlush
<1>a. ASSUME Dies, receiver.at = "handling"
      PROVE  Unhandled # <<>> /\ Unhandled' = Tail(Unhandled)
  <2>1. /\ receiver.msg \in Message /\ mList \in Seq(Message)
        /\ Unhandled = <<receiver.msg>> \o mList
    BY <1>a, QueueTypes DEF Unhandled
  <2>2. Unhandled' = mList
    BY <1>a, QueueTypes DEF Dies, Unhandled
  <2>. QED
    BY <2>1, <2>2, PushConcat
<1>10. CASE HandleDequeue
  <2>1. CASE mRenderingQueue # <<>>
    BY <1>10, <2>1, UnhandledHandled DEF HandleDequeue
  <2>2. CASE mRenderingQueue = <<>>
    BY <1>10, <1>a, <2>2 DEF HandleDequeue
  <2>. QED
    BY <2>1, <2>2
<1>11. CASE UseFreed
  BY <1>11, <1>a DEF UseFreed
<1>12. CASE ReleaseFreed
  BY <1>12, QueueTypes DEF ReleaseFreed, ThreadJoin, Dies, Unhandled
<1>. QED
  BY <1>1, <1>2, <1>3, <1>4, <1>5, <1>6, <1>7, <1>8, <1>9, <1>10, <1>11, <1>12
  DEF Next, PlayerStep, RenderStep, Done

\* Of every list of messages there is a last FLUSH, or none is there.
LastFlushed == HasLastFlush(Unhandled)

LEMMA LastFlushedHolds == SafeSpec => []LastFlushed
<1>1. Init => LastFlushed
  <2> SUFFICES ASSUME Init
               PROVE  HasLastFlush(Unhandled)
    BY DEF LastFlushed
  <2>1. Unhandled = <<>> /\ <<>> \in Seq(Message)
    BY DEF Init, Unhandled
  <2>2. ~Has(Unhandled, FLU)
    BY <2>1 DEF Has
  <2>. QED
    BY <2>1, <2>2, FatedNone
<1>2. TypeOK /\ Protocol /\ LastFlushed /\ [Next]_vars => LastFlushed'
  <2> SUFFICES ASSUME TypeOK, Protocol, LastFlushed, [Next]_vars
               PROVE  HasLastFlush(Unhandled')
    BY DEF LastFlushed, HasLastFlush, IsLastFlush, FLU, Request
  <2>1. Unhandled \in Seq(Message) /\ HasLastFlush(Unhandled) /\ 0 \in Nat
    BY QueueTypes DEF LastFlushed
  <2>2. \A m \in Message : HasLastFlush(Append(Unhandled, m))
    BY <2>1, FatedAppend
  <2>3. Unhandled # <<>> => HasLastFlush(Tail(Unhandled))
    BY <2>1, FatedTail
  <2>. QED
    BY <2>1, <2>2, <2>3, UnhandledStep
<1>. QED
  BY <1>1, <1>2, TypeCorrect, ProtocolHolds, PTL DEF SafeSpec

---------------------------------------------------------------------------
LEMMA ConcatAppend ==
    ASSUME NEW a \in Seq(Buffers), NEW b \in Seq(Buffers), NEW m \in Buffers
    PROVE  /\ a \o Append(b, m) = Append(a \o b, m)
           /\ Append(a, m) \o b = a \o (<<m>> \o b)
<1>1. a \o Append(b, m) = Append(a \o b, m)
  <2>1. a \o Append(b, m) \in Seq(Buffers) /\ Append(a \o b, m) \in Seq(Buffers)
    OBVIOUS
  <2>2. Len(a \o Append(b, m)) = Len(Append(a \o b, m))
    OBVIOUS
  <2>3. \A i \in 1 .. Len(a \o Append(b, m)) :
           (a \o Append(b, m))[i] = Append(a \o b, m)[i]
    OBVIOUS
  <2>. QED
    BY <2>1, <2>2, <2>3, SeqEqual
<1>2. Append(a, m) \o b = a \o (<<m>> \o b)
  <2>1. Append(a, m) \o b \in Seq(Buffers) /\ a \o (<<m>> \o b) \in Seq(Buffers)
    OBVIOUS
  <2>2. Len(Append(a, m) \o b) = Len(a \o (<<m>> \o b))
    OBVIOUS
  <2>3. \A i \in 1 .. Len(Append(a, m) \o b) :
           (Append(a, m) \o b)[i] = (a \o (<<m>> \o b))[i]
    OBVIOUS
  <2>. QED
    BY <2>1, <2>2, <2>3, SeqEqual
<1>. QED
  BY <1>1, <1>2

LEMMA SubSeqConcat ==
    ASSUME NEW a \in Seq(Buffers), NEW b \in Seq(Buffers)
    PROVE  SubSeq(a \o b, Len(a) + 1, Len(a \o b)) = b
<1> DEFINE t == SubSeq(a \o b, Len(a) + 1, Len(a \o b))
<1>1. /\ a \o b \in Seq(Buffers) /\ Len(a \o b) = Len(a) + Len(b)
      /\ Len(a) \in Nat /\ Len(b) \in Nat
      /\ \A i \in 1 .. Len(b) : (a \o b)[Len(a) + i] = b[i]
  OBVIOUS
<1>2. t \in Seq(Buffers) /\ Len(t) = Len(b)
  BY <1>1
<1>3. \A i \in 1 .. Len(b) : t[i] = b[i]
  BY <1>1
<1>. QED
  BY <1>2, <1>3, SeqEqual

LEMMA TakeParts ==
    ASSUME NEW a \in Seq(Buffers), NEW b \in Seq(Buffers), NEW m \in Buffers, a # <<>>
    PROVE  /\ a \o b # <<>>
           /\ Head(a \o b) = Head(a)
           /\ Tail(a \o b) = Tail(a) \o b
           /\ Tail(Append(a, m)) = Append(Tail(a), m)
<1>1. /\ Head(a) \in Buffers /\ Tail(a) \in Seq(Buffers) /\ a = <<Head(a)>> \o Tail(a)
  BY HeadTailConcat
<1>2. a \o b = <<Head(a)>> \o (Tail(a) \o b)
  <2>1. /\ (<<Head(a)>> \o Tail(a)) \o b \in Seq(Buffers) /\ <<Head(a)>> \o (Tail(a) \o b) \in Seq(Buffers)
        /\ Len((<<Head(a)>> \o Tail(a)) \o b) = Len(<<Head(a)>> \o (Tail(a) \o b))
    BY <1>1
  <2>2. \A i \in 1 .. Len((<<Head(a)>> \o Tail(a)) \o b) :
           ((<<Head(a)>> \o Tail(a)) \o b)[i] = (<<Head(a)>> \o (Tail(a) \o b))[i]
    BY ONLY <1>1, a \in Seq(Buffers), b \in Seq(Buffers)
  <2>3. (<<Head(a)>> \o Tail(a)) \o b = <<Head(a)>> \o (Tail(a) \o b)
    BY <2>1, <2>2, SeqEqual
  <2>. QED
    BY <1>1, <2>3
<1>3. Tail(a) \o b \in Seq(Buffers)
  BY <1>1
<1>4. a \o b # <<>> /\ Head(a \o b) = Head(a) /\ Tail(a \o b) = Tail(a) \o b
  BY <1>1, <1>2, <1>3, PushConcat
<1>5. Append(a, m) = <<Head(a)>> \o Append(Tail(a), m)
  <2>1. <<Head(a)>> \o Append(Tail(a), m) = Append(<<Head(a)>> \o Tail(a), m)
    BY <1>1, PushConcat, Zenon
  <2>. QED
    BY <1>1, <2>1
<1>6. Append(Tail(a), m) \in Seq(Buffers)
  BY <1>1
<1>7. Tail(Append(a, m)) = Append(Tail(a), m)
  <2>1. Tail(<<Head(a)>> \o Append(Tail(a), m)) = Append(Tail(a), m)
    BY <1>1, <1>6, PushConcat, Zenon
  <2>. QED
    BY <1>5, <2>1
<1>. QED
  BY <1>4, <1>7

\* The window's state as the abstract queue has it.
LEMMA Mapped ==
    ASSUME TypeOK, TypeOK', Ownership, Ownership'
    PROVE  /\ HandedOver = Given(Unhandled, mRenderingQueue)
           /\ HandedOver' = Given(Unhandled', mRenderingQueue')
           /\ Doomed = Fated(Unhandled, Len(Kept(Unhandled, mRenderingQueue)))
           /\ Doomed' = Fated(Unhandled', Len(Kept(Unhandled', mRenderingQueue')))
           /\ Has(Unhandled, DEQ) => mRenderingQueue # <<>>
           /\ Kept(Unhandled, mRenderingQueue) \in Seq(Buffers)
<1>0. /\ mRenderingQueue \in Seq(Buffers) /\ mRenderingQueue' \in Seq(Buffers)
      /\ MinUndequeued \in Nat
  BY QueueSeq DEF TypeOK
<1>1. Has(Unhandled, DEQ) => mRenderingQueue # <<>>
  <2>1. Has(Unhandled, DEQ) => Len(mRenderingQueue) > MinUndequeued
    BY DEF RemovalFirst, Ownership
  <2>. QED
    BY <1>0, <2>1
<1>2. Has(Unhandled', DEQ) => mRenderingQueue' # <<>>
  <2>1. Has(Unhandled', DEQ) => Len(mRenderingQueue') > MinUndequeued
    BY DEF RemovalFirst, Ownership, DEQ, Request
  <2>. QED
    BY <1>0, <2>1
<1>3. ASSUME NEW list, NEW vector \in Seq(Buffers), Has(list, DEQ) => vector # <<>>
      PROVE  /\ Kept(list, vector) \in Seq(Buffers)
             /\ Len(Kept(list, vector)) = Len(vector) - (IF Has(list, DEQ) THEN 1 ELSE 0)
  BY <1>3, HeadTailProperties DEF Kept
<1>. QED
  BY <1>0, <1>1, <1>2, <1>3, GivenIs, FatedIs

LEMMA FifoStutter ==
    ASSUME TypeOK, TypeOK', Ownership, Ownership', Unhandled' = Unhandled,
           mRenderingQueue' = mRenderingQueue, held' = held, raced' = raced
    PROVE  UNCHANGED Fifo!vars
BY Mapped DEF Fifo!vars

LEMMA ComingNone == Coming(<<>>) = <<>>
<1>1. <<>> \in Seq(Message) /\ Len(<<>>) = 0
  OBVIOUS
<1>2. Coming(<<>>) \in Seq(Buffers) /\ Len(Coming(<<>>)) = Renders(<<>>, 0)
  BY <1>1, ComingIs
<1>3. Renders(<<>>, 0) \in 0 .. 0
  BY RendersType
<1>. QED
  BY <1>2, <1>3

\* Adding a message: queueBuffer, dequeueBuffer, flush, the destructor.
LEMMA FifoSend ==
    ASSUME TypeOK, TypeOK', Ownership, Ownership', LastFlushed, raced' = raced,
           mRenderingQueue' = mRenderingQueue,
           NEW m \in Message, Unhandled' = Append(Unhandled, m)
    PROVE  /\ \A b \in Buffers : m = Render(b) /\ b \in held /\ held' = held \ {b}
                 => Fifo!HandOver(b)
           /\ m = Request("EXIT") /\ held' = held => UNCHANGED Fifo!vars
           /\ (/\ m = DEQ /\ ~Has(Unhandled, DEQ) /\ ~Has(Unhandled, FLU)
               /\ mRenderingQueue # <<>> /\ held' = held \cup {Head(mRenderingQueue)})
                 => Fifo!HandBack
           /\ m = FLU /\ held' = held => Fifo!AskFlush
<1> DEFINE kept == Kept(Unhandled, mRenderingQueue)
           coming == Coming(Unhandled)
<1>1. /\ Unhandled \in Seq(Message) /\ mRenderingQueue \in Seq(Buffers)
      /\ kept \in Seq(Buffers) /\ coming \in Seq(Buffers)
      /\ Len(kept) \in Nat
  BY QueueSeq, Mapped, ComingIs
<1>2. /\ HandedOver = kept \o coming
      /\ Doomed = Fated(Unhandled, Len(kept))
      /\ HandedOver' = Kept(Unhandled', mRenderingQueue) \o Coming(Append(Unhandled, m))
      /\ Doomed' = Fated(Append(Unhandled, m), Len(Kept(Unhandled', mRenderingQueue)))
  BY Mapped DEF Given
<1>3. /\ Has(Unhandled', DEQ) <=> Has(Unhandled, DEQ) \/ m = DEQ
      /\ m # DEQ => Kept(Unhandled', mRenderingQueue) = kept
  BY <1>1, AfterAppend DEF Kept
<1>4. /\ Coming(Append(Unhandled, m)) = IF m.id = "RENDER" THEN Append(coming, m.buf) ELSE coming
      /\ m # FLU /\ m # DEQ => Doomed' = Doomed
      /\ m = FLU /\ m # DEQ => Doomed' = Len(kept) + Len(coming)
  BY <1>1, <1>2, <1>3, ComingAppend, FatedAppend DEF LastFlushed
<1> HIDE DEF coming, kept
<1>5. ASSUME NEW b \in Buffers, m = Render(b), b \in held, held' = held \ {b}
      PROVE  Fifo!HandOver(b)
  <2>1. m.id = "RENDER" /\ m.buf = b /\ m # DEQ /\ m # FLU
    BY <1>5, Requests, Apart
  <2>2. HandedOver' = kept \o Append(coming, b)
    BY <1>2, <1>3, <1>4, <2>1
  <2>3. HandedOver' = Append(HandedOver, b)
    <3>1. kept \o Append(coming, b) = Append(kept \o coming, b)
      BY <1>1, ConcatAppend
    <3>. QED
      BY <1>2, <2>2, <3>1
  <2>. QED
    BY <1>4, <1>5, <2>1, <2>3 DEF Fifo!HandOver
<1>6. ASSUME m = Request("EXIT"), held' = held
      PROVE  UNCHANGED Fifo!vars
  <2>1. m.id # "RENDER" /\ m # DEQ /\ m # FLU
    BY <1>6, Requests, Apart
  <2>. QED
    BY <1>2, <1>3, <1>4, <1>6, <2>1 DEF Fifo!vars
<1>7. ASSUME m = DEQ, ~Has(Unhandled, DEQ), ~Has(Unhandled, FLU),
             mRenderingQueue # <<>>, held' = held \cup {Head(mRenderingQueue)}
      PROVE  Fifo!HandBack
  <2>1. m.id # "RENDER" /\ m # FLU
    BY <1>7, Requests, Apart DEF DEQ
  <2>2. HandedOver = mRenderingQueue \o coming /\ HandedOver' = Tail(mRenderingQueue) \o coming
    BY <1>2, <1>3, <1>4, <1>7, <2>1 DEF kept, Kept
  <2>3. /\ HandedOver # <<>> /\ Head(HandedOver) = Head(mRenderingQueue)
        /\ HandedOver' = Tail(HandedOver)
    <3>1. Head(mRenderingQueue) \in Buffers
      BY <1>1, <1>7, Ends
    <3>2. /\ mRenderingQueue \o coming # <<>>
          /\ Head(mRenderingQueue \o coming) = Head(mRenderingQueue)
          /\ Tail(mRenderingQueue \o coming) = Tail(mRenderingQueue) \o coming
      BY <1>1, <1>7, <3>1, TakeParts
    <3>. QED
      BY <2>2, <3>2
  <2>4. Doomed = 0 /\ Doomed' = 0
    <3>1. ~Has(Append(Unhandled, m), FLU) /\ Append(Unhandled, m) \in Seq(Message)
      BY <1>1, <1>7, <2>1, AfterAppend
    <3>. QED
      BY <1>1, <1>2, <1>7, <3>1, FatedNone
  <2>. QED
    BY <1>7, <2>3, <2>4 DEF Fifo!HandBack
<1>8. ASSUME m = FLU, held' = held
      PROVE  Fifo!AskFlush
  <2>1. m.id # "RENDER" /\ m # DEQ
    BY <1>8, Requests, Apart DEF FLU
  <2>2. HandedOver' = HandedOver
    BY <1>2, <1>3, <1>4, <2>1
  <2>3. Len(HandedOver) = Len(kept) + Len(coming)
    BY <1>1, <1>2
  <2>. QED
    BY <1>4, <1>8, <2>1, <2>2, <2>3 DEF Fifo!AskFlush
<1>9. \A b \in Buffers : m = Render(b) /\ b \in held /\ held' = held \ {b}
           => Fifo!HandOver(b)
  BY <1>5
<1>. QED
  BY <1>6, <1>7, <1>8, <1>9

\* Handling a message: its buffer joins the vector, the vector loses the buffer
\* the player has had back already, or it is emptied.
LEMMA FifoHandle ==
    ASSUME TypeOK, TypeOK', Ownership, Ownership', LastFlushed, raced' = raced, held' = held,
           Unhandled # <<>>, Unhandled' = Tail(Unhandled)
    PROVE  /\ \A b \in Buffers : /\ Head(Unhandled) = Render(b)
                                 /\ mRenderingQueue' = Append(mRenderingQueue, b)
                 => UNCHANGED Fifo!vars
           /\ Head(Unhandled) = Request("EXIT") /\ mRenderingQueue' = mRenderingQueue
                 => UNCHANGED Fifo!vars
           /\ Head(Unhandled) = DEQ /\ mRenderingQueue' = Tail(mRenderingQueue)
                 => UNCHANGED Fifo!vars
           /\ Head(Unhandled) = FLU /\ mRenderingQueue' = <<>>
                 => \E n \in 0 .. Doomed : Fifo!DoFlush(n)
<1> DEFINE kept == Kept(Unhandled, mRenderingQueue)
           coming == Coming(Tail(Unhandled))
           kept1 == Kept(Unhandled', mRenderingQueue')
           n == Len(kept)
<1>1. /\ Unhandled \in Seq(Message) /\ Tail(Unhandled) \in Seq(Message)
      /\ Head(Unhandled) \in Message /\ mRenderingQueue \in Seq(Buffers)
      /\ kept \in Seq(Buffers) /\ coming \in Seq(Buffers) /\ n \in Nat
  <2>1. Unhandled \in Seq(Message) /\ mRenderingQueue \in Seq(Buffers)
    BY QueueSeq
  <2>2. Head(Unhandled) \in Message /\ Tail(Unhandled) \in Seq(Message)
    BY <2>1, HeadTailProperties
  <2>3. kept \in Seq(Buffers) /\ n \in Nat
    BY Mapped
  <2>4. coming \in Seq(Buffers)
    BY <2>2, ComingIs
  <2>. QED
    BY <2>1, <2>2, <2>3, <2>4
<1>2. /\ HandedOver = kept \o Coming(Unhandled)
      /\ HandedOver' = kept1 \o coming
      /\ Doomed = Fated(Unhandled, n)
      /\ Doomed' = Fated(Tail(Unhandled), Len(kept1))
      /\ Has(Unhandled, DEQ) => mRenderingQueue # <<>>
  BY Mapped DEF Given
<1>3. /\ Has(Unhandled, DEQ) <=> Head(Unhandled) = DEQ \/ Has(Unhandled', DEQ)
      /\ Head(Unhandled) = DEQ => ~Has(Unhandled', DEQ)
  BY <1>1, AfterTail DEF OneRemoval, Ownership
<1>4. /\ Coming(Unhandled) = IF Head(Unhandled).id = "RENDER"
                             THEN <<Head(Unhandled).buf>> \o coming ELSE coming
      /\ Head(Unhandled) # FLU /\ Head(Unhandled).id # "RENDER"
            => Fated(Tail(Unhandled), n) = Doomed
      /\ Head(Unhandled) # FLU /\ Head(Unhandled).id = "RENDER"
            => Fated(Tail(Unhandled), n + 1) = Doomed
      /\ Head(Unhandled) = FLU => Doomed = n + Fated(Tail(Unhandled), 0)
      /\ Fated(Tail(Unhandled), 0) \in Nat
  BY <1>1, <1>2, ComingTail, FatedTail DEF LastFlushed
<1> HIDE DEF coming, kept, kept1
<1>5. ASSUME NEW b \in Buffers, Head(Unhandled) = Render(b),
             mRenderingQueue' = Append(mRenderingQueue, b)
      PROVE  UNCHANGED Fifo!vars
  <2>1. Head(Unhandled).id = "RENDER" /\ Head(Unhandled).buf = b
        /\ Head(Unhandled) # DEQ /\ Head(Unhandled) # FLU
    BY <1>5, Requests, Apart
  <2>2. kept1 = Append(kept, b)
    <3>1. mRenderingQueue # <<>> => Tail(mRenderingQueue') = Append(Tail(mRenderingQueue), b)
      BY <1>1, <1>5, TakeParts
    <3>. QED
      BY <1>2, <1>3, <1>5, <2>1, <3>1 DEF kept, kept1, Kept
  <2>3. HandedOver' = HandedOver
    <3>1. Append(kept, b) \o coming = kept \o (<<b>> \o coming)
      BY <1>1, ConcatAppend
    <3>. QED
      BY <1>2, <1>4, <2>1, <2>2, <3>1
  <2>4. Doomed' = Doomed
    <3>1. Len(kept1) = n + 1
      BY <1>1, <2>2
    <3>. QED
      BY <1>2, <1>4, <2>1, <3>1
  <2>. QED
    BY <2>3, <2>4 DEF Fifo!vars
<1>6. ASSUME Head(Unhandled) = Request("EXIT"), mRenderingQueue' = mRenderingQueue
      PROVE  UNCHANGED Fifo!vars
  <2>1. Head(Unhandled).id # "RENDER" /\ Head(Unhandled) # DEQ /\ Head(Unhandled) # FLU
    BY <1>6, Requests, Apart
  <2>. QED
    BY <1>2, <1>3, <1>4, <1>6, <2>1 DEF Fifo!vars, kept, kept1, Kept
<1>7. ASSUME Head(Unhandled) = DEQ, mRenderingQueue' = Tail(mRenderingQueue)
      PROVE  UNCHANGED Fifo!vars
  <2>1. Head(Unhandled).id # "RENDER" /\ Head(Unhandled) # FLU
    BY <1>7, Requests, Apart DEF DEQ
  <2>2. kept1 = kept
    BY <1>3, <1>7 DEF kept, kept1, Kept
  <2>. QED
    BY <1>2, <1>4, <2>1, <2>2 DEF Fifo!vars
<1>8. ASSUME Head(Unhandled) = FLU, mRenderingQueue' = <<>>
      PROVE  \E i \in 0 .. Doomed : Fifo!DoFlush(i)
  <2>1. Head(Unhandled).id # "RENDER" /\ Head(Unhandled) # DEQ
    BY <1>8, Requests, Apart DEF FLU
  <2>2. ~Has(Unhandled, DEQ) /\ ~Has(Unhandled', DEQ)
    <3>1. ~Has(Unhandled, DEQ)
      BY <1>1, <1>8, AfterTail DEF OneRemoval, Ownership
    <3>. QED
      BY <1>3, <3>1
  <2>3. kept1 = <<>> /\ Len(kept1) = 0
    BY <1>8, <2>2 DEF kept1, Kept
  <2>4. HandedOver = kept \o coming /\ HandedOver' = coming
    <3>1. <<>> \o coming = coming
      BY <1>1
    <3>. QED
      BY <1>2, <1>4, <2>1, <2>3, <3>1
  <2>5. n \in 0 .. Doomed /\ Doomed' = Doomed - n
    BY <1>1, <1>2, <1>4, <1>8, <2>3
  <2>6. SubSeq(HandedOver, n + 1, Len(HandedOver)) = coming
    BY <1>1, <2>4, SubSeqConcat
  <2>7. Fifo!DoFlush(n)
    BY <2>4, <2>5, <2>6 DEF Fifo!DoFlush
  <2>. QED
    BY <2>5, <2>7
<1>. QED
  BY <1>5, <1>6, <1>7, <1>8

LEMMA FifoAllocate ==
    ASSUME TypeOK, TypeOK', Ownership, Ownership', NEW b \in Buffers, AllocateBuffer(b)
    PROVE  Fifo!Allocate(b)
<1> DEFINE kept == Kept(Unhandled, mRenderingQueue)
           coming == Coming(Unhandled)
<1>1. /\ Unhandled' = Unhandled /\ mRenderingQueue' = mRenderingQueue
      /\ held' = held \cup {b} /\ b \notin allocated
  BY UnhandledSame DEF AllocateBuffer
<1>2. b \notin held /\ ~Stored(b) /\ ~Moving(b)
  BY <1>1 DEF Owners, Ownership
<1>3. HandedOver = kept \o coming /\ HandedOver' = HandedOver /\ Doomed' = Doomed
  BY <1>1, Mapped DEF Given
<1>4. Unhandled \in Seq(Message) /\ mRenderingQueue \in Seq(Buffers)
  BY QueueSeq
<1>5. kept \in Seq(Buffers) /\ coming \in Seq(Buffers)
  BY <1>4, Mapped, ComingIs
<1>6. ~Has(kept, b)
  <2>1. CASE Has(Unhandled, DEQ)
    <3>1. mRenderingQueue # <<>>
      BY <2>1, Mapped
    <3>2. Has(mRenderingQueue, b) => b = Head(mRenderingQueue)
      BY <1>2, <2>1 DEF Stored
    <3>3. Once(mRenderingQueue, b)
      BY DEF OncePerBuffer, Ownership
    <3>4. ~Has(Tail(mRenderingQueue), b)
      BY <1>4, <3>1, <3>2, <3>3, AfterTail
    <3>. QED
      BY <2>1, <3>4 DEF Kept
  <2>2. CASE ~Has(Unhandled, DEQ)
    BY <1>2, <2>2 DEF Stored, Kept
  <2>. QED
    BY <2>1, <2>2
<1>7. \A i \in 1 .. Len(coming) : coming[i] # b
  BY <1>2, <1>4, ComingHas DEF Moving
<1> HIDE DEF kept, coming
<1>8. \A i \in DOMAIN (kept \o coming) : (kept \o coming)[i] # b
  <2> SUFFICES ASSUME NEW i \in DOMAIN (kept \o coming)
               PROVE  (kept \o coming)[i] # b
    OBVIOUS
  <2>1. CASE i \in 1 .. Len(kept)
    <3>1. (kept \o coming)[i] = kept[i] /\ i \in DOMAIN kept
      BY <1>5, <2>1
    <3>. QED
      BY <1>6, <3>1 DEF Has
  <2>2. CASE i \notin 1 .. Len(kept)
    <3>1. (kept \o coming)[i] = coming[i - Len(kept)] /\ i - Len(kept) \in 1 .. Len(coming)
      BY <1>5, <2>2
    <3>. QED
      BY <1>7, <3>1
  <2>. QED
    BY <2>1, <2>2
<1>. QED
  BY <1>1, <1>2, <1>3, <1>8 DEF Fifo!Allocate

LEMMA FifoRemain ==
    ASSUME TypeOK, TypeOK', Ownership, Ownership', NEW b \in Buffers, RemainBuffer(b)
    PROVE  Fifo!HandOver(b)
<1>1. /\ Unhandled = <<>> /\ Unhandled' = <<>>
      /\ mRenderingQueue' = Append(mRenderingQueue, b)
      /\ held' = held \ {b} /\ b \in held
  BY UnhandledSame DEF RemainBuffer
<1>2. /\ mRenderingQueue \in Seq(Buffers) /\ Append(mRenderingQueue, b) \in Seq(Buffers)
  BY QueueSeq
<1>3. \A x : ~Has(<<>>, x)
  BY DEF Has
<1>4. /\ HandedOver = mRenderingQueue \o <<>> /\ HandedOver' = mRenderingQueue' \o <<>>
      /\ Doomed = 0 /\ Doomed' = 0
  <2>1. <<>> \in Seq(Message)
    OBVIOUS
  <2>. QED
    BY <1>1, <1>3, <2>1, Mapped, ComingNone, FatedNone DEF Given, Kept
<1>5. HandedOver' = Append(HandedOver, b)
  BY <1>1, <1>2, <1>4
<1>. QED
  BY <1>1, <1>4, <1>5 DEF Fifo!HandOver

LEMMA FifoClose ==
    ASSUME TypeOK, TypeOK', Protocol, Ownership, Ownership', Release
    PROVE  Fifo!Close
<1>1. /\ phase = "exit" /\ receiver.at = "gone" /\ held' = held
      /\ mRenderingQueue' = <<>> /\ Unhandled' = Unhandled
  BY UnhandledSame DEF Release, ThreadJoin
<1>2. Unhandled' = <<>>
  BY <1>1 DEF Protocol, ThreadUp
<1>3. \A x : ~Has(<<>>, x)
  BY DEF Has
<1>4. HandedOver' = <<>> \o <<>> /\ Doomed' = 0
  <2>1. <<>> \in Seq(Message)
    OBVIOUS
  <2>. QED
    BY <1>1, <1>2, <1>3, <2>1, Mapped, ComingNone, FatedNone DEF Given, Kept
<1>. QED
  BY <1>1, <1>4 DEF Fifo!Close

LEMMA FifoStep ==
    ASSUME TypeOK, TypeOK', Protocol, Ownership, Ownership', LastFlushed, ~raced',
           [Next]_vars
    PROVE  [Fifo!Operation /\ UNCHANGED raced]_Fifo!vars
<1>b. raced' = raced
  BY RacedStays
<1> USE <1>b
<1>0. /\ Unhandled \in Seq(Message) /\ MinUndequeued \in Nat
      /\ receiver \in [at : MQ!Places, msg : Message, status : {"NO_ERROR"}]
  BY QueueTypes, QueueSeq
<1>1. CASE SetSidebandStream
  <2>1. Unhandled' = Unhandled
    BY <1>1, QueueTypes DEF SetSidebandStream, ThreadRun, AllocateSidebandHandle, Protocol, Unhandled
  <2>. QED
    BY <1>1, <2>1, FifoStutter DEF SetSidebandStream, bufferVars
<1>2. ASSUME NEW b \in Buffers, AllocateBuffer(b)
      PROVE  Fifo!Operation
  BY <1>2, FifoAllocate DEF Fifo!Operation
<1>3. ASSUME NEW b \in Buffers, FreeBuffer(b)
      PROVE  Fifo!Operation
  <2>1. /\ Unhandled' = Unhandled /\ mRenderingQueue' = mRenderingQueue
        /\ b \in held /\ held' = held \ {b}
    BY <1>3, UnhandledSame DEF FreeBuffer
  <2>2. HandedOver' = HandedOver /\ Doomed' = Doomed
    BY <2>1, Mapped
  <2>. QED
    BY <2>1, <2>2 DEF Fifo!Operation, Fifo!Free
<1>4. ASSUME NEW b \in Buffers, RemainBuffer(b)
      PROVE  Fifo!Operation
  BY <1>4, FifoRemain DEF Fifo!Operation
<1>5. ASSUME NEW b \in Buffers, QueueBuffer(b)
      PROVE  Fifo!Operation
  <2>1. /\ Unhandled' = Append(Unhandled, Render(b)) /\ mRenderingQueue' = mRenderingQueue
        /\ b \in held /\ held' = held \ {b} /\ Render(b) \in Message
    BY <1>5, UnhandledSend, Apart DEF QueueBuffer
  <2>2. Fifo!HandOver(b)
    BY <2>1, FifoSend
  <2>. QED
    BY <2>2 DEF Fifo!Operation
<1>6. CASE DequeueSize \/ DequeueFront \/ PlayerWait \/ UNCHANGED vars
  <2>1. UNCHANGED <<Unhandled, mRenderingQueue, held>>
    BY <1>6, UnhandledSame DEF DequeueSize, DequeueFront, PlayerWait, vars, bufferVars
  <2>. QED
    BY <2>1, FifoStutter
<1>7. CASE DequeueSend
  <2>1. /\ Unhandled' = Append(Unhandled, DEQ) /\ mRenderingQueue' = mRenderingQueue
        /\ held' = held \cup {front} /\ phase = "send" /\ DEQ \in Message
    BY <1>7, UnhandledSend, Apart DEF DequeueSend, DEQ
  <2>2. /\ ~Has(Unhandled, DEQ) /\ ~Has(Unhandled, FLU)
        /\ Len(mRenderingQueue) > MinUndequeued /\ front = Head(mRenderingQueue)
    BY <2>1 DEF OneRemoval, Ownership
  <2>3. mRenderingQueue # <<>>
    BY <1>0, <2>2
  <2>4. Fifo!HandBack
    BY <2>1, <2>2, <2>3, FifoSend
  <2>. QED
    BY <2>4 DEF Fifo!Operation
<1>8. CASE Flush
  <2>1. /\ Unhandled' = Append(Unhandled, FLU) /\ FLU \in Message
        /\ mRenderingQueue' = mRenderingQueue /\ held' = held
    BY <1>8, UnhandledSend, Apart DEF Flush, FLU, bufferVars
  <2>3. Fifo!AskFlush
    BY <2>1, FifoSend
  <2>. QED
    BY <2>3 DEF Fifo!Operation
<1>9. CASE Destroy
  <2>1. /\ Unhandled' = Append(Unhandled, Request("EXIT")) /\ Request("EXIT") \in Message
        /\ mRenderingQueue' = mRenderingQueue /\ held' = held
    BY <1>9, UnhandledSend, Requests DEF Destroy, bufferVars
  <2>2. UNCHANGED Fifo!vars
    BY <2>1, FifoSend
  <2>. QED
    BY <2>2
<1>10. CASE Release
  BY <1>10, FifoClose DEF Fifo!Operation
<1>11. CASE RenderReceive \/ RenderReply
  <2>1. UNCHANGED <<Unhandled, mRenderingQueue, held>>
    BY <1>11, UnhandledReceive, UnhandledReply DEF RenderReceive, RenderReply, bufferVars
  <2>. QED
    BY <2>1, FifoStutter
<1>12. CASE HandleExit
  <2>1. /\ Unhandled # <<>> /\ Head(Unhandled) = Request("EXIT")
        /\ Unhandled' = Tail(Unhandled) /\ mRenderingQueue' = mRenderingQueue /\ held' = held
    <3>1. receiver.msg = Request("EXIT")
      BY <1>0, <1>12, Requests DEF HandleExit
    <3>. QED
      BY <1>12, <3>1, UnhandledHandled DEF HandleExit, bufferVars
  <2>2. UNCHANGED Fifo!vars
    BY <2>1, FifoHandle
  <2>. QED
    BY <2>2
<1>13. CASE HandleRender
  <2>1. PICK b \in Buffers : receiver.msg = Render(b)
    BY <1>0, <1>13, Requests DEF HandleRender
  <2>2. /\ Unhandled # <<>> /\ Head(Unhandled) = Render(b)
        /\ Unhandled' = Tail(Unhandled) /\ held' = held
        /\ mRenderingQueue' = Append(mRenderingQueue, b)
    BY <1>13, <2>1, UnhandledHandled, Requests DEF HandleRender
  <2>3. UNCHANGED Fifo!vars
    BY <2>2, FifoHandle
  <2>. QED
    BY <2>3
<1>14. CASE HandleDequeue
  <2>1. receiver.msg = DEQ
    BY <1>0, <1>14, Requests DEF HandleDequeue, DEQ
  <2>2. Unhandled # <<>> /\ Head(Unhandled) = DEQ
    BY <1>14, <2>1, QueueTypes, PushConcat DEF HandleDequeue, Unhandled
  <2>3. mRenderingQueue # <<>>
    <3>1. Has(Unhandled, DEQ)
      BY <1>0, <2>2, AfterTail
    <3>. QED
      BY <3>1, Mapped
  <2>4. /\ Unhandled' = Tail(Unhandled) /\ held' = held
        /\ mRenderingQueue' = Tail(mRenderingQueue)
    BY <1>14, <2>3, UnhandledHandled DEF HandleDequeue
  <2>5. UNCHANGED Fifo!vars
    BY <2>2, <2>4, FifoHandle
  <2>. QED
    BY <2>5
<1>15. CASE HandleFlush
  <2>1. receiver.msg = FLU
    BY <1>0, <1>15, Requests DEF HandleFlush, FLU
  <2>2. /\ Unhandled # <<>> /\ Head(Unhandled) = FLU
        /\ Unhandled' = Tail(Unhandled) /\ mRenderingQueue' = <<>> /\ held' = held
    BY <1>15, <2>1, UnhandledHandled DEF HandleFlush
  <2>3. \E n \in 0 .. Doomed : Fifo!DoFlush(n)
    BY <2>2, FifoHandle
  <2>. QED
    BY <2>3 DEF Fifo!Operation
<1>. QED
  BY <1>1, <1>2, <1>3, <1>4, <1>5, <1>6, <1>7, <1>8, <1>9, <1>10, <1>11, <1>12,
     <1>13, <1>14, <1>15, NoFreedUsed
  DEF Next, PlayerStep, RenderStep, Done

\* The window implements the queue of buffers of BufferFifo, step by step, for
\* every number of buffers and of messages and every MinUndequeued: queueBuffer
\* and remainBuffer add to its end, dequeueBuffer returns its head and flush
\* frees what was handed over before it, whatever the render thread does
\* between two calls of the player, until a dequeue begins while a removal is to
\* come.
THEOREM WindowIsFifo == SafeSpec => ImplementsFifo
<1>1. Init => Fifo!Init
  <2> SUFFICES ASSUME Init
               PROVE  Fifo!Init
    OBVIOUS
  <2>1. /\ Unhandled = <<>> /\ mRenderingQueue = <<>> /\ held = {} /\ raced = FALSE
    BY DEF Init, Unhandled
  <2>2. (\A x : ~Has(<<>>, x)) /\ <<>> \in Seq(Message)
    BY DEF Has
  <2>3. HandedOver = <<>> \o <<>>
    BY <2>1, <2>2, GivenIs, ComingNone DEF Given, Kept
  <2>4. Doomed = 0
    BY <2>1, <2>2, FatedIs, FatedNone
  <2>. QED
    BY <2>1, <2>3, <2>4 DEF Fifo!Init
<1>2. TypeOK /\ TypeOK' /\ Protocol /\ LastFlushed
      /\ (~raced => Ownership) /\ (~raced => Ownership)' /\ [Next]_vars
      => [Fifo!Next]_Fifo!vars
  <2> SUFFICES ASSUME TypeOK, TypeOK', Protocol, LastFlushed,
                      ~raced => Ownership, (~raced => Ownership)', [Next]_vars
               PROVE  [Fifo!Next]_Fifo!vars
    OBVIOUS
  <2>1. CASE raced'
    <3>1. raced' = TRUE
      BY <2>1 DEF TypeOK
    <3>. QED
      BY <3>1 DEF Fifo!Next, Fifo!Break
  <2>2. CASE ~raced'
    <3>1. Ownership /\ Ownership'
      BY <2>2, RacedStays
    <3>2. [Fifo!Operation /\ UNCHANGED raced]_Fifo!vars
      BY <2>2, <3>1, FifoStep
    <3>. QED
      BY <3>2 DEF Fifo!Next
  <2>. QED
    BY <2>1, <2>2
<1>. QED
  BY <1>1, <1>2, TypeCorrect, ProtocolHolds, OwnershipHolds, LastFlushedHolds, PTL
  DEF SafeSpec, ImplementsFifo, Fifo!Spec
===========================================================================
