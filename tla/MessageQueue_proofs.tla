----------------------- MODULE MessageQueue_proofs ------------------------
(***************************************************************************)
(* Proofs about MessageQueue, for any number of senders and any messages.  *)
(* The argument: Pending is only ever appended to (a send) and beheaded (a *)
(* reply), and a synchronous sender has exactly one message in it from the *)
(* push of its message to the reply to it.                                 *)
(***************************************************************************)
EXTENDS MessageQueue, SequenceTheorems, TLAPS

\* An element taken from a list and put in front of the rest is the list.
LEMMA HeadTailConcat ==
    ASSUME NEW S, NEW s \in Seq(S), s # <<>>
    PROVE  /\ Head(s) \in S
           /\ Tail(s) \in Seq(S)
           /\ <<Head(s)>> \o Tail(s) = s
<1>1. Head(s) \in S /\ Tail(s) \in Seq(S) /\ Len(Tail(s)) = Len(s) - 1 /\ Len(s) > 0
  OBVIOUS
<1>2. <<Head(s)>> \o Tail(s) \in Seq(S)
  BY <1>1
<1>3. Len(<<Head(s)>> \o Tail(s)) = Len(s)
  BY <1>1
<1>4. \A i \in 1 .. Len(s) : (<<Head(s)>> \o Tail(s))[i] = s[i]
  BY <1>1
<1>. QED
  BY <1>1, <1>2, <1>3, <1>4, SeqEqual

\* Adding at the end and taking at the front do not meet.
LEMMA PushConcat ==
    ASSUME NEW S, NEW s \in Seq(S), NEW m \in S, NEW n \in S
    PROVE  /\ <<n>> \o s \in Seq(S)
           /\ <<n>> \o Append(s, m) = Append(<<n>> \o s, m)
           /\ Head(<<n>> \o s) = n
           /\ Tail(<<n>> \o s) = s
           /\ <<n>> \o s # <<>>
<1>1. <<n>> \o s \in Seq(S) /\ Len(<<n>> \o s) = Len(s) + 1
  OBVIOUS
<1>2. <<n>> \o Append(s, m) = Append(<<n>> \o s, m)
  <2>1. <<n>> \o Append(s, m) \in Seq(S) /\ Append(<<n>> \o s, m) \in Seq(S)
    BY <1>1
  <2>2. Len(<<n>> \o Append(s, m)) = Len(Append(<<n>> \o s, m))
    BY <1>1
  <2>3. \A i \in 1 .. Len(<<n>> \o Append(s, m)) :
           (<<n>> \o Append(s, m))[i] = Append(<<n>> \o s, m)[i]
    BY <1>1
  <2>. QED
    BY <2>1, <2>2, <2>3, SeqEqual
<1>3. Head(<<n>> \o s) = n
  BY <1>1
<1>4. Tail(<<n>> \o s) = s
  <2>1. Tail(<<n>> \o s) \in Seq(S) /\ Len(Tail(<<n>> \o s)) = Len(s)
    BY <1>1
  <2>2. \A i \in 1 .. Len(s) : Tail(<<n>> \o s)[i] = s[i]
    BY <1>1
  <2>. QED
    BY <2>1, <2>2, SeqEqual
<1>. QED
  BY <1>1, <1>2, <1>3, <1>4
----------------------------------------------------------------------------

\* The states of the queue have the types the code declares.
THEOREM TypeCorrect == SafeSpec => []TypeOK
<1>1. Init => TypeOK
  BY DEF Init, TypeOK, Places
<1>2. TypeOK /\ [Next]_vars => TypeOK'
  <2> SUFFICES ASSUME TypeOK, [Next]_vars
               PROVE  TypeOK'
    OBVIOUS
  <2> USE DEF TypeOK, Places
  <2>1. ASSUME NEW c \in Callers, NEW m \in Message, Send(c, m)
        PROVE  TypeOK'
    BY <2>1 DEF Send, NotifyReceiver
  <2>2. ASSUME NEW c \in Callers, NEW m \in Message, SendSync(c, m)
        PROVE  TypeOK'
    <3>1. mList' \in Seq(Message)
      BY <2>2 DEF SendSync
    <3>2. mReplyStatus' \in [SyncIds -> Status \cup {"WOULD_BLOCK"}]
      BY <2>2 DEF SendSync
    <3>3. caller' \in [Callers -> {"running", "checking", "waiting"}]
      BY <2>2 DEF SendSync
    <3>4. receiver' \in [at : Places, msg : Message, status : Status]
      BY <2>2 DEF SendSync, NotifyReceiver
    <3>. QED
      BY <3>1, <3>2, <3>3, <3>4
  <2>3. ASSUME NEW c \in Callers, CheckReply(c)
        PROVE  TypeOK'
    BY <2>3 DEF CheckReply
  <2>4. ASSUME NEW c \in Callers, WakeCaller(c)
        PROVE  TypeOK'
    BY <2>4 DEF WakeCaller
  <2>5. CASE Receive
    <3>1. CASE mList = <<>>
      BY <2>5, <3>1 DEF Receive
    <3>2. CASE mList # <<>>
      <4>1. Head(mList) \in Message /\ Tail(mList) \in Seq(Message)
        BY <3>2, HeadTailProperties
      <4>2. /\ receiver' = [receiver EXCEPT !.at = "handling", !.msg = Head(mList)]
            /\ mList' = Tail(mList)
            /\ UNCHANGED <<mReplyStatus, caller>>
        BY <2>5, <3>2 DEF Receive
      <4>. QED
        BY <4>1, <4>2
    <3>. QED
      BY <3>1, <3>2
  <2>6. CASE WakeReceiver
    BY <2>6 DEF WakeReceiver
  <2>7. ASSUME NEW s \in Status, Handled(s)
        PROVE  TypeOK'
    BY <2>7 DEF Handled
  <2>8. CASE Reply("receiving")
    BY <2>8 DEF Reply
  <2>9. CASE UNCHANGED vars
    BY <2>9 DEF vars
  <2>. QED
    BY <2>1, <2>2, <2>3, <2>4, <2>5, <2>6, <2>7, <2>8, <2>9 DEF Next
<1>. QED
  BY <1>1, <1>2, PTL DEF SafeSpec

\* The receiver sleeps only on an empty list: whoever adds a message wakes it.
THEOREM ReceiverIsAwake == SafeSpec => []ReceiverAwake
<1>1. Init => ReceiverAwake
  BY DEF Init, ReceiverAwake
<1>2. TypeOK /\ ReceiverAwake /\ [Next]_vars => ReceiverAwake'
  <2> SUFFICES ASSUME TypeOK, ReceiverAwake, [Next]_vars
               PROVE  ReceiverAwake'
    OBVIOUS
  <2> USE DEF TypeOK, ReceiverAwake
  <2>1. ASSUME NEW c \in Callers, NEW m \in Message, Send(c, m) \/ SendSync(c, m)
        PROVE  ReceiverAwake'
    BY <2>1 DEF Send, SendSync, NotifyReceiver
  <2>2. ASSUME NEW c \in Callers, CheckReply(c) \/ WakeCaller(c)
        PROVE  ReceiverAwake'
    BY <2>2 DEF CheckReply, WakeCaller
  <2>3. CASE Receive \/ WakeReceiver
    BY <2>3 DEF Receive, WakeReceiver
  <2>4. ASSUME NEW s \in Status, Handled(s)
        PROVE  ReceiverAwake'
    BY <2>4 DEF Handled
  <2>5. CASE Reply("receiving")
    BY <2>5 DEF Reply
  <2>6. CASE UNCHANGED vars
    BY <2>6 DEF vars
  <2>. QED
    BY <2>1, <2>2, <2>3, <2>4, <2>5, <2>6 DEF Next
<1>. QED
  BY <1>1, <1>2, TypeCorrect, PTL DEF SafeSpec
---------------------------------------------------------------------------
\* What the steps do to Pending.
LEMMA PendingType ==
    TypeOK => Pending \in Seq(Message)
BY PushConcat DEF TypeOK, Pending

LEMMA PendingSend ==
    ASSUME TypeOK, NEW c \in Callers, NEW m \in Message,
           Send(c, m) \/ SendSync(c, m)
    PROVE  Pending' = Append(Pending, m)
<1>1. receiver'.msg = receiver.msg /\ mList' = Append(mList, m)
  BY DEF Send, SendSync, NotifyReceiver, TypeOK
<1>2. receiver'.at \in {"handling", "replying"} <=> receiver.at \in {"handling", "replying"}
  BY DEF Send, SendSync, NotifyReceiver, TypeOK
<1>3. mList \in Seq(Message) /\ receiver.msg \in Message
  BY DEF TypeOK
<1>. QED
  BY <1>1, <1>2, <1>3, PushConcat DEF Pending

LEMMA PendingReceive ==
    ASSUME TypeOK, Receive
    PROVE  Pending' = Pending
<1>1. CASE mList = <<>>
  BY <1>1 DEF Receive, TypeOK, Pending
<1>2. CASE mList # <<>>
  <2>1. /\ receiver'.at = "handling" /\ receiver'.msg = Head(mList)
        /\ mList' = Tail(mList) /\ receiver.at = "receiving"
    BY <1>2 DEF Receive, TypeOK
  <2>2. <<Head(mList)>> \o Tail(mList) = mList
    BY <1>2, HeadTailConcat DEF TypeOK
  <2>. QED
    BY <2>1, <2>2 DEF Pending
<1>. QED
  BY <1>1, <1>2

LEMMA PendingSame ==
    ASSUME TypeOK,
           \/ \E c \in Callers : CheckReply(c) \/ WakeCaller(c)
           \/ WakeReceiver
           \/ \E s \in Status : Handled(s)
           \/ UNCHANGED vars
    PROVE  Pending' = Pending
BY DEF TypeOK, Pending, CheckReply, WakeCaller, WakeReceiver, Handled, vars

LEMMA PendingReply ==
    ASSUME TypeOK, Reply("receiving")
    PROVE  /\ Pending # <<>>
           /\ Head(Pending) = receiver.msg
           /\ Pending' = Tail(Pending)
<1>1. Pending = <<receiver.msg>> \o mList
  BY DEF Reply, Pending
<1>2. Pending' = mList
  BY DEF Reply, Pending, TypeOK
<1>. QED
  BY <1>1, <1>2, PushConcat DEF TypeOK

\* Where an id occurs after a message was added, and after the first was taken.
LEMMA PositionsAppend ==
    ASSUME NEW s \in Seq(Message), NEW m \in Message, NEW id
    PROVE  Positions(Append(s, m), id) =
              Positions(s, id) \cup (IF m.id = id THEN {Len(s) + 1} ELSE {})
BY DEF Positions

LEMMA PositionsTail ==
    ASSUME NEW s \in Seq(Message), s # <<>>, NEW id
    PROVE  /\ 1 \in Positions(s, id) <=> Head(s).id = id
           /\ Positions(Tail(s), id) = {i - 1 : i \in Positions(s, id) \ {1}}
           /\ \A i \in Positions(s, id) : i \in Nat
<1>1. /\ DOMAIN s = 1 .. Len(s) /\ DOMAIN Tail(s) = 1 .. Len(s) - 1
      /\ Len(s) \in Nat \ {0}
      /\ \A i \in 1 .. Len(s) - 1 : Tail(s)[i] = s[i + 1]
  OBVIOUS
<1>2. ASSUME NEW j \in Positions(Tail(s), id)
      PROVE  \E i \in Positions(s, id) \ {1} : j = i - 1
  <2>1. j + 1 \in Positions(s, id) \ {1} /\ j = (j + 1) - 1
    BY <1>1, <1>2 DEF Positions
  <2>. QED
    BY <2>1
<1>3. ASSUME NEW i \in Positions(s, id) \ {1}
      PROVE  i - 1 \in Positions(Tail(s), id)
  BY <1>1, <1>3 DEF Positions
<1>4. 1 \in Positions(s, id) <=> Head(s).id = id
  BY <1>1 DEF Positions
<1>5. \A i \in Positions(s, id) : i \in Nat
  BY <1>1 DEF Positions
<1>. QED
  BY <1>2, <1>3, <1>4, <1>5
---------------------------------------------------------------------------
\* What the steps do to Answer.
LEMMA SyncIdFacts ==
    \A c \in Callers : /\ SyncId[c] \in SyncIds
                       /\ \A d \in Callers : SyncId[c] = SyncId[d] => c = d
BY SyncIdAssumption DEF SyncIds

LEMMA AnswerSame ==
    ASSUME TypeOK,
           \/ \E c \in Callers, m \in Message : Send(c, m)
           \/ \E c \in Callers : WakeCaller(c)
           \/ Receive \/ WakeReceiver
           \/ \E s \in Status : Handled(s)
           \/ UNCHANGED vars
    PROVE  Answer' = Answer
<1>1. mReplyStatus' = mReplyStatus
  BY DEF Send, WakeCaller, Receive, WakeReceiver, Handled, vars
<1>2. \A c \in Callers : caller'[c] = "running" <=> caller[c] = "running"
  BY DEF TypeOK, Send, WakeCaller, Receive, WakeReceiver, Handled, vars
<1>. QED
  BY <1>1, <1>2 DEF Answer

LEMMA AnswerSendSync ==
    ASSUME TypeOK, NEW c \in Callers, NEW m \in Message, SendSync(c, m)
    PROVE  /\ Answer[c] = "idle"
           /\ Answer' = [Answer EXCEPT ![c] = "waiting"]
<1>1. Answer[c] = "idle"
  BY DEF SendSync, Answer
<1>2. caller'[c] = "checking" /\ mReplyStatus'[SyncId[c]] = "WOULD_BLOCK"
  BY SyncIdFacts DEF SendSync, TypeOK
<1>3. \A d \in Callers \ {c} : /\ caller'[d] = caller[d]
                               /\ mReplyStatus'[SyncId[d]] = mReplyStatus[SyncId[d]]
  BY SyncIdFacts DEF SendSync, TypeOK
<1>. QED
  BY <1>1, <1>2, <1>3 DEF Answer

LEMMA AnswerCheck ==
    ASSUME TypeOK, NEW c \in Callers, CheckReply(c)
    PROVE  \/ Answer' = Answer
           \/ /\ Answer[c] \in Status
              /\ Answer' = [Answer EXCEPT ![c] = "idle"]
<1>1. CASE mReplyStatus[SyncId[c]] = "WOULD_BLOCK"
  <2>1. \A d \in Callers : caller'[d] = "running" <=> caller[d] = "running"
    BY <1>1 DEF CheckReply, TypeOK
  <2>. QED
    BY <2>1 DEF CheckReply, Answer
<1>2. CASE mReplyStatus[SyncId[c]] # "WOULD_BLOCK"
  <2>1. Answer[c] \in Status
    BY <1>2, SyncIdFacts DEF CheckReply, TypeOK, Answer
  <2>2. caller'[c] = "running" /\ \A d \in Callers \ {c} : caller'[d] = caller[d]
    BY <1>2 DEF CheckReply, TypeOK
  <2>. QED
    BY <2>1, <2>2 DEF CheckReply, Answer
<1>. QED
  BY <1>1, <1>2

\* A reply answers the sender whose message it is for, who is waiting.
LEMMA AnswerReply ==
    ASSUME TypeOK, OneRequestPerWaiter, Reply("receiving")
    PROVE  Answer' = [c \in Callers |->
              IF Head(Pending).id = SyncId[c] THEN receiver.status ELSE Answer[c]]
<1>1. Pending \in Seq(Message) /\ Pending # <<>> /\ Head(Pending) = receiver.msg
  BY PendingReply, PendingType
<1>2. ASSUME NEW c \in Callers, receiver.msg.id = SyncId[c]
      PROVE  caller'[c] # "running" /\ mReplyStatus'[SyncId[c]] = receiver.status
  <2>1. Positions(Pending, SyncId[c]) # {}
    BY <1>1, <1>2, PositionsTail
  <2>2. Answer[c] = "waiting"
    BY <2>1 DEF OneRequestPerWaiter
  <2>3. caller[c] # "running"
    BY <2>2 DEF Answer
  <2>. QED
    BY <1>2, <2>3, SyncIdFacts DEF Reply, TypeOK
<1>3. ASSUME NEW c \in Callers, receiver.msg.id # SyncId[c]
      PROVE  caller'[c] = caller[c] /\ mReplyStatus'[SyncId[c]] = mReplyStatus[SyncId[c]]
  BY <1>3, SyncIdFacts DEF Reply, TypeOK
<1>4. receiver.status \in Status /\ "WOULD_BLOCK" \notin Status
  BY StatusAssumption DEF TypeOK
<1>. QED
  BY <1>1, <1>2, <1>3, <1>4 DEF Answer
---------------------------------------------------------------------------
\* Every step of the queue is a step of RequestChannel or changes nothing there.
LEMMA StepRefines ==
    TypeOK /\ OneRequestPerWaiter /\ [Next]_vars => [Channel!Next]_(Channel!vars)
<1> SUFFICES ASSUME TypeOK, OneRequestPerWaiter, [Next]_vars
             PROVE  Channel!Next \/ (Pending' = Pending /\ Answer' = Answer)
  BY DEF Channel!vars
<1> USE DEF Channel!Next
<1>1. ASSUME NEW c \in Callers, NEW m \in Message, Send(c, m)
      PROVE  Channel!Post(m)
  <2>1. Pending' = Append(Pending, m) /\ Answer' = Answer
    BY <1>1, PendingSend, AnswerSame
  <2>. QED
    BY <1>1, <2>1 DEF Send, SyncIds, Channel!Post
<1>2. ASSUME NEW c \in Callers, NEW m \in Message, SendSync(c, m)
      PROVE  Channel!Call(c, m)
  <2>1. Pending' = Append(Pending, m)
    BY <1>2, PendingSend
  <2>2. Answer[c] = "idle" /\ Answer' = [Answer EXCEPT ![c] = "waiting"]
    BY <1>2, AnswerSendSync
  <2>. QED
    BY <1>2, <2>1, <2>2 DEF SendSync, Channel!Call
<1>3. ASSUME NEW c \in Callers, CheckReply(c)
      PROVE  Channel!Return(c) \/ (Pending' = Pending /\ Answer' = Answer)
  <2>1. Pending' = Pending
    BY <1>3, PendingSame
  <2>. QED
    BY <1>3, <2>1, AnswerCheck DEF Channel!Return
<1>4. ASSUME NEW c \in Callers, WakeCaller(c)
      PROVE  Pending' = Pending /\ Answer' = Answer
  BY <1>4, PendingSame, AnswerSame
<1>5. ASSUME Receive \/ WakeReceiver
      PROVE  Pending' = Pending /\ Answer' = Answer
  BY <1>5, PendingReceive, PendingSame, AnswerSame
<1>6. ASSUME NEW s \in Status, Handled(s)
      PROVE  Pending' = Pending /\ Answer' = Answer
  BY <1>6, PendingSame, AnswerSame
<1>7. ASSUME Reply("receiving")
      PROVE  Channel!Serve(receiver.status)
  BY <1>7, PendingReply, AnswerReply DEF Channel!Serve
<1>8. CASE UNCHANGED vars
  BY <1>8, PendingSame, AnswerSame
<1>9. receiver.status \in Status
  BY DEF TypeOK
<1>. QED
  BY <1>1, <1>2, <1>3, <1>4, <1>5, <1>6, <1>7, <1>8, <1>9 DEF Next

\* Every step of RequestChannel keeps one request per waiter.
LEMMA ChannelStep ==
    TypeOK /\ OneRequestPerWaiter /\ [Channel!Next]_(Channel!vars)
       => OneRequestPerWaiter'
<1> SUFFICES ASSUME TypeOK, OneRequestPerWaiter, [Channel!Next]_(Channel!vars),
                    NEW c \in Callers
             PROVE  LET mine == Positions(Pending', SyncId[c])
                    IN  IF Answer'[c] = "waiting"
                        THEN \E i \in mine : mine = {i} ELSE mine = {}
  BY DEF OneRequestPerWaiter, Positions
<1> DEFINE old == Positions(Pending, SyncId[c])
           new == Positions(Pending', SyncId[c])
<1>0. /\ Pending \in Seq(Message)
      /\ IF Answer[c] = "waiting" THEN \E i \in old : old = {i} ELSE old = {}
      /\ DOMAIN Answer = Callers
  BY PendingType DEF OneRequestPerWaiter, Answer
<1>1. ASSUME NEW m \in Message, Channel!Post(m)
      PROVE  new = old /\ Answer' = Answer
  <2>1. Pending' = Append(Pending, m) /\ Answer' = Answer /\ m.id # SyncId[c]
    BY <1>1 DEF Channel!Post
  <2>2. new = old \cup {}
    BY <1>0, <2>1, PositionsAppend
  <2>. QED
    BY <2>1, <2>2
<1>2. ASSUME NEW d \in Callers, NEW m \in Message, Channel!Call(d, m)
      PROVE  IF Answer'[c] = "waiting" THEN \E i \in new : new = {i} ELSE new = {}
  <2>1. new = old \cup (IF m.id = SyncId[c] THEN {Len(Pending) + 1} ELSE {})
    BY <1>0, <1>2, PositionsAppend DEF Channel!Call
  <2>2. CASE c = d
    <3>1. old = {}
      BY <1>0, <1>2, <2>2 DEF Channel!Call
    <3>2. Answer'[c] = "waiting" /\ m.id = SyncId[c]
      BY <1>0, <1>2, <2>2 DEF Channel!Call
    <3>. QED
      BY <2>1, <3>1, <3>2
  <2>3. CASE c # d
    <3>1. m.id # SyncId[c] /\ Answer'[c] = Answer[c]
      BY <1>0, <1>2, <2>3, SyncIdFacts DEF Channel!Call
    <3>. QED
      BY <1>0, <2>1, <3>1
  <2>. QED
    BY <2>2, <2>3
<1>3. ASSUME NEW s \in Status, Channel!Serve(s)
      PROVE  IF Answer'[c] = "waiting" THEN \E i \in new : new = {i} ELSE new = {}
  <2>1. /\ 1 \in old <=> Head(Pending).id = SyncId[c]
        /\ new = {i - 1 : i \in old \ {1}}
        /\ \A i \in old : i \in Nat
    BY <1>0, <1>3, PositionsTail DEF Channel!Serve
  <2>2. Answer'[c] = IF Head(Pending).id = SyncId[c] THEN s ELSE Answer[c]
    BY <1>3 DEF Channel!Serve
  <2>3. CASE Head(Pending).id = SyncId[c]
    <3>1. old = {1} /\ s # "waiting"
      BY <1>0, <2>1, <2>3, StatusAssumption
    <3>. QED
      BY <2>1, <2>2, <2>3, <3>1
  <2>4. CASE Head(Pending).id # SyncId[c]
    <3>1. new = {i - 1 : i \in old}
      BY <2>1, <2>4
    <3>2. CASE Answer[c] = "waiting"
      <4>1. PICK i \in old : old = {i}
        BY <1>0, <3>2
      <4>2. new = {i - 1}
        BY <3>1, <4>1
      <4>. QED
        BY <2>2, <2>4, <3>2, <4>2
    <3>3. CASE Answer[c] # "waiting"
      BY <1>0, <2>2, <2>4, <3>1, <3>3
    <3>. QED
      BY <3>2, <3>3
  <2>. QED
    BY <2>3, <2>4
<1>4. ASSUME NEW d \in Callers, Channel!Return(d)
      PROVE  IF Answer'[c] = "waiting" THEN \E i \in new : new = {i} ELSE new = {}
  <2>1. Pending' = Pending /\ Answer'[c] = IF c = d THEN "idle" ELSE Answer[c]
    BY <1>0, <1>4 DEF Channel!Return
  <2>2. Answer[d] # "waiting"
    BY <1>4, StatusAssumption DEF Channel!Return
  <2>. QED
    BY <1>0, <2>1, <2>2
<1>5. CASE UNCHANGED Channel!vars
  BY <1>0, <1>5 DEF Channel!vars
<1>. QED
  BY <1>0, <1>1, <1>2, <1>3, <1>4, <1>5 DEF Channel!Next
---------------------------------------------------------------------------
\* A sender that waits has exactly one message on the way, one that does not
\* has none: the reply it gets is the reply to its own message.
THEOREM RequestPerWaiter == SafeSpec => []OneRequestPerWaiter
<1>1. Init => OneRequestPerWaiter
  <2> SUFFICES ASSUME Init
               PROVE  OneRequestPerWaiter
    OBVIOUS
  <2>1. Pending = <<>>
    BY DEF Init, Pending
  <2>2. \A id : Positions(Pending, id) = {}
    BY <2>1 DEF Positions
  <2>3. \A c \in Callers : Answer[c] = "idle"
    BY DEF Init, Answer
  <2>. QED
    BY <2>2, <2>3 DEF OneRequestPerWaiter
<1>2. TypeOK /\ OneRequestPerWaiter /\ [Next]_vars => OneRequestPerWaiter'
  BY StepRefines, ChannelStep
<1>. QED
  BY <1>1, <1>2, TypeCorrect, PTL DEF SafeSpec

\* The queue with its locks, condition variables and status array keeps the
\* promise of RequestChannel: order of service, and no call returns before its
\* own request was served or with the status of another.
THEOREM QueueImplementsChannel == SafeSpec => ImplementsChannelSafely
<1>1. Init => Channel!Init
  BY DEF Init, Channel!Init, Pending, Answer
<1>2. TypeOK /\ OneRequestPerWaiter /\ [Next]_vars => [Channel!Next]_(Channel!vars)
  BY StepRefines
<1>. QED
  BY <1>1, <1>2, TypeCorrect, RequestPerWaiter, PTL
  DEF SafeSpec, ImplementsChannelSafely, Channel!SafeSpec

\* No caller sleeps on a status that has been set: a reply that finds the
\* caller asleep wakes it, and one that comes before the check is seen by it.
THEOREM NoWakeupIsLost == SafeSpec => []NoLostWakeup
<1>1. Init => NoLostWakeup
  BY DEF Init, NoLostWakeup
<1>2. TypeOK /\ NoLostWakeup /\ [Next]_vars => NoLostWakeup'
  <2> SUFFICES ASSUME TypeOK, NoLostWakeup, [Next]_vars,
                      NEW c \in Callers, caller'[c] = "waiting"
               PROVE  mReplyStatus'[SyncId[c]] = "WOULD_BLOCK"
    BY DEF NoLostWakeup, Answer
  <2>0. caller[c] = "waiting" => mReplyStatus[SyncId[c]] = "WOULD_BLOCK"
    BY StatusAssumption, SyncIdFacts DEF NoLostWakeup, Answer, TypeOK
  <2>1. ASSUME NEW d \in Callers, NEW m \in Message, Send(d, m)
        PROVE  mReplyStatus'[SyncId[c]] = "WOULD_BLOCK"
    BY <2>0, <2>1 DEF Send
  <2>2. ASSUME NEW d \in Callers, NEW m \in Message, SendSync(d, m)
        PROVE  mReplyStatus'[SyncId[c]] = "WOULD_BLOCK"
    <3>1. c # d /\ caller[c] = "waiting"
      BY <2>2 DEF SendSync, TypeOK
    <3>. QED
      BY <2>0, <2>2, <3>1, SyncIdFacts DEF SendSync, TypeOK
  <2>3. ASSUME NEW d \in Callers, CheckReply(d)
        PROVE  mReplyStatus'[SyncId[c]] = "WOULD_BLOCK"
    <3>1. caller[c] = "waiting" \/ c = d
      BY <2>3 DEF CheckReply, TypeOK
    <3>. QED
      BY <2>0, <2>3, <3>1 DEF CheckReply, TypeOK
  <2>4. ASSUME NEW d \in Callers, WakeCaller(d)
        PROVE  mReplyStatus'[SyncId[c]] = "WOULD_BLOCK"
    BY <2>0, <2>4 DEF WakeCaller, TypeOK
  <2>5. CASE Receive \/ WakeReceiver \/ \E s \in Status : Handled(s)
    BY <2>0, <2>5 DEF Receive, WakeReceiver, Handled
  <2>6. CASE Reply("receiving")
    <3>1. caller[c] = "waiting" /\ SyncId[c] # receiver.msg.id
      BY <2>6 DEF Reply, TypeOK
    <3>. QED
      BY <2>0, <2>6, <3>1, SyncIdFacts DEF Reply
  <2>7. CASE UNCHANGED vars
    BY <2>0, <2>7 DEF vars
  <2>. QED
    BY <2>1, <2>2, <2>3, <2>4, <2>5, <2>6, <2>7 DEF Next
<1>. QED
  BY <1>1, <1>2, TypeCorrect, PTL DEF SafeSpec
===========================================================================
