--------------------------- MODULE MessageQueue ---------------------------
(***************************************************************************)
(* MessageQueue<MessageType, MessageId> of rockit/direct/sideband: a list  *)
(* under mQueueMutex with one receiving thread, and an array of reply      *)
(* statuses, one mutex and one condition variable per message id, on which *)
(* synchronous senders wait.                                               *)
(*                                                                         *)
(* A step is what one thread does while it holds one lock.  send() takes   *)
(* two locks, so a synchronous send is three kinds of step: the push, each *)
(* check of the status, and the wake-ups in between.  The list is written  *)
(* oldest first (the code pushes at the front and takes from the back).    *)
(* mReplyStatus has the entries somebody waits on; the code also writes    *)
(* those of the asynchronous ids, which nobody reads.                      *)
(***************************************************************************)
EXTENDS Naturals, Sequences

CONSTANTS Callers,     \* threads that send
          Message,     \* records with a field id
          SyncId,      \* [Callers -> id]: the id a caller sends synchronously
          Status,      \* statuses a handler may return
          MaxQueued    \* bound: longest mList an asynchronous send extends

SyncIds == {SyncId[c] : c \in Callers}

\* An id has one synchronous sender and no asynchronous one is mixed with it:
\* the only synchronous send of the code is that of MESSAGE_ID_EXIT.
ASSUME SyncIdAssumption ==
    /\ SyncId \in [Callers -> {m.id : m \in Message}]
    /\ \A c, d \in Callers : SyncId[c] = SyncId[d] => c = d

\* WOULD_BLOCK is no status a handler returns.
ASSUME StatusAssumption ==
    Status # {} /\ Status \cap {"WOULD_BLOCK", "idle", "waiting"} = {}

ASSUME BoundAssumption == MaxQueued \in Nat \ {0}

VARIABLES mList,         \* messages sent and not received
          mReplyStatus,  \* [SyncIds -> Status or "WOULD_BLOCK"]
          caller,        \* per caller: "running", "checking" or "waiting"
          receiver       \* the receiving thread: where it is, with what

vars == <<mList, mReplyStatus, caller, receiver>>

Places == {"absent", "receiving", "waiting", "handling", "replying", "gone"}

TypeOK ==
    /\ mList \in Seq(Message)
    /\ mReplyStatus \in [SyncIds -> Status \cup {"WOULD_BLOCK"}]
    /\ caller \in [Callers -> {"running", "checking", "waiting"}]
    /\ receiver \in [at : Places, msg : Message, status : Status]

\* mReplyStatus is new status_t[numReply], not initialised.
Init ==
    /\ mList = <<>>
    /\ mReplyStatus \in [SyncIds -> Status \cup {"WOULD_BLOCK"}]
    /\ caller = [c \in Callers |-> "running"]
    /\ receiver \in [at : {"receiving"}, msg : Message, status : Status]
---------------------------------------------------------------------------
\* Faulty variant: the receiver is not notified.
NotifyNobody == UNCHANGED receiver

\* mQueueCondition.notify_one(): the receiver, if it waits, looks again.
NotifyReceiver ==
    receiver' = [receiver EXCEPT !.at = IF @ = "waiting" THEN "receiving" ELSE @]

\* send(&msg): push and notify, and back to the caller.
Send(c, m) ==
    /\ caller[c] = "running"
    /\ m.id \notin SyncIds
    /\ Len(mList) < MaxQueued
    /\ mList' = Append(mList, m)
    /\ NotifyReceiver
    /\ UNCHANGED <<mReplyStatus, caller>>

\* send(&msg, id): the same under mQueueMutex, and the id's status is set to
\* WOULD_BLOCK before the receiver can see the message.
SendSync(c, m) ==
    /\ caller[c] = "running"
    /\ m.id = SyncId[c]
    /\ mList' = Append(mList, m)
    /\ mReplyStatus' = [mReplyStatus EXCEPT ![m.id] = "WOULD_BLOCK"]
    /\ caller' = [caller EXCEPT ![c] = "checking"]
    /\ NotifyReceiver

\* while (mReplyStatus[replyId] == WOULD_BLOCK) wait(lk), under mReplyMutex:
\* the caller goes to sleep in the same step in which it sees WOULD_BLOCK.
CheckReply(c) ==
    /\ caller[c] = "checking"
    /\ caller' = [caller EXCEPT ![c] =
                    IF mReplyStatus[SyncId[c]] = "WOULD_BLOCK"
                    THEN "waiting" ELSE "running"]
    /\ UNCHANGED <<mList, mReplyStatus, receiver>>

\* A wait() may end without a notification; the loops around it look again.
WakeCaller(c) ==
    /\ caller[c] = "waiting"
    /\ caller' = [caller EXCEPT ![c] = "checking"]
    /\ UNCHANGED <<mList, mReplyStatus, receiver>>

WakeReceiver ==
    /\ receiver.at = "waiting"
    /\ receiver' = [receiver EXCEPT !.at = "receiving"]
    /\ UNCHANGED <<mList, mReplyStatus, caller>>

\* Faulty variant: the newest message is taken.
ReceiveNewest ==
    /\ receiver.at = "receiving"
    /\ IF mList = <<>>
       THEN /\ receiver' = [receiver EXCEPT !.at = "waiting"]
            /\ UNCHANGED mList
       ELSE /\ receiver' = [receiver EXCEPT !.at = "handling",
                                          !.msg = mList[Len(mList)]]
            /\ mList' = SubSeq(mList, 1, Len(mList) - 1)
    /\ UNCHANGED <<mReplyStatus, caller>>

\* receive(&msg): wait while the list is empty, then take the oldest.
Receive ==
    /\ receiver.at = "receiving"
    /\ IF mList = <<>>
       THEN /\ receiver' = [receiver EXCEPT !.at = "waiting"]
            /\ UNCHANGED mList
       ELSE /\ receiver' = [receiver EXCEPT !.at = "handling", !.msg = Head(mList)]
            /\ mList' = Tail(mList)
    /\ UNCHANGED <<mReplyStatus, caller>>

\* The receiving thread's handler for the message returns status s.
Handled(s) ==
    /\ receiver.at = "handling"
    /\ receiver' = [receiver EXCEPT !.at = "replying", !.status = s]
    /\ UNCHANGED <<mList, mReplyStatus, caller>>

\* Faulty variant: the status is set and nobody is notified.
ReplySilent(next) ==
    /\ receiver.at = "replying"
    /\ mReplyStatus' = [i \in SyncIds |->
          IF i = receiver.msg.id THEN receiver.status ELSE mReplyStatus[i]]
    /\ receiver' = [receiver EXCEPT !.at = next]
    /\ UNCHANGED <<mList, caller>>

\* reply(msg.id, status), under mReplyMutex[id]: set the status, wake the
\* waiter of this id; the receiving thread goes on at `next'.
Reply(next) ==
    /\ receiver.at = "replying"
    /\ mReplyStatus' = [i \in SyncIds |->
          IF i = receiver.msg.id THEN receiver.status ELSE mReplyStatus[i]]
    /\ caller' = [c \in Callers |->
          IF SyncId[c] = receiver.msg.id /\ caller[c] = "waiting"
          THEN "checking" ELSE caller[c]]
    /\ receiver' = [receiver EXCEPT !.at = next]
    /\ UNCHANGED mList
---------------------------------------------------------------------------
\* The queue between senders that send whatever they like and a receiver that
\* keeps receiving.
Next ==
    \/ \E c \in Callers, m \in Message : Send(c, m) \/ SendSync(c, m)
    \/ \E c \in Callers : CheckReply(c) \/ WakeCaller(c)
    \/ Receive \/ WakeReceiver
    \/ \E s \in Status : Handled(s)
    \/ Reply("receiving")

SafeSpec == Init /\ [][Next]_vars

\* Both threads are ordinary scheduled threads: a thread that can take its
\* next step takes it.  No sender has to send, and no wait() has to end
\* without a notification.
Fairness ==
    /\ WF_vars(Receive)
    /\ WF_vars(\E s \in Status : Handled(s))
    /\ WF_vars(Reply("receiving"))
    /\ \A c \in Callers : WF_vars(CheckReply(c))

Spec == SafeSpec /\ Fairness
---------------------------------------------------------------------------
\* A message being handled is still pending, as is one handled and not yet
\* replied to.
Pending ==
    IF receiver.at \in {"handling", "replying"}
    THEN <<receiver.msg>> \o mList ELSE mList

Answer == [c \in Callers |->
    IF caller[c] = "running" THEN "idle"
    ELSE IF mReplyStatus[SyncId[c]] = "WOULD_BLOCK" THEN "waiting"
    ELSE mReplyStatus[SyncId[c]]]

Channel == INSTANCE RequestChannel WITH pending <- Pending, answer <- Answer

\* The queue keeps the promise of RequestChannel: requests are served in the
\* order of the sends, and send(&msg, id) returns only after its own message
\* was handled, with the status of that handling (MessageQueue.h:50-52).
ImplementsChannel == Channel!Spec

\* Safety part of the same promise, the part proved for every instance.
ImplementsChannelSafely == Channel!SafeSpec

\* Where in a list of messages an id occurs.
Positions(list, id) == {i \in DOMAIN list : list[i].id = id}

\* A sender that waits has its message still on the way, exactly once, and a
\* sender that was answered or is not in send() has none: so no reply can be
\* taken for that of another send, and no waiter can be forgotten.
OneRequestPerWaiter ==
    \A c \in Callers :
       LET mine == Positions(Pending, SyncId[c])
       IN  IF Answer[c] = "waiting" THEN \E i \in mine : mine = {i} ELSE mine = {}

\* A caller asleep in wait() has not been answered: it cannot have missed the
\* notification of its reply (the check and the wait are one critical section).
NoLostWakeup ==
    \A c \in Callers : caller[c] = "waiting" => Answer[c] = "waiting"

\* The receiver does not sleep on a list that has a message.
ReceiverAwake == receiver.at = "waiting" => mList = <<>>

\* Every synchronous send returns.
SendReturns == \A c \in Callers : caller[c] = "checking" ~> caller[c] = "running"
===========================================================================
