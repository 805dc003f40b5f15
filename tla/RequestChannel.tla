-------------------------- MODULE RequestChannel --------------------------
(***************************************************************************)
(* What the users of MessageQueue (rockit/direct/sideband) are promised:   *)
(* one list of requests that are served in the order they were made, and   *)
(* a synchronous call that gives its caller the status its own request was *)
(* served with.  Neither list nodes, locks, condition variables nor the    *)
(* shared status array appear here.                                        *)
(***************************************************************************)
EXTENDS Naturals, Sequences

CONSTANTS Callers,   \* the threads that may make synchronous calls
          Message,   \* the requests, records with a field id
          SyncId,    \* [Callers -> the id this caller's calls carry]
          Status     \* what serving a request may return

VARIABLES pending,   \* requests made and not served yet, oldest first
          answer     \* per caller: "idle", "waiting", or the status to return

vars == <<pending, answer>>

Init ==
    /\ pending = <<>>
    /\ answer = [c \in Callers |-> "idle"]

\* An asynchronous request is on record as soon as it is made.
Post(m) ==
    /\ m.id \notin {SyncId[c] : c \in Callers}
    /\ pending' = Append(pending, m)
    /\ UNCHANGED answer

\* A synchronous call leaves its caller waiting.
Call(c, m) ==
    /\ answer[c] = "idle"
    /\ m.id = SyncId[c]
    /\ pending' = Append(pending, m)
    /\ answer' = [answer EXCEPT ![c] = "waiting"]

\* The oldest request is served, and its caller, if it has one, is answered.
Serve(s) ==
    /\ pending # <<>>
    /\ pending' = Tail(pending)
    /\ answer' = [c \in Callers |->
                    IF Head(pending).id = SyncId[c] THEN s ELSE answer[c]]

\* A caller leaves its call only with the answer it was given.
Return(c) ==
    /\ answer[c] \in Status
    /\ answer' = [answer EXCEPT ![c] = "idle"]
    /\ UNCHANGED pending

Next ==
    \/ \E m \in Message : Post(m)
    \/ \E c \in Callers, m \in Message : Call(c, m)
    \/ \E s \in Status : Serve(s)
    \/ \E c \in Callers : Return(c)

SafeSpec == Init /\ [][Next]_vars

Spec ==
    /\ SafeSpec
    /\ WF_vars(\E s \in Status : Serve(s))
    /\ \A c \in Callers : WF_vars(Return(c))
===========================================================================
