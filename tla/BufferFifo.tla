---------------------------- MODULE BufferFifo ----------------------------
(***************************************************************************)
(* What a tunnel-mode player may rely on: the window is a queue of         *)
(* buffers.  A buffer handed over joins the end, a buffer handed back is   *)
(* the one that has been in the queue longest, a flush frees the buffers   *)
(* handed over before it was asked for and no other, and the release of    *)
(* the window frees what is in the queue.  No thread, message or vector    *)
(* appears here.  A player can break the queue for good: then nothing is   *)
(* promised any more.                                                      *)
(***************************************************************************)
EXTENDS Naturals, Sequences

CONSTANTS Buffers

VARIABLES fifo,    \* buffers the window has, in the order they were handed over
          mine,    \* buffers the player has
          doomed,  \* how many of fifo the requested flushes will free
          broken   \* the player has broken the queue

vars == <<fifo, mine, doomed, broken>>

Init == fifo = <<>> /\ mine = {} /\ doomed = 0 /\ broken = FALSE

Allocate(b) ==
    /\ b \notin mine /\ \A i \in DOMAIN fifo : fifo[i] # b
    /\ mine' = mine \cup {b}
    /\ UNCHANGED <<fifo, doomed>>

Free(b) ==
    /\ b \in mine
    /\ mine' = mine \ {b}
    /\ UNCHANGED <<fifo, doomed>>

HandOver(b) ==
    /\ b \in mine
    /\ mine' = mine \ {b}
    /\ fifo' = Append(fifo, b)
    /\ UNCHANGED doomed

HandBack ==
    /\ fifo # <<>> /\ doomed = 0
    /\ mine' = mine \cup {Head(fifo)}
    /\ fifo' = Tail(fifo)
    /\ UNCHANGED doomed

AskFlush ==
    /\ doomed' = Len(fifo)
    /\ UNCHANGED <<fifo, mine>>

\* A flush frees what the flushes asked for up to it cover.
DoFlush(n) ==
    /\ fifo' = SubSeq(fifo, n + 1, Len(fifo))
    /\ doomed' = doomed - n
    /\ UNCHANGED mine

Close ==
    /\ fifo' = <<>> /\ doomed' = 0
    /\ UNCHANGED mine

Operation ==
    \/ \E b \in Buffers : Allocate(b) \/ Free(b) \/ HandOver(b)
    \/ HandBack \/ AskFlush \/ Close
    \/ \E n \in 0 .. doomed : DoFlush(n)

\* The queue breaks, or is broken: its variables may become anything.
Break == broken' = TRUE

Next == (Operation /\ UNCHANGED broken) \/ Break

Spec == Init /\ [][Next]_vars
===========================================================================
