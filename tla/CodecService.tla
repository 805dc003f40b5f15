---------------------------- MODULE CodecService ----------------------------
(***************************************************************************)
(* The codec HAL's service process and its clients: RockitHwService, which *)
(* keeps mClients; one RockitHwManager per client with the decoder it      *)
(* made; and RockitHwClient in the process of each client, whose calls     *)
(* hwbinder brings to threads of the service.                              *)
(*                                                                         *)
(* hwbinder is external.  It sends the answer of create when _hidl_cb is   *)
(* called, which is before addClient.  A manager lives as long as mClients,*)
(* a client or a running call has a reference to it.  The reference of a   *)
(* client that is killed goes; its running call is finished.  A client     *)
(* that looks at no return value ends at its first call to a dead service. *)
(***************************************************************************)
EXTENDS Naturals, FiniteSets

CONSTANTS Clients,
          MaxManagers,  \* bound: calls of create
          MaxInits      \* bound: calls of init on one manager

ASSUME ServiceAssumption == MaxManagers \in Nat /\ MaxInits \in Nat

Managers == 1 .. MaxManagers
None == 0

VARIABLES up,        \* the service process runs
          made,      \* managers made so far
          adding,    \* managers create has answered with and not added yet
          mClients,
          mImpl,     \* per manager: the number of its decoder, or None
          inits,     \* per manager: decoders made
          decoders,  \* those allocated and not deleted, as <<manager, number>>
          client,    \* what each client does
          mService,  \* the manager each client has a reference to, or None
          calls,     \* running calls in the service, as <<client, manager, op>>
          fate       \* per manager: how its client has done with it

vars == <<up, made, adding, mClients, mImpl, inits, decoders,
          client, mService, calls, fate>>
serviceVars == <<up, made, adding, mClients, mImpl, inits, decoders>>
clientVars == <<client, mService>>

Ops == {"init", "unsupported", "enqueue", "dequeue", "checked"}

TypeOK ==
    /\ up \in BOOLEAN /\ made \in 0 .. MaxManagers
    /\ adding \subseteq Managers /\ mClients \subseteq Managers
    /\ mImpl \in [Managers -> Nat] /\ inits \in [Managers -> 0 .. MaxInits]
    /\ decoders \subseteq Managers \X Nat
    /\ client \in [Clients -> {"none", "open", "closing", "removed", "dead"}]
    /\ mService \in [Clients -> Managers \cup {None}]
    /\ calls \subseteq Clients \X Managers \X Ops
    /\ fate \in [Managers -> {"used", "removed", "overtaken", "killed", "lost"}]

Init ==
    /\ up = TRUE /\ made = 0 /\ adding = {} /\ mClients = {}
    /\ mImpl = [m \in Managers |-> None] /\ inits = [m \in Managers |-> 0]
    /\ decoders = {}
    /\ client = [c \in Clients |-> "none"]
    /\ mService = [c \in Clients |-> None]
    /\ calls = {}
    /\ fate = [m \in Managers |-> "used"]

Calling(c) == \E call \in calls : call[1] = c
Held == {mService[c] : c \in Clients} \ {None}

\* The managers something refers to.
Alive == {m \in adding \cup mClients \cup Held \cup {call[2] : call \in calls} :
             fate[m] # "lost"}

\* Faulty variant: the destructor leaves the decoder.
DeleteNothing(gone) == UNCHANGED decoders

\* ~RockitHwManager, of managers without a reference: the decoder of mImpl goes.
DeleteManagers(gone) ==
    decoders' = decoders \ {<<m, mImpl[m]>> : m \in gone}

\* The managers that a step leaves without a reference are deleted in it.
Release == DeleteManagers(Alive \ Alive')

-----------------------------------------------------------------------------

\* The constructor of RockitHwClient: getService, and create in the service.
Create(c) ==
    /\ client[c] = "none" /\ made < MaxManagers
    /\ client' = [client EXCEPT ![c] = "open"]
    /\ IF up
       THEN /\ made' = made + 1
            /\ adding' = adding \cup {made + 1}
            /\ mService' = [mService EXCEPT ![c] = made + 1]
       ELSE UNCHANGED <<made, adding, mService>>
    /\ UNCHANGED <<up, mClients, mImpl, inits, decoders, calls, fate>>

\* addClient, in the thread that answered create, under mLock.
AddClient(m) ==
    /\ m \in adding
    /\ adding' = adding \ {m}
    /\ mClients' = mClients \cup {m}
    /\ UNCHANGED <<up, made, mImpl, inits, decoders, clientVars, calls, fate>>

\* A call through the manager of c, if c has one; the process of c ends if the
\* service it got the manager from has.
Call(c, op, then) ==
    LET m == mService[c]
    IN  /\ ~Calling(c)
        /\ op = "init" /\ m # None => inits[m] < MaxInits
        /\ IF m = None \/ (up /\ fate[m] = "used")
           THEN /\ client' = [client EXCEPT ![c] = then]
                /\ calls' = IF m = None THEN calls ELSE calls \cup {<<c, m, op>>}
           ELSE /\ client' = [client EXCEPT ![c] = "dead"]
                /\ UNCHANGED calls
        /\ UNCHANGED <<serviceVars, mService, fate>>

Use(c) == /\ client[c] = "open"
          /\ \E op \in Ops : Call(c, op, "open")

\* The destructor of RockitHwClientInterface begins with reset.
Close(c) == client[c] = "open" /\ Call(c, "checked", "closing")

-----------------------------------------------------------------------------
(***************************************************************************)
(* What the service does with a call.                                      *)
(***************************************************************************)

\* init: a decoder is made and takes the place of the one before.
FinishInit(call) ==
    LET m == call[2]
    IN  /\ call[3] = "init" /\ inits[m] < MaxInits
        /\ inits' = [inits EXCEPT ![m] = @ + 1]
        /\ mImpl' = [mImpl EXCEPT ![m] = inits[m] + 1]
        /\ decoders' = decoders \cup {<<m, inits[m] + 1>>}
        /\ calls' = calls \ {call}
        /\ UNCHANGED <<up, made, adding, mClients, clientVars, fate>>

\* Every other call but one through NULL changes nothing here.
FinishCall(call) ==
    /\ call[3] # "init"
    /\ call[3] \in {"enqueue", "dequeue"} => mImpl[call[2]] # None
    /\ calls' = calls \ {call}
    /\ UNCHANGED <<up, made, adding, mClients, mImpl, inits, clientVars, fate>>
    /\ Release

\* enqueue and dequeue without a decoder end the process, for every client.
Crash(call) ==
    /\ call[3] \in {"enqueue", "dequeue"} /\ mImpl[call[2]] = None
    /\ up' = FALSE
    /\ adding' = {} /\ mClients' = {} /\ decoders' = {} /\ calls' = {}
    /\ fate' = [m \in Managers |-> IF m <= made THEN "lost" ELSE fate[m]]
    /\ UNCHANGED <<made, mImpl, inits, clientVars>>

\* init, the first process, starts the service again.
Restart == /\ ~up /\ up' = TRUE
           /\ UNCHANGED <<made, adding, mClients, mImpl, inits, decoders,
                          clientVars, calls, fate>>

-----------------------------------------------------------------------------

\* Faulty variant: the service forgets to remove.
RemoveNothing(c) ==
    LET m == mService[c]
    IN  /\ client[c] = "closing" /\ ~Calling(c)
        /\ client' = [client EXCEPT ![c] = "removed"]
        /\ fate' = IF m = None \/ fate[m] # "used" THEN fate
                   ELSE [fate EXCEPT ![m] = IF m \in adding THEN "overtaken"
                                                            ELSE "removed"]
        /\ UNCHANGED <<serviceVars, mService, calls>>

\* The destructor of RockitHwClient: destroy in the service, which removes the
\* manager if it has been added.
RemoveClient(c) ==
    LET m == mService[c]
    IN  /\ client[c] = "closing" /\ ~Calling(c)
        /\ client' = [client EXCEPT ![c] = "removed"]
        /\ mClients' = mClients \ {m}
        /\ fate' = IF m = None \/ fate[m] # "used" THEN fate
                   ELSE [fate EXCEPT ![m] = IF m \in adding THEN "overtaken"
                                                            ELSE "removed"]
        /\ UNCHANGED <<up, made, adding, mImpl, inits, decoders, mService, calls>>

\* ... then the reference is dropped.
DropReference(c) ==
    /\ client[c] = "removed"
    /\ client' = [client EXCEPT ![c] = "none"]
    /\ mService' = [mService EXCEPT ![c] = None]
    /\ UNCHANGED <<up, made, adding, mClients, mImpl, inits, calls, fate>>
    /\ Release

\* The process of a client is killed, or has ended by itself.
Kill(c) ==
    LET m == mService[c]
    IN  /\ client[c] # "none"
        /\ client' = [client EXCEPT ![c] = "none"]
        /\ mService' = [mService EXCEPT ![c] = None]
        /\ fate' = IF m # None /\ fate[m] = "used"
                   THEN [fate EXCEPT ![m] = "killed"] ELSE fate
        /\ UNCHANGED <<up, made, adding, mClients, mImpl, inits, calls>>
        /\ Release

Next ==
    \/ \E c \in Clients : \/ Create(c) \/ Use(c) \/ Close(c)
                          \/ RemoveClient(c) \/ DropReference(c) \/ Kill(c)
    \/ \E m \in Managers : AddClient(m)
    \/ \E call \in calls : FinishInit(call) \/ FinishCall(call) \/ Crash(call)
    \/ Restart

Spec == Init /\ [][Next]_vars

-----------------------------------------------------------------------------

\* A manager that no client has and no call uses is there only because its
\* client was killed, or because destroy came before addClient: whoever closed
\* after it had been added leaves nothing.
OnlyLostLeft ==
    \A m \in mClients \cup adding :
        fate[m] \in {"overtaken", "killed"} \/ m \in Held

\* The decoder of a manager lives exactly as long as the manager: no call finds
\* it deleted, and none stays behind, other than one that a second init
\* replaced.
DecodersAccounted ==
    /\ \A m \in Alive : mImpl[m] # None => <<m, mImpl[m]>> \in decoders
    /\ \A d \in decoders : d[2] = mImpl[d[1]] => d[1] \in Alive

=============================================================================
