------------------------- MODULE CodecService_proofs -------------------------
(***************************************************************************)
(* Proofs about CodecService, for every set of clients and both bounds.    *)
(*                                                                         *)
(* Neither property is inductive.  What they rest on is where each manager *)
(* is, told by its fate: the list (or addClient, still to come) has those  *)
(* that are used, overtaken or killed and no other; one that is used has   *)
(* exactly one client, and a client that has sent destroy has none that is *)
(* used.  A running call keeps its manager from being removed, because its *)
(* client waits for it; only the death of the client or of the service can *)
(* come between.                                                           *)
(***************************************************************************)
EXTENDS CodecService, TLAPS

Listed == adding \cup mClients

\* Where the managers are.
Places ==
    \A m \in Managers :
        /\ m > made => fate[m] = "used" /\ mImpl[m] = None /\ m \notin Listed
        /\ m <= made =>
              /\ m \in Listed <=> fate[m] \in {"used", "overtaken", "killed"}
              /\ fate[m] = "used" => \E c \in Clients : mService[c] = m

\* Who refers to them.
References ==
    /\ \A c \in Clients :
          /\ mService[c] <= made
          /\ client[c] = "none" => mService[c] = None
          /\ mService[c] # None =>
                IF client[c] = "removed"
                THEN fate[mService[c]] \in {"removed", "overtaken", "lost"}
                ELSE fate[mService[c]] \in {"used", "lost"}
    /\ \A c, d \in Clients : mService[c] = mService[d] /\ c # d => mService[c] = None

\* Who calls them.
Running ==
    \A call \in calls :
        /\ call[2] <= made
        /\ fate[call[2]] \in {"used", "killed"}
        /\ fate[call[2]] = "used" => mService[call[1]] = call[2]

IInv == TypeOK /\ Places /\ References /\ Running

LEMMA ManagersAreNumbers ==
    /\ Managers \subseteq Nat /\ None \notin Managers /\ None \in Nat
    /\ \A m \in Managers : m <= MaxManagers
BY ServiceAssumption DEF Managers, None

\* A call is a triple of a client, a manager and an operation.
LEMMA CallParts ==
    ASSUME TypeOK, NEW call \in calls
    PROVE  call[1] \in Clients /\ call[2] \in Managers /\ call[3] \in Ops
BY DEF TypeOK

-----------------------------------------------------------------------------

LEMMA TypeInit == Init => TypeOK
BY ServiceAssumption, ManagersAreNumbers DEF Init, TypeOK, None, Managers

LEMMA TypeStep == TypeOK /\ [Next]_vars => TypeOK'
<1> SUFFICES ASSUME TypeOK, [Next]_vars PROVE TypeOK'
  OBVIOUS
<1> USE ManagersAreNumbers, ServiceAssumption
<1>1. ASSUME NEW c \in Clients, Create(c) PROVE TypeOK'
  <2>1. CASE up
    <3>1. made + 1 \in Managers /\ made + 1 \in 0 .. MaxManagers
      BY <1>1 DEF TypeOK, Create, Managers
    <3> QED BY <1>1, <2>1, <3>1 DEF TypeOK, Create
  <2>2. CASE ~up
    BY <1>1, <2>2 DEF TypeOK, Create
  <2> QED BY <2>1, <2>2
<1>2. ASSUME NEW c \in Clients, NEW op \in Ops, NEW then \in {"open", "closing"},
             Call(c, op, then)
      PROVE  TypeOK'
  <2>1. calls' \subseteq Clients \X Managers \X Ops
    BY <1>2 DEF TypeOK, Call, None
  <2> QED BY <1>2, <2>1 DEF TypeOK, Call, serviceVars
<1>3. ASSUME NEW c \in Clients, Use(c) PROVE TypeOK'
  BY <1>3, <1>2 DEF Use
<1>4. ASSUME NEW c \in Clients, Close(c) PROVE TypeOK'
  BY <1>4, <1>2 DEF Close, Ops
<1>5. ASSUME NEW c \in Clients, RemoveClient(c) PROVE TypeOK'
  <2>1. fate' \in [Managers -> {"used", "removed", "overtaken", "killed", "lost"}]
    BY <1>5 DEF TypeOK, RemoveClient
  <2> QED BY <1>5, <2>1 DEF TypeOK, RemoveClient
<1>6. ASSUME NEW c \in Clients, DropReference(c) PROVE TypeOK'
  BY <1>6 DEF TypeOK, DropReference, Release, DeleteManagers
<1>7. ASSUME NEW c \in Clients, Kill(c) PROVE TypeOK'
  <2>1. fate' \in [Managers -> {"used", "removed", "overtaken", "killed", "lost"}]
    BY <1>7 DEF TypeOK, Kill
  <2> QED BY <1>7, <2>1 DEF TypeOK, Kill, Release, DeleteManagers
<1>8. ASSUME NEW m \in Managers, AddClient(m) PROVE TypeOK'
  BY <1>8 DEF TypeOK, AddClient, clientVars
<1>9. ASSUME NEW call \in calls, FinishInit(call) PROVE TypeOK'
  <2> DEFINE m == call[2]
  <2>1. m \in Managers /\ inits[m] \in 0 .. MaxInits /\ inits[m] < MaxInits
    BY <1>9, CallParts DEF TypeOK, FinishInit
  <2>2. inits[m] + 1 \in 0 .. MaxInits
    BY <2>1
  <2>3. decoders' \subseteq Managers \X Nat
    BY <1>9, <2>1, <2>2 DEF TypeOK, FinishInit
  <2> QED BY <1>9, <2>1, <2>2, <2>3 DEF TypeOK, FinishInit, clientVars
<1>10. ASSUME NEW call \in calls, FinishCall(call) PROVE TypeOK'
  BY <1>10 DEF TypeOK, FinishCall, Release, DeleteManagers, clientVars
<1>11. ASSUME NEW call \in calls, Crash(call) PROVE TypeOK'
  <2>1. fate' \in [Managers -> {"used", "removed", "overtaken", "killed", "lost"}]
    BY <1>11 DEF TypeOK, Crash
  <2> QED BY <1>11, <2>1 DEF TypeOK, Crash, clientVars
<1>12. CASE Restart
  BY <1>12 DEF TypeOK, Restart, clientVars
<1>13. CASE UNCHANGED vars
  BY <1>13 DEF TypeOK, vars
<1> QED
  BY <1>1, <1>3, <1>4, <1>5, <1>6, <1>7, <1>8, <1>9, <1>10, <1>11, <1>12, <1>13 DEF Next

\* Everything stays of its type, however many managers and clients there are.
THEOREM TypeCorrect == Spec => []TypeOK
BY TypeInit, TypeStep, PTL DEF Spec

-----------------------------------------------------------------------------
(***************************************************************************)
(* Places, References and Running are kept by every step.                  *)
(***************************************************************************)

LEMMA InvInit == Init => IInv
<1> SUFFICES ASSUME Init PROVE IInv
  OBVIOUS
<1>1. TypeOK
  BY ServiceAssumption, ManagersAreNumbers DEF Init, TypeOK, None, Managers
<1>2. Places
  BY ManagersAreNumbers DEF Init, Places, Listed, Managers
<1>3. References /\ Running
  BY DEF Init, References, Running, None
<1> QED BY <1>1, <1>2, <1>3 DEF IInv

LEMMA CreateStep ==
    ASSUME IInv, TypeOK', NEW c \in Clients, Create(c)
    PROVE  IInv'
<1> USE ManagersAreNumbers
<1>1. CASE up
  <2> DEFINE new == made + 1
  <2>1. /\ new \in Managers /\ made \in Nat /\ made' = new
        /\ Listed' = Listed \cup {new} /\ mService' = [mService EXCEPT ![c] = new]
        /\ client' = [client EXCEPT ![c] = "open"] /\ UNCHANGED <<mImpl, fate, calls>>
    BY <1>1 DEF Create, Listed, IInv, TypeOK, Managers
  <2>2. fate[new] = "used" /\ new \notin Listed /\ mService[c] = None /\ mImpl[new] = None
    BY <2>1 DEF IInv, Places, References, Create
  <2>3. \A d \in Clients : mService[d] # new /\ mService[d] \in Nat
    <3>1. \A d \in Clients : mService[d] \in Nat /\ mService[d] <= made
      BY DEF IInv, References, TypeOK
    <3> QED BY <2>1, <3>1
  <2> HIDE DEF new
  <2>4. Places'
    <3> SUFFICES ASSUME NEW m \in Managers
                 PROVE  /\ m > made' => fate'[m] = "used" /\ mImpl'[m] = None /\ m \notin Listed'
                        /\ m <= made' =>
                              /\ m \in Listed' <=> fate'[m] \in {"used", "overtaken", "killed"}
                              /\ fate'[m] = "used" => \E d \in Clients : mService'[d] = m
      BY DEF Places
    <3>1. CASE m = new
      BY <2>1, <2>2, <3>1 DEF IInv, TypeOK
    <3>2. CASE m # new
      <4>1. m > made' => m > made
        BY <2>1 DEF new
      <4>2. m <= made' => m <= made
        BY <2>1, <3>2 DEF new
      <4>3. \A d \in Clients : mService[d] = m => mService'[d] = m
        BY <2>1, <2>2 DEF IInv, TypeOK
      <4> QED BY <2>1, <3>2, <4>1, <4>2, <4>3 DEF IInv, Places
    <3> QED BY <3>1, <3>2
  <2>5. References'
    BY <2>1, <2>2, <2>3 DEF IInv, TypeOK, References, new
  <2>6. Running'
    <3> SUFFICES ASSUME NEW call \in calls
                 PROVE  /\ call[2] <= made' /\ fate[call[2]] \in {"used", "killed"}
                        /\ fate[call[2]] = "used" => mService'[call[1]] = call[2]
      BY <2>1 DEF Running
    <3>1. call[2] \in Nat /\ call[1] \in Clients /\ call[2] # None
      BY CallParts DEF IInv
    <3> QED BY <2>1, <2>2, <3>1 DEF IInv, TypeOK, Running, new
  <2> QED BY <2>4, <2>5, <2>6 DEF IInv
<1>2. CASE ~up
  BY <1>2 DEF Create, IInv, TypeOK, Places, References, Running, Listed, None
<1> QED BY <1>1, <1>2

\* What the three say is untouched when only client and calls change, and the
\* client does not come from or go to a state they single out.
LEMMA CallStep ==
    ASSUME IInv, TypeOK', NEW c \in Clients, NEW op \in Ops, NEW then \in {"open", "closing"},
           client[c] = "open", Call(c, op, then)
    PROVE  IInv'
<1> USE ManagersAreNumbers
<1>1. /\ UNCHANGED <<made, adding, mClients, mImpl, mService, fate>>
      /\ \A d \in Clients : /\ client'[d] = "removed" <=> client[d] = "removed"
                            /\ client'[d] = "none" <=> client[d] = "none"
  BY DEF Call, serviceVars, IInv, TypeOK
<1>2. Places' /\ References'
  BY <1>1 DEF IInv, Places, References, Listed
<1>3. Running'
  <2> SUFFICES ASSUME NEW call \in calls'
               PROVE  /\ call[2] <= made /\ fate[call[2]] \in {"used", "killed"}
                      /\ fate[call[2]] = "used" => mService[call[1]] = call[2]
    BY <1>1 DEF Running
  <2>1. CASE call \in calls
    BY <2>1 DEF IInv, Running
  <2>2. CASE call \notin calls
    <3>1. call = <<c, mService[c], op>> /\ mService[c] # None /\ fate[mService[c]] = "used"
      BY <2>2 DEF Call
    <3> QED BY <3>1 DEF IInv, References
  <2> QED BY <2>1, <2>2
<1> QED BY <1>2, <1>3 DEF IInv

\* No running call is of a manager its client has sent destroy for.
LEMMA RemoveStep ==
    ASSUME IInv, TypeOK', NEW c \in Clients, RemoveClient(c)
    PROVE  IInv'
<1> USE ManagersAreNumbers
<1> DEFINE m == mService[c]
<1>1. /\ client[c] = "closing" /\ ~Calling(c) /\ client' = [client EXCEPT ![c] = "removed"]
      /\ mClients' = mClients \ {m} /\ UNCHANGED <<made, adding, mImpl, mService, calls>>
      /\ fate' = IF m = None \/ fate[m] # "used" THEN fate
                 ELSE [fate EXCEPT ![m] = IF m \in adding THEN "overtaken" ELSE "removed"]
  BY DEF RemoveClient
<1>2. m # None => m \in Managers /\ m <= made /\ fate[m] \in {"used", "lost"}
  BY <1>1 DEF IInv, TypeOK, References
<1>3. CASE m = None \/ fate[m] # "used"
  <2>1. Listed' = Listed /\ fate' = fate
    <3>1. m \notin mClients
      BY <1>2, <1>3 DEF IInv, TypeOK, Places, Listed
    <3> QED BY <1>1, <1>3, <3>1 DEF Listed
  <2>2. Places' /\ Running'
    BY <1>1, <2>1 DEF IInv, Places, Running
  <2>3. References'
    BY <1>1, <1>2, <1>3, <2>1 DEF IInv, TypeOK, References
  <2> QED BY <2>2, <2>3 DEF IInv
<1>4. CASE m # None /\ fate[m] = "used"
  <2>1. /\ m \in Managers /\ m <= made /\ m \in Listed
        /\ fate' = [fate EXCEPT ![m] = IF m \in adding THEN "overtaken" ELSE "removed"]
        /\ fate \in [Managers -> {"used", "removed", "overtaken", "killed", "lost"}]
        /\ made \in Nat
    <3>1. m \in Managers /\ m <= made
      BY <1>2, <1>4
    <3>2. m \in Listed
      BY <1>4, <3>1 DEF IInv, Places
    <3> QED BY <1>1, <1>4, <3>1, <3>2 DEF IInv, TypeOK
  <2>2. \A d \in Clients : d # c => mService[d] # m
    BY <1>4 DEF IInv, References
  <2>3. \A call \in calls : call[2] # m
    BY <1>1, <1>4, <2>2, CallParts DEF IInv, Running, Calling
  <2> HIDE DEF m
  <2>4. Places'
    <3> SUFFICES ASSUME NEW n \in Managers
                 PROVE  /\ n > made' => fate'[n] = "used" /\ mImpl'[n] = None /\ n \notin Listed'
                        /\ n <= made' =>
                              /\ n \in Listed' <=> fate'[n] \in {"used", "overtaken", "killed"}
                              /\ fate'[n] = "used" => \E d \in Clients : mService'[d] = n
      BY DEF Places
    <3>1. CASE n = m
      BY <1>1, <2>1, <3>1 DEF Listed
    <3>2. CASE n # m
      BY <1>1, <2>1, <3>2 DEF IInv, Places, Listed
    <3> QED BY <3>1, <3>2
  <2>5. References'
    <3>1. \A d \in Clients : d # c /\ mService[d] # None =>
                                fate'[mService[d]] = fate[mService[d]]
      BY <2>1, <2>2 DEF IInv, TypeOK
    <3>2. fate'[m] \in {"overtaken", "removed"}
      BY <2>1
    <3> QED BY <1>1, <3>1, <3>2 DEF IInv, TypeOK, References, m
  <2>6. Running'
    BY <1>1, <2>1, <2>3, CallParts DEF IInv, Running
  <2> QED BY <2>4, <2>5, <2>6 DEF IInv
<1> QED BY <1>3, <1>4

LEMMA DropStep ==
    ASSUME IInv, TypeOK', NEW c \in Clients, DropReference(c)
    PROVE  IInv'
<1> USE ManagersAreNumbers
<1>1. /\ client[c] = "removed" /\ client' = [client EXCEPT ![c] = "none"]
      /\ mService' = [mService EXCEPT ![c] = None]
      /\ UNCHANGED <<made, adding, mClients, mImpl, fate, calls>>
  BY DEF DropReference
<1>2. mService[c] # None => fate[mService[c]] # "used"
  BY <1>1 DEF IInv, References
<1>3. Places'
  <2>1. \A n \in Managers, d \in Clients :
           mService[d] = n /\ fate[n] = "used" => mService'[d] = n
    BY <1>1, <1>2 DEF IInv, TypeOK
  <2> QED BY <1>1, <2>1 DEF IInv, Places, Listed
<1>4. References'
  <2>1. \A d \in Clients : /\ mService'[d] = IF d = c THEN None ELSE mService[d]
                          /\ client'[d] = IF d = c THEN "none" ELSE client[d]
    BY <1>1 DEF IInv, TypeOK
  <2>2. None <= made
    BY DEF IInv, TypeOK, None
  <2> QED BY <1>1, <2>1, <2>2 DEF IInv, References
<1>5. Running'
  BY <1>1, <1>2, CallParts DEF IInv, TypeOK, Running
<1> QED BY <1>3, <1>4, <1>5 DEF IInv

LEMMA KillStep ==
    ASSUME IInv, TypeOK', NEW c \in Clients, Kill(c)
    PROVE  IInv'
<1> USE ManagersAreNumbers
<1> DEFINE m == mService[c]
<1>1. /\ client' = [client EXCEPT ![c] = "none"] /\ mService' = [mService EXCEPT ![c] = None]
      /\ fate' = IF m # None /\ fate[m] = "used" THEN [fate EXCEPT ![m] = "killed"] ELSE fate
      /\ UNCHANGED <<made, adding, mClients, mImpl, calls>>
      /\ fate \in [Managers -> {"used", "removed", "overtaken", "killed", "lost"}]
      /\ m \in Managers \cup {None}
      /\ m <= made /\ \A d \in Clients : d # c /\ mService[d] # None => mService[d] # m
  BY DEF Kill, IInv, TypeOK, References
<1>2. \A n \in Managers : fate'[n] = IF n = m /\ fate[n] = "used" THEN "killed" ELSE fate[n]
  BY <1>1
<1>3. Places'
  <2> SUFFICES ASSUME NEW n \in Managers
               PROVE  /\ n > made => fate'[n] = "used" /\ mImpl[n] = None /\ n \notin Listed
                      /\ n <= made =>
                            /\ n \in Listed <=> fate'[n] \in {"used", "overtaken", "killed"}
                            /\ fate'[n] = "used" => \E d \in Clients : mService'[d] = n
    BY <1>1 DEF Places, Listed
  <2>1. \A d \in Clients : mService[d] = n /\ n # m => mService'[d] = n
    BY <1>1 DEF IInv, TypeOK
  <2>2. n > made => n # m
    BY <1>1 DEF IInv, TypeOK
  <2> HIDE DEF m
  <2> QED BY <1>2, <2>1, <2>2 DEF IInv, Places
<1>4. References'
  <2>1. \A d \in Clients : mService'[d] = IF d = c THEN None ELSE mService[d]
    BY <1>1 DEF IInv, TypeOK
  <2>2. \A d \in Clients : d # c /\ mService[d] # None =>
                              fate'[mService[d]] = fate[mService[d]]
    BY <1>1, <1>2 DEF IInv, TypeOK
  <2>3. \A d \in Clients : client'[d] = IF d = c THEN "none" ELSE client[d]
    BY <1>1 DEF IInv, TypeOK
  <2>4. None <= made
    BY DEF IInv, TypeOK, None
  <2> QED BY <2>4, <1>1, <2>1, <2>2, <2>3 DEF IInv, References
<1>5. Running'
  <2> SUFFICES ASSUME NEW call \in calls
               PROVE  /\ call[2] <= made /\ fate'[call[2]] \in {"used", "killed"}
                      /\ fate'[call[2]] = "used" => mService'[call[1]] = call[2]
    BY <1>1 DEF Running
  <2>1. call[1] \in Clients /\ call[2] \in Managers
    BY CallParts DEF IInv
  <2>2. call[1] = c => mService[c] = call[2] \/ fate[call[2]] = "killed"
    BY DEF IInv, Running
  <2> QED BY <1>1, <1>2, <2>1, <2>2 DEF IInv, TypeOK, Running
<1> QED BY <1>3, <1>4, <1>5 DEF IInv

LEMMA AddStep ==
    ASSUME IInv, TypeOK', NEW m \in Managers, AddClient(m)
    PROVE  IInv'
<1>1. Listed' = Listed /\ UNCHANGED <<made, mImpl, client, mService, calls, fate>>
  BY DEF AddClient, Listed, clientVars
<1> QED BY <1>1 DEF IInv, Places, References, Running

LEMMA InitStep ==
    ASSUME IInv, TypeOK', NEW call \in calls, FinishInit(call)
    PROVE  IInv'
<1>1. /\ mImpl' = [mImpl EXCEPT ![call[2]] = inits[call[2]] + 1] /\ calls' = calls \ {call}
      /\ UNCHANGED <<made, adding, mClients, client, mService, fate>>
  BY DEF FinishInit, clientVars
<1>2. call[2] <= made /\ call[2] \in Managers /\ made \in Nat
  BY CallParts DEF IInv, Running, TypeOK
<1>3. \A m \in Managers : m > made => m # call[2]
  BY <1>2, ManagersAreNumbers
<1>4. Places'
  BY <1>1, <1>3 DEF IInv, TypeOK, Places, Listed
<1>5. References' /\ Running'
  BY <1>1 DEF IInv, References, Running
<1> QED BY <1>4, <1>5 DEF IInv

LEMMA FinishStep ==
    ASSUME IInv, TypeOK', NEW call \in calls, FinishCall(call)
    PROVE  IInv'
<1>1. /\ calls' = calls \ {call}
      /\ UNCHANGED <<made, adding, mClients, mImpl, client, mService, fate>>
  BY DEF FinishCall, clientVars
<1> QED BY <1>1 DEF IInv, Places, References, Running, Listed

LEMMA CrashStep ==
    ASSUME IInv, TypeOK', NEW call \in calls, Crash(call)
    PROVE  IInv'
<1> USE ManagersAreNumbers
<1>1. /\ Listed' = {} /\ calls' = {} /\ UNCHANGED <<made, mImpl, client, mService>>
      /\ fate' = [m \in Managers |-> IF m <= made THEN "lost" ELSE fate[m]]
      /\ made \in Nat
  BY DEF Crash, Listed, clientVars, IInv, TypeOK
<1>2. Places'
  BY <1>1 DEF IInv, Places
<1>3. References'
  BY <1>1 DEF IInv, References, TypeOK
<1>4. Running'
  BY <1>1 DEF Running
<1> QED BY <1>2, <1>3, <1>4 DEF IInv

LEMMA InvStep == IInv /\ TypeOK' /\ [Next]_vars => IInv'
<1> SUFFICES ASSUME IInv, TypeOK', [Next]_vars PROVE IInv'
  OBVIOUS
<1>1. ASSUME NEW c \in Clients, Use(c) PROVE IInv'
  BY <1>1, CallStep DEF Use
<1>2. ASSUME NEW c \in Clients, Close(c) PROVE IInv'
  BY <1>2, CallStep DEF Close, Ops
<1>3. CASE Restart
  BY <1>3 DEF Restart, clientVars, IInv, Places, References, Running, Listed
<1>4. CASE UNCHANGED vars
  BY <1>4 DEF vars, IInv, Places, References, Running, Listed
<1> QED
  BY <1>1, <1>2, <1>3, <1>4, CreateStep, RemoveStep, DropStep, KillStep, AddStep, InitStep,
     FinishStep, CrashStep DEF Next

\* The listed managers are those whose fate says so, in every reachable state.
THEOREM Invariant == Spec => []IInv
<1>1. IInv /\ [Next]_vars => IInv'
  BY InvStep, TypeStep DEF IInv
<1> QED BY <1>1, InvInit, PTL DEF Spec

-----------------------------------------------------------------------------

\* A manager that stays in the list, or comes to it, without a client is there
\* because its client was killed or because destroy came before addClient.
THEOREM OnlyLostStay == Spec => []OnlyLostLeft
<1>1. IInv => OnlyLostLeft
  <2> SUFFICES ASSUME IInv, NEW m \in mClients \cup adding
               PROVE  fate[m] \in {"overtaken", "killed"} \/ m \in Held
    BY DEF OnlyLostLeft
  <2>1. m \in Managers /\ m \in Listed /\ m # None
    BY ManagersAreNumbers DEF IInv, TypeOK, Listed
  <2>2. m <= made
    BY <2>1, ManagersAreNumbers DEF IInv, TypeOK, Places
  <2>3. fate[m] = "used" => m \in Held
    BY <2>1, <2>2 DEF IInv, Places, Held
  <2> QED BY <2>1, <2>2, <2>3 DEF IInv, Places
<1> QED BY <1>1, Invariant, PTL

-----------------------------------------------------------------------------
(***************************************************************************)
(* DecodersAccounted is kept by every step: one that lets go of managers   *)
(* deletes their decoders, and no other lets go of any.                    *)
(***************************************************************************)

\* The managers alive, without the detour through Held.
AliveSet ==
    {m \in Managers : /\ fate[m] # "lost"
                      /\ \/ m \in Listed
                         \/ \E c \in Clients : mService[c] = m
                         \/ \E call \in calls : call[2] = m}

LEMMA AliveNow == IInv => Alive = AliveSet
<1> SUFFICES ASSUME IInv PROVE Alive = AliveSet
  OBVIOUS
<1>1. Held = {m \in Managers : \E c \in Clients : mService[c] = m}
  BY ManagersAreNumbers DEF Held, IInv, TypeOK
<1>2. {call[2] : call \in calls} = {m \in Managers : \E call \in calls : call[2] = m}
  BY CallParts DEF IInv
<1>3. Listed \subseteq Managers
  BY DEF Listed, IInv, TypeOK
<1>4. Alive = {m \in Listed \cup Held \cup {call[2] : call \in calls} : fate[m] # "lost"}
  BY DEF Alive, Listed
<1> HIDE DEF Listed, Held
<1>5. \A m : m \in Alive <=> m \in AliveSet
  <2> TAKE m
  <2>1. m \in Held <=> m \in Managers /\ \E c \in Clients : mService[c] = m
    BY <1>1
  <2>2. m \in {call[2] : call \in calls} <=> m \in Managers /\ \E call \in calls : call[2] = m
    BY <1>2
  <2> QED BY <1>3, <1>4, <2>1, <2>2 DEF AliveSet
<1> QED BY <1>5

LEMMA AliveNext == IInv' => Alive' = AliveSet'
<1>1. (IInv => Alive = AliveSet)'
  BY AliveNow, PTL
<1> QED BY <1>1

LEMMA ReleaseKeeps ==
    ASSUME IInv, DecodersAccounted, Release, mImpl' = mImpl, Alive' \subseteq Alive
    PROVE  DecodersAccounted'
<1>1. decoders' = decoders \ {<<m, mImpl[m]>> : m \in Alive \ Alive'}
  BY DEF Release, DeleteManagers
<1>2. \A m \in Alive' : mImpl[m] # None => <<m, mImpl[m]>> \in decoders'
  BY <1>1 DEF DecodersAccounted
<1>3. ASSUME NEW d \in decoders', d[2] = mImpl[d[1]] PROVE d[1] \in Alive'
  <2>1. d \in decoders /\ d = <<d[1], d[2]>>
    BY <1>1 DEF IInv, TypeOK
  <2>2. d[1] \in Alive
    BY <1>3, <2>1 DEF DecodersAccounted
  <2> QED BY <1>1, <1>3, <2>1, <2>2
<1> QED BY <1>2, <1>3 DEF DecodersAccounted

LEMMA SameKeeps ==
    ASSUME DecodersAccounted, UNCHANGED <<mImpl, decoders>>, Alive' = Alive
    PROVE  DecodersAccounted'
BY DEF DecodersAccounted

LEMMA CreateDecoders ==
    ASSUME IInv, IInv', DecodersAccounted, NEW c \in Clients, Create(c)
    PROVE  DecodersAccounted'
<1>1. CASE up
  <2> DEFINE new == made + 1
  <2>1. /\ new \in Managers /\ new > made /\ Listed' = Listed \cup {new}
        /\ mService' = [mService EXCEPT ![c] = new] /\ mService[c] = None
        /\ UNCHANGED <<mImpl, decoders, fate, calls>>
    BY <1>1, ManagersAreNumbers
    DEF Create, Listed, IInv, TypeOK, References, Managers
  <2>2. mImpl[new] = None
    BY <2>1 DEF IInv, Places
  <2> HIDE DEF new
  <2>3. \A m \in Managers : (\E d \in Clients : mService'[d] = m)
                            <=> m = new \/ \E d \in Clients : mService[d] = m
    BY <2>1, ManagersAreNumbers DEF IInv, TypeOK
  <2>4. Alive \subseteq Alive' /\ Alive' \subseteq Alive \cup {new}
    BY <2>1, <2>3, AliveNow, AliveNext DEF AliveSet
  <2> QED BY <2>1, <2>2, <2>4 DEF DecodersAccounted
<1>2. CASE ~up
  BY <1>2, SameKeeps DEF Create, Alive, Held
<1> QED BY <1>1, <1>2

LEMMA CallDecoders ==
    ASSUME IInv, IInv', DecodersAccounted, NEW c \in Clients, NEW op \in Ops,
           NEW then \in {"open", "closing"}, Call(c, op, then)
    PROVE  DecodersAccounted'
<1>1. /\ UNCHANGED <<adding, mClients, mImpl, decoders, mService, fate>>
      /\ calls' = calls \/ (mService[c] # None /\ calls' = calls \cup {<<c, mService[c], op>>})
  BY DEF Call, serviceVars
<1>2. \A m \in Managers : (\E call \in calls' : call[2] = m)
                          => (\E call \in calls : call[2] = m) \/ mService[c] = m
  BY <1>1
<1>3. \A m \in Managers : (\E call \in calls : call[2] = m) => \E call \in calls' : call[2] = m
  BY <1>1
<1>4. Alive' = Alive
  BY <1>1, <1>2, <1>3, AliveNow, AliveNext DEF AliveSet, Listed
<1> QED BY <1>1, <1>4, SameKeeps

LEMMA RemoveDecoders ==
    ASSUME IInv, IInv', DecodersAccounted, NEW c \in Clients, RemoveClient(c)
    PROVE  DecodersAccounted'
<1>1. /\ UNCHANGED <<adding, mImpl, decoders, mService, calls>>
      /\ mClients' = mClients \ {mService[c]}
  BY DEF RemoveClient
<1>2. \A m \in Managers : fate'[m] = "lost" <=> fate[m] = "lost"
  BY DEF RemoveClient, IInv, TypeOK
<1>3. Alive' = Alive
  BY <1>1, <1>2, AliveNow, AliveNext DEF AliveSet, Listed
<1> QED BY <1>1, <1>3, SameKeeps

LEMMA InitDecoders ==
    ASSUME IInv, IInv', DecodersAccounted, NEW call \in calls, FinishInit(call)
    PROVE  DecodersAccounted'
<1> DEFINE m == call[2]
<1> DEFINE new == inits[m] + 1
<1>1. /\ mImpl' = [mImpl EXCEPT ![m] = new] /\ decoders' = decoders \cup {<<m, new>>}
      /\ calls' = calls \ {call} /\ UNCHANGED <<adding, mClients, mService, fate>>
      /\ mImpl \in [Managers -> Nat]
  BY DEF FinishInit, clientVars, IInv, TypeOK
<1>2. m \in Managers /\ m \in Listed /\ fate[m] # "lost"
  BY CallParts DEF IInv, Places, Running
<1>3. Alive' = Alive /\ m \in Alive
  <2>1. /\ m \in AliveSet /\ m \in AliveSet'
        /\ \A n \in Managers : n # m => (n \in AliveSet <=> n \in AliveSet')
    BY <1>1, <1>2 DEF AliveSet, Listed
  <2>2. AliveSet \subseteq Managers /\ AliveSet' \subseteq Managers
    BY DEF AliveSet
  <2> QED BY <2>1, <2>2, AliveNow, AliveNext
<1> HIDE DEF m, new
<1>4. \A n \in Alive' : mImpl'[n] # None => <<n, mImpl'[n]>> \in decoders'
  BY <1>1, <1>2, <1>3, AliveNow DEF AliveSet, DecodersAccounted
<1>5. ASSUME NEW d \in decoders', d[2] = mImpl'[d[1]] PROVE d[1] \in Alive'
  <2>1. CASE d[1] = m
    BY <1>3, <2>1
  <2>2. CASE d[1] # m
    <3>1. d \in decoders /\ d[1] \in Managers
      BY <1>1, <2>2 DEF IInv, TypeOK
    <3> QED BY <1>1, <1>3, <1>5, <2>2, <3>1 DEF DecodersAccounted
  <2> QED BY <2>1, <2>2
<1> QED BY <1>4, <1>5 DEF DecodersAccounted

LEMMA FinishDecoders ==
    ASSUME IInv, IInv', DecodersAccounted, NEW call \in calls, FinishCall(call)
    PROVE  DecodersAccounted'
<1>1. /\ Release /\ calls' \subseteq calls
      /\ UNCHANGED <<adding, mClients, mImpl, mService, fate>>
  BY DEF FinishCall, clientVars
<1>2. Alive' \subseteq Alive
  BY <1>1, AliveNow, AliveNext DEF AliveSet, Listed
<1> QED BY <1>1, <1>2, ReleaseKeeps

LEMMA LetGoDecoders ==
    ASSUME IInv, IInv', DecodersAccounted, NEW c \in Clients, DropReference(c) \/ Kill(c)
    PROVE  DecodersAccounted'
<1>1. /\ Release /\ mService' = [mService EXCEPT ![c] = None]
      /\ UNCHANGED <<adding, mClients, mImpl, calls>>
  BY DEF DropReference, Kill
<1>2. \A m \in Managers : fate[m] = "lost" => fate'[m] = "lost"
  BY DEF DropReference, Kill, IInv, TypeOK
<1>3. \A m \in Managers : (\E d \in Clients : mService'[d] = m)
                          => \E d \in Clients : mService[d] = m
  BY <1>1, ManagersAreNumbers DEF IInv, TypeOK
<1>4. Alive' \subseteq Alive
  BY <1>1, <1>2, <1>3, AliveNow, AliveNext DEF AliveSet, Listed
<1> QED BY <1>1, <1>4, ReleaseKeeps

LEMMA CrashDecoders ==
    ASSUME IInv, IInv', NEW call \in calls, Crash(call)
    PROVE  DecodersAccounted'
<1>1. decoders' = {} /\ \A m \in Managers : m <= made => fate'[m] = "lost"
  BY DEF Crash
<1>2. \A m \in Managers : m > made => /\ m \notin Listed' /\ \A c \in Clients : mService'[c] # m
                                      /\ calls' = {}
  BY ManagersAreNumbers DEF Crash, Listed, clientVars, IInv, TypeOK, References
<1>3. \A m \in Managers : m <= made \/ m > made
  BY ManagersAreNumbers DEF IInv, TypeOK
<1>4. Alive' = {}
  BY <1>1, <1>2, <1>3, AliveNext DEF AliveSet
<1> QED BY <1>1, <1>4 DEF DecodersAccounted

\* No call finds the decoder of its manager deleted, and a manager that goes
\* takes its decoder with it, whoever lets go last.
THEOREM DecodersLiveWithManagers == Spec => []DecodersAccounted
<1>1. Init => DecodersAccounted
  BY DEF Init, DecodersAccounted, Alive, Held
<1>2. IInv /\ IInv' /\ DecodersAccounted /\ [Next]_vars => DecodersAccounted'
  <2> SUFFICES ASSUME IInv, IInv', DecodersAccounted, [Next]_vars PROVE DecodersAccounted'
    OBVIOUS
  <2>1. ASSUME NEW c \in Clients, Use(c) \/ Close(c) PROVE DecodersAccounted'
    BY <2>1, CallDecoders DEF Use, Close, Ops
  <2>2. ASSUME NEW m \in Managers, AddClient(m) PROVE DecodersAccounted'
    BY <2>2, SameKeeps DEF AddClient, Alive, Held, clientVars
  <2>3. CASE Restart \/ UNCHANGED vars
    BY <2>3, SameKeeps DEF Restart, vars, Alive, Held, clientVars
  <2> QED
    BY <2>1, <2>2, <2>3, CreateDecoders, RemoveDecoders, InitDecoders, FinishDecoders,
       LetGoDecoders, CrashDecoders DEF Next
<1> QED BY <1>1, <1>2, Invariant, PTL DEF Spec

=============================================================================
