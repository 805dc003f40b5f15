-------------------------- MODULE RKNeuralnetworks --------------------------
(***************************************************************************)
(* The neural networks HAL: apps that use the rknn API                     *)
(* (nnapi_implementation) over RockchipNeuralnetworksBuilder               *)
(* (librknnhal_bridge), each in its process, and the one RKNeuralnetworks  *)
(* object of the service, which eight threads serve.                       *)
(*                                                                         *)
(* rknnInit writes the context the library makes into ctx, a member of the *)
(* object, and reads the member again for its answer: in between another   *)
(* thread may be in rknnInit too.  All other calls pass the context they   *)
(* are given to the library.  Inputs travel in a pool of shared memory.    *)
(* Of the library's calls only rknn_init fails on its own, shared memory   *)
(* is always to be had, and an app makes one call at a time and uses one   *)
(* context.                                                                *)
(***************************************************************************)
EXTENDS Naturals, Sequences

CONSTANTS Apps,         \* app processes; each loads a model of its own
          NInputs,      \* inputs of a model, all of one size
          Data,         \* contents of an input
          Zero,         \* contents of fresh shared memory
          NoResult,     \* nothing was got yet
          Devices,      \* the Android version and libraries of a device
          MaxContexts   \* bound: contexts the library makes

ASSUME NetworksAssumption ==
    /\ NInputs \in Nat \ {0}
    /\ Zero \notin Data
    /\ MaxContexts \in Nat \ {0}
    /\ Devices \subseteq [set : BOOLEAN, numeric : BOOLEAN, level : Nat,
                           preQ : BOOLEAN, bridge : BOOLEAN]

Inputs == [1..NInputs -> Data]
Seen == [1..NInputs -> Data \cup {Zero}]
Result == [model : Apps, in : Seen] \cup {Zero}  \* Zero: nothing was written

VARIABLES device,      \* never changes
          contexts,    \* of the library, in the order they were made
          ctx,         \* RKNeuralnetworks::ctx, 0 before the first rknnInit
          at,          \* where each app is, see TypeOK
          made,        \* context its last rknnInit made, 0: none, it failed
          handle,      \* context its _RKNNContext has
          info,        \* app of the model whose attributes that has, Zero:
                       \* memory, NoResult: rknn_init has still to ask
          set,         \* inputs it set last
          asked,       \* inputs that were set when it last called run
          got,         \* outputs it got for that run
          overlap      \* history: contexts made while the thread that made
                       \* another had still to read ctx, and those others

appVars == <<set, asked, got>>
vars == <<device, contexts, ctx, at, made, handle, info, appVars, overlap>>

Ids == 0..Len(contexts)

LibraryContext == [model : Apps, live : BOOLEAN, in : Seen, out : Seen]

TypeOK ==
    /\ device \in Devices
    /\ contexts \in Seq(LibraryContext)
    /\ ctx \in Ids
    /\ at \in [Apps -> {"new", "out", "answering", "in", "lost", "crashed", "killed"}]
    /\ made \in [Apps -> Ids]
    /\ handle \in [Apps -> Ids]
    /\ info \in [Apps -> Apps \cup {Zero, NoResult}]
    /\ set \in [Apps -> Inputs \cup {NoResult}]
    /\ asked \in [Apps -> Inputs \cup {NoResult}]
    /\ got \in [Apps -> Result \cup {NoResult}]
    /\ overlap \subseteq 1..Len(contexts)

Init ==
    /\ device \in Devices
    /\ contexts = <<>>
    /\ ctx = 0
    /\ at = [a \in Apps |-> "new"]
    /\ made = [a \in Apps |-> 0]
    /\ handle = [a \in Apps |-> 0]
    /\ info = [a \in Apps |-> NoResult]
    /\ set = [a \in Apps |-> NoResult]
    /\ asked = [a \in Apps |-> NoResult]
    /\ got = [a \in Apps |-> NoResult]
    /\ overlap = {}
---------------------------------------------------------------------------
(* The service's calls of the library, which refuses a context that was    *)
(* destroyed.                                                              *)

RknnInputsSet(c, pool) ==
    contexts' = IF contexts[c].live THEN [contexts EXCEPT ![c].in = pool] ELSE contexts

RknnRun(c) ==
    contexts' = IF contexts[c].live THEN [contexts EXCEPT ![c].out = contexts[c].in]
                                    ELSE contexts

\* What the pool has after rknnOutputsGet.
RknnOutputs(c) ==
    IF contexts[c].live THEN [model |-> contexts[c].model, in |-> contexts[c].out]
                        ELSE Zero

\* What a query writes: attributes of the context's model, or nothing.
RknnQuery(c) == IF contexts[c].live THEN contexts[c].model ELSE Zero

RknnDestory(c) == contexts' = [contexts EXCEPT ![c].live = FALSE]
---------------------------------------------------------------------------
(* rknn_init: the API's functions are loaded once in a process, the        *)
(* service makes a context in two steps of a thread, and the bridge asks   *)
(* for the attributes of its model.                                        *)

\* GetAndroidSdkVersion: a name counts as a version higher than any other.
AndroidSdkVersion ==
    CASE ~device.set -> 0
      [] device.set /\ ~device.numeric -> 65535
      [] device.set /\ device.numeric /\ device.level = 28 /\ device.preQ -> 29
      [] OTHER -> device.level

\* Whether LoadNnApi finds the functions; nobody looks at nnapi_exists.
LoadNnApi == AndroidSdkVersion >= 27 /\ device.bridge

\* The first rknn_init of a process; without the functions it calls NULL.
Load(a) ==
    /\ at[a] = "new"
    /\ at' = [at EXCEPT ![a] = IF LoadNnApi THEN "out" ELSE "crashed"]
    /\ UNCHANGED <<device, contexts, ctx, made, handle, info, appVars, overlap>>

Blank == [i \in 1..NInputs |-> Zero]

\* Contexts whose threads have still to read ctx.
Unread == {made[a] : a \in {b \in Apps : at[b] = "answering"}} \ {0}

\* The library has made a context for app a, or refused its model and left ctx.
InitLoad(a) ==
    /\ at[a] = "out"
    /\ \/ /\ Len(contexts) < MaxContexts
          /\ contexts' = Append(contexts, [model |-> a, live |-> TRUE,
                                           in |-> Blank, out |-> Blank])
          /\ ctx' = Len(contexts')
          /\ made' = [made EXCEPT ![a] = ctx']
          /\ overlap' = IF Unread = {} THEN overlap
                                       ELSE overlap \cup Unread \cup {ctx'}
       \/ made' = [made EXCEPT ![a] = 0] /\ UNCHANGED <<contexts, ctx, overlap>>
    /\ at' = [at EXCEPT ![a] = "answering"]
    /\ set' = [set EXCEPT ![a] = NoResult]
    /\ asked' = [asked EXCEPT ![a] = NoResult]
    /\ got' = [got EXCEPT ![a] = NoResult]
    /\ UNCHANGED <<device, handle, info>>

\* The bridge's rknn_init returns 0 after an error too, and then leaves
\* *context unset.
BridgeInit(a) == [ret |-> 0, set |-> made[a] # 0]

\* The answer, with the status that the thread has kept itself, and ctx.  The
\* API's rknn_init keeps what the bridge left when it returns 0.
InitReply(a) ==
    /\ at[a] = "answering"
    /\ BridgeInit(a).ret = 0
    /\ IF BridgeInit(a).set
       THEN /\ at' = [at EXCEPT ![a] = "in"]
            /\ handle' = [handle EXCEPT ![a] = ctx]
       ELSE /\ at' = [at EXCEPT ![a] = "lost"]
            /\ UNCHANGED handle
    /\ info' = [info EXCEPT ![a] = NoResult]
    /\ UNCHANGED <<device, contexts, ctx, made, appVars, overlap>>

\* The queries of one context; the bridge passes no status on.
Queried(c) == RknnQuery(c)

\* The rest of the bridge's rknn_init.
GetModelInfo(a) ==
    /\ at[a] = "in" /\ info[a] = NoResult
    /\ info' = [info EXCEPT ![a] = Queried(handle[a])]
    /\ UNCHANGED <<device, contexts, ctx, at, made, handle, appVars, overlap>>

\* An app makes its calls when rknn_init has returned.
Ready(a) == at[a] = "in" /\ info[a] # NoResult
---------------------------------------------------------------------------
(* Calls on a context.  The bridge passes no status of the library on.     *)

\* What the library finds at the offset of each input: the bridge copies every
\* input to the start of the pool.
Pooled(f) == [i \in 1..NInputs |-> IF i = 1 THEN f[NInputs] ELSE Zero]

\* Faulty variant: the library is called with the object's own context.
ContextOfMember(a) == ctx

\* The context a call of app a reaches, through the wrapper the API keeps.
Context(a) == handle[a]

InputsSet(a, f) ==
    /\ Ready(a)
    /\ RknnInputsSet(Context(a), Pooled(f))
    /\ set' = [set EXCEPT ![a] = f]
    /\ UNCHANGED <<device, ctx, at, made, handle, info, asked, got, overlap>>

Run(a) ==
    /\ Ready(a)
    /\ set[a] # NoResult
    /\ RknnRun(Context(a))
    /\ asked' = [asked EXCEPT ![a] = set[a]]
    /\ got' = [got EXCEPT ![a] = NoResult]
    /\ UNCHANGED <<device, ctx, at, made, handle, info, set, overlap>>

\* The outputs are allocated by the attributes that were asked for, and nothing
\* is written when those are another model's.
OutputsOf(a) ==
    IF info[a] = contexts[Context(a)].model THEN RknnOutputs(Context(a)) ELSE Zero

OutputsGet(a) ==
    /\ Ready(a)
    /\ asked[a] # NoResult
    /\ got' = [got EXCEPT ![a] = OutputsOf(a)]
    /\ UNCHANGED <<device, contexts, ctx, at, made, handle, info, set, asked, overlap>>

\* The app's copy is freed; the service is not called.
OutputsRelease(a) ==
    /\ Ready(a)
    /\ got[a] # NoResult /\ got' = [got EXCEPT ![a] = NoResult]
    /\ UNCHANGED <<device, contexts, ctx, at, made, handle, info, set, asked, overlap>>

\* Faulty variant: only the app's side of the context is freed.
DestroyHere(a) ==
    /\ Ready(a)
    /\ at' = [at EXCEPT ![a] = "out"]
    /\ UNCHANGED <<device, contexts, ctx, made, handle, info, appVars, overlap>>

Destroy(a) ==
    /\ Ready(a)
    /\ RknnDestory(Context(a))
    /\ at' = [at EXCEPT ![a] = "out"]
    /\ UNCHANGED <<device, ctx, made, handle, info, appVars, overlap>>

\* A call with the context that a failed rknn_init left unset.  If the app's
\* variable was 0, rknn_destroy does nothing.
UseLost(a) ==
    /\ at[a] = "lost"
    /\ \E w \in {"crashed", "out"} : at' = [at EXCEPT ![a] = w]
    /\ UNCHANGED <<device, contexts, ctx, made, handle, info, appVars, overlap>>

\* The app's process ends with a context; the service is not told.
Kill(a) ==
    /\ at[a] = "in"
    /\ at' = [at EXCEPT ![a] = "killed"]
    /\ UNCHANGED <<device, contexts, ctx, made, handle, info, appVars, overlap>>

Next == \E a \in Apps : \/ Load(a)
                        \/ InitLoad(a)
                        \/ InitReply(a)
                        \/ GetModelInfo(a)
                        \/ \E f \in Inputs : InputsSet(a, f)
                        \/ Run(a)
                        \/ OutputsGet(a)
                        \/ OutputsRelease(a)
                        \/ Destroy(a)
                        \/ UseLost(a)
                        \/ Kill(a)

Spec == Init /\ [][Next]_vars
---------------------------------------------------------------------------
(***************************************************************************)
(* A context is not mixed up when no other thread was between making its   *)
(* own and reading ctx.  Then the app that made it has it, alive, as long  *)
(* as it does not destroy it, no other app reaches it, and it stays alive  *)
(* only for an app that has it, is about to get it, or was killed with it. *)
(* The attributes an app has are its own model's (rknnInit, rknnDestory,   *)
(* _get_model_info).                                                       *)
(***************************************************************************)
ContextsAccounted ==
    \A i \in DOMAIN contexts \ overlap :
       /\ \A a \in Apps : at[a] = "in" =>
             /\ handle[a] = i => contexts[i].model = a /\ info[a] \in {a, NoResult}
             /\ made[a] = i => handle[a] = i /\ contexts[i].live
       /\ contexts[i].live =>
             \E a \in Apps : made[a] = i /\ at[a] \in {"answering", "in", "killed"}

(***************************************************************************)
(* What an app gets is its own model's result on the inputs it had set     *)
(* when it called run, whatever other apps do with theirs, if its context  *)
(* was not mixed up and its model has one input.                           *)
(***************************************************************************)
OutputsAreOwn ==
    \A a \in Apps :
       NInputs = 1 /\ made[a] \notin overlap /\ got[a] # NoResult
          => got[a] = [model |-> a, in |-> asked[a]]

=============================================================================
