----------------------- MODULE RKNeuralnetworks_proofs -----------------------
(***************************************************************************)
(* ContextsAccounted and OutputsAreOwn for every number of apps, contexts  *)
(* and inputs.                                                             *)
(***************************************************************************)
EXTENDS RKNeuralnetworks, TLAPS

\* ctx is the last context made.  A context made by a thread that has still to
\* read ctx is either that one, or both are in overlap.
CtxIsLast ==
    /\ ctx = Len(contexts)
    /\ \A a \in Apps : at[a] = "answering" /\ made[a] # 0 =>
          made[a] = ctx \/ (made[a] \in overlap /\ ctx \in overlap)

\* Each context has one maker, the app whose model it has, and one that is in
\* has a context.
MadeOnce ==
    /\ \A a \in Apps : made[a] # 0 => contexts[made[a]].model = a
    /\ \A a \in Apps : at[a] = "in" => made[a] # 0 /\ handle[a] # 0

\* An app has a context that was not mixed up only if it made it, and then has
\* it, or is about to get it, alive.
HasItsOwn ==
    /\ \A a \in Apps : at[a] = "in" =>
          /\ handle[a] \notin overlap => made[a] = handle[a]
          /\ made[a] \notin overlap => made[a] = handle[a]
    /\ \A a \in Apps : at[a] \in {"answering", "in"} /\ made[a] # 0 /\ made[a] \notin overlap
          => contexts[made[a]].live

\* A context that was not mixed up is alive only for its maker.
LiveHasMaker ==
    \A i \in DOMAIN contexts \ overlap : contexts[i].live =>
       \E a \in Apps : made[a] = i /\ at[a] \in {"answering", "in", "killed"}

\* The attributes of a context that was not mixed up are its own model's.
InfoIsOwn ==
    \A a \in Apps : at[a] = "in" /\ handle[a] \notin overlap => info[a] \in {a, NoResult}

ContextInv == TypeOK /\ CtxIsLast /\ MadeOnce /\ HasItsOwn /\ LiveHasMaker /\ InfoIsOwn

\* The inputs of a context that was not mixed up are its app's, and its outputs
\* those of the app's last run.
DataInv ==
    NInputs = 1 => \A a \in Apps : made[a] \notin overlap =>
       /\ at[a] \in {"answering", "lost"} =>
             set[a] = NoResult /\ asked[a] = NoResult /\ got[a] = NoResult
       /\ at[a] = "in" /\ set[a] # NoResult => contexts[made[a]].in = set[a]
       /\ at[a] = "in" /\ asked[a] # NoResult => contexts[made[a]].out = asked[a]
       /\ got[a] # NoResult => got[a] = [model |-> a, in |-> asked[a]]
----------------------------------------------------------------------------
\* What a list of contexts is after one of them was changed.
LEMMA Changed ==
    ASSUME NEW s \in Seq(LibraryContext), NEW i \in 1..Len(s),
           NEW c \in LibraryContext
    PROVE  LET t == [s EXCEPT ![i] = c]
           IN  /\ t \in Seq(LibraryContext)
               /\ Len(t) = Len(s)
               /\ t[i] = c
               /\ \A j \in 1..Len(s) : j # i => t[j] = s[j]
  OBVIOUS

\* The pool holds data or zeroes at each input's place.
LEMMA PooledTyped ==
    ASSUME NEW f \in Inputs
    PROVE  Pooled(f) \in Seen /\ (NInputs = 1 => Pooled(f) = f)
<1>1. NInputs \in 1..NInputs
  BY NetworksAssumption
<1> QED
  BY <1>1 DEF Pooled, Seen, Inputs

\* A call on a context that is alive changes its data, another changes nothing.
LEMMA CallTyped ==
    ASSUME TypeOK, MadeOnce, NEW a \in Apps, at[a] = "in"
    PROVE  /\ handle[a] \in 1..Len(contexts)
           /\ contexts[handle[a]] \in LibraryContext
<1>1. handle[a] \in 0..Len(contexts) /\ handle[a] # 0 /\ Len(contexts) \in Nat
  BY DEF TypeOK, MadeOnce, Ids
<1>2. handle[a] \in 1..Len(contexts)
  BY <1>1
<1> QED
  BY <1>2 DEF TypeOK

\* A step that changes the data of contexts at most keeps the invariant.
LEMMA DataStep ==
    ASSUME CtxIsLast, MadeOnce, HasItsOwn, LiveHasMaker, InfoIsOwn, TypeOK,
           contexts' \in Seq(LibraryContext), Len(contexts') = Len(contexts),
           \A i \in 1..Len(contexts) : /\ contexts'[i].model = contexts[i].model
                                       /\ contexts'[i].live = contexts[i].live,
           UNCHANGED <<ctx, at, made, handle, info, overlap>>
    PROVE  CtxIsLast' /\ MadeOnce' /\ HasItsOwn' /\ LiveHasMaker' /\ InfoIsOwn'
<1>1. DOMAIN contexts = 1..Len(contexts) /\ DOMAIN contexts' = 1..Len(contexts)
  BY DEF TypeOK
<1>2. \A b \in Apps : made[b] \in 0..Len(contexts) /\ Len(contexts) \in Nat
  BY DEF TypeOK, Ids
<1>3. \A b \in Apps : made[b] # 0 => made[b] \in 1..Len(contexts)
  BY <1>2
<1>4. CtxIsLast'
  BY DEF CtxIsLast
<1>5. MadeOnce'
  BY <1>3 DEF MadeOnce
<1>6. HasItsOwn'
  BY <1>3 DEF HasItsOwn, MadeOnce
<1>7. LiveHasMaker'
  BY <1>1 DEF LiveHasMaker
<1>8. InfoIsOwn'
  BY DEF InfoIsOwn
<1> QED
  BY <1>4, <1>5, <1>6, <1>7, <1>8
----------------------------------------------------------------------------
LEMMA InitContextInv == Init => ContextInv
<1> SUFFICES ASSUME Init PROVE ContextInv
  OBVIOUS
<1>1. contexts \in Seq(LibraryContext) /\ Len(contexts) = 0 /\ DOMAIN contexts = {}
  BY DEF Init
<1>2. TypeOK
  BY <1>1 DEF Init, TypeOK, Ids
<1> QED
  BY <1>1, <1>2 DEF Init, ContextInv, CtxIsLast, MadeOnce, HasItsOwn, LiveHasMaker, InfoIsOwn

LEMMA InitLoadStep ==
    ASSUME ContextInv, NEW a \in Apps, InitLoad(a)
    PROVE  ContextInv'
<1> USE DEF ContextInv
<1>1. /\ Len(contexts) \in Nat /\ DOMAIN contexts = 1..Len(contexts)
      /\ \A b \in Apps : made[b] \in 0..Len(contexts) /\ handle[b] \in 0..Len(contexts)
      /\ overlap \subseteq 1..Len(contexts)
  BY DEF TypeOK, Ids
<1>2. at[a] = "out" /\ at' = [at EXCEPT ![a] = "answering"] /\ handle' = handle
      /\ info' = info /\ device' = device
  BY DEF InitLoad
<1>3. CASE made' = [made EXCEPT ![a] = 0] /\ UNCHANGED <<contexts, ctx, overlap>>
  <2>1. TypeOK'
    BY <1>1, <1>2, <1>3 DEF InitLoad, TypeOK, Ids
  <2>2. CtxIsLast'
    BY <1>2, <1>3 DEF CtxIsLast, TypeOK
  <2>3. MadeOnce'
    BY <1>2, <1>3 DEF MadeOnce, TypeOK
  <2>4. HasItsOwn'
    BY <1>2, <1>3 DEF HasItsOwn, TypeOK
  <2>5. LiveHasMaker'
    BY <1>1, <1>2, <1>3 DEF LiveHasMaker, TypeOK
  <2>6. InfoIsOwn'
    BY <1>2, <1>3 DEF InfoIsOwn, TypeOK
  <2> QED
    BY <2>1, <2>2, <2>3, <2>4, <2>5, <2>6
<1>4. CASE contexts' # contexts \/ made' # [made EXCEPT ![a] = 0]
  <2> DEFINE n == Len(contexts) + 1
             c == [model |-> a, live |-> TRUE, in |-> Blank, out |-> Blank]
  <2>1. /\ contexts' = Append(contexts, c)
        /\ ctx' = Len(contexts')
        /\ made' = [made EXCEPT ![a] = ctx']
        /\ overlap' = IF Unread = {} THEN overlap ELSE overlap \cup Unread \cup {ctx'}
    BY <1>4 DEF InitLoad
  <2>2. c \in LibraryContext
    BY DEF LibraryContext, Blank, Seen
  <2>3. /\ contexts' \in Seq(LibraryContext) /\ Len(contexts') = n
        /\ DOMAIN contexts' = 1..n /\ contexts'[n] = c
        /\ \A i \in 1..Len(contexts) : contexts'[i] = contexts[i]
    BY <2>1, <2>2 DEF TypeOK
  <2>4. n \in Nat /\ n # 0 /\ n \notin 0..Len(contexts) /\ 1..n = 1..Len(contexts) \cup {n}
    BY <1>1
  <2>5. Unread \subseteq 1..Len(contexts)
    BY <1>1 DEF Unread
  <2>6. /\ overlap \subseteq overlap' /\ overlap' \subseteq 1..n
        /\ \A b \in Apps : at[b] = "answering" /\ made[b] # 0
                              => made[b] \in overlap' /\ n \in overlap'
        /\ n \in overlap' \/ overlap' = overlap
    <3>1. \A b \in Apps : at[b] = "answering" /\ made[b] # 0 => made[b] \in Unread
      BY DEF Unread
    <3> QED
      BY <3>1, <1>1, <2>1, <2>3, <2>4, <2>5
  <2> HIDE DEF n, c
  <2>7. made' = [made EXCEPT ![a] = n] /\ ctx' = n
    BY <2>1, <2>3
  <2>8. /\ made'[a] = n /\ \A b \in Apps \ {a} : made'[b] = made[b]
        /\ at'[a] = "answering" /\ \A b \in Apps \ {a} : at'[b] = at[b]
    BY <2>7, <1>2 DEF TypeOK
  <2>9. TypeOK'
    <3>1. \A i \in 0..Len(contexts) : i \in 0..n
      BY <2>4, <1>1 DEF n
    <3>2. n \in 0..n
      BY <2>4
    <3>3. made' \in [Apps -> 0..n] /\ handle' \in [Apps -> 0..n] /\ ctx' \in 0..n
      BY <1>1, <1>2, <2>7, <3>1, <3>2 DEF TypeOK, Ids
    <3>4. /\ at' \in [Apps -> {"new", "out", "answering", "in", "lost", "crashed", "killed"}]
          /\ set' \in [Apps -> Inputs \cup {NoResult}]
          /\ asked' \in [Apps -> Inputs \cup {NoResult}]
          /\ got' \in [Apps -> Result \cup {NoResult}]
          /\ device' \in Devices /\ info' \in [Apps -> Apps \cup {Zero, NoResult}]
      BY <1>2 DEF InitLoad, TypeOK
    <3> QED
      BY <2>3, <2>6, <3>3, <3>4 DEF TypeOK, Ids
  <2>10. CtxIsLast'
    BY <2>3, <2>6, <2>7, <2>8 DEF CtxIsLast
  <2>11. \A b \in Apps \ {a} : made[b] # 0 => contexts'[made'[b]].model = contexts[made[b]].model
                                            /\ contexts'[made'[b]].live = contexts[made[b]].live
    BY <1>1, <2>3, <2>8
  <2>12. MadeOnce'
    <3>1. contexts'[made'[a]].model = a
      BY <2>3, <2>8 DEF c
    <3> QED
      BY <1>2, <2>8, <2>11, <3>1 DEF MadeOnce
  <2>13. HasItsOwn'
    <3>1. contexts'[made'[a]].live
      BY <2>3, <2>8 DEF c
    <3> QED
      BY <1>2, <2>6, <2>8, <2>11, <3>1 DEF HasItsOwn, MadeOnce
  <2>14. LiveHasMaker'
    <3> SUFFICES ASSUME NEW i \in 1..n, i \notin overlap', contexts'[i].live
                 PROVE  \E b \in Apps : /\ made'[b] = i
                                        /\ at'[b] \in {"answering", "in", "killed"}
      BY <2>3 DEF LiveHasMaker
    <3>1. CASE i = n
      BY <3>1, <2>8
    <3>2. CASE i # n
      <4>1. i \in DOMAIN contexts \ overlap /\ contexts[i].live
        BY <3>2, <1>1, <2>3, <2>4, <2>6
      <4>2. PICK b \in Apps : made[b] = i /\ at[b] \in {"answering", "in", "killed"}
        BY <4>1 DEF LiveHasMaker
      <4> QED
        BY <4>2, <1>2, <2>8
    <3> QED
      BY <3>1, <3>2
  <2>15. InfoIsOwn'
    BY <1>2, <2>6, <2>8 DEF InfoIsOwn
  <2> QED
    BY <2>9, <2>10, <2>12, <2>13, <2>14, <2>15
<1> QED
  BY <1>3, <1>4 DEF InitLoad

LEMMA InitReplyStep ==
    ASSUME ContextInv, NEW a \in Apps, InitReply(a)
    PROVE  ContextInv'
<1> USE DEF ContextInv
<1>1. /\ at[a] = "answering" /\ UNCHANGED <<contexts, ctx, made, overlap>>
      /\ made[a] # 0 => /\ at' = [at EXCEPT ![a] = "in"]
                        /\ handle' = [handle EXCEPT ![a] = ctx]
      /\ made[a] = 0 => at' = [at EXCEPT ![a] = "lost"] /\ handle' = handle
      /\ info' = [info EXCEPT ![a] = NoResult]
      /\ UNCHANGED <<device, set, asked, got>>
  BY DEF InitReply, BridgeInit, appVars
<1>2. TypeOK'
  <2>1. CASE made[a] # 0
    BY <1>1, <2>1 DEF TypeOK, Ids
  <2>2. CASE made[a] = 0
    BY <1>1, <2>2 DEF TypeOK, Ids
  <2> QED
    BY <2>1, <2>2
<1>3. CtxIsLast'
  BY <1>1 DEF CtxIsLast, TypeOK
<1>4. made[a] # 0 => ctx # 0
  BY DEF CtxIsLast, TypeOK, Ids
<1>5. MadeOnce'
  BY <1>1, <1>4 DEF MadeOnce, TypeOK
<1>7. HasItsOwn'
  BY <1>1 DEF HasItsOwn, CtxIsLast, TypeOK
<1>8. LiveHasMaker'
  BY <1>1 DEF LiveHasMaker, TypeOK
<1>9. InfoIsOwn'
  BY <1>1 DEF InfoIsOwn, TypeOK
<1> QED
  BY <1>2, <1>3, <1>5, <1>7, <1>8, <1>9

LEMMA LoadStep ==
    ASSUME ContextInv, NEW a \in Apps, Load(a)
    PROVE  ContextInv'
<1> USE DEF ContextInv
<1>1. /\ UNCHANGED <<device, contexts, ctx, made, handle, info, set, asked, got, overlap>>
      /\ at[a] = "new"
      /\ \E w \in {"out", "crashed"} : at' = [at EXCEPT ![a] = w]
  BY DEF Load, appVars
<1>2. TypeOK'
  BY <1>1 DEF TypeOK, Ids
<1>3. CtxIsLast' /\ MadeOnce'
  BY <1>1 DEF CtxIsLast, MadeOnce, TypeOK
<1>4. HasItsOwn' /\ InfoIsOwn'
  BY <1>1 DEF HasItsOwn, InfoIsOwn, TypeOK
<1>5. LiveHasMaker'
  BY <1>1 DEF LiveHasMaker, TypeOK
<1> QED
  BY <1>2, <1>3, <1>4, <1>5

LEMMA GetModelInfoStep ==
    ASSUME ContextInv, NEW a \in Apps, GetModelInfo(a)
    PROVE  ContextInv'
<1> USE DEF ContextInv
<1>1. /\ at[a] = "in" /\ info' = [info EXCEPT ![a] = RknnQuery(handle[a])]
      /\ UNCHANGED <<device, contexts, ctx, at, made, handle, set, asked, got, overlap>>
  BY DEF GetModelInfo, Queried, appVars
<1>2. /\ handle[a] \in 1..Len(contexts)
      /\ contexts[handle[a]] \in LibraryContext
  BY <1>1, CallTyped
<1>3. RknnQuery(handle[a]) \in Apps \cup {Zero, NoResult}
  BY <1>2 DEF RknnQuery, LibraryContext
<1>4. TypeOK'
  BY <1>1, <1>3 DEF TypeOK, Ids
<1>5. handle[a] \notin overlap => RknnQuery(handle[a]) = a
  BY <1>1 DEF RknnQuery, HasItsOwn, MadeOnce
<1>6. InfoIsOwn'
  BY <1>1, <1>5 DEF InfoIsOwn, TypeOK
<1>7. CtxIsLast' /\ MadeOnce' /\ HasItsOwn' /\ LiveHasMaker'
  BY <1>1 DEF CtxIsLast, MadeOnce, HasItsOwn, LiveHasMaker
<1> QED
  BY <1>4, <1>6, <1>7

LEMMA InputsSetStep ==
    ASSUME ContextInv, NEW a \in Apps, NEW f \in Inputs, InputsSet(a, f)
    PROVE  ContextInv'
<1> USE DEF ContextInv
<1> DEFINE i == handle[a]
           c == [contexts[i] EXCEPT !.in = Pooled(f)]
<1>1. at[a] = "in" /\ UNCHANGED <<ctx, at, made, handle, info, overlap>>
      /\ (contexts' = contexts \/ contexts' = [contexts EXCEPT ![i] = c])
  BY DEF InputsSet, Ready, RknnInputsSet, Context
<1>2. i \in 1..Len(contexts) /\ c \in LibraryContext
      /\ c.model = contexts[i].model /\ c.live = contexts[i].live
  BY <1>1, CallTyped, PooledTyped DEF LibraryContext
<1>3. contexts' \in Seq(LibraryContext) /\ Len(contexts') = Len(contexts)
      /\ \A j \in 1..Len(contexts) : /\ contexts'[j].model = contexts[j].model
                                     /\ contexts'[j].live = contexts[j].live
  <2> HIDE DEF i, c
  <2>1. CASE contexts' = contexts
    BY <2>1 DEF TypeOK
  <2>2. CASE contexts' = [contexts EXCEPT ![i] = c]
    BY <1>2, <2>2, Changed DEF TypeOK
  <2> QED
    BY <1>1, <2>1, <2>2
<1>4. TypeOK'
  BY <1>1, <1>3 DEF InputsSet, TypeOK, Ids
<1> QED
  BY <1>1, <1>3, <1>4, DataStep

LEMMA RunStep ==
    ASSUME ContextInv, NEW a \in Apps, Run(a)
    PROVE  ContextInv'
<1> USE DEF ContextInv
<1> DEFINE i == handle[a]
           c == [contexts[i] EXCEPT !.out = contexts[i].in]
<1>1. at[a] = "in" /\ UNCHANGED <<ctx, at, made, handle, info, overlap>>
      /\ (contexts' = contexts \/ contexts' = [contexts EXCEPT ![i] = c])
  BY DEF Run, Ready, RknnRun, Context
<1>2. i \in 1..Len(contexts) /\ c \in LibraryContext
      /\ c.model = contexts[i].model /\ c.live = contexts[i].live
  BY <1>1, CallTyped DEF LibraryContext
<1>3. contexts' \in Seq(LibraryContext) /\ Len(contexts') = Len(contexts)
      /\ \A j \in 1..Len(contexts) : /\ contexts'[j].model = contexts[j].model
                                     /\ contexts'[j].live = contexts[j].live
  <2> HIDE DEF i, c
  <2>1. CASE contexts' = contexts
    BY <2>1 DEF TypeOK
  <2>2. CASE contexts' = [contexts EXCEPT ![i] = c]
    BY <1>2, <2>2, Changed DEF TypeOK
  <2> QED
    BY <1>1, <2>1, <2>2
<1>4. TypeOK'
  BY <1>1, <1>3 DEF Run, TypeOK, Ids
<1> QED
  BY <1>1, <1>3, <1>4, DataStep

LEMMA OutputsGetStep ==
    ASSUME ContextInv, NEW a \in Apps, OutputsGet(a)
    PROVE  ContextInv'
<1> USE DEF ContextInv
<1>1. at[a] = "in" /\ UNCHANGED <<contexts, ctx, at, made, handle, info, overlap>>
  BY DEF OutputsGet, Ready
<1>2. contexts[handle[a]] \in LibraryContext
  BY <1>1, CallTyped
<1>3. TypeOK'
  BY <1>1, <1>2 DEF OutputsGet, OutputsOf, RknnOutputs, TypeOK, Ids, Context, Result, LibraryContext
<1> QED
  BY <1>1, <1>3, DataStep DEF TypeOK

LEMMA OutputsReleaseStep ==
    ASSUME ContextInv, NEW a \in Apps, OutputsRelease(a)
    PROVE  ContextInv'
<1> USE DEF ContextInv
<1>1. UNCHANGED <<contexts, ctx, at, made, handle, info, overlap>>
  BY DEF OutputsRelease
<1>2. TypeOK'
  BY <1>1 DEF OutputsRelease, TypeOK, Ids
<1> QED
  BY <1>1, <1>2, DataStep DEF TypeOK

LEMMA DestroyStep ==
    ASSUME ContextInv, NEW a \in Apps, Destroy(a)
    PROVE  ContextInv'
<1> USE DEF ContextInv
<1> DEFINE i == handle[a]
           c == [contexts[i] EXCEPT !.live = FALSE]
<1>1. /\ at[a] = "in" /\ at' = [at EXCEPT ![a] = "out"]
      /\ UNCHANGED <<ctx, made, handle, info, overlap>>
      /\ contexts' = [contexts EXCEPT ![i] = c]
  BY DEF Destroy, Ready, RknnDestory, Context
<1>2. i \in 1..Len(contexts) /\ c \in LibraryContext /\ c.model = contexts[i].model
      /\ ~c.live
  BY <1>1, CallTyped DEF LibraryContext
<1>3. contexts' \in Seq(LibraryContext) /\ Len(contexts') = Len(contexts)
      /\ \A j \in 1..Len(contexts) : /\ contexts'[j].model = contexts[j].model
                                     /\ j # i => contexts'[j] = contexts[j]
      /\ ~contexts'[i].live
  <2> HIDE DEF i, c
  <2> QED
    BY <1>1, <1>2, Changed DEF TypeOK
<1>4. \A b \in Apps : made[b] # 0 => made[b] \in 1..Len(contexts)
  <2>1. \A b \in Apps : made[b] \in 0..Len(contexts) /\ Len(contexts) \in Nat
    BY DEF TypeOK, Ids
  <2> QED
    BY <2>1
<1> HIDE DEF i, c
<1>5. i \notin overlap => made[a] = i
  BY <1>1 DEF HasItsOwn, i
<1>6. \A b \in Apps \ {a} : made[b] # 0 /\ made[b] \notin overlap => made[b] # i
  BY <1>2, <1>5 DEF MadeOnce
<1>7. TypeOK'
  BY <1>1, <1>3 DEF Destroy, TypeOK, Ids, appVars
<1>8. CtxIsLast'
  BY <1>1, <1>3 DEF CtxIsLast, TypeOK
<1>9. MadeOnce'
  BY <1>1, <1>3, <1>4 DEF MadeOnce, TypeOK
<1>10. HasItsOwn'
  BY <1>1, <1>3, <1>4, <1>6 DEF HasItsOwn, TypeOK
<1>11. LiveHasMaker'
  <2> SUFFICES ASSUME NEW j \in 1..Len(contexts), j \notin overlap, contexts'[j].live
               PROVE  \E b \in Apps : /\ made'[b] = j
                                      /\ at'[b] \in {"answering", "in", "killed"}
    BY <1>1, <1>3 DEF LiveHasMaker
  <2>1. j # i /\ contexts[j].live
    BY <1>3
  <2>2. PICK b \in Apps : made[b] = j /\ at[b] \in {"answering", "in", "killed"}
    BY <2>1 DEF LiveHasMaker, TypeOK
  <2>3. b # a
    BY <2>1, <2>2, <1>1 DEF HasItsOwn, i
  <2> QED
    BY <2>2, <2>3, <1>1 DEF TypeOK
<1>12. InfoIsOwn'
  BY <1>1 DEF InfoIsOwn, TypeOK
<1> QED
  BY <1>7, <1>8, <1>9, <1>10, <1>11, <1>12

LEMMA LeaveStep ==
    ASSUME ContextInv, NEW a \in Apps, UseLost(a) \/ Kill(a)
    PROVE  ContextInv'
<1> USE DEF ContextInv
<1>1. /\ UNCHANGED <<contexts, ctx, made, handle, info, overlap>>
      /\ \/ at[a] = "lost" /\ \E w \in {"crashed", "out"} : at' = [at EXCEPT ![a] = w]
         \/ at[a] = "in" /\ at' = [at EXCEPT ![a] = "killed"]
  BY DEF UseLost, Kill
<1>2. TypeOK'
  BY <1>1 DEF UseLost, Kill, TypeOK, Ids, appVars
<1>3. CtxIsLast' /\ MadeOnce'
  BY <1>1 DEF CtxIsLast, MadeOnce, TypeOK
<1>4. HasItsOwn' /\ InfoIsOwn'
  BY <1>1 DEF HasItsOwn, InfoIsOwn, TypeOK
<1>5. LiveHasMaker'
  BY <1>1 DEF LiveHasMaker, TypeOK
<1> QED
  BY <1>2, <1>3, <1>4, <1>5

\* Every step keeps the invariant.
LEMMA NextContextInv == ContextInv /\ [Next]_vars => ContextInv'
<1> SUFFICES ASSUME ContextInv, [Next]_vars
             PROVE  ContextInv'
  OBVIOUS
<1>1. ASSUME NEW a \in Apps, InitLoad(a) PROVE ContextInv'
  BY <1>1, InitLoadStep
<1>2. ASSUME NEW a \in Apps, InitReply(a) PROVE ContextInv'
  BY <1>2, InitReplyStep
<1>3. ASSUME NEW a \in Apps, NEW f \in Inputs, InputsSet(a, f) PROVE ContextInv'
  BY <1>3, InputsSetStep
<1>4. ASSUME NEW a \in Apps, Run(a) PROVE ContextInv'
  BY <1>4, RunStep
<1>5. ASSUME NEW a \in Apps, OutputsGet(a) PROVE ContextInv'
  BY <1>5, OutputsGetStep
<1>6. ASSUME NEW a \in Apps, Destroy(a) PROVE ContextInv'
  BY <1>6, DestroyStep
<1>7. ASSUME NEW a \in Apps, UseLost(a) \/ Kill(a) PROVE ContextInv'
  BY <1>7, LeaveStep
<1>8. ASSUME NEW a \in Apps, OutputsRelease(a) PROVE ContextInv'
  BY <1>8, OutputsReleaseStep
<1>9. CASE UNCHANGED vars
  BY <1>9 DEF vars, appVars, ContextInv, TypeOK, Ids, CtxIsLast, MadeOnce,
              HasItsOwn, LiveHasMaker, InfoIsOwn
<1>10. ASSUME NEW a \in Apps, Load(a) PROVE ContextInv'
  BY <1>10, LoadStep
<1>11. ASSUME NEW a \in Apps, GetModelInfo(a) PROVE ContextInv'
  BY <1>11, GetModelInfoStep
<1> QED
  BY <1>1, <1>2, <1>3, <1>4, <1>5, <1>6, <1>7, <1>8, <1>9, <1>10, <1>11 DEF Next

LEMMA ContextInvHolds == Spec => []ContextInv
  BY InitContextInv, NextContextInv, PTL DEF Spec

\* Every variable of the service, of the library and of the apps has its type.
THEOREM TypeCorrect == Spec => []TypeOK
<1>1. ContextInv => TypeOK
  BY DEF ContextInv
<1> QED
  BY <1>1, ContextInvHolds, PTL

\* Contexts that were not mixed up in rknnInit are with the apps that made them,
\* and outlive only apps that were killed.
THEOREM ContextsAreAccounted == Spec => []ContextsAccounted
<1>1. ContextInv => ContextsAccounted
  BY DEF ContextInv, ContextsAccounted, MadeOnce, HasItsOwn, LiveHasMaker, InfoIsOwn, TypeOK
<1> QED
  BY <1>1, ContextInvHolds, PTL
----------------------------------------------------------------------------
\* An app that is in reaches no context of another that was not mixed up.
LEMMA NotReached ==
    ASSUME ContextInv, NEW a \in Apps, NEW b \in Apps \ {a},
           at[a] = "in", at[b] = "in", made[b] \notin overlap
    PROVE  handle[a] # made[b]
  BY DEF ContextInv, MadeOnce, HasItsOwn

\* What the contexts of the apps are to DataInv after a step on one context.
LEMMA OthersKeep ==
    ASSUME ContextInv, NEW a \in Apps, at[a] = "in", NEW c,
           contexts' = [contexts EXCEPT ![handle[a]] = c]
    PROVE  /\ made[a] \notin overlap => contexts'[made[a]] = c
           /\ \A b \in Apps \ {a} : at[b] = "in" /\ made[b] \notin overlap
                                       => contexts'[made[b]] = contexts[made[b]]
<1>1. handle[a] \in DOMAIN contexts
  BY CallTyped DEF ContextInv, TypeOK
<1>2. made[a] \notin overlap => made[a] = handle[a]
  BY DEF ContextInv, HasItsOwn
<1> QED
  BY <1>1, <1>2, NotReached DEF ContextInv, TypeOK

LEMMA InitDataStep ==
    ASSUME ContextInv, DataInv, NInputs = 1, NEW a \in Apps,
           InitLoad(a) \/ InitReply(a)
    PROVE  DataInv'
<1>1. CASE InitLoad(a)
  <2>1. /\ at[a] = "out" /\ at' = [at EXCEPT ![a] = "answering"]
        /\ set' = [set EXCEPT ![a] = NoResult]
        /\ asked' = [asked EXCEPT ![a] = NoResult]
        /\ got' = [got EXCEPT ![a] = NoResult]
    BY <1>1 DEF InitLoad
  <2>2. /\ overlap \subseteq overlap'
        /\ \A b \in Apps \ {a} : made'[b] = made[b]
    BY <1>1 DEF InitLoad, ContextInv, TypeOK
  <2>3. \A b \in Apps \ {a} : at[b] = "in" => contexts'[made[b]] = contexts[made[b]]
    <3>1. \A b \in Apps : at[b] = "in" => made[b] \in 1..Len(contexts)
      <4>1. \A b \in Apps : made[b] \in 0..Len(contexts) /\ Len(contexts) \in Nat
        BY DEF ContextInv, TypeOK, Ids
      <4> QED
        BY <4>1 DEF ContextInv, MadeOnce
    <3>2. contexts' = contexts \/ \E c \in LibraryContext : contexts' = Append(contexts, c)
      BY <1>1 DEF InitLoad, LibraryContext, Blank, Seen
    <3>3. \A c \in LibraryContext : \A i \in 1..Len(contexts) :
             Append(contexts, c)[i] = contexts[i]
      BY DEF ContextInv, TypeOK
    <3>4. CASE contexts' = contexts
      BY <3>4
    <3>5. CASE \E c \in LibraryContext : contexts' = Append(contexts, c)
      BY <3>1, <3>3, <3>5
    <3> QED
      BY <3>2, <3>4, <3>5
  <2>4. /\ at'[a] = "answering" /\ set'[a] = NoResult
        /\ asked'[a] = NoResult /\ got'[a] = NoResult
        /\ \A b \in Apps \ {a} : /\ at'[b] = at[b] /\ set'[b] = set[b]
                                /\ asked'[b] = asked[b] /\ got'[b] = got[b]
    BY <2>1 DEF ContextInv, TypeOK
  <2> QED
    BY <2>2, <2>3, <2>4 DEF DataInv
<1>2. CASE InitReply(a)
  <2>1. /\ at[a] = "answering" /\ \E w \in {"in", "lost"} : at' = [at EXCEPT ![a] = w]
        /\ UNCHANGED <<contexts, made, set, asked, got, overlap>>
    BY <1>2 DEF InitReply, BridgeInit, appVars
  <2> QED
    BY <2>1 DEF DataInv, ContextInv, TypeOK
<1> QED
  BY <1>1, <1>2

LEMMA CallDataStep ==
    ASSUME ContextInv, DataInv, NInputs = 1, NEW a \in Apps,
           (\E f \in Inputs : InputsSet(a, f)) \/ Run(a) \/ OutputsGet(a)
    PROVE  DataInv'
<1>1. UNCHANGED <<at, made, handle, overlap>> /\ at[a] = "in"
  BY DEF InputsSet, Run, OutputsGet, Ready
<1>2. /\ handle[a] \in 1..Len(contexts)
      /\ contexts[handle[a]] \in LibraryContext
  BY <1>1, CallTyped DEF ContextInv
<1>3. made[a] \notin overlap => /\ made[a] = handle[a] /\ contexts[made[a]].live
                                /\ contexts[made[a]].model = a
                                /\ info[a] \in {a, NoResult}
  BY <1>1 DEF ContextInv, HasItsOwn, MadeOnce, InfoIsOwn
<1>4. ASSUME NEW f \in Inputs, InputsSet(a, f)
      PROVE  DataInv'
  <2> DEFINE c == [contexts[handle[a]] EXCEPT !.in = Pooled(f)]
  <2>1. /\ set' = [set EXCEPT ![a] = f] /\ UNCHANGED <<asked, got>>
        /\ contexts' = contexts \/ contexts' = [contexts EXCEPT ![handle[a]] = c]
        /\ made[a] \notin overlap => contexts' = [contexts EXCEPT ![handle[a]] = c]
    BY <1>3, <1>4 DEF InputsSet, RknnInputsSet, Context
  <2>2. c.in = f /\ c.out = contexts[handle[a]].out
    BY <1>2, PooledTyped DEF LibraryContext
  <2> HIDE DEF c
  <2>3. /\ made[a] \notin overlap => contexts'[made[a]] = c
        /\ \A b \in Apps \ {a} : at[b] = "in" /\ made[b] \notin overlap
                                    => contexts'[made[b]] = contexts[made[b]]
    <3>1. CASE contexts' = contexts
      BY <3>1, <2>1, <1>1, OthersKeep
    <3>2. CASE contexts' = [contexts EXCEPT ![handle[a]] = c]
      BY <3>2, <1>1, OthersKeep
    <3> QED
      BY <2>1, <3>1, <3>2
  <2> QED
    BY <1>1, <1>3, <2>1, <2>2, <2>3 DEF DataInv, ContextInv, TypeOK
<1>5. CASE Run(a)
  <2> DEFINE c == [contexts[handle[a]] EXCEPT !.out = contexts[handle[a]].in]
  <2>1. /\ asked' = [asked EXCEPT ![a] = set[a]] /\ got' = [got EXCEPT ![a] = NoResult]
        /\ set' = set /\ set[a] # NoResult
        /\ contexts' = contexts \/ contexts' = [contexts EXCEPT ![handle[a]] = c]
        /\ made[a] \notin overlap => contexts' = [contexts EXCEPT ![handle[a]] = c]
    BY <1>3, <1>5 DEF Run, RknnRun, Context
  <2>2. c.in = contexts[handle[a]].in /\ c.out = contexts[handle[a]].in
    BY <1>2 DEF LibraryContext
  <2> HIDE DEF c
  <2>3. /\ made[a] \notin overlap => contexts'[made[a]] = c
        /\ \A b \in Apps \ {a} : at[b] = "in" /\ made[b] \notin overlap
                                    => contexts'[made[b]] = contexts[made[b]]
    <3>1. CASE contexts' = contexts
      BY <3>1, <2>1, <1>1, OthersKeep
    <3>2. CASE contexts' = [contexts EXCEPT ![handle[a]] = c]
      BY <3>2, <1>1, OthersKeep
    <3> QED
      BY <2>1, <3>1, <3>2
  <2> QED
    BY <1>1, <1>3, <2>1, <2>2, <2>3 DEF DataInv, ContextInv, TypeOK
<1>6. CASE OutputsGet(a)
  <2>1. /\ UNCHANGED <<contexts, set, asked>> /\ asked[a] # NoResult
        /\ made[a] \notin overlap =>
              got' = [got EXCEPT ![a] = [model |-> a, in |-> contexts[made[a]].out]]
        /\ \E r : got' = [got EXCEPT ![a] = r]
    BY <1>3, <1>6 DEF OutputsGet, Ready, OutputsOf, RknnOutputs, Context
  <2> QED
    BY <1>1, <2>1 DEF DataInv, ContextInv, TypeOK
<1> QED
  BY <1>4, <1>5, <1>6

LEMMA ReleaseDataStep ==
    ASSUME ContextInv, DataInv, NEW a \in Apps, OutputsRelease(a)
    PROVE  DataInv'
<1>1. /\ UNCHANGED <<contexts, at, made, set, asked, overlap>>
      /\ got' = [got EXCEPT ![a] = NoResult]
  BY DEF OutputsRelease
<1> QED
  BY <1>1 DEF DataInv, ContextInv, TypeOK

LEMMA LeaveDataStep ==
    ASSUME ContextInv, DataInv, NInputs = 1, NEW a \in Apps,
           Load(a) \/ Destroy(a) \/ UseLost(a) \/ Kill(a)
    PROVE  DataInv'
<1>1. /\ UNCHANGED <<made, set, asked, got, overlap>>
      /\ \E w \in {"out", "crashed", "killed"} : at' = [at EXCEPT ![a] = w]
  BY DEF Load, Destroy, UseLost, Kill, appVars
<1>2. \A b \in Apps \ {a} : at[b] = "in" /\ made[b] \notin overlap
                               => contexts'[made[b]] = contexts[made[b]]
  <2>1. CASE contexts' = contexts
    BY <2>1
  <2>2. CASE Destroy(a)
    <3>1. at[a] = "in" /\ contexts' = [contexts EXCEPT ![handle[a]] =
                                          [contexts[handle[a]] EXCEPT !.live = FALSE]]
      BY <2>2 DEF Destroy, Ready, RknnDestory, Context
    <3> QED
      BY <3>1, OthersKeep
  <2> QED
    BY <2>1, <2>2 DEF Load, UseLost, Kill
<1> QED
  BY <1>1, <1>2 DEF DataInv, ContextInv, TypeOK

LEMMA InfoDataStep ==
    ASSUME DataInv, NEW a \in Apps, GetModelInfo(a)
    PROVE  DataInv'
  BY DEF GetModelInfo, appVars, DataInv

LEMMA NextDataInv == ContextInv /\ DataInv /\ [Next]_vars => DataInv'
<1> SUFFICES ASSUME ContextInv, DataInv, [Next]_vars
             PROVE  DataInv'
  OBVIOUS
<1>1. CASE NInputs # 1
  BY <1>1 DEF DataInv
<1>2. CASE NInputs = 1 /\ UNCHANGED vars
  BY <1>2 DEF vars, appVars, DataInv
<1>3. CASE NInputs = 1 /\ Next
  <2>1. PICK a \in Apps : \/ Load(a) \/ InitLoad(a) \/ InitReply(a) \/ GetModelInfo(a)
                          \/ (\E f \in Inputs : InputsSet(a, f)) \/ Run(a) \/ OutputsGet(a)
                          \/ OutputsRelease(a)
                          \/ Destroy(a) \/ UseLost(a) \/ Kill(a)
    BY <1>3 DEF Next
  <2> QED
    BY <2>1, <1>3, InitDataStep, CallDataStep, ReleaseDataStep, LeaveDataStep,
       InfoDataStep
<1> QED
  BY <1>1, <1>2, <1>3

\* With one input, an app whose context was not mixed up gets its own model's
\* result on the inputs it had set when it called run.
THEOREM OutputsAreTheApps == Spec => []OutputsAreOwn
<1>1. Init => DataInv
  BY DEF Init, DataInv
<1>2. DataInv => OutputsAreOwn
  BY DEF DataInv, OutputsAreOwn
<1> QED
  BY <1>1, <1>2, ContextInvHolds, NextDataInv, PTL DEF Spec
==============================================================================
