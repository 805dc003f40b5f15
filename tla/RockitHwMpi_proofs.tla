------------------------- MODULE RockitHwMpi_proofs -------------------------
(***************************************************************************)
(* Proofs about RockitHwMpi, for any names, bounds and lengths, and about  *)
(* SurfaceCallback, which gives the frames of a Surface their names.       *)
(***************************************************************************)
EXTENDS RockitHwMpi, SurfaceCallback, SequenceTheorems, FiniteSetTheorems,
        WellFoundedInduction, NaturalsInduction, TLAPS

(* Parameters.                                                             *)

\* getValue finds the value of the first pair with the key.
LEMMA GetsFirst ==
    ASSUME NEW param, NEW key, param.counter \in Nat,
           NEW k \in 1 .. param.counter, param.pairs[k].key = key,
           \A i \in 1 .. k - 1 : param.pairs[i].key # key
    PROVE  GetValue(param, key) = param.pairs[k].value
<1> DEFINE I == {i \in 1 .. param.counter : param.pairs[i].key = key}
<1>1. k \in I /\ \A i \in I : k <= i
  OBVIOUS
<1>2. I \subseteq Int
  OBVIOUS
<1>3. Min(I) = k
  BY <1>1, <1>2 DEF Min
<1>4. k # 0 /\ I # {}
  BY <1>1
<1>. QED
  BY <1>3, <1>4 DEF GetValue, SelectInSubSeq

\* The first c pairs, of an array of ten, count, and none is the flags.
NoFlagsIn(param, c) ==
    /\ param.counter = c /\ DOMAIN param.pairs = 1 .. 10
    /\ \A i \in 1 .. c : param.pairs[i].key # "FLAGS"

\* setValue adds a pair behind those that count.
LEMMA SetsNext ==
    ASSUME NEW param, NEW c \in 0 .. 9, NoFlagsIn(param, c), NEW key, NEW value
    PROVE  LET set == SetValue(param, key, value)
           IN  /\ set.counter = c + 1 /\ DOMAIN set.pairs = 1 .. 10
               /\ set.pairs[c + 1] = [key |-> key, value |-> value]
               /\ \A i \in 1 .. c : set.pairs[i].key # "FLAGS"
<1> DEFINE set == SetValue(param, key, value)
<1>1. /\ set.counter = c + 1 /\ DOMAIN set.pairs = 1 .. 10
      /\ \A i \in 1 .. 10 :
            set.pairs[i] = IF i = c + 1 THEN [key |-> key, value |-> value]
                           ELSE param.pairs[i]
  BY DEF SetValue, NoFlagsIn
<1> HIDE DEF set
<1>2. set.pairs[c + 1] = [key |-> key, value |-> value]
  BY <1>1
<1>3. \A i \in 1 .. c : set.pairs[i].key # "FLAGS"
  BY <1>1 DEF NoFlagsIn
<1>. QED
  BY <1>1, <1>2, <1>3 DEF set

LEMMA SetsOther ==
    ASSUME NEW param, NEW c \in 0 .. 9, NoFlagsIn(param, c), NEW key, key # "FLAGS",
           NEW value, NEW d, d = c + 1
    PROVE  NoFlagsIn(SetValue(param, key, value), d)
<1>1. /\ SetValue(param, key, value).counter = c + 1
      /\ DOMAIN SetValue(param, key, value).pairs = 1 .. 10
      /\ SetValue(param, key, value).pairs[c + 1] = [key |-> key, value |-> value]
      /\ \A i \in 1 .. c : SetValue(param, key, value).pairs[i].key # "FLAGS"
  BY SetsNext
<1>. QED
  BY <1>1 DEF NoFlagsIn

\* The flags the decoder writes are those the client reads.
LEMMA FlagsComeBack ==
    ASSUME NEW id, NEW flags
    PROVE  GetValue(Received(id, flags).pair, "FLAGS") = flags
<1> DEFINE written == FrameParams(flags)
           read == Received(id, flags).pair
<1>1. /\ written.counter = 7
      /\ DOMAIN written.pairs = 1 .. 10
      /\ written.pairs[7] = [key |-> "FLAGS", value |-> flags]
      /\ \A i \in 1 .. 6 : written.pairs[i].key # "FLAGS"
  <2> DEFINE p1 == SetValue(Sized(10), "WIDTH_STRIDE", 1)
             p2 == SetValue(p1, "HEIGHT_STRIDE", 1)
             p3 == SetValue(p2, "WIDTH", 1)
             p4 == SetValue(p3, "HEIGHT", 1)
             p5 == SetValue(p4, "PTS", 1)
             p6 == SetValue(p5, "DTS", 1)
  <2>0. written = SetValue(p6, "FLAGS", flags)
    BY DEF FrameParams
  <2> HIDE DEF written
  <2>1. NoFlagsIn(Sized(10), 0)
    BY DEF Sized, NoFlagsIn
  <2>2. NoFlagsIn(p1, 1)
    BY <2>1, SetsOther
  <2>3. NoFlagsIn(p2, 2)
    BY <2>2, SetsOther
  <2>4. NoFlagsIn(p3, 3)
    BY <2>3, SetsOther
  <2>5. NoFlagsIn(p4, 4)
    BY <2>4, SetsOther
  <2>6. NoFlagsIn(p5, 5)
    BY <2>5, SetsOther
  <2>7. NoFlagsIn(p6, 6)
    BY <2>6, SetsOther
  <2> HIDE DEF p6
  <2>. QED
    BY <2>0, <2>7, SetsNext
<1>2. /\ read.counter = 7
      /\ \A i \in 1 .. 7 : read.pairs[i] = written.pairs[i]
  <2> HIDE DEF written
  <2>1. Received(id, flags).pair =
           [counter |-> written.counter,
            pairs |-> [i \in 1 .. 10 |-> IF i <= written.counter THEN written.pairs[i]
                                         ELSE Unset]]
    BY DEF Received, HwBuffer2RTBuffer, RockitHWParam2RTHWParam, InitRTHWBuffer,
           ClientBuffer, Sized, written
  <2>. QED
    BY <1>1, <2>1
<1> HIDE DEF written, read
<1>3. /\ read.pairs[7].key = "FLAGS" /\ read.pairs[7].value = flags
      /\ \A i \in 1 .. 6 : read.pairs[i].key # "FLAGS"
  BY <1>1, <1>2
<1>4. GetValue(read, "FLAGS") = read.pairs[7].value
  BY <1>2, <1>3, GetsFirst
<1>. QED
  BY <1>3, <1>4 DEF read

\* A frame tells of no info change; an info change does.
LEMMA WhoTellsChange ==
    /\ \A id : \A flags \in {0, HW_FLAGS_EOS, HW_FLAGS_ERROR_INFOR} :
          TellsChange(Received(id, flags)) = FALSE
    /\ TellsChange(Received(-1, HW_FLAGS_INFOR_CHANGE)) = TRUE
BY FlagsComeBack DEF TellsChange, Flagged, HW_FLAGS_EOS, HW_FLAGS_ERROR_INFOR,
                     HW_FLAGS_INFOR_CHANGE
---------------------------------------------------------------------------
(* Frames.  Every MppBuffer that a client has, or that the decoder may use,*)
(* has its own entry in mCommitList, and an entry is the only one of its   *)
(* name: giving a frame back by name cannot put another's reference.  When *)
(* the size changes, the decoder has no frame, so that the frames left     *)
(* with references are the client's, and those entries stay.               *)

MppBuffer == [id : Names, refs : Nat, state : {"live", "old", "freed"}]

OneEntry == \A e, f \in mCommitList : e.id = f.id => e = f
DecodesLive == \A b \in decoding : mpp[b].state = "live"
WaitsEmpty == changing => decoding = {}
HasEntry ==
    impl = "ready" =>
       \A b \in DOMAIN mpp :
          b \in lent \/ mpp[b].state = "live"
             => \E e \in mCommitList : e.id = mpp[b].id /\ e.buf = b
NothingYet == impl = "none" => mpp = <<>>

FrameTypes ==
    /\ mCommitList \subseteq MppBufferCtx
    /\ mpp \in Seq(MppBuffer)
    /\ decoding \subseteq DOMAIN mpp /\ lent \subseteq DOMAIN mpp
    /\ changing \in BOOLEAN

FrameInv ==
    /\ FrameTypes
    /\ OneEntry /\ RefsAccounted /\ NoDecodeIntoLent
    /\ DecodesLive /\ WaitsEmpty /\ HasEntry /\ NothingYet

\* What putting references of these buffers does to each buffer.
LEMMA PutEach ==
    ASSUME NEW m \in Seq(MppBuffer), NEW bufs,
           \A b \in DOMAIN m : b \in bufs => m[b].refs > 0
    PROVE  /\ PutAll(m, bufs) \in Seq(MppBuffer)
           /\ DOMAIN PutAll(m, bufs) = DOMAIN m
           /\ \A b \in DOMAIN m :
                 /\ PutAll(m, bufs)[b].id = m[b].id
                 /\ PutAll(m, bufs)[b].refs = IF b \in bufs THEN m[b].refs - 1 ELSE m[b].refs
                 /\ PutAll(m, bufs)[b].state =
                       IF b \in bufs /\ m[b].state = "old" /\ m[b].refs = 1 THEN "freed"
                       ELSE m[b].state
<1> DEFINE put == PutAll(m, bufs)
<1>1. DOMAIN m = 1 .. Len(m) /\ Len(m) \in Nat /\ \A b \in DOMAIN m : m[b] \in MppBuffer
  OBVIOUS
<1>2. DOMAIN put = DOMAIN m
  BY DEF PutAll
<1>3. ASSUME NEW b \in DOMAIN m
      PROVE  /\ put[b] \in MppBuffer
             /\ put[b].id = m[b].id
             /\ put[b].refs = IF b \in bufs THEN m[b].refs - 1 ELSE m[b].refs
             /\ put[b].state = IF b \in bufs /\ m[b].state = "old" /\ m[b].refs = 1
                               THEN "freed" ELSE m[b].state
  BY <1>1, <1>3 DEF PutAll, MppBuffer
<1>4. put \in [1 .. Len(m) -> MppBuffer]
  BY <1>1, <1>2, <1>3 DEF PutAll
<1>5. put \in Seq(MppBuffer)
  BY <1>1, <1>4, SeqDef
<1>. QED
  BY <1>2, <1>3, <1>5

\* What clearing the group does to each buffer.
LEMMA ClearEach ==
    ASSUME NEW m \in Seq(MppBuffer)
    PROVE  /\ ClearGroup(m) \in Seq(MppBuffer)
           /\ DOMAIN ClearGroup(m) = DOMAIN m
           /\ \A b \in DOMAIN m :
                 /\ ClearGroup(m)[b].id = m[b].id
                 /\ ClearGroup(m)[b].refs = m[b].refs
                 /\ ClearGroup(m)[b].state =
                       IF m[b].state = "freed" \/ m[b].refs = 0 THEN "freed" ELSE "old"
<1> DEFINE clear == ClearGroup(m)
<1>1. DOMAIN m = 1 .. Len(m) /\ Len(m) \in Nat /\ \A b \in DOMAIN m : m[b] \in MppBuffer
  OBVIOUS
<1>2. DOMAIN clear = DOMAIN m
  BY DEF ClearGroup
<1>3. ASSUME NEW b \in DOMAIN m
      PROVE  /\ clear[b] \in MppBuffer
             /\ clear[b].id = m[b].id /\ clear[b].refs = m[b].refs
             /\ clear[b].state =
                   IF m[b].state = "freed" \/ m[b].refs = 0 THEN "freed" ELSE "old"
  BY <1>1, <1>3 DEF ClearGroup, MppBuffer
<1>4. clear \in [1 .. Len(m) -> MppBuffer]
  BY <1>1, <1>2, <1>3 DEF ClearGroup
<1>5. clear \in Seq(MppBuffer)
  BY <1>1, <1>4, SeqDef
<1>. QED
  BY <1>2, <1>3, <1>5

\* A change of owner keeps the buffers the entries stand for.
LEMMA OwnerEach ==
    ASSUME mCommitList \subseteq MppBufferCtx, OneEntry,
           NEW n, NEW site \in {"MPI", "ROCKIT"}
    PROVE  /\ OwnedBy(site, n) \subseteq MppBufferCtx
           /\ \A e, f \in OwnedBy(site, n) : e.id = f.id => e = f
           /\ \A e \in mCommitList : \E f \in OwnedBy(site, n) : f.id = e.id /\ f.buf = e.buf
<1> DEFINE new(e) == IF e.id = n THEN [e EXCEPT !.site = site] ELSE e
<1>1. \A e \in mCommitList : new(e) \in MppBufferCtx /\ new(e).id = e.id /\ new(e).buf = e.buf
  BY DEF MppBufferCtx
<1>2. OwnedBy(site, n) = {new(e) : e \in mCommitList}
  BY DEF OwnedBy
<1>3. \A f \in OwnedBy(site, n) : \E e \in mCommitList : f = new(e)
  BY <1>2
<1>4. \A e \in mCommitList : new(e) \in OwnedBy(site, n)
  BY <1>2
<1> HIDE DEF new
<1>5. \A e, f \in OwnedBy(site, n) : e.id = f.id => e = f
  BY <1>1, <1>3 DEF OneEntry
<1>. QED
  BY <1>1, <1>3, <1>4, <1>5

LEMMA RefsNat ==
    ASSUME FrameInv
    PROVE  \A b \in DOMAIN mpp : mpp[b] \in MppBuffer /\ mpp[b].refs \in Nat
<1>1. \A b \in DOMAIN mpp : mpp[b] \in MppBuffer
  BY DEF FrameInv, FrameTypes
<1>. QED
  BY <1>1 DEF MppBuffer

\* A frame the client has is given back by its name: its own reference goes.
LEMMA NameIsOwn ==
    ASSUME FrameInv, impl = "ready", NEW n, InHand(n)
    PROVE  /\ n \in Committed
           /\ FindMppBuffer(n).buf \in lent
<1>1. PICK b \in lent : mpp[b].id = n
  BY DEF InHand
<1>2. PICK e \in mCommitList : e.id = n /\ e.buf = b
  BY <1>1 DEF FrameInv, FrameTypes, HasEntry
<1>3. FindMppBuffer(n) = e
  BY <1>2 DEF FindMppBuffer, FrameInv, OneEntry
<1>. QED
  BY <1>1, <1>2, <1>3 DEF Committed

LEMMA CommitFrames ==
    ASSUME FrameInv, FreshNames, NEW n \in Names, CommitBuffer(n)
    PROVE  FrameInv'
<1>1. PICK imported \in BOOLEAN :
         LET b == IF imported THEN Len(mpp) + 1 ELSE NoBuf
         IN  /\ mpp' = IF imported
                       THEN Append(mpp, [id |-> n, refs |-> 1, state |-> "live"]) ELSE mpp
             /\ lent' = IF imported THEN lent \cup {b} ELSE lent
             /\ mCommitList' =
                   IF n \in Committed THEN mCommitList
                   ELSE mCommitList \cup {[id |-> n, buf |-> b, site |-> "MPI"]}
  BY DEF CommitBuffer
<1>2. n \notin Committed /\ UNCHANGED <<impl, decoding, changing>> /\ impl = "ready"
  BY DEF CommitBuffer
<1> DEFINE b == IF imported THEN Len(mpp) + 1 ELSE NoBuf
           e == [id |-> n, buf |-> b, site |-> "MPI"]
<1>3. mCommitList' = mCommitList \cup {e}
  BY <1>1, <1>2
<1>4. /\ mpp \in Seq(MppBuffer) /\ Len(mpp) \in Nat /\ DOMAIN mpp = 1 .. Len(mpp)
      /\ \A c \in DOMAIN mpp : mpp[c] \in MppBuffer
  BY DEF FrameInv, FrameTypes
<1>5. b \in Nat /\ e \in MppBufferCtx
  BY <1>4 DEF NoBuf, MppBufferCtx
<1>6. \A f \in mCommitList : f.id # n
  BY <1>2 DEF Committed
<1>7. OneEntry' /\ mCommitList' \subseteq MppBufferCtx
  BY <1>3, <1>5, <1>6 DEF OneEntry, FrameInv, FrameTypes
<1>8. CASE ~imported
  <2>1. mpp' = mpp /\ lent' = lent /\ mCommitList \subseteq mCommitList'
    BY <1>1, <1>3, <1>8
  <2>2. HasEntry'
    BY <1>2, <2>1 DEF FrameInv, HasEntry
  <2>. QED
    BY <1>2, <1>7, <2>1, <2>2 DEF FrameInv, FrameTypes, RefsAccounted, NoDecodeIntoLent,
       DecodesLive, WaitsEmpty, NothingYet
<1>9. CASE imported
  <2> DEFINE m == [id |-> n, refs |-> 1, state |-> "live"]
  <2>1. /\ mpp' = Append(mpp, m) /\ lent' = lent \cup {b} /\ b = Len(mpp) + 1
        /\ m \in MppBuffer
    BY <1>1, <1>9 DEF MppBuffer
  <2>2. /\ mpp' \in Seq(MppBuffer) /\ DOMAIN mpp' = DOMAIN mpp \cup {b}
        /\ \A c \in DOMAIN mpp : mpp'[c] = mpp[c]
        /\ mpp'[b] = m /\ b \notin DOMAIN mpp
    BY <1>4, <2>1, AppendProperties
  <2> HIDE DEF m, b
  <2>3. b \notin lent /\ b \notin decoding
    BY <2>2 DEF FrameInv, FrameTypes
  <2>4. FrameTypes'
    BY <1>2, <1>7, <2>1, <2>2 DEF FrameInv, FrameTypes
  <2>5. RefsAccounted'
    <3> SUFFICES ASSUME NEW c \in DOMAIN mpp'
                 PROVE  /\ mpp'[c].refs = (IF c \in decoding THEN 1 ELSE 0)
                                          + (IF c \in lent' THEN 1 ELSE 0)
                        /\ mpp'[c].state = "freed" => mpp'[c].refs = 0
                        /\ mpp'[c].state = "old" => mpp'[c].refs > 0
      BY <1>2 DEF RefsAccounted
    <3>1. CASE c = b
      BY <2>1, <2>2, <2>3, <3>1 DEF m
    <3>2. CASE c # b
      BY <2>1, <2>2, <3>2 DEF FrameInv, RefsAccounted
    <3>. QED
      BY <3>1, <3>2
  <2>6. NoDecodeIntoLent' /\ DecodesLive' /\ WaitsEmpty' /\ NothingYet'
    BY <1>2, <2>1, <2>2, <2>3 DEF FrameInv, FrameTypes, NoDecodeIntoLent, DecodesLive,
       WaitsEmpty, NothingYet
  <2>7. HasEntry'
    <3>1. e \in mCommitList' /\ e.id = mpp'[b].id /\ e.buf = b
      BY <1>3, <2>2 DEF m
    <3>2. ASSUME NEW c \in DOMAIN mpp, c \in lent \/ mpp[c].state = "live"
          PROVE  \E f \in mCommitList' : f.id = mpp'[c].id /\ f.buf = c
      BY <1>2, <1>3, <2>2, <3>2 DEF FrameInv, HasEntry
    <3>. QED
      BY <2>1, <2>2, <3>1, <3>2 DEF HasEntry
  <2>. QED
    BY <1>7, <2>4, <2>5, <2>6, <2>7 DEF FrameInv
<1>. QED
  BY <1>8, <1>9

LEMMA GiveBackFrames ==
    ASSUME FrameInv, NEW n \in Names, GiveBackBuffer(n)
    PROVE  FrameInv'
<1> DEFINE b == FindMppBuffer(n).buf
<1>1. impl = "ready" /\ UNCHANGED <<impl, decoding, changing>> /\ InHand(n)
  BY DEF GiveBackBuffer
<1>2. n \in Committed /\ b \in lent
  BY <1>1, NameIsOwn
<1>3. mCommitList' = OwnedBy("MPI", n) /\ mpp' = PutAll(mpp, {b}) /\ lent' = lent \ {b}
  BY <1>2 DEF GiveBackBuffer
<1> HIDE DEF b
<1>4. b \in DOMAIN mpp /\ b \notin decoding /\ mpp[b].refs = 1
  BY <1>2 DEF FrameInv, FrameTypes, RefsAccounted, NoDecodeIntoLent
<1>5. /\ mpp' \in Seq(MppBuffer) /\ DOMAIN mpp' = DOMAIN mpp
      /\ \A c \in DOMAIN mpp : c # b => mpp'[c].refs = mpp[c].refs /\ mpp'[c].state = mpp[c].state
      /\ \A c \in DOMAIN mpp : mpp'[c].id = mpp[c].id
      /\ mpp'[b].refs = 0 /\ mpp'[b].state = IF mpp[b].state = "old" THEN "freed" ELSE mpp[b].state
  BY <1>3, <1>4, PutEach DEF FrameInv, FrameTypes
<1>6. /\ mCommitList' \subseteq MppBufferCtx /\ OneEntry'
      /\ \A e \in mCommitList : \E f \in mCommitList' : f.id = e.id /\ f.buf = e.buf
  BY <1>3, OwnerEach DEF FrameInv, FrameTypes, OneEntry
<1>7. FrameTypes' /\ NoDecodeIntoLent' /\ WaitsEmpty' /\ NothingYet'
  BY <1>1, <1>3, <1>5, <1>6 DEF FrameInv, FrameTypes, NoDecodeIntoLent, WaitsEmpty, NothingYet
<1>8. RefsAccounted'
  <2> SUFFICES ASSUME NEW c \in DOMAIN mpp
               PROVE  /\ mpp'[c].refs = (IF c \in decoding THEN 1 ELSE 0)
                                        + (IF c \in lent' THEN 1 ELSE 0)
                      /\ mpp'[c].state = "freed" => mpp'[c].refs = 0
                      /\ mpp'[c].state = "old" => mpp'[c].refs > 0
    BY <1>1, <1>5 DEF RefsAccounted
  <2>1. CASE c = b
    BY <1>3, <1>4, <1>5, <2>1
  <2>2. CASE c # b
    BY <1>3, <1>5, <2>2 DEF FrameInv, RefsAccounted
  <2>. QED
    BY <2>1, <2>2
<1>9. DecodesLive'
  BY <1>1, <1>4, <1>5 DEF FrameInv, FrameTypes, DecodesLive
<1>10. HasEntry'
  <2> SUFFICES ASSUME NEW c \in DOMAIN mpp, c \in lent' \/ mpp'[c].state = "live"
               PROVE  \E f \in mCommitList' : f.id = mpp[c].id /\ f.buf = c
    BY <1>1, <1>5 DEF HasEntry
  <2>1. c \in lent \/ mpp[c].state = "live"
    BY <1>2, <1>3, <1>5
  <2>2. PICK e \in mCommitList : e.id = mpp[c].id /\ e.buf = c
    BY <1>1, <2>1 DEF FrameInv, HasEntry
  <2>. QED
    BY <1>6, <2>2
<1>. QED
  BY <1>6, <1>7, <1>8, <1>9, <1>10 DEF FrameInv

LEMMA DequeueFrames ==
    ASSUME FrameInv, NEW b, NEW flags \in {0, HW_FLAGS_EOS, HW_FLAGS_ERROR_INFOR},
           DequeueFrame(b, flags)
    PROVE  FrameInv'
<1>1. /\ impl = "ready" /\ b \in decoding /\ decoding' = decoding \ {b}
      /\ lent' = lent \cup {b} /\ mCommitList' = OwnedBy("ROCKIT", mpp[b].id)
      /\ UNCHANGED <<impl, mpp>>
      /\ changing' = (changing \/ TellsChange(Received(mpp[b].id, flags)))
  BY DEF DequeueFrame
<1>2. changing' = changing
  BY <1>1, WhoTellsChange DEF FrameInv, FrameTypes
<1>3. b \in DOMAIN mpp /\ b \notin lent /\ mpp[b].state = "live"
  BY <1>1 DEF FrameInv, FrameTypes, NoDecodeIntoLent, DecodesLive
<1>4. /\ mCommitList' \subseteq MppBufferCtx /\ OneEntry'
      /\ \A e \in mCommitList : \E f \in mCommitList' : f.id = e.id /\ f.buf = e.buf
  BY <1>1, OwnerEach DEF FrameInv, FrameTypes, OneEntry
<1>5. FrameTypes' /\ NoDecodeIntoLent' /\ WaitsEmpty' /\ NothingYet' /\ DecodesLive'
  BY <1>1, <1>2, <1>3, <1>4 DEF FrameInv, FrameTypes, NoDecodeIntoLent, WaitsEmpty,
     NothingYet, DecodesLive
<1>6. RefsAccounted'
  <2> SUFFICES ASSUME NEW c \in DOMAIN mpp
               PROVE  mpp[c].refs = (IF c \in decoding' THEN 1 ELSE 0)
                                    + (IF c \in lent' THEN 1 ELSE 0)
    BY <1>1 DEF FrameInv, RefsAccounted
  <2>. QED
    BY <1>1, <1>3 DEF FrameInv, RefsAccounted
<1>7. HasEntry'
  BY <1>1, <1>3, <1>4 DEF FrameInv, HasEntry
<1>. QED
  BY <1>4, <1>5, <1>6, <1>7 DEF FrameInv

\* The decoder drops frames, one or all: it had the only reference.
LEMMA PutsDecoded ==
    ASSUME FrameInv, NEW bufs \in SUBSET decoding, mpp' = PutAll(mpp, bufs),
           decoding' = decoding \ bufs, UNCHANGED <<impl, mCommitList, lent, changing>>
    PROVE  FrameInv'
<1>1. \A b \in bufs : b \in DOMAIN mpp /\ mpp[b].refs = 1 /\ mpp[b].state = "live" /\ b \notin lent
  BY DEF FrameInv, FrameTypes, RefsAccounted, NoDecodeIntoLent, DecodesLive
<1>2. /\ mpp' \in Seq(MppBuffer) /\ DOMAIN mpp' = DOMAIN mpp
      /\ \A c \in DOMAIN mpp : mpp'[c].id = mpp[c].id /\ mpp'[c].state = mpp[c].state
      /\ \A c \in DOMAIN mpp : mpp'[c].refs = IF c \in bufs THEN 0 ELSE mpp[c].refs
  BY <1>1, PutEach DEF FrameInv, FrameTypes
<1>3. FrameTypes' /\ OneEntry' /\ NoDecodeIntoLent' /\ WaitsEmpty' /\ NothingYet'
      /\ DecodesLive' /\ HasEntry'
  BY <1>2 DEF FrameInv, FrameTypes, OneEntry, NoDecodeIntoLent, WaitsEmpty, NothingYet,
     DecodesLive, HasEntry
<1>4. RefsAccounted'
  BY <1>1, <1>2 DEF FrameInv, RefsAccounted
<1>. QED
  BY <1>3, <1>4 DEF FrameInv

LEMMA DecodeFrames ==
    ASSUME FrameInv, NEW b \in DOMAIN mpp, Decode(b)
    PROVE  FrameInv'
<1>1. /\ ~changing /\ mpp[b].state = "live" /\ mpp[b].refs = 0
      /\ mpp' = [mpp EXCEPT ![b].refs = 1] /\ decoding' = decoding \cup {b}
      /\ UNCHANGED <<impl, mCommitList, lent, changing>>
  BY DEF Decode
<1>2. b \notin decoding /\ b \notin lent
  BY <1>1 DEF FrameInv, RefsAccounted
<1>3. /\ DOMAIN mpp = 1 .. Len(mpp) /\ \A c \in DOMAIN mpp : mpp[c] \in MppBuffer
      /\ mpp \in Seq(MppBuffer)
  BY DEF FrameInv, FrameTypes
<1>4. [mpp[b] EXCEPT !.refs = 1] \in MppBuffer
  BY <1>3 DEF MppBuffer
<1>5. mpp' = [mpp EXCEPT ![b] = [mpp[b] EXCEPT !.refs = 1]]
  BY <1>1
<1>6. /\ mpp' \in Seq(MppBuffer) /\ DOMAIN mpp' = DOMAIN mpp
      /\ \A c \in DOMAIN mpp : c # b => mpp'[c] = mpp[c]
      /\ mpp'[b] = [mpp[b] EXCEPT !.refs = 1]
  BY <1>3, <1>4, <1>5, ExceptSeq
<1>7. mpp'[b].refs = 1 /\ mpp'[b].state = "live" /\ mpp'[b].id = mpp[b].id
  BY <1>1, <1>3, <1>6 DEF MppBuffer
<1>8. FrameTypes' /\ OneEntry' /\ NoDecodeIntoLent' /\ WaitsEmpty' /\ NothingYet'
  BY <1>1, <1>2, <1>6 DEF FrameInv, FrameTypes, OneEntry, NoDecodeIntoLent, WaitsEmpty,
     NothingYet
<1>9. DecodesLive'
  BY <1>1, <1>6, <1>7 DEF FrameInv, FrameTypes, DecodesLive
<1>10. HasEntry'
  BY <1>1, <1>6, <1>7 DEF FrameInv, HasEntry
<1>11. RefsAccounted'
  BY <1>1, <1>2, <1>6, <1>7 DEF FrameInv, RefsAccounted
<1>. QED
  BY <1>8, <1>9, <1>10, <1>11 DEF FrameInv

LEMMA GroupClearFrames ==
    ASSUME FrameInv, GroupClear
    PROVE  FrameInv'
<1>1. /\ impl = "ready" /\ changing
      /\ \A e \in mCommitList : e.site = "MPI" => e.buf \notin lent
      /\ mCommitList' = {e \in mCommitList : e.site # "MPI"}
      /\ mpp' = ClearGroup(mpp) /\ UNCHANGED <<impl, decoding, lent, changing>>
  BY DEF GroupClear, WithoutSite
<1>2. decoding = {}
  BY <1>1 DEF FrameInv, WaitsEmpty
<1>3. /\ mpp' \in Seq(MppBuffer) /\ DOMAIN mpp' = DOMAIN mpp
      /\ \A c \in DOMAIN mpp :
            /\ mpp'[c].id = mpp[c].id /\ mpp'[c].refs = mpp[c].refs
            /\ mpp'[c].state = IF mpp[c].state = "freed" \/ mpp[c].refs = 0 THEN "freed"
                               ELSE "old"
  BY <1>1, ClearEach DEF FrameInv, FrameTypes
<1>4. FrameTypes' /\ OneEntry' /\ NoDecodeIntoLent' /\ WaitsEmpty' /\ NothingYet' /\ DecodesLive'
  BY <1>1, <1>2, <1>3 DEF FrameInv, FrameTypes, OneEntry, NoDecodeIntoLent, WaitsEmpty,
     NothingYet, DecodesLive
<1>5. \A c \in DOMAIN mpp : mpp[c].refs \in Nat
  BY RefsNat
<1>6. RefsAccounted'
  BY <1>1, <1>3, <1>5 DEF FrameInv, RefsAccounted
<1>7. HasEntry'
  <2> SUFFICES ASSUME NEW c \in DOMAIN mpp, c \in lent
               PROVE  \E e \in mCommitList' : e.id = mpp[c].id /\ e.buf = c
    BY <1>1, <1>3 DEF HasEntry
  <2>1. PICK e \in mCommitList : e.id = mpp[c].id /\ e.buf = c
    BY <1>1 DEF FrameInv, HasEntry
  <2>. QED
    BY <1>1, <2>1
<1>. QED
  BY <1>4, <1>6, <1>7 DEF FrameInv

LEMMA DestroyFrames ==
    ASSUME FrameInv, Destroy
    PROVE  FrameInv'
<1> DEFINE m == PutAll(mpp, decoding)
<1>1. /\ impl' = "gone" /\ mCommitList' = {} /\ decoding' = {}
      /\ mpp' = ClearGroup(m) /\ UNCHANGED <<lent, changing>>
  BY DEF Destroy, CleanMppBuffers
<1>2. \A b \in decoding : b \in DOMAIN mpp /\ mpp[b].refs = 1 /\ b \notin lent
  BY DEF FrameInv, FrameTypes, RefsAccounted, NoDecodeIntoLent
<1>3. /\ m \in Seq(MppBuffer) /\ DOMAIN m = DOMAIN mpp
      /\ \A c \in DOMAIN mpp : /\ m[c].refs = IF c \in decoding THEN 0 ELSE mpp[c].refs
                               /\ c \notin decoding => m[c].state = mpp[c].state
  BY <1>2, PutEach DEF FrameInv, FrameTypes, DecodesLive
<1> HIDE DEF m
<1>4. /\ mpp' \in Seq(MppBuffer) /\ DOMAIN mpp' = DOMAIN mpp
      /\ \A c \in DOMAIN mpp :
            /\ mpp'[c].refs = m[c].refs
            /\ mpp'[c].state = IF m[c].state = "freed" \/ m[c].refs = 0 THEN "freed" ELSE "old"
  BY <1>1, <1>3, ClearEach
<1>5. FrameTypes' /\ OneEntry' /\ NoDecodeIntoLent' /\ WaitsEmpty' /\ NothingYet'
      /\ DecodesLive' /\ HasEntry'
  BY <1>1, <1>4 DEF FrameInv, FrameTypes, OneEntry, NoDecodeIntoLent, WaitsEmpty,
     NothingYet, DecodesLive, HasEntry
<1>6. \A c \in DOMAIN mpp : mpp[c].refs \in Nat
  BY RefsNat
<1>7. RefsAccounted'
  <2> SUFFICES ASSUME NEW c \in DOMAIN mpp
               PROVE  /\ mpp'[c].refs = IF c \in lent THEN 1 ELSE 0
                      /\ mpp'[c].state = "freed" => mpp'[c].refs = 0
                      /\ mpp'[c].state = "old" => mpp'[c].refs > 0
    BY <1>1, <1>4 DEF RefsAccounted
  <2>1. CASE c \in decoding
    BY <1>2, <1>3, <1>4, <2>1
  <2>2. CASE c \notin decoding
    BY <1>3, <1>4, <1>6, <2>2 DEF FrameInv, RefsAccounted
  <2>. QED
    BY <2>1, <2>2
<1>. QED
  BY <1>5, <1>7 DEF FrameInv

LEMMA FrameInvStep ==
    ASSUME FrameInv, FreshNames, [Next]_vars
    PROVE  FrameInv'
<1>1. CASE UNCHANGED <<impl, frameVars>>
  BY <1>1 DEF frameVars, FrameInv, FrameTypes, OneEntry, RefsAccounted, NoDecodeIntoLent,
     DecodesLive, WaitsEmpty, HasEntry, NothingYet
<1>2. CASE InitMpi
  <2>1. impl = "none" /\ impl' # "none" /\ UNCHANGED frameVars
    BY <1>2 DEF InitMpi
  <2>2. DOMAIN mpp = {}
    BY <2>1 DEF FrameInv, NothingYet
  <2>. QED
    BY <2>1, <2>2 DEF frameVars, FrameInv, FrameTypes, OneEntry, RefsAccounted,
       NoDecodeIntoLent, DecodesLive, WaitsEmpty, HasEntry, NothingYet
<1>3. CASE Reset
  <2>1. /\ mpp' = PutAll(mpp, decoding) /\ decoding' = decoding \ decoding
        /\ UNCHANGED <<impl, mCommitList, lent, changing>>
    BY <1>3 DEF Reset
  <2>. QED
    BY <2>1, PutsDecoded
<1>4. ASSUME NEW b \in DOMAIN mpp, Drop(b)
      PROVE  FrameInv'
  BY <1>4, PutsDecoded DEF Drop
<1>5. CASE DequeueInfoChange
  <2>1. decoding = {} /\ changing' = TRUE /\ UNCHANGED <<impl, mCommitList, mpp, decoding, lent>>
    BY <1>5, WhoTellsChange DEF DequeueInfoChange
  <2>. QED
    BY <2>1 DEF FrameInv, FrameTypes, OneEntry, RefsAccounted, NoDecodeIntoLent,
       DecodesLive, WaitsEmpty, HasEntry, NothingYet
<1>6. CASE BufferReady
  <2>1. changing' = FALSE /\ UNCHANGED <<impl, mCommitList, mpp, decoding, lent>>
    BY <1>6 DEF BufferReady
  <2>. QED
    BY <2>1 DEF FrameInv, FrameTypes, OneEntry, RefsAccounted, NoDecodeIntoLent,
       DecodesLive, WaitsEmpty, HasEntry, NothingYet
<1>7. ASSUME NEW d \in DataNames,
             \/ \E flags \in {0, HW_FLAGS_EOS} : Enqueue(d, flags)
             \/ DataClear(d) \/ AllocateData(d) \/ FreeData(d)
      PROVE  UNCHANGED <<impl, frameVars>>
  BY <1>7 DEF Enqueue, DataClear, AllocateData, FreeData
<1>8. Gone \/ UNCHANGED vars => UNCHANGED <<impl, frameVars>>
  BY DEF Gone, vars
<1>. QED
  BY <1>1, <1>2, <1>3, <1>4, <1>5, <1>6, <1>7, <1>8, CommitFrames, GiveBackFrames,
     DequeueFrames, DecodeFrames, GroupClearFrames, DestroyFrames DEF Next

---------------------------------------------------------------------------
(* Packets.  A name whose memory is mapped keeps an open handle, so that   *)
(* it is given to no other memory.                                         *)

MappedStaysOpen ==
    \A i \in DOMAIN mDataList :
       /\ mDataList[i].id \in handles
       /\ memory[mDataList[i].id] # 0 => mDataList[i].mem = memory[mDataList[i].id]

DataInv ==
    /\ mDataList \in Seq(DataBufferCtx)
    /\ memory \in [DataNames -> Nat] /\ ever \in [DataNames -> Nat]
    /\ handles \subseteq DataNames /\ uncleared \subseteq DataNames
    /\ MappedStaysOpen

\* What is left of a list without one of its items was in it before.
LEMMA RemovedFrom ==
    ASSUME NEW S, NEW s \in Seq(S), NEW i \in 1 .. Len(s)
    PROVE  /\ RemoveAt(s, i) \in Seq(S)
           /\ \A j \in DOMAIN RemoveAt(s, i) :
                 \E k \in DOMAIN s : RemoveAt(s, i)[j] = s[k]
<1> DEFINE T == {s[k] : k \in DOMAIN s}
<1>1. DOMAIN s = 1 .. Len(s) /\ Len(s) \in Nat /\ \A k \in DOMAIN s : s[k] \in S
  OBVIOUS
<1>2. SubSeq(s, 1, i - 1) \in Seq(T)
  BY <1>1, SubSeqProperties
<1>3. SubSeq(s, i + 1, Len(s)) \in Seq(T)
  BY <1>1, SubSeqProperties
<1>4. RemoveAt(s, i) \in Seq(T)
  BY <1>2, <1>3, ConcatProperties DEF RemoveAt
<1>5. RemoveAt(s, i) \in Seq(S)
  BY <1>1, <1>4, SeqMonotonic
<1>6. \A j \in DOMAIN RemoveAt(s, i) : RemoveAt(s, i)[j] \in T
  BY <1>4
<1>. QED
  BY <1>5, <1>6

\* A nonempty set of places has a least one.
LEMMA MinIsIn ==
    ASSUME NEW S, S \subseteq Nat, S # {}
    PROVE  Min(S) \in S
<1> DEFINE R == {ss \in Nat \X Nat : ss[1] < ss[2]}
<1>1. IsWellFoundedOn(R, Nat)
  BY NatLessThanWellFounded, Zenon DEF OpToRel
<1>2. PICK x \in S : \A y \in S : ~(<<y, x>> \in R)
  <2> HIDE DEF R
  <2>. QED
    BY <1>1, WFMin
<1>3. ASSUME NEW y \in S
      PROVE  x <= y
  <2>1. ~(y < x)
    BY <1>2
  <2>. QED
    BY <2>1
<1>. QED
  BY <1>3 DEF Min

\* What DATA_CLEAR leaves of the list was in it before.
LEMMA FreedFrom ==
    ASSUME mDataList \in Seq(DataBufferCtx), NEW d, FreeDataBuffer(d)
    PROVE  /\ mDataList' \in Seq(DataBufferCtx)
           /\ \A j \in DOMAIN mDataList' :
                 \E k \in DOMAIN mDataList : mDataList'[j] = mDataList[k]
<1> DEFINE I == {k \in 1 .. Len(mDataList) : mDataList[k].id = d}
           i == IF I # {} THEN Min(I) ELSE 0
<1>1. mDataList' = IF i = 0 THEN mDataList ELSE RemoveAt(mDataList, i)
  BY DEF FreeDataBuffer, SelectInSeq
<1>2. I # {} => Min(I) \in I
  <2>1. I \subseteq Nat
    OBVIOUS
  <2> HIDE DEF I
  <2>. QED
    BY <2>1, MinIsIn
<1>3. i = 0 \/ i \in 1 .. Len(mDataList)
  BY <1>2
<1> HIDE DEF i
<1>4. CASE i = 0
  BY <1>1, <1>4
<1>5. CASE i \in 1 .. Len(mDataList)
  <2>1. mDataList' = RemoveAt(mDataList, i)
    BY <1>1, <1>5
  <2>. QED
    BY <1>5, <2>1, RemovedFrom
<1>. QED
  BY <1>3, <1>4, <1>5

\* The name in a packet is the one the client gave.
LEMMA PacketNamed == \A d, flags : Packet(d, flags).bufferId = d
BY DEF Packet, RTBuffer2HwBuffer

LEMMA EnqueueData ==
    ASSUME DataInv, NEW d \in DataNames, NEW flags, Enqueue(d, flags)
    PROVE  DataInv'
<1>1. UNCHANGED <<memory, ever>>
  BY DEF Enqueue
<1>2. handles' \subseteq DataNames /\ uncleared' \subseteq DataNames /\ handles \subseteq handles'
  BY PacketNamed DEF Enqueue, OpenName, DrmMap, DataInv
<1>3. \/ UNCHANGED mDataList
      \/ mDataList' = Append(mDataList, [id |-> d, mem |-> memory[d]]) /\ d \in handles'
  BY PacketNamed DEF Enqueue, OpenName, DrmMap, AddDataBuffer
<1>4. CASE UNCHANGED mDataList
  BY <1>1, <1>2, <1>4 DEF DataInv, MappedStaysOpen
<1>5. CASE mDataList' = Append(mDataList, [id |-> d, mem |-> memory[d]]) /\ d \in handles'
  <2> DEFINE e == [id |-> d, mem |-> memory[d]]
  <2>1. e \in DataBufferCtx /\ e.id = d /\ e.mem = memory[d]
    BY DEF DataInv, DataBufferCtx
  <2>2. mDataList' = Append(mDataList, e)
    BY <1>5
  <2> HIDE DEF e
  <2>3. /\ mDataList' \in Seq(DataBufferCtx)
        /\ \A i \in DOMAIN mDataList' : i \in DOMAIN mDataList \/ i = Len(mDataList) + 1
        /\ \A i \in DOMAIN mDataList : mDataList'[i] = mDataList[i]
        /\ mDataList'[Len(mDataList) + 1] = e
    BY <2>1, <2>2, AppendProperties DEF DataInv
  <2>4. MappedStaysOpen'
    <3> SUFFICES ASSUME NEW i \in DOMAIN mDataList'
                 PROVE  /\ mDataList'[i].id \in handles'
                        /\ memory[mDataList'[i].id] # 0
                              => mDataList'[i].mem = memory[mDataList'[i].id]
      BY <1>1 DEF MappedStaysOpen
    <3>1. CASE i \in DOMAIN mDataList
      BY <1>2, <2>3, <3>1 DEF DataInv, MappedStaysOpen
    <3>2. CASE i = Len(mDataList) + 1
      BY <1>5, <2>1, <2>3, <3>2
    <3>. QED
      BY <2>3, <3>1, <3>2
  <2>. QED
    BY <1>1, <1>2, <2>3, <2>4 DEF DataInv
<1>. QED
  BY <1>3, <1>4, <1>5

LEMMA DataInvStep ==
    ASSUME DataInv, [Next]_vars
    PROVE  DataInv'
<1>1. CASE UNCHANGED dataVars
  BY <1>1 DEF dataVars, DataInv, MappedStaysOpen
<1>2. ASSUME mDataList' = <<>>, handles' \in {handles, {}},
             UNCHANGED <<memory, ever, uncleared>>
      PROVE  DataInv'
  BY <1>2 DEF DataInv, MappedStaysOpen
<1>3. CASE Destroy
  BY <1>2, <1>3 DEF Destroy, FreeDataBufferList, DrmClose
<1>4. CASE GroupClear
  BY <1>2, <1>4 DEF GroupClear, FreeDataBufferList
<1>5. ASSUME NEW d \in DataNames, DataClear(d)
      PROVE  DataInv'
  <2>1. /\ \E x : FreeDataBuffer(x)
        /\ uncleared' = uncleared \ {d} /\ UNCHANGED <<memory, ever, handles>>
    BY <1>5 DEF DataClear
  <2>2. /\ mDataList' \in Seq(DataBufferCtx)
        /\ \A j \in DOMAIN mDataList' :
              \E k \in DOMAIN mDataList : mDataList'[j] = mDataList[k]
    BY <2>1, FreedFrom DEF DataInv
  <2>. QED
    BY <2>1, <2>2 DEF DataInv, MappedStaysOpen
<1>6. ASSUME NEW d \in DataNames, AllocateData(d)
      PROVE  DataInv'
  <2>1. /\ d \notin handles /\ UNCHANGED <<mDataList, handles, uncleared>>
        /\ ever' = [ever EXCEPT ![d] = @ + 1]
        /\ memory' = [memory EXCEPT ![d] = ever[d] + 1]
    BY <1>6 DEF AllocateData
  <2>2. /\ ever' \in [DataNames -> Nat] /\ memory' \in [DataNames -> Nat]
        /\ \A i \in DOMAIN mDataList : memory'[mDataList[i].id] = memory[mDataList[i].id]
    BY <2>1 DEF DataInv, MappedStaysOpen
  <2>. QED
    BY <2>1, <2>2 DEF DataInv, MappedStaysOpen
<1>7. ASSUME NEW d \in DataNames, FreeData(d)
      PROVE  DataInv'
  <2>1. /\ UNCHANGED <<mDataList, ever, handles, uncleared>>
        /\ memory' = [memory EXCEPT ![d] = 0]
    BY <1>7 DEF FreeData
  <2>2. /\ memory' \in [DataNames -> Nat]
        /\ \A c \in DataNames : memory'[c] # 0 => memory'[c] = memory[c]
    BY <2>1 DEF DataInv
  <2>3. \A i \in DOMAIN mDataList : mDataList[i].id \in DataNames
    BY DEF DataInv, MappedStaysOpen
  <2>. QED
    BY <2>1, <2>2, <2>3 DEF DataInv, MappedStaysOpen
<1>8. InitMpi \/ Reset \/ DequeueInfoChange \/ BufferReady \/ Gone \/ UNCHANGED vars
         => UNCHANGED dataVars
  BY DEF InitMpi, Reset, DequeueInfoChange, BufferReady, Gone, vars, dataVars
<1>9. ASSUME NEW n \in Names, CommitBuffer(n) \/ GiveBackBuffer(n)
      PROVE  UNCHANGED dataVars
  BY <1>9 DEF CommitBuffer, GiveBackBuffer
<1>10. ASSUME NEW b, (\E flags : DequeueFrame(b, flags)) \/ Decode(b) \/ Drop(b)
       PROVE  UNCHANGED dataVars
  BY <1>10 DEF DequeueFrame, Decode, Drop
<1>. QED
  BY <1>1, <1>3, <1>4, <1>5, <1>6, <1>7, <1>8, <1>9, <1>10, EnqueueData DEF Next
---------------------------------------------------------------------------
(* The theorems.                                                           *)

LEMMA FrameInvAlways ==
    ASSUME FreshNames
    PROVE  SafeSpec => []FrameInv
<1>1. Init => FrameInv
  <2> SUFFICES ASSUME Init
               PROVE  FrameInv
    OBVIOUS
  <2>1. /\ impl = "none" /\ mCommitList = {} /\ mpp = <<>>
        /\ decoding = {} /\ lent = {} /\ changing = FALSE
    BY DEF Init
  <2>2. mpp \in Seq(MppBuffer) /\ DOMAIN mpp = {}
    BY <2>1, EmptySeq
  <2>. QED
    BY <2>1, <2>2 DEF FrameInv, FrameTypes, OneEntry, RefsAccounted, NoDecodeIntoLent,
       DecodesLive, WaitsEmpty, HasEntry, NothingYet
<1>2. FrameInv /\ [Next]_vars => FrameInv'
  BY FrameInvStep
<1>. QED
  BY <1>1, <1>2, PTL DEF SafeSpec

LEMMA DataInvAlways == SafeSpec => []DataInv
<1>1. Init => DataInv
  BY EmptySeq DEF Init, DataInv, MappedStaysOpen
<1>2. DataInv /\ [Next]_vars => DataInv'
  BY DataInvStep
<1>. QED
  BY <1>1, <1>2, PTL DEF SafeSpec

\* Whatever is committed, decoded, dropped, shown, kept over an info change or
\* given back by its name, references are put by who has them.
THEOREM RefsAccountedAlways ==
    ASSUME FreshNames
    PROVE  SafeSpec => []RefsAccounted
<1>1. FrameInv => RefsAccounted
  BY DEF FrameInv
<1>. QED
  BY <1>1, FrameInvAlways, PTL

\* The decoder never writes into a frame the client shows.
THEOREM NoDecodeIntoLentAlways ==
    ASSUME FreshNames
    PROVE  SafeSpec => []NoDecodeIntoLent
<1>1. FrameInv => NoDecodeIntoLent
  BY DEF FrameInv
<1>. QED
  BY <1>1, FrameInvAlways, PTL

\* A frame the client has can be given back by its name, whatever GroupClear
\* has deleted.
THEOREM CanBeGivenBackAlways ==
    ASSUME FreshNames
    PROVE  SafeSpec => []CanBeGivenBack
<1>1. FrameInv => CanBeGivenBack
  BY DEF FrameInv, FrameTypes, HasEntry, CanBeGivenBack
<1>. QED
  BY <1>1, FrameInvAlways, PTL

\* No packet is decoded from memory that had its name before, although
\* findDataBuffer looks at the first mapping only and freeDataBuffer leaves
\* later ones of the name.
THEOREM DecodesNamedMemoryAlways == SafeSpec => []DecodesNamedMemory
<1>1. DataInv => DecodesNamedMemory
  <2> SUFFICES ASSUME DataInv, NEW d \in DataNames, memory[d] # 0, FindDataBuffer(d) # 0
               PROVE  mDataList[FindDataBuffer(d)].mem = memory[d]
    BY DEF DecodesNamedMemory
  <2>1. FindDataBuffer(d) = 1 /\ mDataList # <<>> /\ Head(mDataList).id = d
    BY DEF FindDataBuffer
  <2>2. 1 \in DOMAIN mDataList /\ Head(mDataList) = mDataList[1]
    BY <2>1 DEF DataInv
  <2>. QED
    BY <2>1, <2>2 DEF DataInv, MappedStaysOpen
<1>. QED
  BY <1>1, DataInvAlways, PTL

\* The client is told how many of its frames are with neither it nor the
\* decoder.
THEOREM UnusedIsToldAlways ==
    ASSUME FreshNames
    PROVE  SafeSpec => []UnusedIsTold
<1>1. FrameInv => UnusedIsTold
  <2> SUFFICES ASSUME FrameInv, impl = "ready"
               PROVE  GetValue(Asked("UNUSED_BUFFER_COUNTER", Pairs(<< <<"none", -1>> >>)),
                               "TOKEN")
                      = Cardinality({b \in DOMAIN mpp : mpp[b].state = "live"})
                        - Cardinality({b \in DOMAIN mpp : mpp[b].state = "live"}
                                      \cap (decoding \cup lent))
    BY DEF UnusedIsTold
  <2> DEFINE reply == Asked("UNUSED_BUFFER_COUNTER", Pairs(<< <<"none", -1>> >>))
             now == {b \in DOMAIN mpp : mpp[b].state = "live"}
             taken == now \cap (decoding \cup lent)
  <2>1. GetValue(reply, "TOKEN") = Unused
    <3>1. Query("UNUSED_BUFFER_COUNTER")
             = [status |-> "OK", param |-> SetValue(Sized(1), "TOKEN", Unused)]
      BY DEF Query, mStride
    <3>2. reply = RockitHWParam2RTHWParam(SetValue(Sized(1), "TOKEN", Unused),
                                         Pairs(<< <<"none", -1>> >>))
      BY <3>1 DEF Asked
    <3>3. /\ SetValue(Sized(1), "TOKEN", Unused).counter = 1
          /\ SetValue(Sized(1), "TOKEN", Unused).pairs[1] = [key |-> "TOKEN", value |-> Unused]
      BY DEF SetValue, Sized
    <3>4. 1 \in DOMAIN Pairs(<< <<"none", -1>> >>).pairs
      BY DEF Pairs
    <3>5. reply.counter = 1 /\ reply.pairs[1].key = "TOKEN" /\ reply.pairs[1].value = Unused
      BY <3>2, <3>3, <3>4 DEF RockitHWParam2RTHWParam
    <3>. HIDE DEF reply
    <3>. QED
      BY <3>5, GetsFirst
  <2>2. Unused = Cardinality(now \ taken)
    <3>1. \A b \in DOMAIN mpp : mpp[b].refs = 0 <=> b \notin decoding \cup lent
      BY DEF FrameInv, RefsAccounted
    <3>2. {b \in DOMAIN mpp : mpp[b].state = "live" /\ mpp[b].refs = 0} = now \ taken
      BY <3>1
    <3>. QED
      BY <3>2 DEF Unused
  <2>3. IsFiniteSet(now)
    <3>1. DOMAIN mpp = 1 .. Len(mpp) /\ Len(mpp) \in Nat
      BY DEF FrameInv, FrameTypes
    <3>2. IsFiniteSet(DOMAIN mpp)
      BY <3>1, FS_Interval
    <3>. QED
      BY <3>2, FS_Subset
  <2>4. Cardinality(now \ taken) = Cardinality(now) - Cardinality(taken)
    <3>1. now \cap taken = taken
      OBVIOUS
    <3>. HIDE DEF now, taken
    <3>. QED
      BY <2>3, <3>1, FS_Difference
  <2>. QED
    BY <2>1, <2>2, <2>4
<1>. QED
  BY <1>1, FrameInvAlways, PTL

\* Every variable keeps its type: no operation leaves a context, a buffer or a
\* mapping that is none.
THEOREM TypeCorrect ==
    ASSUME FreshNames
    PROVE  SafeSpec => []TypeOK
<1> DEFINE ImplOK == impl \in {"none", "failed", "ready", "gone"}
<1>1. Init => ImplOK
  BY DEF Init
<1>2. ImplOK /\ [Next]_vars => ImplOK'
  BY DEF Next, vars, frameVars, dataVars, InitMpi, CommitBuffer, GiveBackBuffer, DequeueFrame,
     DequeueInfoChange, Reset, GroupClear, BufferReady, Destroy, Enqueue, DataClear,
     AllocateData, FreeData, Decode, Drop, Gone
<1>3. ImplOK /\ FrameInv /\ DataInv => TypeOK
  BY DEF TypeOK, FrameInv, FrameTypes, DataInv, MppBuffer
<1>. QED
  BY <1>1, <1>2, <1>3, FrameInvAlways, DataInvAlways, PTL DEF SafeSpec
---------------------------------------------------------------------------
(* Names.  While the callback lives its DRM file has a handle to every     *)
(* buffer it told the name of, and so the number keeps naming it; when the *)
(* callback is gone the library has no buffer left to commit.              *)

ToldNamesStay ==
    \A t \in told :
       t.sound /\ phase # "gone" => t.buf \in drmHandles /\ named[t.name] = t.buf

NameTypes ==
    /\ drmHandles \subseteq Memory
    /\ named \in [Numbers -> {Nobody, Other} \cup Memory]
    /\ told \subseteq Told

NamesInv ==
    /\ NameTypes /\ ToldNamesStay /\ NamesAreUnique /\ OpensWhatWasGiven
    /\ phase = "gone" => held = {}
    /\ phase = "none" => told = {}

LEMMA MemoryIsNamed == Nobody \notin Memory /\ Other \notin Memory /\ Nobody # Other
BY SurfaceAssumption DEF Nobody, Other, Memory

\* A name told is the memory's, which keeps it.
LEMMA DescribeNames ==
    ASSUME NamesInv, phase = "alive", NEW b \in Memory, Describe(b)
    PROVE  /\ NameTypes' /\ NamesAreUnique'
           /\ \A t \in told' : t.sound => t.buf \in drmHandles' /\ named'[t.name] = t.buf
<1>1. PICK imported \in BOOLEAN, n \in Numbers :
         FdToHandle(b, imported) /\ Flink(b, imported, n)
  BY DEF Describe
<1> DEFINE t0 == [buf |-> b, name |-> n, sound |-> imported]
<1>2. told' = told \cup {t0} /\ t0 \in Told
  BY <1>1 DEF Flink, Told
<1>3. t0.buf = b /\ t0.name = n /\ t0.sound = imported
  OBVIOUS
<1> HIDE DEF t0
<1>4. \A t \in told : t.buf \in Memory /\ t.name \in Numbers
  BY DEF NamesInv, NameTypes, Told
<1>5. \A t \in told : t.sound => t.buf \in drmHandles /\ named[t.name] = t.buf
  BY DEF NamesInv, ToldNamesStay
<1>6. drmHandles \subseteq drmHandles' /\ drmHandles' \subseteq Memory /\ (imported => b \in drmHandles')
  BY <1>1 DEF FdToHandle, NamesInv, NameTypes
<1>7. named' \in [Numbers -> {Nobody, Other} \cup Memory]
  BY <1>1 DEF Flink, NamesInv, NameTypes
<1>8. imported => named'[n] = b /\ \A k \in Numbers : k # n => named'[k] = named[k]
  BY <1>1 DEF Flink, NamesInv, NameTypes
<1>9. ~imported => named' = named
  BY <1>1 DEF Flink
<1>10. imported => named[n] = b \/ named[n] = Nobody
  BY <1>1 DEF Flink
<1>11. \A t \in told : t.sound /\ imported /\ t.name = n => t.buf = b
  BY <1>4, <1>5, <1>10, MemoryIsNamed
<1>12. \A t \in told : t.sound => t.buf \in drmHandles' /\ named'[t.name] = t.buf
  BY <1>4, <1>5, <1>6, <1>8, <1>9, <1>11
<1>13. \A t \in told' : t.sound => t.buf \in drmHandles' /\ named'[t.name] = t.buf
  BY <1>2, <1>3, <1>6, <1>8, <1>12
<1>14. NamesAreUnique'
  BY <1>2, <1>3, <1>11 DEF NamesInv, NamesAreUnique
<1>15. NameTypes'
  BY <1>2, <1>6, <1>7 DEF NamesInv, NameTypes
<1>. QED
  BY <1>13, <1>14, <1>15

LEMMA NamesInvStep ==
    ASSUME NamesInv, [SurfaceNext]_surfaceVars
    PROVE  NamesInv'
<1>1. CASE UNCHANGED <<phase, held, drmHandles, named, told, entries>>
  BY <1>1 DEF NamesInv, NameTypes, ToldNamesStay, NamesAreUnique, OpensWhatWasGiven
<1>2. CASE Construct
  BY <1>2 DEF Construct, queueVars, NamesInv, NameTypes, ToldNamesStay, NamesAreUnique,
     OpensWhatWasGiven
<1>3. CASE DestroySurface
  <2>1. /\ phase' = "gone" /\ held = {} /\ drmHandles' = {} /\ named' = Kept(named, {}, entries)
        /\ UNCHANGED <<held, told, entries>>
    BY <1>3 DEF DestroySurface, CloseDrm
  <2>2. NameTypes'
    BY <2>1 DEF Kept, NamesInv, NameTypes
  <2>. QED
    BY <2>1, <2>2 DEF NamesInv, ToldNamesStay, NamesAreUnique, OpensWhatWasGiven
<1>4. ASSUME phase = "alive", UNCHANGED entries, NEW b \in Memory, Describe(b),
             UNCHANGED phase
      PROVE  NamesInv'
  BY <1>4, DescribeNames DEF NamesInv, ToldNamesStay, OpensWhatWasGiven
<1>5. CASE AllocateBuffer
  <2>1. CASE \E b \in Memory : Describe(b) /\ UNCHANGED phase
    BY <1>4, <1>5, <2>1 DEF AllocateBuffer
  <2>2. CASE phase' = "crashed" /\ UNCHANGED <<held, drmHandles, named, told, entries>>
    BY <1>5, <2>2 DEF AllocateBuffer, NamesInv, NameTypes, ToldNamesStay, NamesAreUnique,
       OpensWhatWasGiven
  <2>. QED
    BY <1>5, <2>1, <2>2 DEF AllocateBuffer
<1>6. CASE DequeueBufferAndWait
  BY <1>4, <1>6 DEF DequeueBufferAndWait
<1>7. ASSUME NEW b \in Memory, GiveBack(b)
      PROVE  NamesInv'
  BY <1>7 DEF GiveBack, drmVars, NamesInv, NameTypes, ToldNamesStay, NamesAreUnique,
     OpensWhatWasGiven
<1>8. ASSUME NEW t \in told, Commit(t)
      PROVE  NamesInv'
  <2>1. /\ phase # "gone"
        /\ entries' = entries \cup {[buf |-> t.buf, name |-> t.name, sound |-> t.sound,
                                     mem |-> named[t.name]]}
        /\ UNCHANGED <<phase, held, drmHandles, named, told>>
    BY <1>8 DEF Commit, Opened, queueVars, drmVars, NamesInv
  <2>2. t.sound => named[t.name] = t.buf
    BY <2>1 DEF NamesInv, ToldNamesStay
  <2>3. OpensWhatWasGiven'
    BY <2>1, <2>2 DEF NamesInv, OpensWhatWasGiven
  <2>. QED
    BY <2>1, <2>3 DEF NamesInv, NameTypes, ToldNamesStay, NamesAreUnique
<1>9. CASE ClearEntries
  <2>1. /\ entries' = {} /\ named' = Kept(named, drmHandles, {})
        /\ UNCHANGED <<phase, held, drmHandles, told>>
    BY <1>9 DEF ClearEntries, queueVars
  <2>2. NameTypes'
    BY <2>1 DEF Kept, NamesInv, NameTypes
  <2>3. \A n \in Numbers : named[n] \in drmHandles => named'[n] = named[n]
    BY <2>1 DEF Kept, HasHandle
  <2>4. ToldNamesStay'
    BY <2>1, <2>3 DEF NamesInv, NameTypes, Told, ToldNamesStay
  <2>. QED
    BY <2>1, <2>2, <2>4 DEF NamesInv, NamesAreUnique, OpensWhatWasGiven
<1>10. ASSUME NEW n \in Numbers, OthersName(n)
       PROVE  NamesInv'
  <2>1. /\ named[n] \in {Nobody, Other}
        /\ named' = [named EXCEPT ![n] = IF @ = Other THEN Nobody ELSE Other]
        /\ UNCHANGED <<phase, held, drmHandles, told, entries>>
    BY <1>10 DEF OthersName, queueVars
  <2>2. NameTypes'
    BY <2>1 DEF NamesInv, NameTypes
  <2>3. \A k \in Numbers : named[k] \in Memory => named'[k] = named[k]
    BY <2>1, MemoryIsNamed DEF NamesInv, NameTypes
  <2>4. ToldNamesStay'
    BY <2>1, <2>3 DEF NamesInv, NameTypes, Told, ToldNamesStay
  <2>. QED
    BY <2>1, <2>2, <2>4 DEF NamesInv, NamesAreUnique, OpensWhatWasGiven
<1>11. ASSUME NEW n \in 1 .. MaxSlots, SetBufferCount(n)
       PROVE  UNCHANGED <<phase, held, drmHandles, named, told, entries>>
  BY <1>11 DEF SetBufferCount, drmVars
<1>12. ASSUME NEW b \in Memory, MmapBuffer(b) \/ MunmapBuffer(b)
       PROVE  UNCHANGED <<phase, held, drmHandles, named, told, entries>>
  BY <1>12 DEF MmapBuffer, MunmapBuffer, drmVars
<1>13. Connect \/ Disconnect \/ SetBufferGeometry \/ SetUsage \/ UNCHANGED surfaceVars
          => UNCHANGED <<phase, held, drmHandles, named, told, entries>>
  BY DEF Connect, Disconnect, SetBufferGeometry, SetUsage, Outdate, surfaceVars, queueVars, drmVars
<1>. QED
  BY <1>1, <1>2, <1>3, <1>5, <1>6, <1>7, <1>8, <1>9, <1>10, <1>11, <1>12, <1>13 DEF SurfaceNext

LEMMA NamesInvAlways == SurfaceSpec => []NamesInv
<1>1. SurfaceInit => NamesInv
  BY DEF SurfaceInit, NamesInv, NameTypes, ToldNamesStay, NamesAreUnique, OpensWhatWasGiven
<1>2. NamesInv /\ [SurfaceNext]_surfaceVars => NamesInv'
  BY NamesInvStep
<1>. QED
  BY <1>1, <1>2, PTL DEF SurfaceSpec

\* A number told for a buffer opens that buffer's memory in the service,
\* whenever the library commits it.
THEOREM OpensWhatWasGivenAlways == SurfaceSpec => []OpensWhatWasGiven
<1>1. NamesInv => OpensWhatWasGiven
  BY DEF NamesInv
<1>. QED
  BY <1>1, NamesInvAlways, PTL

\* No two buffers of a callback's life get one name: what FreshNames assumes of
\* the client of RockitHwMpi.
THEOREM NamesAreUniqueAlways == SurfaceSpec => []NamesAreUnique
<1>1. NamesInv => NamesAreUnique
  BY DEF NamesInv
<1>. QED
  BY <1>1, NamesInvAlways, PTL

(* The types of the callback's variables: a buffer of the queue has been   *)
(* allocated, the library has buffers of the queue, and maps those it has. *)

QueueTypes ==
    /\ connected \in BOOLEAN
    /\ allocated \in 0 .. MaxMemory /\ buffers \subseteq 1 .. allocated
    /\ slots \in 1 .. MaxSlots
    /\ held \subseteq buffers /\ mapped \subseteq held /\ outdated \subseteq buffers

LEMMA DequeuedTypes ==
    ASSUME QueueTypes, NEW b \in Memory, Dequeued(b), UNCHANGED <<connected, slots, mapped>>
    PROVE  QueueTypes'
<1>1. allocated \in Nat /\ MaxMemory \in Nat
  BY SurfaceAssumption DEF QueueTypes
<1>2. held' = held \cup {b}
  BY DEF Dequeued
<1>3. CASE b \in buffers \ (held \cup outdated) /\ UNCHANGED <<allocated, buffers, outdated>>
  BY <1>2, <1>3 DEF QueueTypes
<1>4. ASSUME b = allocated + 1, allocated' = b,
             \/ buffers' = buffers \cup {b} /\ UNCHANGED outdated
             \/ \E old \in outdated \ held :
                   /\ buffers' = (buffers \ {old}) \cup {b}
                   /\ outdated' = outdated \ {old}
      PROVE  QueueTypes'
  <2>1. allocated' \in 0 .. MaxMemory /\ buffers' \subseteq 1 .. allocated'
    <3>1. allocated' \in 0 .. MaxMemory
      BY <1>1, <1>4 DEF Memory
    <3>2. \A k \in 1 .. allocated : k \in 1 .. allocated'
      BY <1>1, <1>4
    <3>3. b \in 1 .. allocated'
      BY <1>1, <1>4
    <3>4. buffers' \subseteq buffers \cup {b}
      BY <1>4
    <3>. QED
      BY <3>1, <3>2, <3>3, <3>4 DEF QueueTypes
  <2>2. held' \subseteq buffers' /\ outdated' \subseteq buffers' /\ mapped' \subseteq held'
    BY <1>2, <1>4 DEF QueueTypes
  <2>. QED
    BY <1>2, <2>1, <2>2 DEF QueueTypes
<1>. QED
  BY <1>3, <1>4 DEF Dequeued

LEMMA QueueTypesStep ==
    ASSUME QueueTypes, NamesInv, [SurfaceNext]_surfaceVars
    PROVE  QueueTypes'
<1>1. CASE UNCHANGED queueVars
  BY <1>1 DEF queueVars, QueueTypes
<1>2. CASE Connect \/ Disconnect \/ DestroySurface
  <2>1. /\ connected' \in BOOLEAN /\ UNCHANGED <<allocated, slots, held, mapped>>
        /\ \/ UNCHANGED <<buffers, outdated>>
           \/ held = {} /\ buffers' = {} /\ outdated' = {}
    BY <1>2 DEF Connect, Disconnect, DestroySurface
  <2>. QED
    BY <2>1 DEF QueueTypes
<1>3. CASE AllocateBuffer \/ DequeueBufferAndWait
  <2>1. CASE \E b \in Memory : Dequeued(b)
    BY <1>3, <2>1, DequeuedTypes DEF AllocateBuffer, DequeueBufferAndWait
  <2>2. CASE UNCHANGED <<connected, allocated, buffers, slots, held, mapped, outdated>>
    BY <2>2 DEF QueueTypes
  <2>. QED
    BY <1>3, <2>1, <2>2 DEF AllocateBuffer, DequeueBufferAndWait
<1>4. CASE SetBufferGeometry \/ SetUsage
  BY <1>4 DEF SetBufferGeometry, SetUsage, Outdate, QueueTypes
<1>5. ASSUME NEW n \in 1 .. MaxSlots, SetBufferCount(n)
      PROVE  QueueTypes'
  BY <1>5 DEF SetBufferCount, QueueTypes
<1>6. ASSUME NEW b \in Memory, GiveBack(b) \/ MmapBuffer(b) \/ MunmapBuffer(b)
      PROVE  QueueTypes'
  BY <1>6 DEF GiveBack, MmapBuffer, MunmapBuffer, QueueTypes
<1>7. ASSUME NEW t, Commit(t)
      PROVE  UNCHANGED queueVars
  BY <1>7 DEF Commit
<1>8. ASSUME NEW n, OthersName(n)
      PROVE  UNCHANGED queueVars
  BY <1>8 DEF OthersName
<1>9. Construct \/ ClearEntries \/ UNCHANGED surfaceVars => UNCHANGED queueVars
  BY DEF Construct, ClearEntries, surfaceVars
<1>. QED
  BY <1>1, <1>2, <1>3, <1>4, <1>5, <1>6, <1>7, <1>8, <1>9 DEF SurfaceNext

\* The rest of the type invariant.
EntryTypes ==
    /\ phase \in {"none", "alive", "gone", "crashed"}
    /\ mDrmFd \in {"closed", "open", "failed"}
    /\ \A e \in entries : e.mem \in Memory \cup {Other}

LEMMA EntryTypesStep ==
    ASSUME EntryTypes, NamesInv, [SurfaceNext]_surfaceVars
    PROVE  EntryTypes'
<1>1. CASE /\ phase' \in {phase, "alive", "gone", "crashed"}
           /\ mDrmFd' \in {mDrmFd, "closed", "open", "failed"}
           /\ entries' \in {entries, {}}
  BY <1>1 DEF EntryTypes
<1>2. ASSUME NEW t \in told, Commit(t)
      PROVE  EntryTypes'
  <2>1. /\ Opened(t.name) # Nobody
        /\ entries' = entries \cup {[buf |-> t.buf, name |-> t.name, sound |-> t.sound,
                                     mem |-> Opened(t.name)]}
        /\ UNCHANGED <<phase, mDrmFd>>
    BY <1>2 DEF Commit, drmVars
  <2>2. t.name \in Numbers
    BY DEF NamesInv, NameTypes, Told
  <2>3. Opened(t.name) \in Memory \cup {Other}
    BY <2>1, <2>2 DEF Opened, NamesInv, NameTypes
  <2>. QED
    BY <2>1, <2>3 DEF EntryTypes
<1>3. ASSUME NEW n, SetBufferCount(n) \/ OthersName(n)
      PROVE  UNCHANGED <<phase, mDrmFd, entries>>
  BY <1>3 DEF SetBufferCount, OthersName, drmVars
<1>4. ASSUME NEW b, GiveBack(b) \/ MmapBuffer(b) \/ MunmapBuffer(b)
      PROVE  UNCHANGED <<phase, mDrmFd, entries>>
  BY <1>4 DEF GiveBack, MmapBuffer, MunmapBuffer, drmVars
<1>5. Connect \/ Disconnect \/ DequeueBufferAndWait \/ SetBufferGeometry \/ SetUsage
         \/ UNCHANGED surfaceVars
         => UNCHANGED <<phase, mDrmFd, entries>>
  BY DEF Connect, Disconnect, DequeueBufferAndWait, SetBufferGeometry, SetUsage, Outdate, drmVars,
     surfaceVars
<1>6. Construct \/ DestroySurface \/ AllocateBuffer \/ ClearEntries =>
         /\ phase' \in {phase, "alive", "gone", "crashed"}
         /\ mDrmFd' \in {mDrmFd, "closed", "open", "failed"}
         /\ entries' \in {entries, {}}
  BY DEF Construct, DrmOpen, DestroySurface, CloseDrm, AllocateBuffer, ClearEntries
<1>. QED
  BY <1>1, <1>2, <1>3, <1>4, <1>5, <1>6 DEF SurfaceNext

\* The callback's variables keep their types, whatever the BufferQueue does with
\* a buffer of an old geometry: the library has buffers of the queue only.
THEOREM SurfaceTypesHold == SurfaceSpec => []SurfaceTypeOK
<1>1. SurfaceInit => QueueTypes /\ EntryTypes
  <2> SUFFICES ASSUME SurfaceInit PROVE QueueTypes /\ EntryTypes
    OBVIOUS
  <2>1. connected \in BOOLEAN
    BY DEF SurfaceInit
  <2>2. 0 \in 0 .. MaxMemory /\ 1 \in 1 .. MaxSlots
    BY SurfaceAssumption
  <2>. QED
    BY <2>1, <2>2 DEF SurfaceInit, QueueTypes, EntryTypes
<1>2. QueueTypes /\ NamesInv /\ [SurfaceNext]_surfaceVars => QueueTypes'
  BY QueueTypesStep
<1>3. EntryTypes /\ NamesInv /\ [SurfaceNext]_surfaceVars => EntryTypes'
  BY EntryTypesStep
<1>4. QueueTypes /\ EntryTypes /\ NamesInv => SurfaceTypeOK
  BY DEF QueueTypes, EntryTypes, NamesInv, NameTypes, SurfaceTypeOK
<1>. QED
  BY <1>1, <1>2, <1>3, <1>4, NamesInvAlways, PTL DEF SurfaceSpec
=============================================================================
