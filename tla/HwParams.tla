------------------------------ MODULE HwParams ------------------------------
(***************************************************************************)
(* The parameters of the IRockitHwInterface calls: pairs of a key and a    *)
(* value, of which the first counter ones count.  The client library has   *)
(* them in an array of its own, RTHWParamPairs; RockitHwClient copies them *)
(* into a RockitHWParamPairs for the service and back, and the decoder     *)
(* reads and writes them by key.                                           *)
(*                                                                         *)
(* The array of the library is taken to have room for what comes back, and *)
(* memory no pair was written to is Unset.                                 *)
(***************************************************************************)
EXTENDS Integers, Sequences, SequencesExt

KEY_NO_VALUES == 0

Null == [null |-> TRUE]                       \* a NULL RTHWParamPairs
Unset == [key |-> "unset", value |-> KEY_NO_VALUES]

\* The pairs, of the client or of a call, with these keys and values.
Pairs(list) ==
    [counter |-> Len(list),
     pairs |-> [i \in DOMAIN list |-> [key |-> list[i][1], value |-> list[i][2]]]]

\* pairs.resize(n) and counter = 0
Sized(n) == [counter |-> 0, pairs |-> [i \in 1 .. n |-> Unset]]

\* getValue: the value of the first pair with the key.
GetValue(param, key) ==
    LET of == SelectInSubSeq(param.pairs, 1, param.counter,
                             LAMBDA pair : pair.key = key)
    IN  IF of = 0 THEN KEY_NO_VALUES ELSE param.pairs[of].value

\* Faulty variant: the counter is counted up before it is the place.
SetValueAfter(param, key, value) ==
    [counter |-> param.counter + 1,
     pairs |-> [i \in DOMAIN param.pairs |->
        IF i = param.counter + 2 THEN [key |-> key, value |-> value]
        ELSE param.pairs[i]]]

\* setValue: the pair goes to the place the counter says; the vector has room
\* for it.
SetValue(param, key, value) ==
    [counter |-> param.counter + 1,
     pairs |-> [i \in DOMAIN param.pairs |->
        IF i = param.counter + 1 THEN [key |-> key, value |-> value]
        ELSE param.pairs[i]]]

\* RTHWParam2RockitHWParam: no parameters are a vector of one pair that does
\* not count.
RTHWParam2RockitHWParam(rt) ==
    IF rt = Null
    THEN [counter |-> 0, pairs |-> << [key |-> "none", value |-> 1] >>]
    ELSE [counter |-> rt.counter, pairs |-> SubSeq(rt.pairs, 1, rt.counter)]

\* RockitHWParam2RTHWParam, into the array rt: what is beyond the counter stays.
RockitHWParam2RTHWParam(hw, rt) ==
    [counter |-> hw.counter,
     pairs |-> [i \in DOMAIN rt.pairs |->
        IF i <= hw.counter THEN hw.pairs[i] ELSE rt.pairs[i]]]

\* RTBuffer2HwBuffer: a buffer of the client for a call ...
RTBuffer2HwBuffer(rt) ==
    [bufferId |-> rt.bufferId, length |-> rt.length,
     pair |-> RTHWParam2RockitHWParam(rt.pair)]

\* ... initRTHWBuffer, and HwBuffer2RTBuffer, of one that came back.
InitRTHWBuffer(rt) == [bufferId |-> 0, length |-> 0, pair |-> [rt.pair EXCEPT !.counter = 0]]

HwBuffer2RTBuffer(hw, rt) ==
    [bufferId |-> hw.bufferId, length |-> hw.length,
     pair |-> RockitHWParam2RTHWParam(hw.pair, rt.pair)]
=============================================================================
