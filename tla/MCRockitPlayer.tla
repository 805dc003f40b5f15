--------------------------- MODULE MCRockitPlayer ---------------------------
(* The files of the run: only listed tracks; a track that is not listed    *)
(* between others; two subtitles; and none.                                *)
EXTENDS RockitPlayer

MCTrackLists ==
    { <<>>,
      <<"video", "audio", "subtitle">>,
      <<"video", "attachment", "audio">>,
      <<"audio", "subtitle", "subtitle", "unknown">> }

\* With a millisecond of 2 and an int from -4 to 3, the last one does not fit.
MCPositions == {0, 1, 5, 9}
=============================================================================
