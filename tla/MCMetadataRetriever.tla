------------------------ MODULE MCMetadataRetriever ------------------------
(***************************************************************************)
(* Two files, one with its sound first, and pictures with samples at the   *)
(* limits of each of the four positions in five bytes: whose rows fill     *)
(* their stride, end before it, and with rows that are not shown.          *)
(***************************************************************************)
EXTENDS MetadataRetriever

MCTracksOf == [s \in Sources |->
    IF s = "film" THEN <<"audio", "video", "audio">> ELSE <<"audio">>]

Picture(row, height, wStride, hStride) ==
    [width |-> Len(row), height |-> height, wStride |-> wStride, hStride |-> hStride,
     pad |-> 255,
     rows |-> [q \in 1 .. hStride + hStride \div 2 |->
                 [x \in DOMAIN row |-> (row[x] + 300 * (q - 1)) % 1024]]]

MCPictures == {Picture(<<0, 512, 682, 1023, 3>>, 2, 8, 4),
               Picture(<<341, 4, 3, 1023>>, 2, 5, 2), Picture(<<4, 512>>, 4, 3, 4)}
=============================================================================
