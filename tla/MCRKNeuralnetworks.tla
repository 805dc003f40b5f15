------------------------- MODULE MCRKNeuralnetworks -------------------------
(* Devices of the run: a preliminary Q with the bridge, one without the    *)
(* bridge, one that is too old, and one without a version.                 *)
EXTENDS RKNeuralnetworks

Device(known, level, preQ, bridge) ==
    [set |-> known, numeric |-> TRUE, level |-> level, preQ |-> preQ, bridge |-> bridge]

MCDevices ==
    { Device(TRUE, 28, TRUE, TRUE), Device(TRUE, 30, FALSE, FALSE),
      Device(TRUE, 26, FALSE, TRUE), Device(FALSE, 0, FALSE, TRUE),
      [Device(TRUE, 0, FALSE, FALSE) EXCEPT !.numeric = FALSE] }
=============================================================================
