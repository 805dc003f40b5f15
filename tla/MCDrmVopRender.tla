--------------------------- MODULE MCDrmVopRender ---------------------------
(***************************************************************************)
(* Displays that take detect along each of its paths: lit by the boot      *)
(* loader; connected and dark, with an encoder of the right type or not    *)
(* and crtcs possible, active or neither; unplugged, with a second one     *)
(* plugged in; without connectors; silent; and no card.                    *)
(***************************************************************************)
EXTENDS DrmVopRender

Lit == [opens |-> TRUE, answers |-> TRUE,
        connectors |-> <<[answers |-> FALSE, connected |-> TRUE, encoder |-> 1],
                         [answers |-> TRUE, connected |-> TRUE, encoder |-> 1]>>,
        encoders |-> <<[type |-> "TMDS", crtc |-> 1, possible |-> {1, 2}],
                       [type |-> "NONE", crtc |-> 0, possible |-> {2}]>>,
        crtcs |-> <<[active |-> TRUE], [active |-> TRUE]>>,
        planes |-> <<[async |-> FALSE], [async |-> TRUE]>>]

\* Connected, but nothing is attached to the connector or the encoder.
Dark == [Lit EXCEPT !.connectors = <<[answers |-> TRUE, connected |-> TRUE,
                                      encoder |-> 0]>>,
                    !.encoders[1].crtc = 0,
                    !.crtcs = <<[active |-> FALSE], [active |-> FALSE]>>]

MCDisplays ==
    {Lit, Dark,
     [Lit EXCEPT !.planes = <<[async |-> FALSE]>>],
     [Dark EXCEPT !.encoders[1].type = "LVDS"],
     [Dark EXCEPT !.encoders[1].possible = {}],
     [Dark EXCEPT !.encoders[1].possible = {2}, !.crtcs[1].active = TRUE],
     [Lit EXCEPT !.connectors[1] = [answers |-> TRUE, connected |-> FALSE,
                                    encoder |-> 0]],
     [Lit EXCEPT !.connectors = <<>>],
     [Lit EXCEPT !.answers = FALSE],
     [Lit EXCEPT !.opens = FALSE]}

MCFds == {3, 4}

\* A video picture, one with ten bits for a sample, and what DRM has no name for.
MCFormatOf == [m \in Memories |->
    CASE m = "video" -> "YCrCb_NV12" [] m = "deep" -> "YCrCb_NV12_10"
      [] OTHER -> "YCbCr_422_SP"]
===========================================================================
