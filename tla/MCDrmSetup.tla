----------------------------- MODULE MCDrmSetup -----------------------------
(* Displays with one and two connectors, with and without what the program *)
(* needs of them.                                                          *)
EXTENDS DrmSetup

Mode(w, h, hz) == [w |-> w, h |-> h, hz |-> hz, pref |-> FALSE, lace |-> FALSE]
Hdmi == [writeback |-> FALSE, connected |-> TRUE, crtc |-> TRUE,
         modes |-> <<Mode(1280, 720, 60), Mode(1920, 1080, 60)>>]
Unplugged == [Hdmi EXCEPT !.connected = FALSE]
NoCrtc == [Hdmi EXCEPT !.crtc = FALSE]
Wb == [Hdmi EXCEPT !.writeback = TRUE]

Plain == [connectors |-> <<Hdmi, Hdmi>>, planes |-> <<{"NV12"}, {"ARGB8888"}>>,
          want |-> [w |-> 0, h |-> 0, hz |-> 0], rate |-> 0,
          record |-> TRUE, writeback |-> "usable", picky |-> FALSE]

Offered ==
    {Plain,
     [Plain EXCEPT !.connectors = <<Unplugged, Wb, NoCrtc, Hdmi>>, !.writeback = "no NV12"],
     [Plain EXCEPT !.connectors = <<Hdmi>>, !.writeback = "none", !.planes = <<{"ARGB8888", "NV12"}>>],
     [Plain EXCEPT !.connectors = <<Hdmi>>, !.writeback = "no properties",
                   !.want = [w |-> 1920, h |-> 1080, hz |-> 50]],
     [Plain EXCEPT !.connectors = <<Hdmi>>, !.planes = <<{"ARGB8888"}>>],
     [Plain EXCEPT !.connectors = <<Hdmi>>, !.record = FALSE, !.rate = 90],
     [Plain EXCEPT !.picky = TRUE]}

Buffers == <<"wb1", "wb2", "wb3">>
Groups == <<"frm1", "frm2", "frm3">>

Picky == {[Plain EXCEPT !.picky = TRUE]}
=============================================================================
