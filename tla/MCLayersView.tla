---------------------------- MODULE MCLayersView ---------------------------
(* One channel with its feed, open in one tab.                              *)
EXTENDS LayersView
CONSTANTS l1, t1
MCLayers == {l1}
MCTabs == {t1}
MCNone == {}
=============================================================================
