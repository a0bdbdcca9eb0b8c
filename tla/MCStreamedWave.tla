--------------------------- MODULE MCStreamedWave ---------------------------
(* Calls of the main thread for model-checking StreamedWave. *)
EXTENDS StreamedWave

PlayAndRepeat  == {"play", "repeat"}
PlayAndDestroy == {"play", "destroy"}
AnyCall        == {"play", "pause", "resume", "stop", "restart", "repeat",
                   "lastLoop", "switch", "destroy"}
=============================================================================
