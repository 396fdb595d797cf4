----------------------------- MODULE MCRecorder -----------------------------
(* Recorder has numbers for constants only, given in the cfg.              *)
EXTENDS Recorder
=============================================================================
