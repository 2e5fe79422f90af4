----------------------------- MODULE MCMuxEndpoint -----------------------------
(* Two clients on one multiplexed connection.                                  *)
EXTENDS MuxEndpoint

MuxSpec == MuxInit /\ [][MuxNext]_muxVars
================================================================================
