--------------------------- MODULE MC_ClientProtocol ---------------------------
(* ClientProtocol on few queries and heartbeats.                            *)
EXTENDS ClientProtocol
================================================================================
