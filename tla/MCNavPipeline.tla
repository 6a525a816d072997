---------------------------- MODULE MCNavPipeline ----------------------------
(* Instance of NavPipeline for TLC: epochs of 2 seconds, two epochs of       *)
(* satellite 1 with enough messages for a vote (time 4 with a dissenting     *)
(* source, time 8 for CNAV only), a message of a second satellite at 10, and *)
(* a late one at 14 that brings a gap in time with it.  The last message is  *)
(* from before the GPS epoch.                                                *)
EXTENDS NavPipeline

MCMsg == 1 .. 8
MCTimeStamp == <<4, 4, 4, 8, 8, 10, 14, 2>>
MCPrn == <<1, 1, 1, 1, 1, 2, 1, 1>>
MCBits == <<5, 5, 3, 4, 4, 5, 5, 5>>
=============================================================================
