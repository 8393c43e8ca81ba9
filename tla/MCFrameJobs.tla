---------------------------- MODULE MCFrameJobs ----------------------------
(***************************************************************************)
(* FrameJobs for TLC: the two queues of SetupDefaultPools.                 *)
(***************************************************************************)
EXTENDS FrameJobs

CONSTANTS w0, w1

MCQueues == <<w0, w1>>

=============================================================================
