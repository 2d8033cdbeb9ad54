---------------------------- MODULE MCQueueFinish ----------------------------
(* Two mines and a nanofactory between them wait in the queue.              *)
EXTENDS QueueFinish

CONSTANTS mine, nano

MCBuildingOf == <<mine, nano, mine>>
MCFinishAt == <<1, 1, 2>>
=============================================================================
