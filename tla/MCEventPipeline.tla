---------------------------- MODULE MCEventPipeline ----------------------------
(***************************************************************************)
(* An instance of the pipeline with events of different fates.             *)
(***************************************************************************)
EXTENDS EventPipeline

CONSTANTS
  billed, ignored, unclean,      \* events
  AtFilter, AtClean, AtStore     \* maxReceiveCount of the three queues

MCEntry == [e \in Events |-> IF e = unclean THEN "clean" ELSE "filter"]
MCSound == [s \in Stages |-> IF s = "clean" THEN Events \ {unclean} ELSE Events]
MCRelevant == Events \ {ignored}
MCMaxReceive == [filter |-> AtFilter, clean |-> AtClean, store |-> AtStore]
================================================================================
