-------------------------- MODULE StagingReclamation --------------------------
(***************************************************************************)
(* What the layer promises about staging resources, with no threads, locks *)
(* or fences: a batch of resources is filled while commands are recorded,  *)
(* handed over when they are submitted, used by the GPU, and only when the *)
(* GPU is done with it retired and reclaimed.  While the device is closing *)
(* (the application guarantees an idle device) or once it is lost, a batch *)
(* may be retired without having been executed.  A wait for the GPU may    *)
(* fail: of the batch it was for nobody knows any more how far it got, it  *)
(* is retired all the same, and the means by which it was followed make    *)
(* batches that are handed over later just as hard to follow.              *)
(***************************************************************************)
CONSTANT Batches

VARIABLES stage,   \* where each batch is in its life
          closing, \* DestroyDevice has been called
          lost,    \* the device is lost
          failed   \* a wait for the GPU has failed

vars == <<stage, closing, lost, failed>>

Stages == {"idle", "recording", "handed", "executing", "executed", "unknown", "retired"}

Init ==
  /\ stage = [b \in Batches |-> "idle"]
  /\ closing = FALSE
  /\ lost = FALSE
  /\ failed = FALSE

Move(B, from, to) ==
  /\ \A b \in B : stage[b] \in from
  /\ stage' = [b \in Batches |-> IF b \in B THEN to ELSE stage[b]]
  /\ UNCHANGED <<closing, lost, failed>>

Fill(b)    == ~closing /\ Move({b}, {"idle"}, "recording")
Drop(b)    == ~closing /\ Move({b}, {"recording"}, "idle")
HandOver(b) ==
  /\ ~closing
  /\ \/ Move({b}, {"recording"}, "handed")
     \/ failed /\ Move({b}, {"recording"}, "unknown")
\* One driver call starts the batches of all its command buffers.
Start(B)   == ~closing /\ ~lost /\ Move(B, {"handed"}, "executing")
Finish(b)  == ~lost /\ Move({b}, {"executing"}, "executed")
Retire(b)  ==
  \/ Move({b}, {"executed", "unknown"}, "retired")
  \/ (closing \/ lost) /\ Move({b}, {"handed"}, "retired")
Reclaim(b) == Move({b}, {"retired"}, "idle")

\* The wait for a batch fails on a device that is not lost.
GiveUp(b) ==
  /\ ~lost
  /\ stage[b] \in {"handed", "executing", "executed", "unknown"}
  /\ stage' = [stage EXCEPT ![b] = "unknown"]
  /\ failed' = TRUE
  /\ UNCHANGED <<closing, lost>>

\* The device is closed only when the GPU has nothing left to do.
Close ==
  /\ ~closing
  /\ lost \/ \A b \in Batches : stage[b] # "executing"
  /\ closing' = TRUE
  /\ UNCHANGED <<stage, lost, failed>>

\* Of a lost device nobody can tell how far it got.
Lose ==
  /\ ~lost
  /\ lost' = TRUE
  /\ stage' = [b \in Batches |->
                IF stage[b] \in {"executing", "executed", "unknown"} THEN "handed" ELSE stage[b]]
  /\ UNCHANGED <<closing, failed>>

Next ==
  \/ \E B \in SUBSET Batches : Start(B)
  \/ \E b \in Batches :
       Fill(b) \/ Drop(b) \/ HandOver(b) \/ Finish(b) \/ GiveUp(b) \/ Retire(b) \/ Reclaim(b)
  \/ Close \/ Lose

Spec == Init /\ [][Next]_vars
=============================================================================
