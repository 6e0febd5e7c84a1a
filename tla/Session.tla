------------------------------ MODULE Session ------------------------------
(***************************************************************************)
(* Both halves of a process that uses the layer: the way to a device and   *)
(* back (DeviceSession) and what is measured while the threads of the      *)
(* application use it (Profiling).  They read one environment; the         *)
(* measuring takes place on the registered device, but the sampler of the  *)
(* counters belongs to the process and outlives it.                        *)
(***************************************************************************)
EXTENDS Profiling, DeviceSession

sessionVars == <<profilingVars, deviceVars>>

\* The application destroys a device when no thread is in a call on it, nothing
\* it submitted is pending or waits for the finalizer, and its command buffers
\* are gone.
AtRest ==
  /\ \A t \in Threads : pc[t] = "idle" /\ fate[t] = "none" /\ recording[t] = EmptyBatch
  /\ pending = {} /\ cleaning = {} /\ ~ lost

SessionInit == ProfilingInit /\ DeviceInit

SessionNext ==
  \/ DeviceNext /\ (device' = NoDevice => AtRest) /\ UNCHANGED profilingVars
  \/ device # NoDevice /\ ProfilingNext /\ UNCHANGED deviceVars

SessionSpec == SessionInit /\ [][SessionNext]_sessionVars /\ ProfilingFairness

-----------------------------------------------------------------------------

\* The types of both halves (the sampler, the batches and the device).
TypeOK == ProfilingTypeOK /\ DeviceTypeOK
=============================================================================
