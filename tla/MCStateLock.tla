---------------------------- MODULE MCStateLock ----------------------------
(***************************************************************************)
(* Instances of StateLock for TLC.                                         *)
(***************************************************************************)
EXTENDS StateLock, TLC

CONSTANTS t1, t2, t3, t4, p1, p2, p3

\* One task alone in its process, two that share one.
TwoProcesses == (t1 :> p1) @@ (t2 :> p2) @@ (t3 :> p2)
\* One process that holds both files, two contenders in others.
ThreeProcesses == (t1 :> p1) @@ (t2 :> p1) @@ (t3 :> p2) @@ (t4 :> p3)

\* Crashes and failed writes at every point outside the reclaim lock.
OutsideReclaim == PC \ InReclaim
\* Crashes everywhere, but only once the pid is in the file; no failed write.
AfterPidWrite == PC \ {"writePid", "writeReclaimPid"}
\* A crash of the lock owner together with a task that is reclaiming the lock.
BothFilesHeld == {"critical", "readLock"}
=============================================================================
