-------------------------- MODULE MCKv8LogSession --------------------------
(* Instances of Kv8LogSession for TLC.                                     *)
EXTENDS Kv8LogSession, TLC

CONSTANTS t1, t2, temp, pose, gyro

OneThread    == {t1}
TwoThreads   == {t1, t2}
Temperature  == {temp}
ScalarAndUdt == {temp, pose}
TwoScalars   == {temp, gyro}
TwoFeeds     == {pose, gyro}
Pose         == {pose}
NoFeeds      == {}
NoFaults     == {}
SlowBroker   == {"flush_timeout"}
AllFaults    == FaultKinds

\* application threads are interchangeable
ThreadSymmetry == Permutations(Threads)

=============================================================================
