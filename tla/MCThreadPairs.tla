--------------------------- MODULE MCThreadPairs ---------------------------
(***************************************************************************)
(* The small producer-consumer pairs for TLC: the ring of kv8scope, the    *)
(* ring of kv8zoom, a run of kv8bench and a run of kv8probe with kv8verify *)
(* after it. A behaviour is one of one pair; the others stay as they       *)
(* begin. The two programs share the variable of the outbound queue.       *)
(***************************************************************************)
EXTENDS SpscDynamicRing

CONSTANTS N, MaxFrames, MaxResets, Count, BenchCapacity, MaxSent, BenchQueue, BenchFaults,
          Samples, Wrap, ProbeQueue, ProbeFaults

\* the indices of the ring wrap at any N (static_assert: a power of two), and a number that
\* wraps is told from the next of its kind when there are at least four
ASSUME PairsAssumption ==
  /\ N \in Nat \ {0, 1} /\ MaxFrames \in Nat /\ MaxResets \in Nat
  /\ {Count, BenchCapacity, MaxSent, BenchQueue, BenchFaults} \subseteq Nat
  /\ {Samples, ProbeQueue, ProbeFaults} \subseteq Nat
  /\ Wrap \in Nat \ 0 .. 3 /\ Wrap % 2 = 0

VARIABLES part

VARIABLES fhead, ftail, buf, fwpc, frpc, stop, frame, freceived, foffered, fdropped, resets

fixedVars == <<fhead, ftail, buf, fwpc, frpc, stop, frame, freceived, foffered, fdropped, resets>>

Fixed == INSTANCE SpscFixedRing WITH MaxItems <- MaxFrames, head <- fhead, tail <- ftail,
           wpc <- fwpc, rpc <- frpc, received <- freceived, offered <- foffered, dropped <- fdropped

VARIABLES queue, topic, benchTopic, faults

VARIABLES mode, byCount, pc, sent, total, recv, told, reset, cpc, local, empties, seen, dups, oor,
          assigned, pos, readBack, late, whole, clean, stopAt, joins

Bench == INSTANCE BenchRun WITH Capacity <- BenchCapacity, QueueMax <- BenchQueue,
            MaxFaults <- BenchFaults, stop <- told, topic <- benchTopic

VARIABLES phase, idem, manifest, next, nFailed, read

Probe == INSTANCE ProbeVerify WITH N <- Samples, W <- Wrap, QueueMax <- ProbeQueue, MaxFaults <- ProbeFaults

brokerVars == <<queue, topic, benchTopic, faults>>
benchVars  == <<mode, byCount, pc, sent, total, recv, told, reset, cpc, local, empties, seen, dups, oor,
                assigned, pos, readBack, late, whole, clean, stopAt, joins>>
probeVars  == <<phase, idem, manifest, next, nFailed, read>>
allVars    == <<part, vars, fixedVars, brokerVars, benchVars, probeVars>>

PairsInit ==
  /\ Init /\ Fixed!Init /\ Bench!Init /\ Probe!Init
  /\ part \in {"dynamic", "fixed", "bench", "probe"}
  /\ part # "bench" => mode = "scalar" /\ byCount /\ benchTopic = <<>>
  /\ part # "probe" => idem

\* the two programs end
Ended ==
  \/ part = "bench" /\ pc = "done"
  \/ part = "probe" /\ phase = "checked"

PairsNext ==
  /\ UNCHANGED part
  /\ \/ part = "dynamic" /\ Next /\ UNCHANGED <<fixedVars, brokerVars, benchVars, probeVars>>
     \/ part = "fixed" /\ Fixed!Next /\ UNCHANGED <<vars, brokerVars, benchVars, probeVars>>
     \/ part = "bench" /\ Bench!Next /\ UNCHANGED <<vars, fixedVars, probeVars, topic>>
     \/ part = "probe" /\ Probe!Next /\ UNCHANGED <<vars, fixedVars, benchVars, benchTopic>>
     \/ Ended /\ UNCHANGED <<vars, fixedVars, brokerVars, benchVars, probeVars>>

PairsSpec == PairsInit /\ [][PairsNext]_allVars /\ Fairness

\* The ring of kv8zoom, cleared for a session switch only after its writer has left, is a
\* bounded first-in first-out channel too (SpscFixedRing!ImplementsFifo).
FixedImplementsFifo == Fixed!ImplementsFifo

\* What kv8bench reports of a run: its verdict, and what its consumer thread has counted live
\* (BenchRun!VerdictExact and BenchRun!LiveExact).
ReportsExact == Bench!VerdictExact /\ Bench!LiveExact

\* What kv8verify reports of a run of kv8probe (ProbeVerify!ChecksExact).
ChecksExact == Probe!ChecksExact

=============================================================================
