-------------------------- MODULE MCTopicReaders ---------------------------
(***************************************************************************)
(* The two readers of topics that are written while they are read, for     *)
(* TLC: the scan of the registry by DiscoverSessions, and the readers of   *)
(* the annotations of a session. A behaviour is one of one of them.        *)
(*                                                                         *)
(* Registry: two sessions of a channel, one whose feed embeds a type and   *)
(* one, built later, that has another version of that type. The embedding  *)
(* schema comes first in the order of the hashes.                          *)
(***************************************************************************)
EXTENDS RegistryScan, TLC

CONSTANTS
  Windows, Compaction, MaxClock, MaxAdds, MaxWrites, MaxOpens, MaxPend,
  w1, w2, s1, s2, pose, vec, vec2

\* the bounds of the annotations are numbers
ASSUME NotesAssumption == {MaxClock, MaxAdds, MaxWrites, MaxOpens, MaxPend} \subseteq Nat

VARIABLES
  reader,
  clock, open, store, nextSeq, editing, pend, outq, owner, live, replay, replaying, topic, gone,
  opens, writes

noteVars == <<clock, open, store, nextSeq, editing, pend, outq, owner, live, replay, replaying,
              topic, gone, opens, writes>>

Notes == INSTANCE AnnotationSync

\* Both windows at work on a topic that is not compacted, or one of them alone on a longer
\* topic that is.
Together == gone = {} /\ clock = 0 /\ writes <= 2 /\ \A w \in Windows : Len(pend[w]) <= 1
Alone    == \E w \in Windows : w \notin open /\ live[w] = 0 /\ replay[w] = 0
                               /\ pend[w] = <<>> /\ outq[w] = <<>>

ReadersInit == reader \in {"registry", "notes"} /\ Init /\ Notes!Init /\ (reader = "notes" => parts = 1)

ReadersNext ==
  \/ reader = "registry" /\ Next /\ UNCHANGED <<reader, noteVars>>
  \/ reader = "notes" /\ Notes!Next /\ (Together \/ Alone)' /\ UNCHANGED <<reader, vars>>

ReadersSpec == ReadersInit /\ [][ReadersNext]_<<reader, vars, noteVars>>

\* What any window deleted or saved late is known to the others (AnnotationSync!ChangesKnown).
ChangesKnown == Notes!ChangesKnown

\* A window never brings a deleted annotation back (AnnotationSync!DeletedStays).
DeletedStays == Notes!DeletedStays

-----------------------------------------------------------------------------
TwoWindows == {w1, w2}

\* windows are interchangeable
WindowSymmetry == Permutations(Windows)

TwoSessions == {s1, s2}
ThreeTexts  == {pose, vec, vec2}
PoseFirst   == <<pose, vec, vec2>>
Names       == [h \in ThreeTexts |-> IF h = pose THEN "Pose" ELSE "Vec3"]
Embedded    == [h \in ThreeTexts |-> IF h = pose THEN {"Vec3"} ELSE {}]
Feeds       == [s \in TwoSessions |-> IF s = s1 THEN <<vec, pose>> ELSE <<vec2>>]

=============================================================================
