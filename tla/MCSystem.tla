------------------------------ MODULE MCSystem ------------------------------
(* Small instances of System for TLC.                                      *)
EXTENDS System

CONSTANTS s1, s2, d1, d2

TwoSources == {s1, s2}
OneSource == {s1}
TwoDirs == {d1, d2}
OneDir == {d1}

(* Different paths, different directories.                                 *)
Distinct == [s \in {s1, s2} |-> IF s = s1 THEN d1 ELSE d2]
OnlyFirst == [s \in {s1} |-> d1]

EmptyConfig == << >>
OnePair == <<s1>>

AllOps == {"add", "sync", "cancel", "status", "shutdown", "bad", "blank"}
RunningOps == {"add", "sync", "cancel", "shutdown"}

=============================================================================
