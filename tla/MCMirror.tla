------------------------------ MODULE MCMirror ------------------------------
(* Small instances of Mirror for TLC.                                      *)
EXTENDS Mirror

CONSTANTS a, b, c, f1, f2

OnePair == <<[source |-> a, target |-> b]>>
Chain == <<[source |-> a, target |-> b], [source |-> b, target |-> c]>>

TwoDirs == {a, b}
ThreeDirs == {a, b, c}

(* The last directory starts empty.                                        *)
AllButLast == {<<a, f1>>, <<b, f1>>}

OneFile == {f1}
TwoFiles == {f1, f2}

=============================================================================
