----------------------------- MODULE MCInfoBuffer -----------------------------
(* Instances of InfoBuffer for TLC: writers that race for the slots.        *)
EXTENDS InfoBuffer

CONSTANTS w1, w2, w3

TwoWriters == {w1, w2}
ThreeWriters == {w1, w2, w3}
===============================================================================
