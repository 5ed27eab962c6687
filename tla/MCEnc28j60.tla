----------------------------- MODULE MCEnc28j60 -----------------------------
\* Instances of Enc28j60 for model checking.
EXTENDS Enc28j60

CONSTANTS small, big1, big2, t1, t2, garbage

MCFrames == {small, big1, big2}
MCUnits == [f \in Frames |-> IF f = small THEN 1 ELSE 2]
MCSenders == {t1, t2}
Second == {t2}
=============================================================================
