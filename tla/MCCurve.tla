------------------------------ MODULE MCCurve ------------------------------
EXTENDS CurveCheck
MCMaxBalance(n) == IF n = 2 THEN 20 ELSE 6
=============================================================================
