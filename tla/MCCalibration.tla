---------------------------- MODULE MCCalibration ----------------------------
EXTENDS Calibration

SomeStops == {-1, 0, 2}
=============================================================================
