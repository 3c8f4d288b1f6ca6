--------------------------- MODULE MCDriftWindows ---------------------------
\* Instances of DriftWindows for TLC: windows of two samples.
EXTENDS DriftWindows
=============================================================================
