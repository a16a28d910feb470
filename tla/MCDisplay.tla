------------------------------ MODULE MCDisplay -------------------------------
EXTENDS Display

MCKinds == {"fan", "pump", "cyclops"}
=============================================================================
