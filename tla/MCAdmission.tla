----------------------------- MODULE MCAdmission -----------------------------
\* Model values for Admission.
EXTENDS Admission
=============================================================================
