----------------------------- MODULE MCSoapyTx -----------------------------
EXTENDS SoapyTx
=============================================================================
