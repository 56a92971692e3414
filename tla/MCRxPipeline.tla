---------------------------- MODULE MCRxPipeline ----------------------------
EXTENDS RxPipeline
=============================================================================
