-------------------------- MODULE MCControlChannel --------------------------
EXTENDS ControlChannel
=============================================================================
