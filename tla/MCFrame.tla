------------------------------- MODULE MCFrame -------------------------------
EXTENDS Frame

\* The control channel's frames, and subscriber_test's.
MCStreams == {<<"TSBK", "TDU">>, <<"TSBK">>}

\* Whatever the NAC, the weight on which NidsAreSeparated of Frame_proofs rests.
ASSUME LeastWeight
=============================================================================
