------------------------------- MODULE MCSite -------------------------------
EXTENDS Site

MCDefault == [freq |-> 14505, offset |-> 0]
\* Two transmit frequencies, and two offsets for one of them.
MCConfigs == {MCDefault, [freq |-> 14505, offset |-> 60], [freq |-> 44600, offset |-> -500]}
=============================================================================
