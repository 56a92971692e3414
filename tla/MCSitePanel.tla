----------------------------- MODULE MCSitePanel -----------------------------
EXTENDS SitePanel

\* kBands and the quick picks of the source.
AmateurBands == <<[min |-> 14400, max |-> 14800], [min |-> 42000, max |-> 45000]>>
QuickPicks   == <<{14505, 14652, 14700, 14600}, {44600, 44650, 44500, 44000}>>

OneBand  == <<[min |-> 14400, max |-> 14800]>>
NoPresets == <<{}>>

\* Both sides of each limit.
EdgeFreqs == {14399, 14400, 14800, 14801, 41999, 42000, 45000, 45001}

\* Both sides of a half unit, one on each side of zero, and the largest that fits.
EdgeOffsets == {-13, 12, 6387}

HexTexts == {2, Bad}

\* One without a key, and one with a value of the wrong type.
InBandFiles == {[NoData EXCEPT !["freq"] = 44600, !["nac"] = Missing],
                [NoData EXCEPT !["freq"] = 44000, !["wacn"] = Bad]}
=============================================================================
