--------------------------- MODULE SitePanel_proofs ---------------------------
(***************************************************************************)
(* Proofs about SitePanel: types, the frequency limits, the selector, the  *)
(* round trip through config.json and the rounding of the offset.          *)
(***************************************************************************)
EXTENDS SitePanel, TLAPS

-----------------------------------------------------------------------------
(* Helpers.                                                                *)

LEMMA InputTypes ==
  /\ EnteredFreqs \subseteq Int /\ Offsets \subseteq Int /\ Rests \subseteq Int
  /\ Texts \subseteq Int \cup {Bad}
<1>1. EnteredFreqs \subseteq Int  BY PanelAssumption
<1>2. Offsets \subseteq Int  BY PanelAssumption
<1>3. Rests \subseteq Nat  BY PanelAssumption
<1>4. Texts \subseteq Nat \cup {Bad}  BY PanelAssumption
<1>5. Nat \subseteq Int  OBVIOUS
<1> QED  BY <1>1, <1>2, <1>3, <1>4, <1>5, Zenon

LEMMA DefaultTyped == DefaultCfg \in Cfgs
BY DEF DefaultCfg, Cfgs

LEMMA DefaultUnits == DefaultCfg.units = 0 /\ DefaultCfg.offset = 0
BY DEF DefaultCfg

LEMMA DataTyped ==
  ASSUME NEW c \in Cfgs
  PROVE  Data(c) \in [FileFields -> Int \cup {Bad, Missing}]
<1>1. \A f \in FileFields : c[f] \in Int  BY DEF FileFields, HexFields, Cfgs
<1> QED  BY <1>1, Zenon DEF Data

\* A try block that assigns fields keeps the type, whatever it is given.
LEMMA AssignTyped ==
  ASSUME NEW c \in Cfgs, NEW S, NEW order \in Seq(S), NEW v,
         \A i \in DOMAIN order : v[order[i]] \in Int \cup {Bad, Missing}
  PROVE  Assign(c, order, v) \in Cfgs
<1> DEFINE good == {i \in DOMAIN order : \A j \in 1 .. i : v[order[j]] # Bad}
<1>1. ASSUME NEW i \in good PROVE v[order[i]] \in Int \cup {Missing}
  <2>1. i \in 1 .. i  OBVIOUS
  <2> QED  BY <2>1
<1> DEFINE g(f) == IF \E i \in good : order[i] = f /\ v[f] # Missing THEN v[f] ELSE c[f]
<1>2. ASSUME NEW f \in DOMAIN c PROVE g(f) \in Int
  <2>1. c[f] \in Int  BY DEF Cfgs
  <2> QED  BY <1>1, <2>1
<1>3. [f \in DOMAIN c |-> g(f)] \in Cfgs
  <2> HIDE DEF g
  <2> QED  BY <1>2 DEF Cfgs
<1> QED  BY <1>3 DEF Assign

\* Three text fields cannot change any other field.
LEMMA AssignHex ==
  ASSUME NEW c \in Cfgs, NEW v
  PROVE  Assign(c, HexOrder, v).freq = c.freq /\ Assign(c, HexOrder, v).units = c.units
BY DEF Assign, HexOrder, Cfgs

\* Parsed texts are numbers or Bad.
LEMMA MaskedTyped ==
  ASSUME NEW t \in [HexFields -> Int \cup {Bad}]
  PROVE  \A i \in DOMAIN HexOrder : Masked(t)[HexOrder[i]] \in Int \cup {Bad, Missing}
<1>1. \A x \in Int : x % 4096 \in Int /\ x % 1048576 \in Int  OBVIOUS
<1>2. \A f \in HexFields : Width[f] \in {4096, 1048576}  BY DEF HexFields, Width
<1>3. \A f \in HexFields : Masked(t)[f] \in Int \cup {Bad}  BY <1>1, <1>2 DEF Masked
<1>4. \A i \in DOMAIN HexOrder : HexOrder[i] \in HexFields  BY DEF HexOrder, HexFields
<1> QED  BY <1>3, <1>4

LEMMA HexTyped ==
  ASSUME NEW c \in Cfgs, NEW t \in [HexFields -> Int \cup {Bad}]
  PROVE  Assign(c, HexOrder, Masked(t)) \in Cfgs
<1>1. HexOrder \in Seq(HexFields)  BY DEF HexOrder, HexFields
<1> QED  BY <1>1, AssignTyped, MaskedTyped

\* What a file restores has the type of a configuration.
LEMMA LoadedTyped ==
  ASSUME NEW f \in Files
  PROVE  Loaded(f) \in Cfgs
<1>1. DefaultCfg \in Cfgs  BY DefaultTyped
<1>2. FileOrder \in Seq(FileFields)  BY DEF FileOrder, FileFields, HexFields
<1>3. \A i \in DOMAIN FileOrder : f.data[FileOrder[i]] \in Int \cup {Bad, Missing}
  BY <1>2 DEF Files
<1> QED  BY <1>1, <1>2, <1>3, AssignTyped DEF Loaded

\* The band a frequency is found in contains it.
LEMMA FoundBand ==
  ASSUME NEW f, InSomeBand(f)
  PROVE  FindBand(f) \in DOMAIN Bands /\ InBand(f, FindBand(f)) /\ FindBand(f) # 0
<1>1. PICK i \in DOMAIN Bands : InBand(f, i)  BY DEF InSomeBand
<1>2. FindBand(f) \in DOMAIN Bands /\ InBand(f, FindBand(f))  BY <1>1 DEF FindBand
<1>3. 0 \notin DOMAIN Bands  BY PanelAssumption
<1> QED  BY <1>2, <1>3

LEMMA DefaultInBand == InSomeBand(DefaultCfg.freq)
BY PanelAssumption DEF InSomeBand, InBand, DefaultCfg

LEMMA NewSelectorFits ==
  NewSelector \in Selectors /\ InBand(NewSelector.freq, NewSelector.band)
<1>1. DefaultCfg.freq \in Int  BY DEF DefaultCfg
<1> QED  BY <1>1, DefaultInBand, FoundBand DEF NewSelector, Selectors

\* Following the configuration keeps the type in any case.
LEMMA SyncedTyped ==
  ASSUME NEW s \in Selectors, NEW f \in Int
  PROVE  Synced(s, f) \in Selectors /\ Synced(s, f).freq = f
<1>1. FindBand(f) # 0 => FindBand(f) \in DOMAIN Bands  BY FoundBand DEF FindBand
<1> QED  BY <1>1 DEF Synced, Selectors

\* And the band follows a frequency that has one.
LEMMA SyncedFits ==
  ASSUME NEW s \in Selectors, InBand(s.freq, s.band), NEW f \in Int, InSomeBand(f)
  PROVE  InBand(Synced(s, f).freq, Synced(s, f).band)
BY FoundBand DEF Synced, Selectors

LEMMA BandTyped ==
  ASSUME NEW i \in DOMAIN Bands
  PROVE  Bands[i].min \in Int /\ Bands[i].max \in Int /\ Bands[i].min <= Bands[i].max
<1> DEFINE Limits == [min : Int, max : Int]
<1>1. Bands \in Seq(Limits)  BY PanelAssumption
<1>2. Bands[i] \in Limits
  <2> HIDE DEF Limits
  <2> QED  BY <1>1
<1>3. Bands[i].min \in Int /\ Bands[i].max \in Int  BY <1>2
<1> QED  BY <1>3, PanelAssumption

LEMMA ClampFits ==
  ASSUME NEW f \in Int, NEW i \in DOMAIN Bands
  PROVE  ClampToBand(f, i) \in Int /\ InBand(ClampToBand(f, i), i)
BY BandTyped DEF ClampToBand, InBand

LEMMA PresetFits ==
  ASSUME NEW i \in DOMAIN Bands, NEW x \in Presets[i]
  PROVE  x \in Int /\ InSomeBand(x)
<1>1. x \in Bands[i].min .. Bands[i].max  BY PanelAssumption
<1> QED  BY <1>1, BandTyped DEF InSomeBand, InBand

\* Rounding to units of 250 kHz stays in the integers.
LEMMA OffsetUnitsTyped == \A o \in Int : OffsetUnits(o) \in Int
<1> SUFFICES ASSUME NEW o \in Int PROVE OffsetUnits(o) \in Int  OBVIOUS
<1>1. (o + 12) \div 25 \in Int /\ (12 - o) \div 25 \in Int  OBVIOUS
<1> QED  BY <1>1 DEF OffsetUnits

LEMMA ConfiguredTyped ==
  ASSUME NEW c \in Cfgs
  PROVE  /\ Configured(c) \in Cfgs /\ Configured(c).freq = c.freq
         /\ Configured(c).offset = c.offset
         /\ Configured(c).units = OffsetUnits(c.offset)
<1>1. OffsetUnits(c.offset) \in Int  BY OffsetUnitsTyped DEF Cfgs
<1> HIDE DEF OffsetUnits
<1> QED  BY <1>1 DEF Configured, Cfgs

-----------------------------------------------------------------------------
(* Type correctness.                                                       *)

LEMMA TypeInit == Init => TypeOK
<1> SUFFICES ASSUME Init PROVE TypeOK  OBVIOUS
<1>1. DefaultCfg \in Cfgs  BY DefaultTyped
<1>2. panel \in Cfgs /\ applied \in Cfgs /\ saved \in Cfgs  BY <1>1 DEF Init
<1>3. texts \in [HexFields -> Int \cup {Bad}]  BY <1>1 DEF Init, HexFields, Cfgs
<1>4. NoData \in [FileFields -> Int \cup {Bad, Missing}]
  BY <1>1, DataTyped DEF NoData
<1>5. file \in Files  BY <1>4 DEF Init, Files
<1>6. sel \in Selectors  BY NewSelectorFits DEF Init
<1> QED  BY <1>2, <1>3, <1>5, <1>6 DEF Init, TypeOK

LEMMA TypeStep == TypeOK /\ [Next]_vars => TypeOK'
<1> SUFFICES ASSUME TypeOK, [Next]_vars PROVE TypeOK'  OBVIOUS
<1> USE DEF TypeOK
<1>0. Synced(sel, panel.freq) \in Selectors  BY SyncedTyped DEF Cfgs
<1>1. CASE Launch
  <2>1. panel' \in Cfgs  BY <1>1, LoadedTyped DEF Launch
  <2>2. texts' \in [HexFields -> Int \cup {Bad}]
    BY <1>1, <2>1 DEF Launch, HexFields, Cfgs
  <2> QED  BY <1>1, <2>1, <2>2, DefaultTyped, NewSelectorFits DEF Launch
<1>2. ASSUME NEW f \in HexFields, NEW t \in Texts, TypeHex(f, t) PROVE TypeOK'
  <2>1. t \in Int \cup {Bad}  BY InputTypes
  <2> QED  BY <1>0, <1>2, <2>1 DEF TypeHex, Frame
<1>3. ASSUME NEW f \in {"offset", "rest"}, NEW v \in Int, Edit(f, v) PROVE TypeOK'
  <2>1. panel' \in Cfgs  BY <1>3 DEF Edit, Cfgs
  <2> QED  BY <1>0, <1>3, <2>1 DEF Edit, Frame
<1>4. ASSUME NEW i \in DOMAIN Bands, SelectBand(i) PROVE TypeOK'
  <2>1. ClampToBand(panel.freq, i) \in Int  BY ClampFits DEF Cfgs
  <2>2. panel' \in Cfgs /\ sel' \in Selectors
    BY <1>4, <2>1 DEF SelectBand, Cfgs, Selectors
  <2> QED  BY <1>4, <2>2 DEF SelectBand, Frame
<1>5. ASSUME NEW x \in EnteredFreqs, EnterFreq(x) PROVE TypeOK'
  <2>1. x \in Int  BY InputTypes
  <2>2. panel' \in Cfgs  BY <1>5, <2>1 DEF EnterFreq, Cfgs
  <2>3. sel' \in Selectors  BY <1>0, <1>5, <2>1 DEF EnterFreq, Selectors
  <2> QED  BY <1>5, <2>2, <2>3 DEF EnterFreq, Frame
<1>6. CASE QuickPick
  <2>1. PICK x \in Presets[Synced(sel, panel.freq).band] :
           /\ sel' = [freq |-> x, band |-> FindBand(x), warn |-> FALSE]
           /\ panel' = [panel EXCEPT !.freq = x]
    BY <1>6 DEF QuickPick
  <2>2. Synced(sel, panel.freq).band \in DOMAIN Bands  BY <1>0 DEF Selectors
  <2>3. x \in Int /\ FindBand(x) \in DOMAIN Bands  BY <2>2, PresetFits, FoundBand
  <2>4. panel' \in Cfgs /\ sel' \in Selectors  BY <2>1, <2>3 DEF Cfgs, Selectors
  <2> QED  BY <1>6, <2>4 DEF QuickPick, Frame
<1>7. CASE Apply
  <2>1. panel' \in Cfgs  BY <1>7, HexTyped DEF Apply
  <2>2. applied' \in Cfgs  BY <1>7, <2>1, ConfiguredTyped DEF Apply
  <2> QED  BY <1>0, <1>7, <2>1, <2>2 DEF Apply, Frame
<1>8. NoData \in [FileFields -> Int \cup {Bad, Missing}]
  BY DefaultTyped, DataTyped DEF NoData
<1>9. CASE BeginSave
  <2>1. [kind |-> "torn", data |-> NoData] \in Files  BY <1>8 DEF Files
  <2>2. file' \in Files  BY <1>9, <2>1 DEF BeginSave
  <2> QED  BY <1>0, <1>9, <2>2 DEF BeginSave
<1>10. CASE EndSave
  <2>1. Data(panel) \in [FileFields -> Int \cup {Bad, Missing}]
    BY DataTyped
  <2>2. [kind |-> "whole", data |-> Data(panel)] \in Files  BY <2>1 DEF Files
  <2>3. file' \in Files /\ saved' \in Cfgs  BY <1>10, <2>2 DEF EndSave
  <2> QED  BY <1>10, <2>3 DEF EndSave
<1>11. CASE Stop  BY <1>11 DEF Stop
<1>12. CASE Replace
  <2>1. PICK d \in ForeignFiles :
           file' = [kind |-> "whole", data |-> d] /\ saved' = Assign(DefaultCfg, FileOrder, d)
    BY <1>12 DEF Replace
  <2>2. file' \in Files  BY <2>1, ForeignAssumption DEF Files
  <2>3. saved' = Loaded(file')  BY <2>1 DEF Loaded
  <2> QED  BY <1>12, <2>2, <2>3, LoadedTyped DEF Replace
<1>13. CASE UNCHANGED vars  BY <1>13 DEF vars
<1>14. Offsets \subseteq Int /\ Rests \subseteq Int  BY InputTypes
<1> QED
  BY <1>1, <1>2, <1>3, <1>4, <1>5, <1>6, <1>7, <1>9, <1>10, <1>11, <1>12, <1>13, <1>14 DEF Next

\* Every variable of the panel keeps its type, whatever bands, texts and files
\* there are: no unreadable text or value ever gets into a configuration.
THEOREM TypeCorrect == Spec => []TypeOK
<1>1. Init => TypeOK  BY TypeInit
<1>2. TypeOK /\ [Next]_vars => TypeOK'  BY TypeStep
<1> QED  BY <1>1, <1>2, PTL DEF Spec

-----------------------------------------------------------------------------
(* The frequency limits and the selector.                                  *)

\* Every frequency the program holds lies in a band: the transmitter's, the
\* panel's, the one in the file, and the selector's in the band it shows.
FreqInv ==
  /\ InSomeBand(applied.freq) /\ InSomeBand(panel.freq)
  /\ file.data["freq"] \in Int => InSomeBand(file.data["freq"])
  /\ SelectorAgrees

LEMMA LoadedInBand ==
  ASSUME NEW f \in Files, f.data["freq"] \in Int => InSomeBand(f.data["freq"])
  PROVE  InSomeBand(Loaded(f).freq)
<1>1. Loaded(f).freq \in {DefaultCfg.freq, f.data["freq"]}
  BY DefaultTyped DEF Loaded, Assign, Cfgs
<1>2. Loaded(f).freq \in Int  BY LoadedTyped DEF Cfgs
<1> QED  BY <1>1, <1>2, DefaultInBand

LEMMA FreqInit == Init => FreqInv
<1> SUFFICES ASSUME Init PROVE FreqInv  OBVIOUS
<1>1. file.data["freq"] = DefaultCfg.freq  BY DEF Init, NoData, Data, FileFields
<1> QED  BY <1>1, DefaultInBand, NewSelectorFits DEF Init, FreqInv, SelectorAgrees

LEMMA FreqStep == ForeignInBand /\ TypeOK /\ FreqInv /\ [Next]_vars => FreqInv'
<1> SUFFICES ASSUME ForeignInBand, TypeOK, FreqInv, [Next]_vars PROVE FreqInv'  OBVIOUS
<1> DEFINE S == Synced(sel, panel.freq)
<1>0. /\ panel \in Cfgs /\ panel.freq \in Int
      /\ sel \in Selectors /\ file \in Files
  BY DEF TypeOK, Cfgs
<1>a. S \in Selectors /\ S.freq = panel.freq /\ InBand(S.freq, S.band)
  BY <1>0, SyncedTyped, SyncedFits DEF FreqInv, SelectorAgrees
<1> HIDE DEF S
<1> USE DEF FreqInv, SelectorAgrees
<1>1. CASE Launch
  <2>1. InSomeBand(panel'.freq)  BY <1>0, <1>1, LoadedInBand DEF Launch
  <2> QED  BY <1>1, <2>1, DefaultInBand, NewSelectorFits DEF Launch
<1>2. ASSUME NEW f \in HexFields, NEW t \in Texts, TypeHex(f, t) PROVE FreqInv'
  BY <1>a, <1>2 DEF TypeHex, S
<1>3. ASSUME NEW f \in {"offset", "rest"}, NEW v \in Int, Edit(f, v) PROVE FreqInv'
  <2>1. panel'.freq = panel.freq  BY <1>0, <1>3 DEF Edit, Cfgs
  <2> QED  BY <1>a, <1>3, <2>1 DEF Edit, S
<1>4. ASSUME NEW i \in DOMAIN Bands, SelectBand(i) PROVE FreqInv'
  <2> DEFINE x == ClampToBand(panel.freq, i)
  <2>1. x \in Int /\ InBand(x, i)  BY <1>0, ClampFits
  <2> HIDE DEF x
  <2>2. panel'.freq = x /\ sel'.freq = x /\ sel'.band = i
    BY <1>0, <1>4 DEF SelectBand, Cfgs, Selectors, x
  <2>3. InSomeBand(x)  BY <2>1 DEF InSomeBand
  <2> QED  BY <1>4, <2>1, <2>2, <2>3 DEF SelectBand
<1>5. ASSUME NEW x \in EnteredFreqs, EnterFreq(x) PROVE FreqInv'
  <2>1. CASE InBand(x, S.band)
    <3>1. panel'.freq = x /\ sel'.freq = x /\ sel'.band = S.band
      BY <1>0, <1>a, <1>5, <2>1 DEF EnterFreq, Cfgs, Selectors, S
    <3>2. InSomeBand(x)  BY <1>a, <2>1 DEF InSomeBand, Selectors
    <3> QED  BY <1>5, <2>1, <3>1, <3>2 DEF EnterFreq
  <2>2. CASE ~InBand(x, S.band)
    <3>1. panel' = panel /\ sel'.freq = S.freq /\ sel'.band = S.band
      BY <1>a, <1>5, <2>2 DEF EnterFreq, Selectors, S
    <3> QED  BY <1>a, <1>5, <3>1 DEF EnterFreq
  <2> QED  BY <2>1, <2>2
<1>6. CASE QuickPick
  <2>1. PICK x \in Presets[S.band] :
           /\ sel' = [freq |-> x, band |-> FindBand(x), warn |-> FALSE]
           /\ panel' = [panel EXCEPT !.freq = x]
    BY <1>6 DEF QuickPick, S
  <2>2. InSomeBand(x)  BY <1>a, PresetFits DEF Selectors
  <2>3. InBand(x, FindBand(x))  BY <2>2, FoundBand
  <2>4. panel'.freq = x /\ sel'.freq = x /\ sel'.band = FindBand(x)
    BY <1>0, <2>1 DEF Cfgs
  <2> QED  BY <1>6, <2>2, <2>3, <2>4 DEF QuickPick
<1>7. CASE Apply
  <2>1. panel' \in Cfgs  BY <1>0, <1>7, HexTyped DEF Apply, TypeOK
  <2>2. panel'.freq = panel.freq  BY <1>0, <1>7, AssignHex DEF Apply
  <2>3. applied'.freq = panel'.freq  BY <1>7, <2>1, ConfiguredTyped DEF Apply
  <2> QED  BY <1>a, <1>7, <2>2, <2>3 DEF Apply, S
<1>8. CASE BeginSave
  <2>1. NoData["freq"] = DefaultCfg.freq  BY DEF NoData, Data, FileFields
  <2>2. file' = [kind |-> "torn", data |-> NoData] \/ file' = file
    BY <1>8, Zenon DEF BeginSave
  <2>3. file'.data = NoData \/ file'.data = file.data  BY <2>2
  <2> QED  BY <1>a, <1>8, <2>1, <2>3, DefaultInBand DEF BeginSave, S
<1>9. CASE EndSave
  <2>1. Data(panel)["freq"] = panel.freq  BY DEF Data, FileFields
  <2>2. file' = [kind |-> "whole", data |-> Data(panel)] \/ file' = file
    BY <1>9, Zenon DEF EndSave
  <2>3. file'.data = Data(panel) \/ file'.data = file.data  BY <2>2
  <2> QED  BY <1>9, <2>1, <2>3 DEF EndSave
<1>10. CASE Stop  BY <1>10 DEF Stop
<1>11. CASE Replace
  <2>1. file'.data \in ForeignFiles  BY <1>11 DEF Replace
  <2> QED  BY <1>11, <2>1 DEF Replace, ForeignInBand
<1>12. CASE UNCHANGED vars  BY <1>12 DEF vars
<1> QED
  BY <1>1, <1>2, <1>3, <1>4, <1>5, <1>6, <1>7, <1>8, <1>9, <1>10, <1>11, <1>12,
     InputTypes DEF Next

\* The transmitter only gets frequencies inside an amateur band, for all bands,
\* presets, inputs and crashes, provided no foreign file brings another one.
THEOREM TransmitsInBand == ASSUME ForeignInBand PROVE Spec => []TransmitInBand
<1>1. Init => TypeOK /\ FreqInv  BY TypeInit, FreqInit
<1>2. TypeOK /\ FreqInv /\ [Next]_vars => (TypeOK /\ FreqInv)'  BY TypeStep, FreqStep
<1>3. FreqInv => TransmitInBand  BY DEF FreqInv, TransmitInBand
<1> QED  BY <1>1, <1>2, <1>3, PTL DEF Spec

\* Under the same proviso the selector's band is always that of its frequency.
THEOREM SelectorIsRight == ASSUME ForeignInBand PROVE Spec => []SelectorAgrees
<1>1. Init => TypeOK /\ FreqInv  BY TypeInit, FreqInit
<1>2. TypeOK /\ FreqInv /\ [Next]_vars => (TypeOK /\ FreqInv)'  BY TypeStep, FreqStep
<1>3. FreqInv => SelectorAgrees  BY DEF FreqInv
<1> QED  BY <1>1, <1>2, <1>3, PTL DEF Spec

-----------------------------------------------------------------------------
(* The file.                                                               *)

\* The panel's own copy of the offset units is never derived, so nothing is
\* lost by not saving it.
FileInv == panel.units = 0 /\ RoundTrip

\* A complete save followed by a load is the identity.
LEMMA SaveThenLoad ==
  ASSUME NEW c \in Cfgs, c.units = 0
  PROVE  Loaded([kind |-> "whole", data |-> Data(c)]) = c
<1> DEFINE v == Data(c)
           good == {i \in DOMAIN FileOrder : \A j \in 1 .. i : v[FileOrder[j]] # Bad}
           l == Assign(DefaultCfg, FileOrder, v)
<1>1. \A f \in FileFields : v[f] = c[f] /\ c[f] \in Int
  BY DEF Data, FileFields, HexFields, Cfgs
<1>2. \A f \in FileFields : v[f] # Bad /\ v[f] # Missing
  BY <1>1, PanelAssumption
<1>3. \A j \in 1 .. 6 : FileOrder[j] \in FileFields
  BY DEF FileOrder, FileFields, HexFields
<1>4. DOMAIN FileOrder = 1 .. 6  BY DEF FileOrder
<1>5. good = 1 .. 6
  <2>1. ASSUME NEW i \in 1 .. 6, NEW j \in 1 .. i PROVE v[FileOrder[j]] # Bad
    <3>1. j \in 1 .. 6  OBVIOUS
    <3> HIDE DEF v
    <3> QED  BY <1>2, <1>3, <3>1
  <2> HIDE DEF v
  <2> QED  BY <1>4, <2>1
<1>6. \A f \in FileFields : \E i \in 1 .. 6 : FileOrder[i] = f
  <2>1. /\ FileOrder[1] = "nac" /\ FileOrder[2] = "wacn" /\ FileOrder[3] = "sysid"
        /\ FileOrder[4] = "freq" /\ FileOrder[5] = "offset" /\ FileOrder[6] = "rest"
    BY DEF FileOrder
  <2>2. \A k \in {1, 2, 3, 4, 5, 6} : k \in 1 .. 6  OBVIOUS
  <2> QED  BY <2>1, <2>2 DEF FileFields, HexFields
<1>7. \A f \in FileFields : l[f] = c[f]
  <2>1. FileFields \subseteq DOMAIN DefaultCfg
    BY DEF FileFields, HexFields, DefaultCfg
  <2>2. ASSUME NEW f \in FileFields PROVE \E i \in good : FileOrder[i] = f /\ v[f] # Missing
    <3> HIDE DEF v, good
    <3> QED  BY <1>2, <1>5, <1>6
  <2> HIDE DEF v
  <2> QED  BY <1>1, <2>1, <2>2 DEF Assign
<1>8. l.units = c.units
  <2>1. "units" \in DOMAIN DefaultCfg /\ DefaultCfg.units = 0  BY DEF DefaultCfg
  <2>2. ~ \E i \in good : FileOrder[i] = "units"
    <3>1. "units" \notin FileFields  BY DEF FileFields, HexFields
    <3> HIDE DEF good
    <3> QED  BY <1>3, <1>5, <3>1
  <2> HIDE DEF v
  <2> QED  BY <2>1, <2>2 DEF Assign
<1>9. l \in Cfgs
  <2>1. v \in [FileFields -> Int \cup {Bad, Missing}]  BY DataTyped
  <2>2. [kind |-> "whole", data |-> v] \in Files  BY <2>1 DEF Files
  <2>3. Loaded([kind |-> "whole", data |-> v]) = l  BY DEF Loaded
  <2> HIDE DEF l, v
  <2> QED  BY <2>2, <2>3, LoadedTyped
<1>10. l = c
  <2>1. /\ l.nac = c.nac /\ l.wacn = c.wacn /\ l.sysid = c.sysid /\ l.freq = c.freq
        /\ l.offset = c.offset /\ l.rest = c.rest
    <3> HIDE DEF l
    <3> QED  BY <1>7 DEF FileFields, HexFields
  <2> HIDE DEF l
  <2> QED  BY <1>8, <1>9, <2>1 DEF Cfgs
<1> QED  BY <1>10 DEF Loaded

\* No file brings offset units.
LEMMA LoadedUnits ==
  ASSUME NEW f
  PROVE  Loaded(f).units = 0
<1>1. DefaultCfg.units = 0 /\ "units" \in DOMAIN DefaultCfg  BY DEF DefaultCfg
<1>2. \A i \in DOMAIN FileOrder : FileOrder[i] # "units"  BY DEF FileOrder
<1>3. \A v : Assign(DefaultCfg, FileOrder, v).units = 0  BY <1>1, <1>2 DEF Assign
<1> QED  BY <1>1, <1>3 DEF Loaded

LEMMA FileStep == TypeOK /\ FileInv /\ [Next]_vars => FileInv'
<1> SUFFICES ASSUME TypeOK, FileInv, [Next]_vars PROVE FileInv'  OBVIOUS
<1>0. panel \in Cfgs /\ texts \in [HexFields -> Int \cup {Bad}]  BY DEF TypeOK
<1> USE DEF FileInv, RoundTrip
<1>1. CASE Launch
  <2>1. panel'.units = 0  BY <1>1, LoadedUnits DEF Launch
  <2> QED  BY <1>1, <2>1 DEF Launch
<1>2. ASSUME NEW f \in HexFields, NEW t \in Texts, TypeHex(f, t) PROVE FileInv'
  BY <1>2 DEF TypeHex
<1>3. ASSUME NEW f \in {"offset", "rest"}, NEW v \in Int, Edit(f, v) PROVE FileInv'
  <2>1. panel'.units = panel.units  BY <1>0, <1>3 DEF Edit, Cfgs
  <2> QED  BY <1>3, <2>1 DEF Edit
<1>4. ASSUME NEW i \in DOMAIN Bands, SelectBand(i) PROVE FileInv'
  <2>1. panel'.units = panel.units  BY <1>0, <1>4 DEF SelectBand, Cfgs
  <2> QED  BY <1>4, <2>1 DEF SelectBand
<1>5. ASSUME NEW x \in EnteredFreqs, EnterFreq(x) PROVE FileInv'
  <2>1. panel'.units = panel.units  BY <1>0, <1>5 DEF EnterFreq, Cfgs
  <2> QED  BY <1>5, <2>1 DEF EnterFreq
<1>6. CASE QuickPick
  <2>1. panel'.units = panel.units  BY <1>0, <1>6 DEF QuickPick, Cfgs
  <2> QED  BY <1>6, <2>1 DEF QuickPick
<1>7. CASE Apply
  <2>1. panel'.units = panel.units  BY <1>0, <1>7, AssignHex DEF Apply
  <2> QED  BY <1>7, <2>1 DEF Apply
<1>8. CASE BeginSave
  <2>1. file' = [kind |-> "torn", data |-> NoData] \/ file' = file
    BY <1>8, Zenon DEF BeginSave
  <2>2. file'.kind # "whole" \/ file' = file  BY <2>1
  <2> QED  BY <1>8, <2>2 DEF BeginSave
<1>9. CASE EndSave
  <2>1. CASE file' = [kind |-> "whole", data |-> Data(panel)] /\ saved' = panel
    <3>1. Loaded(file') = panel  BY <1>0, <2>1, SaveThenLoad
    <3> QED  BY <1>9, <2>1, <3>1 DEF EndSave
  <2>2. CASE UNCHANGED <<file, saved>>  BY <1>9, <2>2 DEF EndSave
  <2> QED  BY <1>9, <2>1, <2>2, Zenon DEF EndSave
<1>10. CASE Stop  BY <1>10 DEF Stop
<1>11. CASE Replace
  <2>1. PICK d \in ForeignFiles :
           file' = [kind |-> "whole", data |-> d] /\ saved' = Assign(DefaultCfg, FileOrder, d)
    BY <1>11 DEF Replace
  <2>2. saved' = Loaded(file')  BY <2>1 DEF Loaded
  <2> QED  BY <1>11, <2>2 DEF Replace
<1>12. CASE UNCHANGED vars  BY <1>12 DEF vars
<1> QED
  BY <1>1, <1>2, <1>3, <1>4, <1>5, <1>6, <1>7, <1>8, <1>9, <1>10, <1>11, <1>12,
     InputTypes DEF Next

\* A complete config.json always restores what was saved last, across crashes in
\* the middle of a save and failed saves.
THEOREM SavesRestore == Spec => []RoundTrip
<1>1. Init => TypeOK /\ FileInv
  <2>1. Init => panel.units = 0  BY DefaultUnits DEF Init
  <2>2. Init => file = [kind |-> "absent", data |-> NoData]  BY Zenon DEF Init
  <2>3. [kind |-> "absent", data |-> NoData].kind # "whole"  OBVIOUS
  <2> QED  BY <2>1, <2>2, <2>3, TypeInit DEF FileInv, RoundTrip
<1>2. TypeOK /\ FileInv /\ [Next]_vars => (TypeOK /\ FileInv)'  BY TypeStep, FileStep
<1>3. FileInv => RoundTrip  BY DEF FileInv
<1> QED  BY <1>1, <1>2, <1>3, PTL DEF Spec

-----------------------------------------------------------------------------
(* The announced offset.                                                   *)

\* Eight bits hold these magnitudes unchanged, with their sign.
LEMMA MagnitudeKept ==
  ASSUME NEW w \in 0 .. 255
  PROVE  AnnouncedUnits(w) = w /\ AnnouncedUnits(0 - w) = 0 - w
BY DEF AnnouncedUnits

\* The arithmetic of rounding.
LEMMA UnitsNearest == \A o \in Representable : Near(OffsetUnits(o), o)
<1> SUFFICES ASSUME NEW o \in Representable PROVE Near(OffsetUnits(o), o)
  OBVIOUS
<1>0. o \in Int /\ 0 - 6387 <= o /\ o <= 6387  BY DEF Representable
<1>1. CASE o >= 0
  <2> DEFINE u == (o + 12) \div 25
  <2>1. u \in 0 .. 255 /\ 25 * u - o \in -12 .. 12  BY <1>0, <1>1
  <2>2. OffsetUnits(o) = u  BY <1>1 DEF OffsetUnits
  <2> HIDE DEF u
  <2>3. AnnouncedUnits(u) = u  BY <2>1, MagnitudeKept
  <2> QED  BY <2>1, <2>2, <2>3 DEF Near
<1>2. CASE o < 0
  <2> DEFINE u == (12 - o) \div 25
  <2>1. u \in 0 .. 255 /\ 25 * (0 - u) - o \in -12 .. 12  BY <1>0, <1>2
  <2>2. OffsetUnits(o) = 0 - u  BY <1>0, <1>2 DEF OffsetUnits
  <2> HIDE DEF u
  <2>3. AnnouncedUnits(0 - u) = 0 - u  BY <2>1, MagnitudeKept
  <2> QED  BY <2>1, <2>2, <2>3 DEF Near
<1> QED  BY <1>0, <1>1, <1>2

\* The control channel's units are always derived from its offset.
UnitsInv == applied.units = OffsetUnits(applied.offset)

LEMMA UnitsStep == TypeOK /\ UnitsInv /\ [Next]_vars => UnitsInv'
<1> SUFFICES ASSUME TypeOK, UnitsInv, [Next]_vars PROVE UnitsInv'  OBVIOUS
<1>1. OffsetUnits(0) = 0  BY DEF OffsetUnits
<1>2. CASE Launch  BY <1>1, <1>2, DefaultUnits DEF Launch, UnitsInv
<1>3. CASE Apply
  <2>1. panel' \in Cfgs  BY <1>3, HexTyped DEF Apply, TypeOK
  <2> QED  BY <1>3, <2>1, ConfiguredTyped DEF Apply, UnitsInv
<1>4. CASE applied' = applied  BY <1>4 DEF UnitsInv
<1> QED
  BY <1>2, <1>3, <1>4, Zenon DEF Next, TypeHex, Edit, SelectBand, EnterFreq, QuickPick,
     BeginSave, EndSave, Stop, Replace, vars

\* For every offset the format can hold, IDEN_UP announces the nearest multiple
\* of 250 kHz.
THEOREM AnnouncesNearest == Spec => []OffsetNearest
<1>1. Init => TypeOK /\ UnitsInv
  <2>1. OffsetUnits(0) = 0  BY DEF OffsetUnits
  <2>2. Init => UnitsInv  BY <2>1, DefaultUnits DEF Init, UnitsInv
  <2> QED  BY <2>2, TypeInit
<1>2. TypeOK /\ UnitsInv /\ [Next]_vars => (TypeOK /\ UnitsInv)'  BY TypeStep, UnitsStep
<1>3. UnitsInv => OffsetNearest  BY UnitsNearest, Zenon DEF UnitsInv, OffsetNearest
<1> QED  BY <1>1, <1>2, <1>3, PTL DEF Spec
=============================================================================
