------------------------------ MODULE SitePanel ------------------------------
(***************************************************************************)
(* SitePanel (src/ui/SitePanel.cpp) with its band selector                 *)
(* (src/ui/BandSelector.hpp): the configuration the user edits, its way    *)
(* into config.json and back across quits and crashes, and what Apply      *)
(* hands to the control channel and the transmitter.                       *)
(*                                                                         *)
(* Frequencies and offsets are multiples of 10 kHz.  An unreadable text or *)
(* a value of the wrong type is Bad, a key a file does not have Missing.   *)
(* The fields that are only clamped, stored and passed on (gains, RFSS,    *)
(* site, channel plan) are the one field rest.  What the text fields show  *)
(* is kept as the number it denotes.                                       *)
(*                                                                         *)
(* The GUI is one thread, so a frame of it is a step; saving is two, since *)
(* the file is truncated before it is written.                             *)
(***************************************************************************)
EXTENDS Integers, Sequences

CONSTANTS
  Bands,         \* kBands: sequence of [min |-> , max |-> ]
  Presets,       \* for each band the set of its quick picks
  EnteredFreqs,  \* frequencies typed
  Offsets,       \* offsets typed or chosen
  Texts,         \* numbers, or Bad, typed into the hexadecimal fields
  Rests,         \* values given to the other fields
  ForeignFiles,  \* contents of a config.json that this program did not write
  Bad, Missing

ASSUME PanelAssumption ==
  /\ Bands \in Seq([min : Int, max : Int]) /\ Bands # << >>
  /\ \A i \in DOMAIN Bands : Bands[i].min <= Bands[i].max
  /\ \A i, j \in DOMAIN Bands : i < j => Bands[i].max < Bands[j].min
  /\ \E i \in DOMAIN Bands : 14505 \in Bands[i].min .. Bands[i].max
  /\ Presets \in Seq(SUBSET Int) /\ Len(Presets) = Len(Bands)
  /\ \A i \in DOMAIN Bands : \A f \in Presets[i] : f \in Bands[i].min .. Bands[i].max
  /\ EnteredFreqs \subseteq Int /\ Offsets \subseteq Int /\ Texts \subseteq Nat \cup {Bad}
  /\ Rests \subseteq Nat /\ Bad \notin Int /\ Missing \notin Int /\ Bad # Missing

VARIABLES
  app,      \* "off", "on" or "saving"
  panel,    \* m_cfg of the panel
  texts,    \* m_nacBuf, m_wacnBuf, m_sysidBuf
  sel,      \* the band selector: m_freqHz, m_bandIdx, m_outOfBand
  applied,  \* m_cfg of the control channel; its freq is the transmitter's too
  file,     \* config.json
  saved     \* history: the configuration of the last complete save

vars == <<app, panel, texts, sel, applied, file, saved>>

HexOrder  == <<"nac", "wacn", "sysid">>
FileOrder == <<"nac", "wacn", "sysid", "freq", "offset", "rest">>
HexFields  == {"nac", "wacn", "sysid"}
FileFields == HexFields \cup {"freq", "offset", "rest"}

\* The initial SiteConfig.
DefaultCfg == [nac |-> 659, wacn |-> 782064, sysid |-> 1, freq |-> 14505,
               offset |-> 0, rest |-> 0, units |-> 0]

Cfgs == [nac : Int, wacn : Int, sysid : Int, freq : Int, offset : Int, rest : Int, units : Int]

Selectors == [freq : Int, band : DOMAIN Bands, warn : BOOLEAN]
Files == [kind : {"absent", "torn", "whole"},
          data : [FileFields -> Int \cup {Bad, Missing}]]

Data(c) == [f \in FileFields |-> c[f]]
NoData  == Data(DefaultCfg)

ASSUME ForeignAssumption ==
  ForeignFiles \subseteq [FileFields -> Int \cup {Bad, Missing}]

-----------------------------------------------------------------------------
(* Helpers of the source.                                                  *)

InBand(f, i) == f \in Bands[i].min .. Bands[i].max
InSomeBand(f) == \E i \in DOMAIN Bands : InBand(f, i)

\* findBand, 0 for none.
FindBand(f) == IF InSomeBand(f) THEN CHOOSE i \in DOMAIN Bands : InBand(f, i) ELSE 0

\* Mutant: forgets the upper limit.
ClampToBandLow(f, i) == IF f < Bands[i].min THEN Bands[i].min ELSE f

\* clampToBand.
ClampToBand(f, i) ==
  CASE f < Bands[i].min -> Bands[i].min
    [] f > Bands[i].max -> Bands[i].max
    [] OTHER -> f

\* Mutant: truncates instead of rounding.
OffsetUnitsTruncated(o) == IF o >= 0 THEN o \div 25 ELSE 0 - ((0 - o) \div 25)

\* Offset in units of 250 kHz, to the nearest.
OffsetUnits(o) == IF o >= 0 THEN (o + 12) \div 25 ELSE 0 - ((12 - o) \div 25)

\* The offset BuildIDENUp puts on the air: a sign and eight bits of magnitude.
AnnouncedUnits(u) == IF u >= 0 THEN u % 256 ELSE 0 - ((0 - u) % 256)

\* configure() of the control channel.
Configured(c) == [c EXCEPT !.units = OffsetUnits(c.offset)]

\* One field after another in a try block: the first Bad value ends it.
Assign(c, order, v) ==
  LET good == {i \in DOMAIN order : \A j \in 1 .. i : v[order[j]] # Bad}
  IN  [f \in DOMAIN c |->
         IF \E i \in good : order[i] = f /\ v[f] # Missing THEN v[f] ELSE c[f]]

Width == [nac |-> 4096, wacn |-> 1048576, sysid |-> 4096]
Masked(t) == [f \in HexFields |-> IF t[f] = Bad THEN Bad ELSE t[f] % Width[f]]

\* loadConfig on a fresh panel.
Loaded(f) == IF f.kind = "whole" THEN Assign(DefaultCfg, FileOrder, f.data) ELSE DefaultCfg

\* The constructor of BandSelector; the index is one more than the source's.
NewSelector ==
  [freq |-> DefaultCfg.freq, warn |-> FALSE,
   band |-> IF FindBand(DefaultCfg.freq) # 0 THEN FindBand(DefaultCfg.freq) ELSE 2]

-----------------------------------------------------------------------------
TypeOK ==
  /\ app \in {"off", "on", "saving"}
  /\ panel \in Cfgs /\ applied \in Cfgs /\ saved \in Cfgs
  /\ texts \in [HexFields -> Int \cup {Bad}]
  /\ sel \in Selectors /\ file \in Files

Init ==
  /\ app = "off"
  /\ panel = DefaultCfg /\ applied = DefaultCfg /\ saved = DefaultCfg
  /\ texts = [f \in HexFields |-> DefaultCfg[f]]
  /\ sel = NewSelector
  /\ file = [kind |-> "absent", data |-> NoData]

\* The panel and the transmitter are constructed; nothing is applied yet.
Launch ==
  /\ app = "off" /\ app' = "on"
  /\ panel' = Loaded(file)
  /\ texts' = [f \in HexFields |-> panel'[f]]
  /\ sel' = NewSelector /\ applied' = DefaultCfg
  /\ UNCHANGED <<file, saved>>

\* First thing in render() of the band selector: follow the configuration.
Synced(s, f) ==
  IF f = s.freq THEN s
  ELSE [s EXCEPT !.freq = f, !.band = IF FindBand(f) # 0 THEN FindBand(f) ELSE s.band]

\* Every frame renders the panel with its selector.
Frame == app = "on" /\ app' = "on"

TypeHex(f, t) ==
  /\ Frame
  /\ texts' = [texts EXCEPT ![f] = t]
  /\ sel' = Synced(sel, panel.freq)
  /\ UNCHANGED <<panel, applied, file, saved>>

Edit(f, v) ==
  /\ Frame
  /\ panel' = [panel EXCEPT ![f] = v]
  /\ sel' = Synced(sel, panel.freq)
  /\ UNCHANGED <<texts, applied, file, saved>>

\* The drop-down list of bands.
SelectBand(i) ==
  /\ Frame
  /\ LET f == ClampToBand(panel.freq, i) IN
       /\ sel' = [sel EXCEPT !.freq = f, !.band = i]
       /\ panel' = [panel EXCEPT !.freq = f]
  /\ UNCHANGED <<texts, applied, file, saved>>

\* Mutant: forgets the upper limit.
EnterFreqNoUpper(x) ==
  /\ Frame
  /\ LET s == Synced(sel, panel.freq) IN
       /\ x >= Bands[s.band].min
       /\ sel' = [s EXCEPT !.freq = x, !.warn = FALSE]
       /\ panel' = [panel EXCEPT !.freq = x]
  /\ UNCHANGED <<texts, applied, file, saved>>

\* The text field: rejected with a warning outside the selected band.
EnterFreq(x) ==
  /\ Frame
  /\ LET s == Synced(sel, panel.freq) IN
       \/ /\ InBand(x, s.band)
          /\ sel' = [s EXCEPT !.freq = x, !.warn = FALSE]
          /\ panel' = [panel EXCEPT !.freq = x]
       \/ /\ ~InBand(x, s.band)
          /\ sel' = [s EXCEPT !.warn = TRUE]
          /\ UNCHANGED panel
  /\ UNCHANGED <<texts, applied, file, saved>>

QuickPick ==
  /\ Frame
  /\ \E x \in Presets[Synced(sel, panel.freq).band] :
       /\ sel' = [freq |-> x, band |-> FindBand(x), warn |-> FALSE]
       /\ panel' = [panel EXCEPT !.freq = x]
  /\ UNCHANGED <<texts, applied, file, saved>>

Apply ==
  /\ Frame
  /\ panel' = Assign(panel, HexOrder, Masked(texts))
  /\ applied' = Configured(panel')
  /\ sel' = Synced(sel, panel.freq)
  /\ UNCHANGED <<texts, file, saved>>

\* The stream truncates the file, or cannot be opened, or there is no directory.
BeginSave ==
  /\ app = "on"
  /\ sel' = Synced(sel, panel.freq)
  /\ \/ /\ app' = "saving" /\ file' = [kind |-> "torn", data |-> NoData]
     \/ UNCHANGED <<app, file>>
  /\ UNCHANGED <<panel, texts, applied, saved>>

\* Mutant: the offset is not written.
EndSaveNoOffset ==
  /\ app = "saving" /\ app' = "on"
  /\ file' = [kind |-> "whole", data |-> [Data(panel) EXCEPT !["offset"] = Missing]]
  /\ saved' = panel
  /\ UNCHANGED <<panel, texts, sel, applied>>

\* The contents arrive, or not, as on a full disk: the stream raises nothing.
EndSave ==
  /\ app = "saving" /\ app' = "on"
  /\ \/ file' = [kind |-> "whole", data |-> Data(panel)] /\ saved' = panel
     \/ UNCHANGED <<file, saved>>
  /\ UNCHANGED <<panel, texts, sel, applied>>

\* Quit, or a crash at any place, in the middle of a save too.
Stop ==
  /\ app # "off" /\ app' = "off"
  /\ UNCHANGED <<panel, texts, sel, applied, file, saved>>

\* Somebody else puts a config.json there.
Replace ==
  /\ app = "off"
  /\ \E d \in ForeignFiles :
       file' = [kind |-> "whole", data |-> d] /\ saved' = Assign(DefaultCfg, FileOrder, d)
  /\ UNCHANGED <<app, panel, texts, sel, applied>>

Next ==
  \/ Launch \/ QuickPick \/ Apply \/ BeginSave \/ EndSave \/ Stop \/ Replace
  \/ \E f \in HexFields, t \in Texts : TypeHex(f, t)
  \/ \E o \in Offsets : Edit("offset", o)
  \/ \E r \in Rests : Edit("rest", r)
  \/ \E i \in DOMAIN Bands : SelectBand(i)
  \/ \E x \in EnteredFreqs : EnterFreq(x)

Spec == Init /\ [][Next]_vars

-----------------------------------------------------------------------------
(* Properties.                                                             *)

\* Whatever the user types and selects, and across quits and crashes, the
\* frequency handed to the transmitter lies in an amateur band, as the head of
\* BandSelector.hpp promises.  Files of other origin have to be in band for it.
TransmitInBand == InSomeBand(applied.freq)

ForeignInBand == \A d \in ForeignFiles : d["freq"] \in Int => InSomeBand(d["freq"])

\* The selector never checks an entry against another band than the one its
\* frequency lies in, and after its first frame it shows the configuration's.
SelectorAgrees ==
  /\ InBand(sel.freq, sel.band)
  /\ sel.freq # panel.freq => sel = NewSelector

\* A config.json that is complete restores exactly the configuration that was
\* last saved completely: no field is lost on the way out or on the way back.
RoundTrip == file.kind = "whole" => Loaded(file) = saved

Representable == -6387 .. 6387
Near(u, o) == 25 * AnnouncedUnits(u) - o \in -12 .. 12

\* The offset announced in IDEN_UP is the nearest the format has to the one
\* configured, as long as eight bits of magnitude hold it.
OffsetNearest ==
  applied.offset \in Representable => Near(applied.units, applied.offset)
=============================================================================
