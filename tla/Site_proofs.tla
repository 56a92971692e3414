----------------------------- MODULE Site_proofs -----------------------------
(***************************************************************************)
(* Safety of the composition Site, for every set of configurations.        *)
(***************************************************************************)
EXTENDS Site, TLAPS

USE DEF devVars, txVars, ccVars, rxVars

-----------------------------------------------------------------------------
(* Types.                                                                  *)

LEMMA Frequencies ==
  ASSUME NEW c \in Configs
  PROVE  c.freq \in Int /\ RxFreq(c) \in Int
<1>1. c \in [freq : Int, offset : Int]
  BY SiteAssumption
<1> QED
  BY <1>1 DEF RxFreq

LEMMA TypeInit == Init => TypeOK
<1>1. Default \in Configs /\ Default.freq \in Int /\ RxFreq(Default) \in Int
  BY SiteAssumption, Frequencies
<1> QED
  BY <1>1 DEF Init, TypeOK, Places

LEMMA TypeStep == TypeOK /\ [Next]_vars => TypeOK'
<1> SUFFICES ASSUME TypeOK, [Next]_vars PROVE TypeOK'
  OBVIOUS
<1>0. panel \in Configs /\ panel.freq \in Int /\ RxFreq(panel) \in Int
  BY Frequencies DEF TypeOK
<1>1. CASE Edit
  BY <1>1 DEF Edit, TypeOK
<1>2. CASE Start
  BY <1>2 DEF Start, Go, TypeOK, Places
<1>3. CASE StartCc
  BY <1>3 DEF StartCc, Go, TypeOK, Places
<1>4. CASE StartRx
  BY <1>0, <1>4 DEF StartRx, TypeOK, Places
<1>5. CASE Stop
  BY <1>5 DEF Stop, Go, TypeOK, Places
<1>6. CASE RxStop("stopRx", "stopJoin", "stopTx") \/ RxStop("quitRx", "quitJoin", "quitCc")
  <2>1. ASSUME NEW from, NEW join \in Places, NEW next \in Places, RxStop(from, join, next)
        PROVE  TypeOK'
    BY <2>1 DEF RxStop, Go, TypeOK
  <2>2. QED
    BY <1>6, <2>1 DEF Places
<1>7. CASE RxJoin("stopJoin", "stopTx") \/ RxJoin("quitJoin", "quitCc")
  BY <1>7 DEF RxJoin, Go, TypeOK, Places
<1>8. CASE StopTx
  BY <1>8 DEF StopTx, Go, TypeOK, Places
<1>9. CASE Apply
  BY <1>9 DEF Apply, Go, TypeOK, Places
<1>10. CASE Tune
  BY <1>0, <1>10 DEF Tune, Go, TypeOK, Places
<1>11. CASE Configure
  BY <1>11 DEF Configure, Go, TypeOK, Places
<1>12. CASE CloseDevice
  BY <1>12 DEF CloseDevice, Go, TypeOK, Places
<1>13. CASE OpenDevice
  BY <1>13 DEF OpenDevice, Go, TypeOK, Places
<1>14. CASE Quit
  BY <1>14 DEF Quit, Go, TypeOK, Places
<1>15. CASE QuitCc
  BY <1>15 DEF QuitCc, Go, TypeOK, Places
<1>16. CASE QuitTx
  BY <1>16 DEF QuitTx, Go, TypeOK, Places
<1>17. CASE Destroy
  BY <1>17 DEF Destroy, TypeOK, Places
<1>18. CASE EngineEnds
  BY <1>18 DEF EngineEnds, TypeOK
<1>19. CASE UNCHANGED vars
  BY <1>19 DEF vars, TypeOK
<1> QED
  BY <1>1, <1>2, <1>3, <1>4, <1>5, <1>6, <1>7, <1>8, <1>9, <1>10, <1>11, <1>12, <1>13,
     <1>14, <1>15, <1>16, <1>17, <1>18, <1>19 DEF Next

\* Every variable keeps its type; no component holds a configuration that the
\* panel did not hold.
THEOREM TypeCorrect == Spec => []TypeOK
  BY TypeInit, TypeStep, PTL DEF Spec

-----------------------------------------------------------------------------
(* Frequencies of the transmitting side.                                   *)

\* Apply has stopped the channel while it retunes and reconfigures.
ApplyHeld ==
  /\ gui \in {"tune", "configure"} => ~ccOn
  /\ gui = "configure" => txFreq = panel.freq

\* Outside Apply the channel would announce the transmitter's frequency.
CcFollows == gui # "configure" => ccCfg.freq = txFreq

FreqInv == ApplyHeld /\ CcFollows /\ OneFrequency

LEMMA FreqStep == FreqInv /\ [Next]_vars => FreqInv'
<1> SUFFICES ASSUME FreqInv, [Next]_vars PROVE FreqInv'
  OBVIOUS
<1> USE DEF FreqInv, ApplyHeld, CcFollows, OneFrequency
<1>1. CASE Edit
  BY <1>1 DEF Edit
<1>2. CASE Start
  BY <1>2 DEF Start, Go
<1>3. CASE StartCc
  BY <1>3 DEF StartCc, Go
<1>4. CASE StartRx
  BY <1>4 DEF StartRx
<1>5. CASE Stop
  BY <1>5 DEF Stop, Go
<1>6. CASE RxStop("stopRx", "stopJoin", "stopTx") \/ RxStop("quitRx", "quitJoin", "quitCc")
  BY <1>6 DEF RxStop, Go
<1>7. CASE RxJoin("stopJoin", "stopTx") \/ RxJoin("quitJoin", "quitCc")
  BY <1>7 DEF RxJoin, Go
<1>8. CASE StopTx
  BY <1>8 DEF StopTx, Go
<1>9. CASE Apply
  BY <1>9 DEF Apply, Go
<1>10. CASE Tune
  BY <1>10 DEF Tune, Go
<1>11. CASE Configure
  BY <1>11 DEF Configure, Go
<1>12. CASE CloseDevice
  BY <1>12 DEF CloseDevice, Go
<1>13. CASE OpenDevice
  BY <1>13 DEF OpenDevice, Go
<1>14. CASE Quit
  BY <1>14 DEF Quit, Go
<1>15. CASE QuitCc
  BY <1>15 DEF QuitCc, Go
<1>16. CASE QuitTx
  BY <1>16 DEF QuitTx, Go
<1>17. CASE Destroy
  BY <1>17 DEF Destroy
<1>18. CASE EngineEnds
  BY <1>18 DEF EngineEnds
<1>19. CASE UNCHANGED vars
  BY <1>19 DEF vars
<1> QED
  BY <1>1, <1>2, <1>3, <1>4, <1>5, <1>6, <1>7, <1>8, <1>9, <1>10, <1>11, <1>12, <1>13,
     <1>14, <1>15, <1>16, <1>17, <1>18, <1>19 DEF Next

LEMMA FreqCorrect == Spec => []FreqInv
<1>1. Init => FreqInv
  BY DEF Init, FreqInv, ApplyHeld, CcFollows, OneFrequency
<1> QED
  BY <1>1, FreqStep, PTL DEF Spec

\* What a running channel announces is the transmitter's frequency.
THEOREM AnnouncesItsFrequency == Spec => []OneFrequency
<1>1. FreqInv => OneFrequency
  BY DEF FreqInv
<1> QED
  BY <1>1, FreqCorrect, PTL

\* A device whose driver accepts frequencies is on the transmitter's.
THEOREM DeviceFollows == Spec => []DeviceTuned
<1>1. Init => DeviceTuned
  BY DEF Init, DeviceTuned
<1>2. DeviceTuned /\ [Next]_vars => DeviceTuned'
  <2> SUFFICES ASSUME DeviceTuned, [Next]_vars PROVE DeviceTuned'
    OBVIOUS
  <2>1. CASE Tune
    BY <2>1 DEF Tune, DeviceTuned
  <2>2. CASE CloseDevice \/ QuitTx
    BY <2>2 DEF CloseDevice, QuitTx, DeviceTuned
  <2>3. CASE OpenDevice
    <3>1. txFreq' = txFreq
      BY <2>3 DEF OpenDevice
    <3>2. CASE tuned' = txFreq
      BY <3>1, <3>2 DEF DeviceTuned
    <3>3. CASE UNCHANGED devVars
      BY <3>1, <3>3 DEF DeviceTuned
    <3> QED
      BY <2>3, <3>2, <3>3 DEF OpenDevice
  <2>4. CASE UNCHANGED <<txFreq, dev, tuned, refused>>
    BY <2>4 DEF DeviceTuned
  <2> QED
    BY <2>1, <2>2, <2>3, <2>4
    DEF Next, vars, Edit, Start, StartCc, StartRx, Stop, RxStop, RxJoin, StopTx, Apply,
        Configure, Quit, QuitCc, Destroy, EngineEnds
<1> QED
  BY <1>1, <1>2, PTL DEF Spec

-----------------------------------------------------------------------------
(* The receiver, and silence.                                              *)

\* m_running is the engine's life, except while stop() waits for it.
RunningIsLive ==
  /\ rxRun => rx = "live"
  /\ rx = "live" /\ gui \notin {"stopJoin", "quitJoin"} => rxRun

\* Where no engine is left, and where START has already started the channel.
RxGone == gui \in {"startCc", "startRx", "stopTx"} => rx # "live"
Started == gui = "startRx" => ccOn

\* Silence while the channel is stopped, at each place it can come back from.
QuietAtPlaces ==
  /\ gui = "idle" /\ ~ccOn => ~txOn /\ rx # "live"
  /\ gui \in {"tune", "configure"} /\ ~wasRunning => ~txOn /\ rx # "live"
  /\ gui = "open" => ~txOn /\ (ccOn \/ rx # "live")

QuietInv == RunningIsLive /\ RxGone /\ Started /\ QuietAtPlaces /\ ReceiverTuned

LEMMA QuietStep == QuietInv /\ [Next]_vars => QuietInv'
<1> SUFFICES ASSUME QuietInv, [Next]_vars PROVE QuietInv'
  OBVIOUS
<1> USE DEF QuietInv, RunningIsLive, RxGone, Started, QuietAtPlaces, ReceiverTuned
<1>1. CASE Edit
  BY <1>1 DEF Edit
<1>2. CASE Start
  BY <1>2 DEF Start, Go
<1>3. CASE StartCc
  BY <1>3 DEF StartCc, Go
<1>4. CASE StartRx
  BY <1>4 DEF StartRx
<1>5. CASE Stop
  BY <1>5 DEF Stop, Go
<1>6. CASE RxStop("stopRx", "stopJoin", "stopTx") \/ RxStop("quitRx", "quitJoin", "quitCc")
  BY <1>6 DEF RxStop, Go
<1>7. CASE RxJoin("stopJoin", "stopTx") \/ RxJoin("quitJoin", "quitCc")
  BY <1>7 DEF RxJoin, Go
<1>8. CASE StopTx
  BY <1>8 DEF StopTx, Go
<1>9. CASE Apply
  BY <1>9 DEF Apply, Go
<1>10. CASE Tune
  BY <1>10 DEF Tune, Go
<1>11. CASE Configure
  BY <1>11 DEF Configure, Go
<1>12. CASE CloseDevice
  BY <1>12 DEF CloseDevice, Go
<1>13. CASE OpenDevice
  BY <1>13 DEF OpenDevice, Go
<1>14. CASE Quit
  BY <1>14 DEF Quit, Go
<1>15. CASE QuitCc
  BY <1>15 DEF QuitCc, Go
<1>16. CASE QuitTx
  BY <1>16 DEF QuitTx, Go
<1>17. CASE Destroy
  BY <1>17 DEF Destroy
<1>18. CASE EngineEnds
  BY <1>18 DEF EngineEnds
<1>19. CASE UNCHANGED vars
  BY <1>19 DEF vars
<1> QED
  BY <1>1, <1>2, <1>3, <1>4, <1>5, <1>6, <1>7, <1>8, <1>9, <1>10, <1>11, <1>12, <1>13,
     <1>14, <1>15, <1>16, <1>17, <1>18, <1>19 DEF Next

LEMMA QuietCorrect == Spec => []QuietInv
<1>1. Init => QuietInv
  BY DEF Init, QuietInv, RunningIsLive, RxGone, Started, QuietAtPlaces, ReceiverTuned
<1> QED
  BY <1>1, QuietStep, PTL DEF Spec

\* "Stopped" means that nothing is sent and nothing received.
THEOREM StoppedIsQuiet == Spec => []StoppedMeansQuiet
<1>1. QuietInv => StoppedMeansQuiet
  BY DEF QuietInv, QuietAtPlaces, StoppedMeansQuiet
<1> QED
  BY <1>1, QuietCorrect, PTL

\* A running receiver is tuned by the configuration it answers from.
THEOREM ReceiverFollows == Spec => []ReceiverTuned
<1>1. QuietInv => ReceiverTuned
  BY DEF QuietInv
<1> QED
  BY <1>1, QuietCorrect, PTL

-----------------------------------------------------------------------------
(* The components as their callers see them.                               *)

\* Quitting has stopped the receiver before it goes on, and START begins with
\* the channel off the air.
Left == gui \in {"quitCc", "quitTx", "destroy"} => rx # "live"
OffAir == gui = "startCc" => ~ccOn

CallInv == TypeOK /\ FreqInv /\ QuietInv /\ Left /\ OffAir

LEMMA CallInvariance == Spec => []CallInv
<1>1. Init => Left /\ OffAir
  BY DEF Init, Left, OffAir
<1>2. ASSUME QuietInv, Left, OffAir, [Next]_vars
      PROVE  Left' /\ OffAir'
  <2>1. rxRun => rx = "live"
    BY <1>2 DEF QuietInv, RunningIsLive
  <2>2. rx = "live" /\ gui = "quitRx" => rxRun
    BY <1>2 DEF QuietInv, RunningIsLive
  <2>3. CASE RxStop("quitRx", "quitJoin", "quitCc") \/ RxStop("stopRx", "stopJoin", "stopTx")
    BY <1>2, <2>1, <2>2, <2>3 DEF RxStop, Go, Left, OffAir
  <2>4. CASE RxJoin("quitJoin", "quitCc") \/ RxJoin("stopJoin", "stopTx")
    BY <1>2, <2>4 DEF RxJoin, Go, Left, OffAir
  <2>5. CASE EngineEnds
    BY <1>2, <2>5 DEF EngineEnds, Left, OffAir
  <2>6. CASE Start \/ StartCc \/ StartRx \/ Stop \/ StopTx \/ Apply \/ Tune \/ Configure
    BY <1>2, <2>6 DEF Start, StartCc, StartRx, Stop, StopTx, Apply, Tune, Configure, Go,
       Left, OffAir
  <2>7. CASE \/ Edit \/ CloseDevice \/ OpenDevice \/ Quit \/ QuitCc \/ QuitTx \/ Destroy
             \/ UNCHANGED vars
    BY <1>2, <2>7 DEF Edit, CloseDevice, OpenDevice, Quit, QuitCc, QuitTx, Destroy, Go, vars,
       Left, OffAir
  <2> QED
    BY <1>2, <2>3, <2>4, <2>5, <2>6, <2>7 DEF Next
<1> QED
  BY <1>1, <1>2, TypeCorrect, FreqCorrect, QuietCorrect, PTL DEF Spec, CallInv

\* However the user starts, stops, changes devices and quits, and whenever the
\* engine ends, the receiver is called as Receiver allows: it is only replaced or
\* destroyed when it ended by itself, never while it is live.
LEMMA CallsReceiver == Spec => Life!Spec
<1>1. Init => Life!Init
  BY DEF Init, Life!Init
<1>2. ASSUME CallInv, [Next]_vars
      PROVE  [Life!Next]_(Life!vars)
  <2>1. /\ rxRun => rx = "live"
        /\ rx = "live" /\ gui \notin {"stopJoin", "quitJoin"} => rxRun
        /\ gui \in {"startRx", "destroy"} => rx # "live"
        /\ rx \in {"none", "live", "ended"}
    BY <1>2 DEF CallInv, TypeOK, QuietInv, RunningIsLive, RxGone, Left
  <2>2. CASE StartRx
    BY <2>1, <2>2 DEF StartRx, Life!vars, Life!Next, Life!Start, Life!Replace
  <2>3. CASE RxStop("stopRx", "stopJoin", "stopTx") \/ RxStop("quitRx", "quitJoin", "quitCc")
    BY <2>3 DEF RxStop, Go, Life!vars, Life!Next, Life!Stop
  <2>4. CASE RxJoin("stopJoin", "stopTx") \/ RxJoin("quitJoin", "quitCc")
    BY <2>4 DEF RxJoin, Go, Life!Next, Life!Return
  <2>5. CASE Destroy
    BY <2>1, <2>5 DEF Destroy, Life!vars, Life!Next, Life!Replace
  <2>6. CASE EngineEnds
    BY <2>6 DEF EngineEnds, Life!Next, Life!End
  <2>7. CASE \/ Edit \/ Start \/ StartCc \/ Stop \/ StopTx \/ Apply \/ Tune \/ Configure
             \/ CloseDevice \/ OpenDevice \/ Quit \/ QuitCc \/ QuitTx \/ UNCHANGED vars
    <3>1. /\ UNCHANGED <<rx, rxRun>>
          /\ \/ gui' = gui
             \/ /\ gui \notin {"stopJoin", "quitJoin", "terminated"}
                /\ gui' \notin {"stopJoin", "quitJoin", "terminated"}
      BY <2>7 DEF Edit, Start, StartCc, Stop, StopTx, Apply, Tune, Configure, CloseDevice,
         OpenDevice, Quit, QuitCc, QuitTx, Go, vars
    <3> QED BY <3>1 DEF Life!vars
  <2> QED BY <1>2, <2>2, <2>3, <2>4, <2>5, <2>6, <2>7 DEF Next
<1> QED
  BY <1>1, <1>2, CallInvariance, PTL DEF Spec, Life!Spec

\* The channel is only configured and only started while it is off the air, in
\* every order of START, STOP, Apply and quitting.
LEMMA CallsChannel == Spec => Calls!Spec
<1>1. Init => Calls!Init
  BY SiteAssumption DEF Init, Calls!Init
<1>2. ASSUME CallInv, [Next]_vars
      PROVE  [Calls!Next]_(Calls!vars)
  <2>1. /\ gui \in {"startCc", "configure"} => ~ccOn
        /\ panel \in Configs /\ ccOn \in BOOLEAN
    BY <1>2 DEF CallInv, TypeOK, FreqInv, ApplyHeld, OffAir
  <2>2. CASE StartCc
    BY <2>1, <2>2 DEF StartCc, Go, Calls!Next, Calls!Start
  <2>3. CASE Configure
    BY <2>1, <2>3 DEF Configure, Go, Calls!Next, Calls!Configure
  <2>4. CASE Stop \/ Apply \/ QuitCc
    <3>1. ccOn' = FALSE /\ UNCHANGED <<ccCfg, built>>
      BY <2>4 DEF Stop, Apply, QuitCc
    <3> QED BY <2>1, <3>1 DEF Calls!vars, Calls!Next, Calls!Stop
  <2>5. CASE \/ Edit \/ Start \/ StartRx \/ StopTx \/ Tune \/ CloseDevice \/ OpenDevice
             \/ Quit \/ QuitTx \/ Destroy \/ EngineEnds \/ UNCHANGED vars
             \/ RxStop("stopRx", "stopJoin", "stopTx") \/ RxStop("quitRx", "quitJoin", "quitCc")
             \/ RxJoin("stopJoin", "stopTx") \/ RxJoin("quitJoin", "quitCc")
    <3>1. UNCHANGED <<ccOn, ccCfg, built>>
      BY <2>5 DEF Edit, Start, StartRx, StopTx, Tune, CloseDevice, OpenDevice, Quit, QuitTx,
         Destroy, EngineEnds, RxStop, RxJoin, vars
    <3> QED BY <3>1 DEF Calls!vars
  <2> QED BY <1>2, <2>2, <2>3, <2>4, <2>5 DEF Next
<1> QED
  BY <1>1, <1>2, CallInvariance, PTL DEF Spec, Calls!Spec

\* What the composition takes the calls into receiver and channel to be are steps
\* of what the two components implement.
THEOREM CallsAreComponents == Spec => ImplementsComponents
BY CallsReceiver, CallsChannel DEF ImplementsComponents
=============================================================================
