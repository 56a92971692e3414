-------------------------------- MODULE Site --------------------------------
(***************************************************************************)
(* The whole program as its user drives it: START and STOP of CCPanel,     *)
(* Apply of SitePanel, the Device menu and quitting in App, each a         *)
(* sequence of calls into SoapyTx, ControlChannel and RxPipeline, with the *)
(* receive engine ending whenever it likes in between.                     *)
(*                                                                         *)
(* The modules of the three components say what a call does inside.  Here  *)
(* a component is what its callers see of it: its configuration, whether   *)
(* it runs and where its radio is tuned.  A call is one step, except that  *)
(* stopping the receiver waits for the engine.                             *)
(***************************************************************************)
EXTENDS Integers

CONSTANTS
  Configs,  \* configurations the panel can hold
  Default   \* the initial SiteConfig; SoapyTx starts with its frequency

ASSUME SiteAssumption ==
  Configs \subseteq [freq : Int, offset : Int] /\ Default \in Configs

VARIABLES
  gui,         \* place of the GUI thread, "ended" or "terminated"
  panel,       \* configuration the panels show
  logPanel,    \* the LogPanel, which the receiver's log callback refers to, exists
  wasRunning,  \* local of Apply
  txFreq, txOn,        \* SoapyTx: m_frequency, a transmit thread exists
  dev, tuned, refused, \* a device is open, its frequency, it refused the last one
  ccOn, ccCfg, built,  \* ControlChannel: m_running, m_cfg, its producer's TSBKs
  rx, rxRun,           \* RxPipeline: engine thread, m_running
  rxCfg, rxTuned       \* its m_cfg, frequency of the RTL-SDR

devVars   == <<dev, tuned, refused>>
txVars    == <<txFreq, txOn, devVars>>
ccVars    == <<ccOn, ccCfg, built>>
rxVars    == <<rx, rxRun, rxCfg, rxTuned>>
vars == <<gui, panel, logPanel, wasRunning, txVars, ccVars, rxVars>>

RxFreq(c) == c.freq + c.offset

Places == {"idle", "startCc", "startRx", "stopRx", "stopJoin", "stopTx", "tune",
           "configure", "open", "quitRx", "quitJoin", "quitCc", "quitTx", "destroy",
           "ended", "terminated"}

TypeOK ==
  /\ gui \in Places
  /\ panel \in Configs /\ ccCfg \in Configs /\ built \in Configs /\ rxCfg \in Configs
  /\ txFreq \in Int /\ tuned \in Int /\ rxTuned \in Int
  /\ logPanel \in BOOLEAN /\ wasRunning \in BOOLEAN
  /\ txOn \in BOOLEAN /\ dev \in BOOLEAN /\ refused \in BOOLEAN
  /\ ccOn \in BOOLEAN /\ rxRun \in BOOLEAN
  /\ rx \in {"none", "live", "ended"}

\* The panel has loaded any configuration; a first device was opened, or none.
Init ==
  /\ gui = "idle" /\ panel \in Configs
  /\ logPanel = TRUE /\ wasRunning = FALSE
  /\ txFreq = Default.freq /\ txOn = FALSE
  /\ dev \in BOOLEAN /\ tuned = Default.freq /\ refused = FALSE
  /\ ccOn = FALSE /\ ccCfg = Default /\ built = Default
  /\ rx = "none" /\ rxRun = FALSE /\ rxCfg = Default /\ rxTuned = RxFreq(Default)

Go(from, to) == gui = from /\ gui' = to

-----------------------------------------------------------------------------
(* Editing, and the START button, shown while the channel is stopped.      *)

Edit ==
  /\ gui = "idle"
  /\ panel' \in Configs
  /\ UNCHANGED <<gui, logPanel, wasRunning, txVars, ccVars, rxVars>>

Start ==
  /\ Go("idle", "startCc") /\ ~ccOn
  /\ txOn' = TRUE
  /\ UNCHANGED <<panel, logPanel, wasRunning, txFreq, devVars, ccVars, rxVars>>

StartCc ==
  /\ Go("startCc", "startRx")
  /\ ccOn' = TRUE /\ built' = ccCfg
  /\ UNCHANGED <<panel, logPanel, wasRunning, txVars, ccCfg, rxVars>>

\* configure() takes what the panel shows.  A thread object of an engine that
\* ended by itself is still joinable, and replacing it ends the program.
StartRx ==
  /\ gui = "startRx"
  /\ rxCfg' = panel
  /\ \/ /\ rxRun /\ gui' = "idle"
        /\ UNCHANGED <<rx, rxRun, rxTuned>>
     \/ /\ ~rxRun /\ rx = "none" /\ gui' = "idle"
        /\ rx' = "live" /\ rxRun' = TRUE /\ rxTuned' = RxFreq(panel)
     \/ /\ ~rxRun /\ rx # "none" /\ gui' = "terminated"
        /\ UNCHANGED <<rx, rxRun, rxTuned>>
  /\ UNCHANGED <<panel, logPanel, wasRunning, txVars, ccVars>>

-----------------------------------------------------------------------------
(* The STOP button.                                                        *)

Stop ==
  /\ Go("idle", "stopRx") /\ ccOn
  /\ ccOn' = FALSE
  /\ UNCHANGED <<panel, logPanel, wasRunning, txVars, ccCfg, built, rxVars>>

\* Mutant: the receiver is left alone.
RxStopSkipped(from, join, next) ==
  /\ Go(from, next)
  /\ UNCHANGED <<panel, logPanel, wasRunning, txVars, ccVars, rxVars>>

\* RxPipeline::stop(): nothing when it does not run, otherwise a join.
RxStop(from, join, next) ==
  /\ \/ Go(from, next) /\ ~rxRun /\ UNCHANGED rxRun
     \/ Go(from, join) /\ rxRun /\ rxRun' = FALSE
  /\ UNCHANGED <<panel, logPanel, wasRunning, txVars, ccVars, rx, rxCfg, rxTuned>>

RxJoin(join, next) ==
  /\ Go(join, next)
  /\ rx = "ended" /\ rx' = "none"
  /\ UNCHANGED <<panel, logPanel, wasRunning, txVars, ccVars, rxRun, rxCfg, rxTuned>>

StopTx ==
  /\ Go("stopTx", "idle")
  /\ txOn' = FALSE
  /\ UNCHANGED <<panel, logPanel, wasRunning, txFreq, devVars, ccVars, rxVars>>

-----------------------------------------------------------------------------
(* Apply.                                                                  *)

\* Mutant: the running channel is not stopped first.
ApplyLive ==
  /\ Go("idle", "tune")
  /\ wasRunning' = ccOn
  /\ UNCHANGED <<panel, logPanel, txVars, ccVars, rxVars>>

Apply ==
  /\ Go("idle", "tune")
  /\ wasRunning' = ccOn /\ ccOn' = FALSE
  /\ UNCHANGED <<panel, logPanel, txVars, ccCfg, built, rxVars>>

\* Mutant: setFrequency() only tells the device.
TuneDevice ==
  /\ Go("tune", "configure")
  /\ IF dev THEN tuned' = panel.freq /\ refused' = FALSE ELSE UNCHANGED <<tuned, refused>>
  /\ UNCHANGED <<panel, logPanel, wasRunning, txFreq, txOn, dev, ccVars, rxVars>>

\* setFrequency(): the driver's exceptions are swallowed.
Tune ==
  /\ Go("tune", "configure")
  /\ txFreq' = panel.freq
  /\ \/ dev /\ tuned' = panel.freq /\ refused' = FALSE
     \/ dev /\ refused' = TRUE /\ UNCHANGED tuned
     \/ ~dev /\ UNCHANGED <<tuned, refused>>
  /\ UNCHANGED <<panel, logPanel, wasRunning, txOn, dev, ccVars, rxVars>>

Configure ==
  /\ Go("configure", "idle")
  /\ ccCfg' = panel
  /\ \/ wasRunning /\ ccOn' = TRUE /\ built' = panel
     \/ ~wasRunning /\ UNCHANGED <<ccOn, built>>
  /\ UNCHANGED <<panel, logPanel, wasRunning, txVars, rxVars>>

-----------------------------------------------------------------------------
(* The Device menu.                                                        *)

CloseDevice ==
  /\ Go("idle", "open")
  /\ txOn' = FALSE /\ dev' = FALSE
  /\ UNCHANGED <<panel, logPanel, wasRunning, txFreq, tuned, refused, ccVars, rxVars>>

\* open() tunes to m_frequency, or fails.
OpenDevice ==
  /\ Go("open", "idle")
  /\ \/ dev' = TRUE /\ tuned' = txFreq /\ refused' = FALSE
     \/ UNCHANGED devVars
  /\ UNCHANGED <<panel, logPanel, wasRunning, txFreq, txOn, ccVars, rxVars>>

-----------------------------------------------------------------------------
(* Quitting: run() returns and destroys its panels, then shutdown().       *)

Quit ==
  /\ Go("idle", "quitRx")
  /\ logPanel' = FALSE
  /\ UNCHANGED <<panel, wasRunning, txVars, ccVars, rxVars>>

QuitCc ==
  /\ Go("quitCc", "quitTx")
  /\ ccOn' = FALSE
  /\ UNCHANGED <<panel, logPanel, wasRunning, txVars, ccCfg, built, rxVars>>

QuitTx ==
  /\ Go("quitTx", "destroy")
  /\ txOn' = FALSE /\ dev' = FALSE
  /\ UNCHANGED <<panel, logPanel, wasRunning, txFreq, tuned, refused, ccVars, rxVars>>

\* The destructors find everything stopped, or an engine thread not joined.
Destroy ==
  /\ gui = "destroy"
  /\ gui' = IF rx = "none" THEN "ended" ELSE "terminated"
  /\ UNCHANGED <<panel, logPanel, wasRunning, txVars, ccVars, rxVars>>

-----------------------------------------------------------------------------
\* The engine ends when told to, or by itself.
EngineEnds ==
  /\ rx = "live" /\ gui \notin {"ended", "terminated"}
  /\ rx' = "ended" /\ rxRun' = FALSE
  /\ UNCHANGED <<gui, panel, logPanel, wasRunning, txVars, ccVars, rxCfg, rxTuned>>

Next ==
  \/ Edit \/ Start \/ StartCc \/ StartRx
  \/ Stop \/ RxStop("stopRx", "stopJoin", "stopTx") \/ RxJoin("stopJoin", "stopTx") \/ StopTx
  \/ Apply \/ Tune \/ Configure
  \/ CloseDevice \/ OpenDevice
  \/ Quit \/ RxStop("quitRx", "quitJoin", "quitCc") \/ RxJoin("quitJoin", "quitCc")
  \/ QuitCc \/ QuitTx \/ Destroy
  \/ EngineEnds

Spec == Init /\ [][Next]_vars
-----------------------------------------------------------------------------
(* Properties.                                                             *)

\* A control channel never announces one site's configuration on another's
\* frequency: what the producer built belongs to the transmitter's frequency,
\* through every order of START, STOP, Apply and device changes.
OneFrequency == ccOn => built.freq = txFreq

\* The device is where m_frequency says, also one opened after the frequency
\* was set without it, as long as its driver accepts what it is told.
DeviceTuned == dev /\ ~refused => tuned = txFreq

\* While the panel shows "Stopped" the device sends nothing and no receiver runs.
StoppedMeansQuiet == gui = "idle" /\ ~ccOn => ~txOn /\ rx # "live"

\* A running receiver is tuned by its own configuration: start() never
\* reconfigures one that is still running.
ReceiverTuned == rx = "live" => rxTuned = RxFreq(rxCfg)

\* Site takes of the receiver and of the control channel what their own modules
\* are shown to implement, in whatever order the user drives them: an engine is
\* only replaced or destroyed when it ended by itself, and the channel is only
\* configured while it is off the air.
Life == INSTANCE Receiver WITH
  engine <- rx, shown <- rxRun,
  caller <- CASE gui \in {"stopJoin", "quitJoin"} -> "waiting"
              [] gui = "terminated" -> "terminated"
              [] OTHER -> "free"
Calls == INSTANCE Channel WITH on <- ccOn, cfg <- ccCfg
ImplementsComponents == Life!Spec /\ Calls!Spec

-----------------------------------------------------------------------------
(* What the source says and does not do.                                   *)

\* "Panels live here so they capture references correctly" (App.cpp:101): the
\* engine, which may log at any time, has a panel to log to.
LogHasPanel == rx = "live" => logPanel
=============================================================================
