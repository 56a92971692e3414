------------------------------- MODULE Uplink -------------------------------
(***************************************************************************)
(* A request from end to end: subscriber_test builds it and transmits it   *)
(* with a HackRF, the site's receiver decodes it and queues a response,    *)
(* the control channel sends responses and system messages, and a radio    *)
(* reads them.  Tsbk has the messages.                                     *)
(*                                                                         *)
(* Transmit() of hackrf.go and the callback libhackrf runs on a thread of  *)
(* its own share the buffer and g_tx_done.  The samples are counted in     *)
(* units, of which Frame make a frame; a transfer takes up to Chunk of     *)
(* them, and libhackrf keeps up to Depth transfers filled ahead of the     *)
(* transmitter.  Which message the control channel sends when is left      *)
(* open: ControlChannel says it.                                           *)
(***************************************************************************)
EXTENDS Tsbk, Sequences

CONSTANTS
  Commands,    \* command lines: cmd, src, tgid, target and sysID, numbers as words
  Site,        \* the site's configuration
  Clocks,      \* times of day a synchronization broadcast may find
  Counts,      \* values of -count
  Frame, Chunk, Depth,
  IntSize,     \* values of a C int: 2^32 in the code
  QueueCap,    \* capacity of ControlChannel's queue
  MaxRuns      \* bound of the model: runs of subscriber_test

IsCommand(c) ==
  /\ c.cmd \in {"aff", "vch", "uu", "reg", "dereg", "emrg"}
  /\ IsWord(c.src) /\ IsWord(c.tgid) /\ IsWord(c.target) /\ IsWord(c.sysID)

\* gmtime()'s fields, and an offset from UTC that the broadcast has room for.
IsTime(t) ==
  /\ t.year \in Nat /\ t.month \in 1 .. 12 /\ t.day \in 1 .. 31
  /\ t.hour \in 0 .. 23 /\ t.min \in 0 .. 59 /\ t.sec \in 0 .. 60
  /\ t.halfHours \in -31 .. 31

ASSUME UplinkAssumption ==
  /\ \A c \in Commands : IsCommand(c)
  /\ \A now \in Clocks : IsTime(now)
  /\ \A f \in {"wacn", "sysid", "chanId", "bw", "magnitude", "spacing", "base"} :
       IsWord(Site[f])
  /\ Site.siteid \in 0 .. 255 /\ Site.rfssid \subseteq 0 .. 7 /\ Site.positive \in BOOLEAN
  /\ Counts \subseteq Nat \ {0}
  /\ Frame \in Nat \ {0} /\ Chunk \in Nat \ {0} /\ Depth \in Nat \ {0}
  /\ IntSize \in Nat \ {0}
  /\ QueueCap \in Nat /\ MaxRuns \in Nat

Blocks == {Request(c) : c \in Commands}

None == [cmd |-> "none"]

VARIABLES
  spc,       \* place of subscriber_test: main() and Transmit()
  command,   \* what it was told to send
  len,       \* len(iqData)
  txLen, pos, txDone,  \* g_tx_len, g_tx_pos, g_tx_done
  buffer,    \* the C copy of the samples
  stream,    \* libhackrf calls the callback ("on"), empties what is filled, or is off
  aired,     \* units transmitted
  result,    \* what Transmit() will return
  runs,      \* history: runs so far
  asked,     \* history: commands so far
  airing,    \* blocks on the air, whose frame the receiver has not yet passed
  heard,     \* the last request in the receiver's log
  queue,     \* ControlChannel's queue
  read       \* the last message a radio has read

hostVars == <<spc, command, len, buffer, result, runs, asked>>
callVars == <<txLen, pos, txDone, stream>>
siteVars == <<heard, queue, read>>
vars     == <<hostVars, callVars, aired, airing, siteVars>>

TypeOK ==
  /\ spc \in {"idle", "open", "start", "wait", "deadline", "stop", "free", "done", "failed"}
  /\ command \in Commands \cup {None} /\ asked \subseteq Commands
  /\ len \in Nat /\ txLen \in Int /\ pos \in Nat /\ aired \in Nat
  /\ txDone \in BOOLEAN /\ buffer \in BOOLEAN
  /\ stream \in {"off", "on", "drain"} /\ result \in {"ok", "error"}
  /\ runs \in 0 .. MaxRuns
  /\ airing \subseteq Blocks
  /\ Len(queue) <= QueueCap

Init ==
  /\ spc = "idle" /\ command = None /\ len = 0
  /\ txLen = 0 /\ pos = 0 /\ txDone = FALSE
  /\ buffer = FALSE /\ stream = "off" /\ aired = 0 /\ result = "ok"
  /\ runs = 0 /\ asked = {}
  /\ airing = {} /\ heard = None /\ queue = <<>> /\ read = None

-----------------------------------------------------------------------------
(* subscriber_test.                                                        *)

\* GenerateIQ() repeats the frame -count times.
Run ==
  /\ spc = "idle" /\ runs < MaxRuns
  /\ \E c \in Commands, n \in Counts :
       /\ command' = c /\ asked' = asked \cup {c} /\ len' = n * Frame
  /\ spc' = "open" /\ runs' = runs + 1
  /\ txLen' = 0 /\ pos' = 0 /\ txDone' = FALSE /\ aired' = 0 /\ result' = "ok"
  /\ UNCHANGED <<buffer, stream, airing, siteVars>>

\* OpenHackRF(), the four settings and malloc(): each may fail.
Prepare ==
  /\ spc = "open"
  /\ \/ spc' = "failed" /\ UNCHANGED buffer
     \/ spc' = "start" /\ buffer' = TRUE
  /\ UNCHANGED <<command, len, result, runs, asked, callVars, aired, airing, siteVars>>

\* C.int(): the low bits, as a signed number.
CInt(n) == IF n % IntSize < IntSize \div 2 THEN n % IntSize ELSE (n % IntSize) - IntSize

\* start_tx(): hackrf_start_tx() may fail.
StartTx ==
  /\ spc = "start"
  /\ txLen' = CInt(len) /\ pos' = 0 /\ txDone' = FALSE
  /\ \/ spc' = "wait" /\ stream' = "on" /\ UNCHANGED result
     \/ spc' = "free" /\ result' = "error" /\ UNCHANGED stream
  /\ UNCHANGED <<command, len, buffer, runs, asked, aired, airing, siteVars>>

\* Mutant: the deadline is not tested.
TestDeadlineNot ==
  /\ spc = "deadline"
  /\ spc' = "wait"
  /\ UNCHANGED <<command, len, buffer, result, runs, asked, callVars, aired, airing, siteVars>>

\* The waiting loop tests tx_done() and then the deadline.
TestDone ==
  /\ spc = "wait"
  /\ spc' = IF txDone THEN "stop" ELSE "deadline"
  /\ UNCHANGED <<command, len, buffer, result, runs, asked, callVars, aired, airing, siteVars>>

TestDeadline ==
  /\ spc = "deadline"
  /\ \/ spc' = "wait" /\ UNCHANGED result
     \/ spc' = "stop" /\ result' = "error"
  /\ UNCHANGED <<command, len, buffer, runs, asked, callVars, aired, airing, siteVars>>

\* Mutant: the function returns, and frees the buffer, with the stream running.
StopTxNot ==
  /\ spc = "stop"
  /\ spc' = "free"
  /\ UNCHANGED <<command, len, buffer, result, runs, asked, callVars, aired, airing, siteVars>>

\* hackrf_stop_tx(): no callback runs once it has returned.
StopTx ==
  /\ spc = "stop"
  /\ stream' = "off" /\ spc' = "free"
  /\ UNCHANGED <<command, len, buffer, result, runs, asked, txLen, pos, txDone,
                 aired, airing, siteVars>>

\* The deferred free().
Free ==
  /\ spc = "free"
  /\ buffer' = FALSE
  /\ spc' = IF result = "ok" THEN "done" ELSE "failed"
  /\ UNCHANGED <<command, len, result, runs, asked, callVars, aired, airing, siteVars>>

\* "Done.", or an error and os.Exit(1).
Exit ==
  /\ spc \in {"done", "failed"}
  /\ spc' = "idle" /\ stream' = "off"
  /\ UNCHANGED <<command, len, buffer, result, runs, asked, txLen, pos, txDone,
                 aired, airing, siteVars>>

Subscriber == Prepare \/ StartTx \/ TestDone \/ TestDeadline \/ StopTx \/ Free \/ Exit

-----------------------------------------------------------------------------
(* libhackrf.                                                              *)

Least(a, b) == IF a < b THEN a ELSE b

\* Mutant: done as soon as the last transfer may be the next one.
FillEarly ==
  /\ stream = "on" /\ pos - aired <= (Depth - 1) * Chunk
  /\ IF txLen - pos <= 0
     THEN txDone' = TRUE /\ stream' = "drain" /\ UNCHANGED pos
     ELSE /\ pos' = pos + Least(Chunk, txLen - pos)
          /\ txDone' = (txDone \/ pos' + Chunk >= txLen)
          /\ UNCHANGED stream
  /\ UNCHANGED <<txLen, hostVars, aired, airing, siteVars>>

\* tx_callback() fills a free transfer.
Fill ==
  /\ stream = "on" /\ pos - aired <= (Depth - 1) * Chunk
  /\ IF txLen - pos <= 0
     THEN txDone' = TRUE /\ stream' = "drain" /\ UNCHANGED pos
     ELSE /\ pos' = pos + Least(Chunk, txLen - pos)
          /\ txDone' = (txDone \/ pos' >= txLen)
          /\ UNCHANGED stream
  /\ UNCHANGED <<txLen, hostVars, aired, airing, siteVars>>

\* A filled transfer goes on the air.
Radiate ==
  /\ stream # "off" /\ aired < pos
  /\ aired' = Least(aired + Chunk, pos)
  /\ airing' = IF aired' \div Frame > aired \div Frame
               THEN airing \cup {Request(command)} ELSE airing
  /\ UNCHANGED <<hostVars, callVars, siteVars>>

\* The device goes away.
Unplug ==
  /\ stream # "off"
  /\ stream' = "off"
  /\ UNCHANGED <<hostVars, txLen, pos, txDone, aired, airing, siteVars>>

-----------------------------------------------------------------------------
(* The site, and a radio that listens to it.                               *)

\* handleIspTsbk() of a frame whose CRC was right; queueTSBK() drops what does
\* not fit.  The same block may still be heard again.
Hear ==
  /\ \E b \in airing :
       /\ heard' = Logged(b)
       /\ \/ Responses(b, Site.sysid) = {} /\ UNCHANGED queue
          \/ \E r \in Responses(b, Site.sysid) :
               queue' = IF Len(queue) < QueueCap THEN Append(queue, r) ELSE queue
  /\ UNCHANGED <<hostVars, callVars, aired, airing, read>>

\* The frames of a block have passed, heard or not.
Pass ==
  /\ \E b \in airing : airing' = airing \ {b}
  /\ UNCHANGED <<hostVars, callVars, aired, siteVars>>

\* Mutant: the adjacent site is announced with this site's own number.
SystemTSBKsOwn(now) ==
  { [op |-> 61, args |-> BuildIDENUp(Site.chanId, Site.bw, Site.positive, Site.magnitude,
                                     Site.spacing, Site.base)],
    [op |-> 59, args |-> BuildNetStatusBcast(Site.wacn, Site.sysid, {}, {}, {})],
    [op |-> 58, args |-> BuildRFSSStatusBcast({}, Site.sysid, Site.rfssid,
                                              Bits(Site.siteid), Site.chanId, {}, {})],
    [op |-> 60, args |-> BuildAdjStsBcast(Site.sysid, Site.rfssid,
                                          Bits(Site.siteid), {}, {}, {})],
    [op |-> 48, args |-> BuildSyncBcast(now)] }

\* The five system messages of the producer.
SystemTSBKs(now) ==
  { [op |-> 61, args |-> BuildIDENUp(Site.chanId, Site.bw, Site.positive, Site.magnitude,
                                     Site.spacing, Site.base)],
    [op |-> 59, args |-> BuildNetStatusBcast(Site.wacn, Site.sysid, {}, {}, {})],
    [op |-> 58, args |-> BuildRFSSStatusBcast({}, Site.sysid, Site.rfssid,
                                              Bits(Site.siteid), Site.chanId, {}, {})],
    [op |-> 60, args |-> BuildAdjStsBcast(Site.sysid, Site.rfssid,
                                          Bits((Site.siteid + 1) % 256), {}, {}, {})],
    [op |-> 48, args |-> BuildSyncBcast(now)] }

\* A radio reads a message by its opcode.
Reading(b) ==
  CASE b.op = 40 -> [kind |-> "aff",  msg |-> GroupAffiliationResponse(b.args)]
    [] b.op = 44 -> [kind |-> "reg",  msg |-> UnitRegistrationResponse(b.args)]
    [] b.op = 58 -> [kind |-> "rfss", msg |-> RfssStatus(b.args)]
    [] b.op = 59 -> [kind |-> "net",  msg |-> NetworkStatus(b.args)]
    [] b.op = 60 -> [kind |-> "adj",  msg |-> AdjacentStatus(b.args)]
    [] b.op = 61 -> [kind |-> "iden", msg |-> IdenUpdate(b.args)]
    [] b.op = 48 -> [kind |-> "sync", msg |-> Synchronization(b.args)]

SendResponse ==
  /\ queue # <<>>
  /\ queue' = Tail(queue) /\ read' = Reading(Head(queue))
  /\ UNCHANGED <<hostVars, callVars, aired, airing, heard>>

SystemReadings == UNION { {Reading(b) : b \in SystemTSBKs(now)} : now \in Clocks }

SendSystem ==
  /\ read' \in SystemReadings
  /\ UNCHANGED <<hostVars, callVars, aired, airing, heard, queue>>

Next ==
  \/ Run \/ Subscriber
  \/ Fill \/ Radiate \/ Unplug
  \/ Hear \/ Pass \/ SendResponse \/ SendSystem

Spec == Init /\ [][Next]_vars

(***************************************************************************)
(* subscriber_test runs when it can.  Time passes: a loop that goes on     *)
(* finds the deadline passed at last.  Nothing is assumed of the device,   *)
(* which may be slow for ever, or of the site.                             *)
(***************************************************************************)
FairSpec ==
  Spec /\ WF_vars(Subscriber) /\ SF_vars(TestDeadline /\ spc' = "stop")

-----------------------------------------------------------------------------
(* Properties.                                                             *)

\* What the command line c asks for, in the terms of the receiver's log.
Meant(c) ==
  [what |-> c.cmd, src |-> Low(c.src, 24),
   tgid |-> IF c.cmd \in {"aff", "vch", "emrg"} THEN Low(c.tgid, 16) ELSE {},
   target |-> IF c.cmd = "uu" THEN Low(c.target, 24) ELSE {},
   emrg |-> {}]

\* The receiver logs requests that were made, with the radio, the group and the
\* target they were made with: subscriber_test's layout is the receiver's.
RequestUnderstood == heard # None => \E c \in asked : heard = Meant(c)

\* A radio that hears a response hears its own identity and group in it, and the
\* system's, from a request of the kind it answers.
ResponseMatches ==
  read # None =>
    /\ read.kind = "aff" =>
         /\ read.msg.gav = {} /\ read.msg.lg = {}
         /\ \E c \in asked : /\ c.cmd = "aff"
                              /\ read.msg.ta = Low(c.src, 24)
                              /\ read.msg.ga = Low(c.tgid, 16)
                              /\ read.msg.aga = Low(c.tgid, 16)
    /\ read.kind = "reg" =>
         /\ read.msg.site = Low(Site.sysid, 12)
         /\ \E c \in asked : /\ c.cmd = "reg"
                              /\ read.msg.target = Low(c.src, 24)
                              /\ read.msg.src = Low(c.src, 24)

\* The date, the time and the local offset, in half hours towards zero.
Told(msg, now) ==
  /\ msg.valid /\ msg.flags = {3}
  /\ msg.year = Bits(now.year % 100) /\ msg.month = Bits(now.month) /\ msg.day = Bits(now.day)
  /\ msg.hour = Bits(now.hour) /\ msg.min = Bits(now.min) /\ msg.slots = Bits(135 * now.sec)
  /\ 5 \in msg.ltoff <=> now.halfHours < 0
  /\ msg.ltoff \ {5} = Bits(IF now.halfHours < 0 THEN 0 - now.halfHours ELSE now.halfHours)

\* A radio learns the site's configuration from the system messages, no field
\* running into another, and a neighbour that is not the site itself.
SiteAnnounced ==
  read # None =>
    /\ read.kind = "net" => read.msg.wacn = Low(Site.wacn, 20)
                            /\ read.msg.sysid = Low(Site.sysid, 12)
    /\ read.kind = "rfss" => /\ read.msg.sysid = Low(Site.sysid, 12)
                             /\ read.msg.rfssid = Site.rfssid
                             /\ read.msg.siteid = Bits(Site.siteid)
                             /\ read.msg.channel = Shl(Low(Site.chanId, 4), 12)
    /\ read.kind = "adj" => /\ read.msg.cfva = {}
                            /\ read.msg.rfssid = Site.rfssid
                            /\ read.msg.siteid # Bits(Site.siteid)
    /\ read.kind = "iden" => /\ read.msg.iden = Low(Site.chanId, 4)
                             /\ read.msg.bw = Low(Site.bw, 9)
                             /\ read.msg.spacing = Low(Site.spacing, 10)
                             /\ read.msg.magnitude = Low(Site.magnitude, 8)
                             /\ read.msg.positive = (Site.positive /\ Site.magnitude # {})
                             /\ read.msg.base = Low(Site.base, 32)
    /\ read.kind = "sync" => \E now \in Clocks : Told(read.msg, now)

\* The callback copies from the buffer, on libhackrf's thread: the buffer is
\* there as long as it may run, also when Transmit() gives up.
BufferHeld == stream = "on" => buffer

\* "Done." is only printed when the callback has taken every sample, none
\* beyond the buffer, and at most the filled transfers were cut off by
\* hackrf_stop_tx(); as long as the length fits into a C int.
TailOnlyLost ==
  len < IntSize \div 2 =>
    /\ pos <= len
    /\ spc = "done" => pos = len
    /\ spc = "done" => len - aired <= Depth * Chunk

\* Transmit() returns, whether or not the device takes the samples.
TransmitReturns == (spc = "wait") ~> (spc \in {"done", "failed"})

\* "a U_REG_REQ can cause a U_REG_RSP", built as accepted: the decoder in this
\* repository says of RV 0 "REG_ACCEPT" and of RV 1 "REG_FAIL".
RegistrationAccepted == read # None /\ read.kind = "reg" => read.msg.rv = {}
=============================================================================
