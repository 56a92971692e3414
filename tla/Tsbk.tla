-------------------------------- MODULE Tsbk --------------------------------
(***************************************************************************)
(* The layout of the TSBK messages: the builders of SiteSim                *)
(* (src/p25/TSBK.cpp), those of subscriber_test (p25.go), SiteSim's reader *)
(* of requests (RxPipeline::handleIspTsbk) and the reader radios stand for *)
(* here, the dsd-neo decoder kept in the repository.                       *)
(*                                                                         *)
(* A machine word is the set of the positions of its 1 bits: | is union,   *)
(* << moves the positions and drops those beyond 63, & with a mask of n    *)
(* ones keeps the low n; a bool is a bit.  Byte k of a block, 2 <= k <= 9, is bits          *)
(* 8*(9-k) .. 8*(9-k)+7 of its 64 bits of arguments, so reading adjacent   *)
(* bytes is reading a field.                                               *)
(***************************************************************************)
EXTENDS Integers

IsWord(x)      == x \subseteq Nat
Word(n)        == 0 .. n - 1                               \* positions of n bits
Low(x, n)      == x \cap Word(n)                           \* x & (2^n - 1)
Shl(x, k)      == {i \in Word(64) : i - k \in x}           \* uint64_t(x) << k
Field(a, k, n) == {i \in Word(n) : i + k \in a}            \* (a >> k) & (2^n - 1)
Bits(n)        == {i \in Word(30) : (n \div 2^i) % 2 = 1}  \* the number n as a word
Flag(b, x)     == IF b THEN x ELSE {}

Channel(id, num) == Shl(Low(id, 4), 12) \cup Low(num, 12)

-----------------------------------------------------------------------------
(* What SiteSim sends: the arguments of each message.                      *)

BuildNetStatusBcast(wacn, sysID, chanID, chanNum, ssc) ==
  Shl(Low(wacn, 20), 36) \cup Shl(Low(sysID, 12), 24)
    \cup Shl(Channel(chanID, chanNum), 8) \cup ssc

BuildRFSSStatusBcast(lrar, sysID, rfssID, siteID, chanID, chanNum, ssc) ==
  Shl(lrar, 56) \cup Shl(Low(sysID, 12), 40) \cup Shl(rfssID, 32)
    \cup Shl(siteID, 24) \cup Shl(Channel(chanID, chanNum), 8) \cup ssc

\* The offset in units of 250 kHz, as a sign and a magnitude; 0x100 is "plus".
OffsetField(positive, magnitude) ==
  Flag(positive /\ magnitude # {}, {8}) \cup Low(magnitude, 8)

BuildIDENUp(iden, bw, positive, magnitude, spacing, base) ==
  Shl(Low(iden, 4), 60) \cup Shl(Low(bw, 9), 51)
    \cup Shl(OffsetField(positive, magnitude), 42)
    \cup Shl(Low(spacing, 10), 32) \cup Low(base, 32)

\* Mutant: the group of the response is left one byte too low.
BuildGrpAffRspLow(lg, gav, announce, talkgroup, source) ==
  Shl(lg, 63) \cup Shl(Low(gav, 2), 56) \cup Shl(announce, 40)
    \cup Shl(talkgroup, 16) \cup Low(source, 24)

BuildGrpAffRsp(lg, gav, announce, talkgroup, source) ==
  Shl(lg, 63) \cup Shl(Low(gav, 2), 56) \cup Shl(announce, 40)
    \cup Shl(talkgroup, 24) \cup Low(source, 24)

BuildURegRsp(accepted, sysID, target, source) ==
  Shl(accepted, 60) \cup Shl(Low(sysID, 12), 48)
    \cup Shl(Low(target, 24), 24) \cup Low(source, 24)

BuildAdjStsBcast(sysID, rfssID, siteID, chanID, chanNum, ssc) ==
  Shl(Low(sysID, 12), 40) \cup Shl(rfssID, 32) \cup Shl(siteID, 24)
    \cup Shl(Channel(chanID, chanNum), 8) \cup ssc

\* The local offset in half hours, in a sign and five bits.
LocalOffset(halfHours) ==
  IF halfHours < 0 THEN {5} \cup Bits(IF halfHours < -31 THEN 31 ELSE 0 - halfHours)
                   ELSE Bits(IF halfHours > 31 THEN 31 ELSE halfHours)

SyncArgs(ltoff, year, month, day, hour, min, slots) ==
  {50, 46} \cup Shl(ltoff, 40) \cup Shl(Low(year, 7), 33) \cup Shl(Low(month, 4), 29)
    \cup Shl(Low(day, 5), 24) \cup Shl(Low(hour, 5), 19) \cup Shl(Low(min, 6), 13)
    \cup Low(slots, 13)

BuildSyncBcast(now) ==
  SyncArgs(LocalOffset(now.halfHours), Bits(now.year % 100), Bits(now.month),
           Bits(now.day), Bits(now.hour), Bits(now.min), Bits(now.sec * 135))

-----------------------------------------------------------------------------
(* What subscriber_test sends.                                             *)

BuildGrpVchReq(opts, tgid, src) ==
  Shl(opts, 56) \cup Shl(tgid, 24) \cup Low(src, 24)

BuildUuVchReq(opts, target, src) ==
  Shl(opts, 56) \cup Shl(Low(target, 24), 24) \cup Low(src, 24)

\* Mutant: the mask of the source is dropped.
BuildGrpAffReqWide(tgid, src) == Shl(tgid, 24) \cup src

BuildGrpAffReq(tgid, src) == Shl(tgid, 24) \cup Low(src, 24)

BuildEmrgAlrmReq(tgid, src) == Shl(tgid, 24) \cup Low(src, 24)

BuildURegReq(sysID, src) == Shl(Low(sysID, 12), 36) \cup Low(src, 24)

BuildUDeRegAck(src) == Low(src, 24)

\* The command of the command line: its opcode and its arguments.
Request(c) ==
  CASE c.cmd = "aff"   -> [op |-> 40, args |-> BuildGrpAffReq(Low(c.tgid, 16), c.src)]
    [] c.cmd = "vch"   -> [op |-> 0,  args |-> BuildGrpVchReq({}, Low(c.tgid, 16), c.src)]
    [] c.cmd = "uu"    -> [op |-> 3,  args |-> BuildUuVchReq({}, c.target, c.src)]
    [] c.cmd = "reg"   -> [op |-> 44, args |-> BuildURegReq(Low(c.sysID, 16), c.src)]
    [] c.cmd = "dereg" -> [op |-> 47, args |-> BuildUDeRegAck(c.src)]
    [] c.cmd = "emrg"  -> [op |-> 15, args |-> BuildEmrgAlrmReq(Low(c.tgid, 16), c.src)]

-----------------------------------------------------------------------------
(* The readers.                                                            *)

Tgid(a)   == Field(a, 24, 16)
SrcId(a)  == Field(a, 0, 24)
Target(a) == Field(a, 24, 24)

Entry(what, a, emrg, tgid, target) ==
  [what |-> what, src |-> SrcId(a), emrg |-> emrg, tgid |-> tgid, target |-> target]

\* What handleIspTsbk() logs of a request, by its opcode.
Logged(b) ==
  CASE b.op = 0  -> Entry("vch", b.args, Field(b.args, 63, 1), Tgid(b.args), {})
    [] b.op = 40 -> Entry("aff", b.args, {}, Tgid(b.args), {})
    [] b.op = 44 -> Entry("reg", b.args, {}, {}, {})
    [] b.op = 47 -> Entry("dereg", b.args, {}, {}, {})
    [] b.op = 15 -> Entry("emrg", b.args, {}, Tgid(b.args), {})
    [] b.op = 3  -> Entry("uu", b.args, {}, {}, Target(b.args))
    [] OTHER     -> Entry("other", b.args, {}, {}, {})

\* What it queues in return: no, or one response.  sysid is its own copy.
Responses(b, sysid) ==
  CASE b.op = 40 -> {[op |-> 40, args |-> BuildGrpAffRsp({}, {}, Tgid(b.args),
                                                         Tgid(b.args), SrcId(b.args))]}
    [] b.op = 44 -> {[op |-> 44, args |-> BuildURegRsp({0}, sysid, SrcId(b.args),
                                                       SrcId(b.args))]}
    [] OTHER     -> {}

\* A radio's reading of the two responses and of the system messages.
GroupAffiliationResponse(a) ==
  [lg |-> Field(a, 63, 1), gav |-> Field(a, 56, 2), aga |-> Field(a, 40, 16),
   ga |-> Field(a, 24, 16), ta |-> Field(a, 0, 24)]

UnitRegistrationResponse(a) ==
  [rv |-> Field(a, 60, 2), site |-> Field(a, 48, 12), target |-> Field(a, 24, 24),
   src |-> Field(a, 0, 24)]

NetworkStatus(a) ==
  [wacn |-> Field(a, 36, 20), sysid |-> Field(a, 24, 12), channel |-> Field(a, 8, 16),
   ssc |-> Field(a, 0, 8)]

RfssStatus(a) ==
  [lra |-> Field(a, 56, 8), sysid |-> Field(a, 40, 12), rfssid |-> Field(a, 32, 8),
   siteid |-> Field(a, 24, 8), channel |-> Field(a, 8, 16), ssc |-> Field(a, 0, 8)]

AdjacentStatus(a) ==
  [cfva |-> Field(a, 52, 4), rfssid |-> Field(a, 32, 8), siteid |-> Field(a, 24, 8),
   channel |-> Field(a, 8, 16), ssc |-> Field(a, 0, 8)]

IdenUpdate(a) ==
  [iden |-> Field(a, 60, 4), bw |-> Field(a, 51, 9), positive |-> 50 \in a,
   magnitude |-> Field(a, 42, 8), spacing |-> Field(a, 32, 10), base |-> Field(a, 0, 32)]

Synchronization(a) ==
  [flags |-> Field(a, 47, 5), valid |-> 46 \in a, ltoff |-> Field(a, 40, 6),
   year |-> Field(a, 33, 7), month |-> Field(a, 29, 4), day |-> Field(a, 24, 5),
   hour |-> Field(a, 19, 5), min |-> Field(a, 13, 6), slots |-> Field(a, 0, 13)]
=============================================================================
