---------------------------- MODULE Tsbk_proofs ----------------------------
(***************************************************************************)
(* For every value of every argument, what the reader of a message finds   *)
(* in a field is what its builder was given, cut to the field: no field    *)
(* runs into another, and none is read from the wrong place.               *)
(*                                                                         *)
(* A field is read out of a union bit by bit.  The solver decides for each *)
(* part of the union, from the bounds of its positions, whether the bit    *)
(* can be in it; so each field is a step of its own.                       *)
(***************************************************************************)
EXTENDS Tsbk, FiniteSetTheorems, TLAPS

\* A masked word is a word of as many bits.
LEMMA LowIsWord ==
  ASSUME NEW x, IsWord(x), NEW n \in Nat
  PROVE  IsWord(Low(x, n)) /\ Low(x, n) \subseteq Word(n)
BY DEF IsWord, Low, Word

\* Masking twice is masking once.
LEMMA LowLow ==
  ASSUME NEW x, NEW n
  PROVE  Low(Low(x, n), n) = Low(x, n)
BY DEF Low

\* A power of two is the number of subsets, so it grows with its exponent.
LEMMA Powers ==
  ASSUME NEW i \in Nat, NEW k \in 0 .. i
  PROVE  2^k \in Nat /\ 2^i \in Nat /\ 2^k <= 2^i
<1>1. /\ IsFiniteSet(1 .. k) /\ Cardinality(1 .. k) = k
      /\ IsFiniteSet(1 .. i) /\ Cardinality(1 .. i) = i
  BY FS_Interval
<1>2. /\ IsFiniteSet(SUBSET (1 .. k)) /\ Cardinality(SUBSET (1 .. k)) = 2^k
      /\ IsFiniteSet(SUBSET (1 .. i)) /\ Cardinality(SUBSET (1 .. i)) = 2^i
  BY <1>1, FS_SUBSET
<1>3. SUBSET (1 .. k) \subseteq SUBSET (1 .. i)
  OBVIOUS
<1> QED BY <1>2, <1>3, FS_Subset, FS_CardinalityType

\* A number divided by a greater one is 0.
LEMMA Quotient ==
  ASSUME NEW x \in Nat, NEW p \in Nat \ {0}, x < p
  PROVE  x \div p = 0
BY SMT

\* A number below 2^k has no bit from position k on.
LEMMA BitsFit ==
  ASSUME NEW x \in Nat, NEW k \in Nat, x < 2^k
  PROVE  Bits(x) \subseteq Word(k)
<1>1. ASSUME NEW i \in Bits(x) PROVE i \in Word(k)
  <2> DEFINE p == 2^i
  <2>1. i \in Word(30) /\ (x \div p) % 2 = 1
    BY Zenon DEF Bits
  <2>2. SUFFICES ASSUME ~(i < k) PROVE FALSE
    BY <2>1 DEF Word
  <2>3. i \in Nat /\ k \in 0 .. i
    BY <2>1, <2>2 DEF Word
  <2>4. p \in Nat \ {0} /\ x < p
    BY <2>3, Powers
  <2> HIDE DEF p
  <2>5. x \div p = 0
    BY <2>4, Quotient
  <2> QED BY <2>1, <2>5
<1> QED BY <1>1

\* The sizes of the fields that hold numbers.
LEMMA NumberInField ==
  ASSUME NEW x \in Nat
  PROVE  /\ x < 16   => Bits(x) \subseteq Word(4)
         /\ x < 32   => Bits(x) \subseteq Word(5)
         /\ x < 64   => Bits(x) \subseteq Word(6)
         /\ x < 128  => Bits(x) \subseteq Word(7)
         /\ x < 256  => Bits(x) \subseteq Word(8)
         /\ x < 8192 => Bits(x) \subseteq Word(13)
<1>1. ASSUME x < 16 PROVE Bits(x) \subseteq Word(4)
  <2> DEFINE p == 16
  <2>1. p = 2^4
    BY SMT
  <2>2. x < p
    BY <1>1
  <2> HIDE DEF p
  <2>3. x < 2^4
    BY <2>1, <2>2, Zenon
  <2>4. 4 \in Nat
    BY SMT
  <2> QED BY <2>3, <2>4, BitsFit, Zenon
<1>2. ASSUME x < 32 PROVE Bits(x) \subseteq Word(5)
  <2> DEFINE p == 32
  <2>1. p = 2^5
    BY SMT
  <2>2. x < p
    BY <1>2
  <2> HIDE DEF p
  <2>3. x < 2^5
    BY <2>1, <2>2, Zenon
  <2>4. 5 \in Nat
    BY SMT
  <2> QED BY <2>3, <2>4, BitsFit, Zenon
<1>3. ASSUME x < 64 PROVE Bits(x) \subseteq Word(6)
  <2> DEFINE p == 64
  <2>1. p = 2^6
    BY SMT
  <2>2. x < p
    BY <1>3
  <2> HIDE DEF p
  <2>3. x < 2^6
    BY <2>1, <2>2, Zenon
  <2>4. 6 \in Nat
    BY SMT
  <2> QED BY <2>3, <2>4, BitsFit, Zenon
<1>4. ASSUME x < 128 PROVE Bits(x) \subseteq Word(7)
  <2> DEFINE p == 128
  <2>1. p = 2^7
    BY SMT
  <2>2. x < p
    BY <1>4
  <2> HIDE DEF p
  <2>3. x < 2^7
    BY <2>1, <2>2, Zenon
  <2>4. 7 \in Nat
    BY SMT
  <2> QED BY <2>3, <2>4, BitsFit, Zenon
<1>5. ASSUME x < 256 PROVE Bits(x) \subseteq Word(8)
  <2> DEFINE p == 256
  <2>1. p = 2^8
    BY SMT
  <2>2. x < p
    BY <1>5
  <2> HIDE DEF p
  <2>3. x < 2^8
    BY <2>1, <2>2, Zenon
  <2>4. 8 \in Nat
    BY SMT
  <2> QED BY <2>3, <2>4, BitsFit, Zenon
<1>6. ASSUME x < 8192 PROVE Bits(x) \subseteq Word(13)
  <2> DEFINE p == 8192
  <2>1. p = 2^13
    BY SMT
  <2>2. x < p
    BY <1>6
  <2> HIDE DEF p
  <2>3. x < 2^13
    BY <2>1, <2>2, Zenon
  <2>4. 13 \in Nat
    BY SMT
  <2> QED BY <2>3, <2>4, BitsFit, Zenon
<1> QED BY <1>1, <1>2, <1>3, <1>4, <1>5, <1>6

\* Masking a word that fits leaves it alone.
LEMMA LowOfFitting ==
  ASSUME NEW x, NEW n, x \subseteq Word(n)
  PROVE  Low(x, n) = x
BY DEF Low

\* The bits of a field are a word.
LEMMA FieldIsWord ==
  ASSUME NEW x, NEW n \in Nat, x \subseteq Word(n)
  PROVE  IsWord(x)
BY DEF IsWord, Word

\* The requests of subscriber_test in handleIspTsbk()'s eyes.
LEMMA GrpAffReqRead ==
  ASSUME NEW tgid, NEW src, IsWord(tgid), IsWord(src)
  PROVE  LET a == BuildGrpAffReq(Low(tgid, 16), src)
         IN  Tgid(a) = Low(tgid, 16) /\ SrcId(a) = Low(src, 24)
<1> DEFINE a == BuildGrpAffReq(Low(tgid, 16), src)
<1>1. Tgid(a) = Low(tgid, 16)
  BY DEF IsWord, Tgid, Field, BuildGrpAffReq, Low, Shl, Word
<1>2. SrcId(a) = Low(src, 24)
  BY DEF IsWord, SrcId, Field, BuildGrpAffReq, Low, Shl, Word
<1> QED BY <1>1, <1>2

\* An emergency alarm has the layout of an affiliation request.
LEMMA EmrgAlrmReqRead ==
  ASSUME NEW tgid, NEW src, IsWord(tgid), IsWord(src)
  PROVE  LET a == BuildEmrgAlrmReq(Low(tgid, 16), src)
         IN  Tgid(a) = Low(tgid, 16) /\ SrcId(a) = Low(src, 24)
BY GrpAffReqRead DEF BuildEmrgAlrmReq, BuildGrpAffReq

\* A voice request carries its options above the group.
LEMMA GrpVchReqRead ==
  ASSUME NEW opts, NEW tgid, NEW src, opts \subseteq Word(8), IsWord(tgid), IsWord(src)
  PROVE  LET a == BuildGrpVchReq(opts, Low(tgid, 16), src)
         IN  /\ Tgid(a) = Low(tgid, 16) /\ SrcId(a) = Low(src, 24)
             /\ Field(a, 63, 1) = {i \in {0} : 7 \in opts}
<1> DEFINE a == BuildGrpVchReq(opts, Low(tgid, 16), src)
<1>1. Tgid(a) = Low(tgid, 16)
  BY DEF IsWord, Tgid, Field, BuildGrpVchReq, Low, Shl, Word
<1>2. SrcId(a) = Low(src, 24)
  BY DEF IsWord, SrcId, Field, BuildGrpVchReq, Low, Shl, Word
<1>3. Field(a, 63, 1) = {i \in {0} : 7 \in opts}
  BY DEF IsWord, Field, BuildGrpVchReq, Low, Shl, Word
<1> QED BY <1>1, <1>2, <1>3

\* A unit to unit request carries its target in place of the group.
LEMMA UuVchReqRead ==
  ASSUME NEW opts, NEW target, NEW src, opts \subseteq Word(8), IsWord(target), IsWord(src)
  PROVE  LET a == BuildUuVchReq(opts, target, src)
         IN  Target(a) = Low(target, 24) /\ SrcId(a) = Low(src, 24)
<1> DEFINE a == BuildUuVchReq(opts, target, src)
<1>1. Target(a) = Low(target, 24)
  BY DEF IsWord, Target, Field, BuildUuVchReq, Low, Shl, Word
<1>2. SrcId(a) = Low(src, 24)
  BY DEF IsWord, SrcId, Field, BuildUuVchReq, Low, Shl, Word
<1> QED BY <1>1, <1>2

\* A registration request carries the radio in the low bits.
LEMMA URegReqRead ==
  ASSUME NEW sysID, NEW src, IsWord(sysID), IsWord(src)
  PROVE  SrcId(BuildURegReq(sysID, src)) = Low(src, 24)
BY DEF IsWord, SrcId, Field, BuildURegReq, Low, Shl, Word

\* So does a deregistration.
LEMMA UDeRegAckRead ==
  ASSUME NEW src, IsWord(src)
  PROVE  SrcId(BuildUDeRegAck(src)) = Low(src, 24)
BY DEF IsWord, SrcId, Field, BuildUDeRegAck, Low, Word

\* The responses of handleIspTsbk() in a radio's eyes.
LEMMA GrpAffRspRead ==
  ASSUME NEW group, NEW src, IsWord(group), IsWord(src)
  PROVE  GroupAffiliationResponse(BuildGrpAffRsp({}, {}, Low(group, 16), Low(group, 16), src))
           = [lg |-> {}, gav |-> {}, aga |-> Low(group, 16), ga |-> Low(group, 16),
              ta |-> Low(src, 24)]
<1> DEFINE a == BuildGrpAffRsp({}, {}, Low(group, 16), Low(group, 16), src)
<1>1. Field(a, 63, 1) = {}
  BY DEF IsWord, Field, BuildGrpAffRsp, Low, Shl, Word
<1>2. Field(a, 56, 2) = {}
  BY DEF IsWord, Field, BuildGrpAffRsp, Low, Shl, Word
<1>3. Field(a, 40, 16) = Low(group, 16)
  BY DEF IsWord, Field, BuildGrpAffRsp, Low, Shl, Word
<1>4. Field(a, 24, 16) = Low(group, 16)
  BY DEF IsWord, Field, BuildGrpAffRsp, Low, Shl, Word
<1>5. Field(a, 0, 24) = Low(src, 24)
  BY DEF IsWord, Field, BuildGrpAffRsp, Low, Shl, Word
<1> HIDE DEF a
<1> QED BY <1>1, <1>2, <1>3, <1>4, <1>5 DEF GroupAffiliationResponse, a

\* The acceptance bit, the system, and the radio twice.
LEMMA URegRspRead ==
  ASSUME NEW accepted, NEW sysID, NEW target, NEW src,
         accepted \subseteq {0}, IsWord(sysID), IsWord(target), IsWord(src)
  PROVE  UnitRegistrationResponse(BuildURegRsp(accepted, sysID, target, src))
           = [rv |-> accepted, site |-> Low(sysID, 12), target |-> Low(target, 24),
              src |-> Low(src, 24)]
<1> DEFINE a == BuildURegRsp(accepted, sysID, target, src)
<1> \A i : i \in accepted => i = 0
  OBVIOUS
<1>1. Field(a, 60, 2) = accepted
  BY DEF IsWord, Field, BuildURegRsp, Low, Shl, Word
<1>2. Field(a, 48, 12) = Low(sysID, 12)
  BY DEF IsWord, Field, BuildURegRsp, Low, Shl, Word
<1>3. Field(a, 24, 24) = Low(target, 24)
  BY DEF IsWord, Field, BuildURegRsp, Low, Shl, Word
<1>4. Field(a, 0, 24) = Low(src, 24)
  BY DEF IsWord, Field, BuildURegRsp, Low, Shl, Word
<1> HIDE DEF a
<1> QED BY <1>1, <1>2, <1>3, <1>4 DEF UnitRegistrationResponse, a

\* Identifier and number are 16 bits together.
LEMMA ChannelIsWord ==
  ASSUME NEW id, NEW num, IsWord(id), IsWord(num)
  PROVE  Channel(id, num) \subseteq Word(16)
BY DEF IsWord, Channel, Low, Shl, Word

\* The network status broadcast carries WACN, system, channel and class.
THEOREM NetStatusRead ==
  ASSUME NEW wacn, NEW sysID, NEW chanID, NEW chanNum, NEW ssc,
         IsWord(wacn), IsWord(sysID), IsWord(chanID), IsWord(chanNum), ssc \subseteq Word(8)
  PROVE  LET a == BuildNetStatusBcast(wacn, sysID, chanID, chanNum, ssc)
             r == NetworkStatus(a)
         IN  /\ r.wacn = Low(wacn, 20)
             /\ r.sysid = Low(sysID, 12)
             /\ r.channel = Channel(chanID, chanNum)
             /\ r.ssc = ssc
<1> DEFINE a == BuildNetStatusBcast(wacn, sysID, chanID, chanNum, ssc)
<1> Channel(chanID, chanNum) \subseteq Word(16)
  BY ChannelIsWord
<1> \A i : i \in Channel(chanID, chanNum) => i \in Int /\ 0 <= i /\ i <= 15
  BY DEF Word
<1> \A i : i \in ssc => i \in Int /\ 0 <= i /\ i <= 7
  BY DEF Word
<1>1. Field(a, 36, 20) = Low(wacn, 20)
  BY DEF IsWord, Field, BuildNetStatusBcast, Low, Shl, Word
<1>2. Field(a, 24, 12) = Low(sysID, 12)
  BY DEF IsWord, Field, BuildNetStatusBcast, Low, Shl, Word
<1>3. Field(a, 8, 16) = Channel(chanID, chanNum)
  BY DEF IsWord, Field, BuildNetStatusBcast, Low, Shl, Word
<1>4. Field(a, 0, 8) = ssc
  BY DEF IsWord, Field, BuildNetStatusBcast, Low, Shl, Word
<1> HIDE DEF a
<1> QED BY <1>1, <1>2, <1>3, <1>4 DEF NetworkStatus, a

\* The RFSS status broadcast carries area, system, RFSS, site, channel and class.
THEOREM RfssStatusRead ==
  ASSUME NEW lrar, NEW sysID, NEW rfssID, NEW siteID, NEW chanID, NEW chanNum, NEW ssc,
         lrar \subseteq Word(8), rfssID \subseteq Word(8), siteID \subseteq Word(8),
         ssc \subseteq Word(8), IsWord(sysID), IsWord(chanID), IsWord(chanNum)
  PROVE  LET a == BuildRFSSStatusBcast(lrar, sysID, rfssID, siteID, chanID, chanNum, ssc)
             r == RfssStatus(a)
         IN  /\ r.lra = lrar
             /\ r.sysid = Low(sysID, 12)
             /\ r.rfssid = rfssID
             /\ r.siteid = siteID
             /\ r.channel = Channel(chanID, chanNum)
             /\ r.ssc = ssc
<1> DEFINE a == BuildRFSSStatusBcast(lrar, sysID, rfssID, siteID, chanID, chanNum, ssc)
<1> Channel(chanID, chanNum) \subseteq Word(16)
  BY ChannelIsWord
<1> \A i : i \in Channel(chanID, chanNum) => i \in Int /\ 0 <= i /\ i <= 15
  BY DEF Word
<1> \A i : i \in lrar => i \in Int /\ 0 <= i /\ i <= 7
  BY DEF Word
<1> \A i : i \in rfssID => i \in Int /\ 0 <= i /\ i <= 7
  BY DEF Word
<1> \A i : i \in siteID => i \in Int /\ 0 <= i /\ i <= 7
  BY DEF Word
<1> \A i : i \in ssc => i \in Int /\ 0 <= i /\ i <= 7
  BY DEF Word
<1>1. Field(a, 56, 8) = lrar
  BY DEF IsWord, Field, BuildRFSSStatusBcast, Low, Shl, Word
<1>2. Field(a, 40, 12) = Low(sysID, 12)
  BY DEF IsWord, Field, BuildRFSSStatusBcast, Low, Shl, Word
<1>3. Field(a, 32, 8) = rfssID
  BY DEF IsWord, Field, BuildRFSSStatusBcast, Low, Shl, Word
<1>4. Field(a, 24, 8) = siteID
  BY DEF IsWord, Field, BuildRFSSStatusBcast, Low, Shl, Word
<1>5. Field(a, 8, 16) = Channel(chanID, chanNum)
  BY DEF IsWord, Field, BuildRFSSStatusBcast, Low, Shl, Word
<1>6. Field(a, 0, 8) = ssc
  BY DEF IsWord, Field, BuildRFSSStatusBcast, Low, Shl, Word
<1> HIDE DEF a
<1> QED BY <1>1, <1>2, <1>3, <1>4, <1>5, <1>6 DEF RfssStatus, a

\* The adjacent status broadcast carries RFSS, site, channel and class, and no
\* flag: the system ID in it stays below the flags' bits.
THEOREM AdjStatusRead ==
  ASSUME NEW sysID, NEW rfssID, NEW siteID, NEW chanID, NEW chanNum, NEW ssc,
         rfssID \subseteq Word(8), siteID \subseteq Word(8), ssc \subseteq Word(8),
         IsWord(sysID), IsWord(chanID), IsWord(chanNum)
  PROVE  LET a == BuildAdjStsBcast(sysID, rfssID, siteID, chanID, chanNum, ssc)
             r == AdjacentStatus(a)
         IN  /\ r.cfva = {}
             /\ r.rfssid = rfssID
             /\ r.siteid = siteID
             /\ r.channel = Channel(chanID, chanNum)
             /\ r.ssc = ssc
<1> DEFINE a == BuildAdjStsBcast(sysID, rfssID, siteID, chanID, chanNum, ssc)
<1> Channel(chanID, chanNum) \subseteq Word(16)
  BY ChannelIsWord
<1> \A i : i \in Channel(chanID, chanNum) => i \in Int /\ 0 <= i /\ i <= 15
  BY DEF Word
<1> \A i : i \in rfssID => i \in Int /\ 0 <= i /\ i <= 7
  BY DEF Word
<1> \A i : i \in siteID => i \in Int /\ 0 <= i /\ i <= 7
  BY DEF Word
<1> \A i : i \in ssc => i \in Int /\ 0 <= i /\ i <= 7
  BY DEF Word
<1>1. Field(a, 52, 4) = {}
  BY DEF IsWord, Field, BuildAdjStsBcast, Low, Shl, Word
<1>2. Field(a, 32, 8) = rfssID
  BY DEF IsWord, Field, BuildAdjStsBcast, Low, Shl, Word
<1>3. Field(a, 24, 8) = siteID
  BY DEF IsWord, Field, BuildAdjStsBcast, Low, Shl, Word
<1>4. Field(a, 8, 16) = Channel(chanID, chanNum)
  BY DEF IsWord, Field, BuildAdjStsBcast, Low, Shl, Word
<1>5. Field(a, 0, 8) = ssc
  BY DEF IsWord, Field, BuildAdjStsBcast, Low, Shl, Word
<1> HIDE DEF a
<1> QED BY <1>1, <1>2, <1>3, <1>4, <1>5 DEF AdjacentStatus, a

\* The identifier update carries the channel plan; a sign only with an offset.
THEOREM IdenUpRead ==
  ASSUME NEW iden, NEW bw, NEW positive \in BOOLEAN, NEW magnitude, NEW spacing, NEW base,
         IsWord(iden), IsWord(bw), IsWord(magnitude), IsWord(spacing), IsWord(base)
  PROVE  LET a == BuildIDENUp(iden, bw, positive, magnitude, spacing, base)
             r == IdenUpdate(a)
         IN  /\ r.iden = Low(iden, 4)
             /\ r.bw = Low(bw, 9)
             /\ r.positive = (positive /\ magnitude # {})
             /\ r.magnitude = Low(magnitude, 8)
             /\ r.spacing = Low(spacing, 10)
             /\ r.base = Low(base, 32)
<1> DEFINE a == BuildIDENUp(iden, bw, positive, magnitude, spacing, base)
<1>1. Field(a, 60, 4) = Low(iden, 4)
  BY DEF IsWord, Field, BuildIDENUp, OffsetField, Flag, Low, Shl, Word
<1>2. Field(a, 51, 9) = Low(bw, 9)
  BY DEF IsWord, Field, BuildIDENUp, OffsetField, Flag, Low, Shl, Word
<1>3. (50 \in a) = (positive /\ magnitude # {})
  BY DEF IsWord, Field, BuildIDENUp, OffsetField, Flag, Low, Shl, Word
<1>4. Field(a, 42, 8) = Low(magnitude, 8)
  BY DEF IsWord, Field, BuildIDENUp, OffsetField, Flag, Low, Shl, Word
<1>5. Field(a, 32, 10) = Low(spacing, 10)
  BY DEF IsWord, Field, BuildIDENUp, OffsetField, Flag, Low, Shl, Word
<1>6. Field(a, 0, 32) = Low(base, 32)
  BY DEF IsWord, Field, BuildIDENUp, OffsetField, Flag, Low, Shl, Word
<1> HIDE DEF a
<1> QED BY <1>1, <1>2, <1>3, <1>4, <1>5, <1>6 DEF IdenUpdate, a

\* The synchronization broadcast carries date, time and local offset.
THEOREM SyncRead ==
  ASSUME NEW ltoff, NEW year, NEW month, NEW day, NEW hour, NEW min, NEW slots,
         ltoff \subseteq Word(6), IsWord(year), IsWord(month), IsWord(day), IsWord(hour),
         IsWord(min), IsWord(slots)
  PROVE  LET a == SyncArgs(ltoff, year, month, day, hour, min, slots)
             r == Synchronization(a)
         IN  /\ r.flags = {3}
             /\ r.valid
             /\ r.ltoff = ltoff
             /\ r.year = Low(year, 7)
             /\ r.month = Low(month, 4)
             /\ r.day = Low(day, 5)
             /\ r.hour = Low(hour, 5)
             /\ r.min = Low(min, 6)
             /\ r.slots = Low(slots, 13)
<1> DEFINE a == SyncArgs(ltoff, year, month, day, hour, min, slots)
<1> \A i : i \in ltoff => i \in Int /\ 0 <= i /\ i <= 5
  BY DEF Word
<1>1. Field(a, 47, 5) = {3}
  BY DEF IsWord, Field, SyncArgs, Low, Shl, Word
<1>2. (46 \in a) = TRUE
  BY DEF IsWord, Field, SyncArgs, Low, Shl, Word
<1>3. Field(a, 40, 6) = ltoff
  BY DEF IsWord, Field, SyncArgs, Low, Shl, Word
<1>4. Field(a, 33, 7) = Low(year, 7)
  BY DEF IsWord, Field, SyncArgs, Low, Shl, Word
<1>5. Field(a, 29, 4) = Low(month, 4)
  BY DEF IsWord, Field, SyncArgs, Low, Shl, Word
<1>6. Field(a, 24, 5) = Low(day, 5)
  BY DEF IsWord, Field, SyncArgs, Low, Shl, Word
<1>7. Field(a, 19, 5) = Low(hour, 5)
  BY DEF IsWord, Field, SyncArgs, Low, Shl, Word
<1>8. Field(a, 13, 6) = Low(min, 6)
  BY DEF IsWord, Field, SyncArgs, Low, Shl, Word
<1>9. Field(a, 0, 13) = Low(slots, 13)
  BY DEF IsWord, Field, SyncArgs, Low, Shl, Word
<1> HIDE DEF a
<1> QED BY <1>1, <1>2, <1>3, <1>4, <1>5, <1>6, <1>7, <1>8, <1>9 DEF Synchronization, a
=============================================================================
