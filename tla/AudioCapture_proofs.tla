-------------------------- MODULE AudioCapture_proofs --------------------------
(***************************************************************************)
(* Proofs about one source of audio from its device to the updates that    *)
(* it hands over, for any lengths of chunks, frames and packets, any       *)
(* formats and any predictor.                                              *)
(*                                                                         *)
(* The segmenter by itself: its buffers are bounded and every watermark    *)
(* is kept by what is emitted later.  The invariant says where each buffer *)
(* begins (BuffersHold) and with it the first sample still to come (Low).  *)
(*                                                                         *)
(* The source: what it hands over keeps the watermarks it handed over      *)
(* before, across formats, outages and dropped packets.  The invariant     *)
(* gives every packet of the queue the time it was captured at; the        *)
(* samples the segmenter counted are at most a packet ahead of that        *)
(* (CapturedAt), and the supervisor's delay before another format is       *)
(* longer than a packet.  That, and a device clock that keeps to the       *)
(* session's, is what the theorems assume (KeepsTime): the code waits for  *)
(* 250 ms, a packet of the device is one of its buffers of some 10 ms.     *)
(***************************************************************************)
EXTENDS AudioCapture, SequenceTheorems, FiniteSetTheorems, TLAPS

(* An option is a set of at most one element.                                *)
AtMostOne(S) == \A x, y \in S : x = y

-----------------------------------------------------------------------------
(* The segmenter.                                                            *)

(* An utterance that is open: its skew is the observer's.                    *)
Utterances == [start : Nat, samples : Nat, speech : Nat, trailing : Nat, skew : Int]

(* What is emitted.                                                          *)
Pieces == [start : Nat, end : Nat, skew : Int]

(* Samples are counted, and a frame that is full does not wait.              *)
VadTypes ==
  /\ pending \in Nat /\ pending < FrameSamples
  /\ clock \in Nat /\ pre_roll \in Nat /\ pre_roll_end \in Nat
  /\ active \in SUBSET Utterances
  /\ AtMostOne(active)
  /\ last_partial_end \in SUBSET Nat
  /\ outcome \in [utterances : Seq(Pieces), partial : SUBSET Pieces]

(* Where the samples that wait for a frame begin.                            *)
Cut == clock - pending

(* What waits and what is held back lies before the clock.                   *)
BuffersHold ==
  /\ pending <= clock
  /\ pending_start = IF pending = 0 THEN {} ELSE {Cut}
  /\ expected \in {{}, {clock}} /\ (expected = {} => pending = 0 /\ active = {} /\ pre_roll = 0)
  /\ pre_roll <= PreRollSamples
  /\ \A a \in active : /\ pre_roll = 0 /\ a.samples < MaxUtterance /\ a.trailing <= a.samples
                       /\ a.start = 0 \/ a.start + a.samples = Cut

(* Nothing that is still to come begins before this.                         *)
Low == IF active = {} THEN {Back(Cut, pre_roll)} ELSE {a.start : a \in active}

(* A watermark that was reported is kept by everything that comes next.      *)
VadInv ==
  /\ VadTypes /\ BuffersHold
  /\ reported \in SUBSET Nat /\ AtMostOne(reported) /\ \A w \in reported, low \in Low : w <= low

-----------------------------------------------------------------------------
(* A start that is held back by less than time has gone on moves on.         *)
LEMMA LaterBack ==
  ASSUME NEW t \in Nat, NEW m \in Nat, NEW n \in Nat, NEW k \in Nat, k <= m + n
  PROVE  Back(t, m) <= Back(t + n, k)
BY DEF Back

(* An utterance as long as what it holds begins no later than a part of it.  *)
LEMMA StartsBefore ==
  ASSUME NEW t \in Nat, NEW start \in Nat, NEW k \in Nat, NEW n \in Nat, n <= k,
         start = 0 \/ start + k = t
  PROVE  start <= Back(t, n)
BY DEF Back

(* Times do not become negative.                                             *)
LEMMA BackIsNat ==
  \A t, n \in Nat : Back(t, n) \in Nat /\ (n <= t => t - n \in Nat)
BY DEF Back

(* Held back by nothing is not held back.                                    *)
LEMMA NothingOff == \A t \in Nat : t - 0 = t /\ Back(t, 0) = t
BY DEF Back

(* What begins next is not behind the clock.                                 *)
LEMMA LowFacts ==
  ASSUME VadTypes, BuffersHold
  PROVE  /\ Cut \in Nat /\ Cut <= clock
         /\ \A low \in Low : low \in Nat /\ low <= clock
         /\ Frontier \subseteq Low /\ Frontier \in SUBSET Nat
<1>1. Cut \in Nat /\ Cut <= clock /\ pre_roll \in Nat
  BY DEF VadTypes, BuffersHold, Cut
<1>2. Back(Cut, pre_roll) \in Nat /\ Back(Cut, pre_roll) <= clock
  <2>1. PICK t \in Nat : t = Cut
    BY <1>1
  <2>2. Back(t, pre_roll) = (IF t > pre_roll THEN t - pre_roll ELSE 0)
    BY DEF Back
  <2>3. clock \in Nat
    BY DEF VadTypes
  <2>4. Back(t, pre_roll) \in Nat /\ Back(t, pre_roll) <= clock
    BY <1>1, <2>1, <2>2, <2>3
  <2> QED
    BY <2>1, <2>4
<1>3. \A a \in active : a.start \in Nat /\ a.start <= clock
  <2> SUFFICES ASSUME NEW a \in active PROVE a.start \in Nat /\ a.start <= clock
    OBVIOUS
  <2>1. a.start \in Nat /\ a.samples \in Nat /\ clock \in Nat
    BY DEF VadTypes, Utterances
  <2>2. a.start = 0 \/ a.start + a.samples = Cut
    BY DEF BuffersHold
  <2> QED
    BY <1>1, <2>1, <2>2
<1>4. \A low \in Low : low \in Nat /\ low <= clock
  BY <1>2, <1>3 DEF Low
<1>5. Frontier \subseteq Low
  <2>1. CASE active # {}
    BY <2>1 DEF Frontier, Low
  <2>2. CASE active = {}
    <3>1. \A t \in IF pending_start # {} THEN pending_start ELSE expected : t = Cut
      BY DEF BuffersHold, Cut, VadTypes
    <3> QED
      BY <2>2, <3>1 DEF Frontier, Low
  <2> QED
    BY <2>1, <2>2
<1> QED
  BY <1>1, <1>4, <1>5

(* The utterance that a flush ends, with the samples that wait.              *)
LEMMA FlushIs ==
  ASSUME VadTypes
  PROVE  /\ Flush \in Seq(Pieces)
         /\ \A i \in DOMAIN Flush : \E a \in active : Flush[i].start = a.start
<1>1. CASE active = {}
  BY <1>1 DEF Flush
<1>2. CASE active # {}
  <2>1. PICK a \in active : active = {a}
    BY <1>2 DEF VadTypes, AtMostOne, Utterances
  <2>2. SetToSeq(active)[1] = a
    <3>1. Cardinality(active) = 1
      BY <2>1, FS_Singleton
    <3>2. [i \in 1..1 |-> a] \in [1..1 -> active] /\ IsInjective([i \in 1..1 |-> a])
      BY <2>1 DEF IsInjective
    <3>3. SetToSeq(active) \in [1..1 -> active]
      BY <3>1, <3>2 DEF SetToSeq
    <3> QED
      BY <2>1, <3>3
  <2>3. PICK b : b = [a EXCEPT !.samples = @ + pending]
    OBVIOUS
  <2>4. Flush = Emit(b)
    BY <1>2, <2>2, <2>3 DEF Flush
  <2>5. Piece(b) \in Pieces /\ Piece(b).start = a.start
    BY <2>1, <2>3 DEF VadTypes, Piece, Pieces, Utterances
  <2>6. <<Piece(b)>> \in Seq(Pieces) /\ DOMAIN <<Piece(b)>> = {1} /\ <<Piece(b)>>[1] = Piece(b)
    BY <2>5
  <2> QED
    BY <2>1, <2>4, <2>5, <2>6 DEF Emit
<1> QED
  BY <1>1, <1>2

(* A flush: what is emitted began before, and what comes begins later.       *)
LEMMA ClearKeeps ==
  ASSUME VadTypes, BuffersHold, Clear, clock' \in Nat, clock' >= clock,
         VadAssumption
  PROVE  /\ VadTypes' /\ BuffersHold'
         /\ Low' = {clock'}
         /\ \A i \in DOMAIN outcome'.utterances : outcome'.utterances[i].start \in Low
<1>1. /\ outcome' = [utterances |-> Flush, partial |-> {}]
      /\ pending' = 0 /\ pending_start' = {} /\ expected' = {} /\ pre_roll' = 0
      /\ active' = {} /\ last_partial_end' = {} /\ UNCHANGED <<pre_roll_end, reported>>
  BY DEF Clear
<1>2. outcome' \in [utterances : Seq(Pieces), partial : SUBSET Pieces]
  BY <1>1, FlushIs
<1>3. FrameSamples \in Nat /\ FrameSamples > 0 /\ PreRollSamples \in Nat
  BY DEF VadAssumption
<1>4. VadTypes'
  BY <1>1, <1>2, <1>3 DEF VadTypes, AtMostOne, Utterances
<1>5. BuffersHold'
  BY <1>1, <1>3 DEF BuffersHold, Cut
<1>6. Low' = {clock'}
  <2>1. Cut' = clock'
    BY <1>1, NothingOff DEF Cut
  <2>2. Back(clock', 0) = clock'
    BY NothingOff
  <2> QED
    BY <1>1, <2>1, <2>2 DEF Low
<1>7. \A i \in DOMAIN outcome'.utterances : outcome'.utterances[i].start \in Low
  <2> SUFFICES ASSUME NEW i \in DOMAIN Flush PROVE Flush[i].start \in Low
    BY <1>1
  <2>1. PICK a \in active : Flush[i].start = a.start
    BY FlushIs
  <2> QED
    BY <2>1 DEF Low
<1> QED
  BY <1>4, <1>5, <1>6, <1>7

(* A frame begins where the samples that wait for it do.                     *)
LEMMA FrameStartIs ==
  ASSUME VadTypes, BuffersHold
  PROVE  FrameStart = {Cut}
<1>1. clock - 0 = clock
  BY NothingOff DEF VadTypes
<1>2. CASE pending = 0
  BY <1>1, <1>2 DEF FrameStart, Cut
<1>3. CASE pending # 0
  BY <1>3 DEF FrameStart, BuffersHold
<1> QED
  BY <1>2, <1>3

(* The utterance with the frame in it begins where nothing began before.     *)
LEMMA WithFrameFacts ==
  ASSUME VadAssumption, VadTypes, BuffersHold, NEW speech
  PROVE  /\ AtMostOne(WithFrame(speech)) /\ (active # {} => WithFrame(speech) # {})
         /\ \A a \in WithFrame(speech) :
              /\ a \in Utterances /\ a.trailing <= a.samples /\ Low = {a.start}
              /\ a.start = 0 \/ a.start + a.samples = Cut + FrameSamples
<1>1. FrameStart = {Cut} /\ Cut \in Nat /\ FrameSamples \in Nat
  BY FrameStartIs, LowFacts DEF VadAssumption
<1>2. CASE active # {}
  <2>1. PICK a \in active : active = {a}
    BY <1>2 DEF VadTypes, AtMostOne
  <2>2. WithFrame(speech) = {Extended(a, speech)}
    BY <1>2, <2>1 DEF WithFrame
  <2>3. PICK b : b = Extended(a, speech)
    OBVIOUS
  <2>4. /\ a \in Utterances /\ a.trailing <= a.samples
        /\ a.start = 0 \/ a.start + a.samples = Cut
    BY <2>1 DEF VadTypes, BuffersHold
  <2>5. /\ b \in Utterances /\ b.start = a.start /\ b.samples = a.samples + FrameSamples
        /\ b.trailing \in {0, a.trailing + FrameSamples}
    <3>0. /\ a.samples + FrameSamples \in Nat /\ a.speech + FrameSamples \in Nat
          /\ a.trailing + FrameSamples \in Nat /\ a.speech \in Nat /\ 0 \in Nat
      BY <1>1, <2>4 DEF Utterances
    <3>1. CASE speech
      <4>1. b = [a EXCEPT !.samples = a.samples + FrameSamples, !.speech = a.speech + FrameSamples,
                          !.trailing = 0]
        BY <2>3, <3>1 DEF Extended
      <4> QED
        BY <2>4, <3>0, <4>1, ZenonT(20) DEF Utterances
    <3>2. CASE ~speech
      <4>1. b = [a EXCEPT !.samples = a.samples + FrameSamples, !.speech = a.speech,
                          !.trailing = a.trailing + FrameSamples]
        BY <2>3, <3>2 DEF Extended
      <4> QED
        BY <2>4, <3>0, <4>1, ZenonT(20) DEF Utterances
    <3> QED
      BY <3>1, <3>2
  <2>6. a.start \in Nat /\ a.samples \in Nat /\ a.trailing \in Nat
    BY <2>4 DEF Utterances
  <2>7. b.trailing <= b.samples /\ (b.start = 0 \/ b.start + b.samples = Cut + FrameSamples)
    BY <1>1, <2>4, <2>5, <2>6
  <2>8. Low = {b.start}
    BY <2>1, <2>5 DEF Low
  <2> QED
    BY <2>2, <2>3, <2>5, <2>7, <2>8 DEF AtMostOne
<1>3. CASE active = {}
  <2>1. WithFrame(speech) \subseteq {Opened(Cut)}
    BY <1>1, <1>3 DEF WithFrame
  <2>2. pre_roll \in Nat /\ pre_roll_end \in Nat
    BY DEF VadTypes
  <2>3. PICK b : b = Opened(Cut)
    OBVIOUS
  <2>4. PICK n : n = Back(Cut, pre_roll)
    OBVIOUS
  <2>5. n = (IF Cut > pre_roll THEN Cut - pre_roll ELSE 0)
    BY <2>4 DEF Back
  <2>6. n \in Nat
    BY <1>1, <2>2, <2>5
  <2>7. b = [start |-> n, samples |-> pre_roll + FrameSamples, speech |-> FrameSamples, trailing |-> 0,
             skew |-> IF pre_roll = 0 THEN 0 ELSE Cut - pre_roll_end]
    BY <2>3, <2>4 DEF Opened
  <2>8. (IF pre_roll = 0 THEN 0 ELSE Cut - pre_roll_end) \in Int
    BY <1>1, <2>2
  <2>9. b \in Utterances /\ b.start = n /\ b.samples = pre_roll + FrameSamples /\ b.trailing = 0
    BY <1>1, <2>2, <2>6, <2>7, <2>8 DEF Utterances
  <2>10. b.trailing <= b.samples /\ (b.start = 0 \/ b.start + b.samples = Cut + FrameSamples)
    BY <1>1, <2>2, <2>5, <2>9
  <2>11. Low = {b.start}
    BY <1>3, <2>4, <2>9 DEF Low
  <2> QED
    BY <1>3, <2>1, <2>3, <2>9, <2>10, <2>11 DEF AtMostOne
<1> QED
  BY <1>2, <1>3

(* A call returns the utterances it ended and at most one partial.           *)
LEMMA ReturnFacts ==
  ASSUME active' \in SUBSET Utterances, NEW utterances \in Seq(Pieces), NEW previous \in SUBSET Nat,
         Return(utterances, previous)
  PROVE  /\ outcome' \in [utterances : Seq(Pieces), partial : SUBSET Pieces]
         /\ outcome'.utterances = utterances /\ last_partial_end' \in SUBSET Nat
<1>1. \A a \in Utterances : Piece(a) \in Pieces
  BY DEF Utterances, Pieces, Piece
<1>2. PICK shot \in SUBSET Pieces :
        /\ outcome' = [utterances |-> utterances, partial |-> shot]
        /\ last_partial_end' = IF shot = {} THEN previous ELSE {p.end : p \in shot}
  BY <1>1 DEF Return
<1>3. \A p \in shot : p.end \in Nat
  BY <1>2 DEF Pieces
<1> QED
  BY <1>2, <1>3

(* An utterance is emitted with the start it has, or not at all.             *)
LEMMA EmitFacts ==
  ASSUME NEW a \in Utterances
  PROVE  Emit(a) \in Seq(Pieces) /\ \A i \in DOMAIN Emit(a) : Emit(a)[i].start = a.start
<1>1. Piece(a) \in Pieces /\ Piece(a).start = a.start
  BY DEF Utterances, Pieces, Piece
<1>2. PICK p \in Pieces : p = Piece(a)
  BY <1>1
<1>3. <<p>> \in Seq(Pieces) /\ \A i \in DOMAIN <<p>> : <<p>>[i] = p
  OBVIOUS
<1>4. <<>> \in Seq(Pieces) /\ DOMAIN <<>> = {}
  OBVIOUS
<1> QED
  BY <1>1, <1>2, <1>3, <1>4 DEF Emit

(* What a whole frame does to the utterance and to what is held back.        *)
FrameEffect ==
  /\ active' \in SUBSET Utterances /\ AtMostOne(active')
  /\ \A a \in active' : /\ pre_roll' = 0 /\ a.samples < MaxUtterance /\ a.trailing <= a.samples
                        /\ a.start = 0 \/ a.start + a.samples = Cut + FrameSamples
  /\ pre_roll' \in Nat /\ pre_roll' <= PreRollSamples /\ pre_roll_end' \in Nat
  /\ outcome' \in [utterances : Seq(Pieces), partial : SUBSET Pieces]
  /\ last_partial_end' \in SUBSET Nat
  /\ \A i \in DOMAIN outcome'.utterances : outcome'.utterances[i].start \in Low
  /\ \A low \in Low : active' = {} => low <= Back(Cut + FrameSamples, pre_roll')
  /\ \A low \in Low, a \in active' : low = a.start

(* Silence, speech, a forced split and the end of an utterance all do that.  *)
LEMMA FrameFacts ==
  ASSUME VadAssumption, VadTypes, BuffersHold, NEW speech,
         Silence(Cut, speech) \/ Speak(speech) \/ Split(speech) \/ Trail(speech)
  PROVE  FrameEffect
<1>1. /\ FrameSamples \in Nat /\ PreRollSamples \in Nat /\ MaxUtterance \in Nat /\ TrailingSamples \in Nat
      /\ PreRollSamples + FrameSamples <= MaxUtterance
      /\ pre_roll \in Nat /\ pre_roll <= PreRollSamples /\ pre_roll_end \in Nat
      /\ last_partial_end \in SUBSET Nat /\ Cut \in Nat
  BY LowFacts DEF VadAssumption, VadTypes, BuffersHold
<1>2. active # {} => pre_roll = 0
  BY DEF BuffersHold
<1>3. /\ <<>> \in Seq(Pieces) /\ {} \in SUBSET Nat
  OBVIOUS
<1>4. CASE Silence(Cut, speech)
  <2>1. /\ active = {} /\ active' = {} /\ Return(<<>>, last_partial_end) /\ pre_roll_end' = Cut + FrameSamples
        /\ pre_roll' = IF pre_roll + FrameSamples > PreRollSamples THEN PreRollSamples
                                                                    ELSE pre_roll + FrameSamples
    BY <1>4, WithFrameFacts DEF Silence
  <2>2. /\ outcome' \in [utterances : Seq(Pieces), partial : SUBSET Pieces]
        /\ outcome'.utterances = <<>> /\ last_partial_end' \in SUBSET Nat
    BY <1>1, <1>3, <2>1, ReturnFacts
  <2>3. pre_roll' \in Nat /\ pre_roll' <= PreRollSamples /\ pre_roll' <= pre_roll + FrameSamples
        /\ pre_roll_end' \in Nat
    BY <1>1, <2>1
  <2>4. Back(Cut, pre_roll) <= Back(Cut + FrameSamples, pre_roll')
    BY <1>1, <2>3, LaterBack
  <2> QED
    BY <2>1, <2>2, <2>3, <2>4 DEF FrameEffect, AtMostOne, Low
<1>5. CASE Speak(speech)
  <2>1. /\ active' = WithFrame(speech) /\ active' # {} /\ Return(<<>>, last_partial_end) /\ UNCHANGED pre_roll_end
        /\ pre_roll' = 0 /\ \A a \in WithFrame(speech) : ~Forced(a)
    BY <1>2, <1>5 DEF Speak
  <2>2. /\ AtMostOne(active')
        /\ \A a \in active' :
              /\ a \in Utterances /\ a.trailing <= a.samples /\ Low = {a.start}
              /\ a.start = 0 \/ a.start + a.samples = Cut + FrameSamples
    BY <2>1, WithFrameFacts
  <2>3. /\ outcome' \in [utterances : Seq(Pieces), partial : SUBSET Pieces]
        /\ outcome'.utterances = <<>> /\ last_partial_end' \in SUBSET Nat
    BY <1>1, <1>3, <2>1, <2>2, ReturnFacts
  <2>4. \A a \in active' : a.samples < MaxUtterance
    <3> SUFFICES ASSUME NEW a \in active' PROVE a.samples < MaxUtterance
      OBVIOUS
    <3>1. a.samples \in Nat /\ ~(a.samples >= MaxUtterance)
      BY <2>1, <2>2 DEF Utterances, Forced
    <3> QED
      BY <1>1, <3>1
  <2>5. pre_roll' \in Nat /\ pre_roll' <= PreRollSamples /\ pre_roll_end' \in Nat
    BY <1>1, <2>1
  <2> QED
    BY <2>1, <2>2, <2>3, <2>4, <2>5 DEF FrameEffect
<1>6. ASSUME NEW a \in WithFrame(speech), active' = {}, NEW b \in Utterances, b.start = a.start,
             Return(Emit(b), {}), pre_roll' \in Nat, pre_roll' <= PreRollSamples, pre_roll_end' \in Nat,
             pre_roll' <= a.samples
      PROVE  FrameEffect
  <2>1. /\ a \in Utterances /\ Low = {a.start} /\ a.start \in Nat /\ a.samples \in Nat
        /\ a.start = 0 \/ a.start + a.samples = Cut + FrameSamples
    BY <1>6, WithFrameFacts DEF Utterances
  <2>2. Emit(b) \in Seq(Pieces) /\ \A i \in DOMAIN Emit(b) : Emit(b)[i].start = a.start
    BY <1>6, EmitFacts
  <2>3. active' \in SUBSET Utterances
    BY <1>6
  <2>4. /\ outcome' \in [utterances : Seq(Pieces), partial : SUBSET Pieces]
        /\ outcome'.utterances = Emit(b) /\ last_partial_end' \in SUBSET Nat
    BY <1>3, <1>6, <2>2, <2>3, ReturnFacts
  <2>5. a.start <= Back(Cut + FrameSamples, pre_roll')
    <3>1. pre_roll' \in Nat /\ pre_roll' <= a.samples /\ Cut + FrameSamples \in Nat
      BY <1>1, <1>6
    <3> QED
      BY <2>1, <3>1, StartsBefore
  <2> QED
    BY <1>6, <2>1, <2>2, <2>3, <2>4, <2>5 DEF FrameEffect, AtMostOne
<1>7. CASE Split(speech)
  <2>1. PICK a \in WithFrame(speech) :
          /\ Forced(a) /\ active' = {} /\ pre_roll' = PreRollSamples /\ pre_roll_end' = a.start + MaxUtterance
          /\ Return(Emit([a EXCEPT !.samples = MaxUtterance]), {})
    BY <1>7 DEF Split
  <2>2. a \in Utterances /\ a.samples >= MaxUtterance /\ a.samples \in Nat /\ a.start \in Nat
    BY <2>1, WithFrameFacts DEF Forced, Utterances
  <2>3. PICK b : b = [a EXCEPT !.samples = MaxUtterance]
    OBVIOUS
  <2>4. b \in Utterances /\ b.start = a.start
    BY <1>1, <2>2, <2>3 DEF Utterances
  <2>5. pre_roll' \in Nat /\ pre_roll' <= PreRollSamples /\ pre_roll_end' \in Nat /\ pre_roll' <= a.samples
    BY <1>1, <2>1, <2>2
  <2>6. Return(Emit(b), {})
    BY <2>1, <2>3
  <2> QED
    BY <1>6, <2>1, <2>4, <2>5, <2>6
<1>8. CASE Trail(speech)
  <2>1. PICK a \in WithFrame(speech) :
          /\ Trailed(a) /\ active' = {} /\ pre_roll' = (IF active = {} THEN 0 ELSE pre_roll)
          /\ UNCHANGED pre_roll_end
          /\ Return(Emit([a EXCEPT !.samples = @ - (a.trailing - TrailingSamples)]), {})
    BY <1>8 DEF Trail
  <2>2. /\ a \in Utterances /\ a.trailing >= TrailingSamples /\ a.trailing <= a.samples
        /\ a.samples \in Nat /\ a.trailing \in Nat
    BY <2>1, WithFrameFacts DEF Trailed, Utterances
  <2>3. PICK b : b = [a EXCEPT !.samples = a.samples - (a.trailing - TrailingSamples)]
    OBVIOUS
  <2>4. b \in Utterances /\ b.start = a.start
    <3>1. a.samples - (a.trailing - TrailingSamples) \in Nat
      BY <1>1, <2>2
    <3> QED
      BY <2>2, <2>3, <3>1 DEF Utterances
  <2>5. pre_roll' = 0
    BY <1>2, <2>1
  <2>6. pre_roll' \in Nat /\ pre_roll' <= PreRollSamples /\ pre_roll_end' \in Nat /\ pre_roll' <= a.samples
    BY <1>1, <2>1, <2>2, <2>5
  <2>7. Return(Emit(b), {})
    BY <2>1, <2>3
  <2> QED
    BY <1>6, <2>1, <2>4, <2>6, <2>7
<1> QED
  BY <1>4, <1>5, <1>7, <1>8

(* A chunk: the frontier moves on, and what is emitted began at it.          *)
LEMMA PushKeeps ==
  ASSUME VadAssumption, VadTypes, BuffersHold, NEW speech, Push(speech)
  PROVE  /\ VadTypes' /\ BuffersHold'
         /\ \A low \in Low, later \in Low' : low <= later
         /\ \A i \in DOMAIN outcome'.utterances : outcome'.utterances[i].start \in Low
<1>1. /\ FrameSamples \in Nat /\ ChunkSamples \in Nat /\ ChunkSamples > 0 /\ ChunkSamples <= FrameSamples
      /\ clock \in Nat /\ pending \in Nat /\ pending < FrameSamples /\ pending <= clock /\ Cut = clock - pending
      /\ Cut \in Nat /\ FrameStart = {Cut}
      /\ \A low \in Low : low \in Nat
  BY LowFacts, FrameStartIs DEF VadAssumption, VadTypes, BuffersHold, Cut
<1>2. clock' = clock + ChunkSamples /\ expected' = {clock + ChunkSamples}
  BY DEF Push
<1>3. CASE CompletesFrame
  <2>1. /\ pending' = pending + ChunkSamples - FrameSamples
        /\ pending_start' = IF pending' = 0 THEN {} ELSE {Cut + FrameSamples}
        /\ Silence(Cut, speech) \/ Speak(speech) \/ Split(speech) \/ Trail(speech)
    BY <1>1, <1>3 DEF Push, Frame
  <2>2. pending' \in Nat /\ pending' < FrameSamples /\ clock' \in Nat /\ pending' <= clock'
    BY <1>1, <1>2, <1>3, <2>1 DEF CompletesFrame
  <2>3. Cut' = Cut + FrameSamples
    <3>1. clock' - pending' = Cut + FrameSamples
      BY <1>1, <1>2, <2>1
    <3> QED
      BY <3>1 DEF Cut
  <2>4. FrameEffect
    BY <2>1, FrameFacts
  <2>5. VadTypes'
    BY <2>2, <2>4 DEF FrameEffect, VadTypes
  <2>6. BuffersHold'
    BY <1>2, <2>1, <2>2, <2>3, <2>4 DEF FrameEffect, BuffersHold
  <2>7. \A low \in Low, later \in Low' : low <= later
    <3> SUFFICES ASSUME NEW low \in Low, NEW later \in Low' PROVE low <= later
      OBVIOUS
    <3>1. CASE active' = {}
      BY <2>3, <2>4, <3>1 DEF FrameEffect, Low
    <3>2. CASE active' # {}
      <4>1. PICK a \in active' : later = a.start
        BY <3>2 DEF Low
      <4>2. low = a.start
        BY <2>4, <4>1 DEF FrameEffect
      <4>3. low \in Nat
        BY <1>1
      <4> QED
        BY <4>1, <4>2, <4>3
    <3> QED
      BY <3>1, <3>2
  <2> QED
    BY <2>4, <2>5, <2>6, <2>7 DEF FrameEffect
<1>4. CASE ~CompletesFrame
  <2>1. /\ pending' = pending + ChunkSamples /\ pending_start' = {Cut} /\ active' = active
        /\ Return(<<>>, last_partial_end) /\ UNCHANGED <<pre_roll, pre_roll_end>>
    BY <1>1, <1>4 DEF Push, Collect
  <2>2. /\ active \in SUBSET Utterances /\ last_partial_end \in SUBSET Nat /\ <<>> \in Seq(Pieces)
    BY DEF VadTypes
  <2>3. /\ outcome' \in [utterances : Seq(Pieces), partial : SUBSET Pieces]
        /\ outcome'.utterances = <<>> /\ last_partial_end' \in SUBSET Nat
    BY <2>1, <2>2, ReturnFacts
  <2>4. /\ pending' \in Nat /\ pending' < FrameSamples /\ clock' \in Nat /\ pending' <= clock' /\ pending' # 0
    BY <1>1, <1>2, <1>4, <2>1 DEF CompletesFrame
  <2>5. Cut' = Cut
    <3>1. clock' - pending' = clock - pending
      BY <1>1, <1>2, <2>1
    <3> QED
      BY <3>1 DEF Cut
  <2>6. VadTypes'
    BY <2>1, <2>3, <2>4 DEF VadTypes
  <2>7. BuffersHold'
    BY <1>2, <2>1, <2>4, <2>5 DEF BuffersHold
  <2>8. Low' = Low
    BY <2>1, <2>5 DEF Low
  <2>9. \A low, later \in Low : low = later
    BY DEF Low, VadTypes, AtMostOne
  <2>10. \A low \in Low, later \in Low' : low <= later
    BY <1>1, <2>8, <2>9
  <2> QED
    BY <2>3, <2>6, <2>7, <2>10
<1> QED
  BY <1>3, <1>4

(* What begins next begins at a time, after a step as before it.             *)
LEMMA LaterIsNat ==
  ASSUME VadTypes', BuffersHold'
  PROVE  \A later \in Low' : later \in Nat
<1>1. CASE active' = {}
  <2>1. pending' \in Nat /\ clock' \in Nat /\ pending' <= clock' /\ pre_roll' \in Nat
    BY DEF VadTypes, BuffersHold
  <2>2. clock' - pending' \in Nat
    BY <2>1, BackIsNat
  <2>3. Back(clock' - pending', pre_roll') \in Nat
    BY <2>1, <2>2, BackIsNat
  <2> QED
    BY <1>1, <2>3 DEF Low, Cut
<1>2. CASE active' # {}
  BY <1>2 DEF Low, VadTypes, Utterances
<1> QED
  BY <1>1, <1>2

(* A watermark says where the next utterance may begin.                      *)
LEMMA WatermarkFacts ==
  ASSUME VadTypes', BuffersHold', reported' = Watermark
  PROVE  reported' \subseteq Low' /\ AtMostOne(reported')
<1>1. \A t \in (IF pending_start' # {} THEN pending_start' ELSE expected') : t = Cut'
  <2>1. CASE pending' = 0
    <3>1. clock' - 0 = clock'
      BY NothingOff DEF VadTypes
    <3> QED
      BY <2>1, <3>1 DEF BuffersHold, Cut
  <2>2. CASE pending' # 0
    BY <2>2 DEF BuffersHold
  <2> QED
    BY <2>1, <2>2
<1>2. Frontier' \subseteq Low'
  <2>1. CASE active' # {}
    BY <2>1 DEF Frontier, Low
  <2>2. CASE active' = {}
    BY <1>1, <2>2 DEF Frontier, Low
  <2> QED
    BY <2>1, <2>2
<1>3. AtMostOne(Low')
  BY DEF Low, VadTypes, AtMostOne
<1> QED
  BY <1>2, <1>3 DEF Watermark, AtMostOne

(* The segmenter begins with its invariant.                                  *)
LEMMA VadInitHolds == VadInit => VadInv
<1> SUFFICES ASSUME VadInit PROVE VadInv
  OBVIOUS
<1>1. FrameSamples \in Nat /\ FrameSamples > 0 /\ PreRollSamples \in Nat
  BY VadAssumption
<1>2. /\ pending = 0 /\ pending_start = {} /\ expected = {} /\ pre_roll = 0 /\ pre_roll_end = 0 /\ active = {}
      /\ last_partial_end = {} /\ outcome = [utterances |-> <<>>, partial |-> {}] /\ clock = 0 /\ reported = {}
  BY DEF VadInit
<1>3. VadTypes
  <2>1. <<>> \in Seq(Pieces) /\ {} \in SUBSET Pieces
    OBVIOUS
  <2>2. outcome \in [utterances : Seq(Pieces), partial : SUBSET Pieces]
    BY <1>2, <2>1
  <2> QED
    BY <1>1, <1>2, <2>2 DEF VadTypes, AtMostOne
<1>4. BuffersHold
  BY <1>1, <1>2 DEF BuffersHold
<1> QED
  BY <1>2, <1>3, <1>4 DEF VadInv, AtMostOne

(* What was reported is before all that comes, and stays so.                 *)
LEMMA ReportedStays ==
  ASSUME VadInv, VadTypes', BuffersHold', reported' = reported,
         \A low \in Low, later \in Low' : low <= later
  PROVE  VadInv'
<1>1. PICK low \in Low : low \in Nat
  <2>1. \A low \in Low : low \in Nat
    BY LowFacts DEF VadInv
  <2>2. Low # {}
    BY DEF Low
  <2> QED
    BY <2>1, <2>2
<1>2. ASSUME NEW w \in reported', NEW later \in Low' PROVE w <= later
  <2>1. w \in Nat /\ w <= low /\ low <= later
    BY <1>1, <1>2 DEF VadInv
  <2>2. later \in Nat
    BY <1>2, LaterIsNat
  <2> QED
    BY <1>1, <2>1, <2>2
<1> QED
  BY <1>2 DEF VadInv

(* The segmenter's invariant speaks of its own variables only.               *)
LEMMA VadSame ==
  ASSUME VadInv, UNCHANGED vadVars
  PROVE  VadInv' /\ Low' = Low
BY DEF vadVars, VadInv, VadTypes, BuffersHold, Cut, Low

(* Every call keeps it, emits nothing behind a watermark that was reported,  *)
(* and reports none behind it.                                               *)
LEMMA VadNextHolds ==
  ASSUME VadInv, [VadNext]_vadVars
  PROVE  /\ VadInv'
         /\ VadNext => \A w \in reported :
                        /\ \A i \in DOMAIN outcome'.utterances : outcome'.utterances[i].start >= w
                        /\ \A v \in reported' : w <= v
<1>1. /\ VadTypes /\ BuffersHold /\ reported \in SUBSET Nat /\ AtMostOne(reported)
      /\ \A w \in reported, low \in Low : w <= low
      /\ \A low \in Low : low \in Nat
  BY LowFacts DEF VadInv
<1>2. ASSUME \A i \in DOMAIN outcome'.utterances : outcome'.utterances[i].start \in Low
      PROVE  \A w \in reported : \A i \in DOMAIN outcome'.utterances : outcome'.utterances[i].start >= w
  <2> SUFFICES ASSUME NEW w \in reported, NEW low \in Low PROVE low >= w
    BY <1>2
  <2>1. w \in Nat /\ low \in Nat /\ w <= low
    BY <1>1
  <2> QED
    BY <2>1
<1>3. ASSUME NEW speech, Push(speech)
      PROVE  VadInv' /\ \A w \in reported :
                          /\ \A i \in DOMAIN outcome'.utterances : outcome'.utterances[i].start >= w
                          /\ \A v \in reported' : w <= v
  <2>1. /\ VadTypes' /\ BuffersHold' /\ \A low \in Low, later \in Low' : low <= later
        /\ \A i \in DOMAIN outcome'.utterances : outcome'.utterances[i].start \in Low
    BY <1>1, <1>3, PushKeeps, VadAssumption
  <2>2. reported' = Watermark
    BY <1>3 DEF Push
  <2>3. reported' \subseteq Low' /\ AtMostOne(reported')
    BY <2>1, <2>2, WatermarkFacts
  <2>4. \A later \in Low' : later \in Nat
    BY <2>1, LaterIsNat
  <2>5. \A v, later \in Low' : v <= later
    <3>1. \A v, later \in Low' : v = later
      BY <2>1 DEF Low, VadTypes, AtMostOne
    <3> QED
      BY <2>4, <3>1
  <2>6. VadInv'
    BY <2>1, <2>3, <2>4, <2>5 DEF VadInv
  <2>7. \A w \in reported, v \in Low' : w <= v
    <3> SUFFICES ASSUME NEW w \in reported, NEW v \in Low' PROVE w <= v
      OBVIOUS
    <3>1. PICK low \in Low : TRUE
      BY DEF Low
    <3>2. w \in Nat /\ low \in Nat /\ v \in Nat /\ w <= low /\ low <= v
      BY <1>1, <2>1, <2>4, <3>1
    <3> QED
      BY <3>2
  <2> QED
    BY <1>2, <2>1, <2>3, <2>6, <2>7
<1>4. ASSUME Clear, clock' \in Nat, clock' >= clock
      PROVE  VadInv' /\ \A w \in reported :
                          /\ \A i \in DOMAIN outcome'.utterances : outcome'.utterances[i].start >= w
                          /\ \A v \in reported' : w <= v
  <2>1. /\ VadTypes' /\ BuffersHold' /\ Low' = {clock'}
        /\ \A i \in DOMAIN outcome'.utterances : outcome'.utterances[i].start \in Low
    BY <1>1, <1>4, ClearKeeps, VadAssumption
  <2>2. reported' = reported
    BY <1>4 DEF Clear
  <2>3. \A low \in Low, later \in Low' : low <= later
    <3> SUFFICES ASSUME NEW low \in Low PROVE low <= clock'
      BY <2>1
    <3>1. low \in Nat /\ low <= clock /\ clock \in Nat
      BY <1>1, LowFacts DEF VadTypes
    <3> QED
      BY <1>4, <3>1
  <2>4. VadInv'
    BY <2>1, <2>2, <2>3, ReportedStays
  <2>5. \A w, v \in reported : w <= v
    BY <1>1 DEF AtMostOne
  <2> QED
    BY <1>2, <2>1, <2>2, <2>4, <2>5
<1>5. CASE Finish
  <2>1. Clear /\ clock' = clock /\ clock \in Nat
    BY <1>1, <1>5 DEF Finish, VadTypes
  <2> QED
    BY <1>4, <2>1
<1>6. ASSUME NEW jump \in Jumps, Reset(jump)
      PROVE  VadInv' /\ \A w \in reported :
                          /\ \A i \in DOMAIN outcome'.utterances : outcome'.utterances[i].start >= w
                          /\ \A v \in reported' : w <= v
  <2>1. Clear /\ clock' = clock + jump /\ clock \in Nat /\ jump \in Nat
    BY <1>1, <1>6, VadAssumption DEF Reset, VadTypes
  <2> QED
    BY <1>4, <2>1
<1>7. CASE UNCHANGED vadVars
  <2>1. VadInv'
    BY <1>7, VadSame
  <2>2. VadNext => \A w \in reported :
                        /\ \A i \in DOMAIN outcome'.utterances : outcome'.utterances[i].start >= w
                        /\ \A v \in reported' : w <= v
    BY <1>3, <1>5, <1>6 DEF VadNext
  <2> QED
    BY <2>1, <2>2
<1>8. CASE VadNext
  BY <1>3, <1>5, <1>6, <1>8 DEF VadNext
<1> QED
  BY <1>7, <1>8

(* The segmenter by itself, for any timeline that moves forward.             *)
THEOREM SegmenterInvariant == VadSpec => []VadInv
<1>1. VadInv /\ [VadNext]_vadVars => VadInv'
  BY VadNextHolds
<1> QED
  BY <1>1, VadInitHolds, PTL DEF VadSpec

(* Whatever is emitted later begins no earlier than a reported watermark,    *)
(* and no watermark goes back.                                               *)
THEOREM WatermarksAreKept == VadSpec => WatermarkKept
<1>1. VadInv /\ [VadNext]_vadVars =>
        [\A w \in reported :
           /\ \A i \in DOMAIN outcome'.utterances : outcome'.utterances[i].start >= w
           /\ \A v \in reported' : w <= v]_vadVars
  BY VadNextHolds
<1> QED
  BY <1>1, SegmenterInvariant, PTL DEF VadSpec, WatermarkKept

(* The buffers stay within MAX_VAD_BUFFERED_SAMPLES.                         *)
THEOREM BuffersAreBounded == VadSpec => []BufferedBounded
<1>1. VadInv => BufferedBounded
  <2> SUFFICES ASSUME VadInv, NEW a \in active
               PROVE  pending + pre_roll + a.samples <= MaxUtterance + PreRollSamples + FrameSamples - 1
    BY DEF BufferedBounded
  <2>1. /\ pending \in Nat /\ pending < FrameSamples /\ pre_roll = 0 /\ a.samples \in Nat
        /\ a.samples < MaxUtterance /\ MaxUtterance \in Nat /\ FrameSamples \in Nat /\ PreRollSamples \in Nat
    BY VadAssumption DEF VadInv, VadTypes, BuffersHold, Utterances
  <2> QED
    BY <2>1
<1> QED
  BY <1>1, SegmenterInvariant, PTL

-----------------------------------------------------------------------------
(* The source.                                                               *)

(* What waits in the queue.                                                  *)
Packets == [format : Formats, start : Nat]

(* Types, and what the phases have in common.                                *)
CaptureTypes ==
  /\ now \in Nat /\ retry \in [delay : Nat, left : Nat] /\ retry.delay >= RetryDelay
  /\ device \in SUBSET Formats /\ AtMostOne(device) /\ (device # {} => supervisor = "running")
  /\ packets \in Seq(Packets)
  /\ format \in SUBSET Formats /\ AtMostOne(format) /\ held \in Nat
  /\ gathered \in [utterances : Seq(Pieces), partial : SUBSET Pieces]
  /\ heard \in SUBSET Nat
  /\ phase = "pushing" => handed = {} /\ format # {}

(* Audio of format f that is over at time e, as seen by the device: one of   *)
(* another format is opened only after a delay.                              *)
Passed(e, f) ==
  /\ e <= now
  /\ supervisor = "running" /\ device # {f} =>
       e + RetryDelay <= now + IF device = {} THEN retry.left ELSE 0

(* ... and as seen by audio of format g that begins at time t.               *)
Precedes(e, f, t, g) == e <= t /\ (f # g => e + RetryDelay <= t)

(* When the packets of the queue were captured.  What the pipeline counted   *)
(* is ahead of that by the length of a packet at most, because the date it   *)
(* began with may be the end of its packet.                                  *)
CapturedAt(t) ==
  /\ \A i \in DOMAIN packets :
       /\ packets[i].start \in {t[i], t[i] + PacketSamples}
       /\ Passed(t[i] + PacketSamples, packets[i].format)
       /\ \A f \in format : Precedes(clock + held - PacketSamples, f, t[i], packets[i].format)
  /\ \A i, j \in DOMAIN packets :
       i < j => Precedes(t[i] + PacketSamples, packets[i].format, t[j], packets[j].format)
  /\ \A f \in format : Passed(clock + held - PacketSamples, f)

(* What was handed over is behind everything that is still to be.            *)
HeardFirst ==
  \A w \in heard :
    /\ \A low \in Low : w <= low
    /\ \A i \in DOMAIN gathered.utterances : w <= gathered.utterances[i].start

(* A source without a format has handed over nothing; what it has handed     *)
(* over, gathered and queued is in the order of its capture.                 *)
CaptureInv ==
  /\ CaptureTypes
  /\ VadInv
  /\ format = {} => pending = 0 /\ expected = {} /\ heard = {} /\ reported = {}
  /\ \E t \in [DOMAIN packets -> Nat] : CapturedAt(t)
  /\ HeardFirst

(* Devices keep to the session clock, and the supervisor waits longer        *)
(* between two attempts than a packet lasts.                                 *)
KeepsTime == Drifts \subseteq {0} /\ PacketSamples <= RetryDelay

(* How long it is until the device may be opened again.                      *)
Spare == IF device = {} THEN retry.left ELSE 0

(* What is handed over keeps the watermarks that were heard.                 *)
InOrder ==
  \A update \in handed', w \in heard :
    /\ \A i \in DOMAIN update.utterances : update.utterances[i].start >= w
    /\ \A v \in update.watermark : v >= w

(* A source begins with its invariant.                                       *)
LEMMA CaptureInitHolds == CaptureInit => CaptureInv
<1> SUFFICES ASSUME CaptureInit PROVE CaptureInv
  OBVIOUS
<1>1. VadInv
  BY VadInitHolds DEF CaptureInit
<1>2. /\ now = 0 /\ device = {} /\ retry = [delay |-> RetryDelay, left |-> 0] /\ packets = <<>>
      /\ phase = "idle" /\ format = {} /\ held = 0 /\ gathered = Nothing /\ heard = {}
      /\ pending = 0 /\ expected = {} /\ reported = {}
  BY DEF CaptureInit, VadInit
<1>3. RetryDelay \in Nat /\ RetryDelay >= RetryDelay
  BY CaptureAssumption
<1>4. /\ <<>> \in Seq(Pieces) /\ {} \in SUBSET Pieces /\ <<>> \in Seq(Packets) /\ DOMAIN <<>> = {}
      /\ {} \in SUBSET Formats /\ {} \in SUBSET Nat
  OBVIOUS
<1>5. CaptureTypes
  <2>1. gathered \in [utterances : Seq(Pieces), partial : SUBSET Pieces]
    BY <1>2, <1>4 DEF Nothing
  <2>2. retry \in [delay : Nat, left : Nat] /\ retry.delay >= RetryDelay
    BY <1>2, <1>3
  <2> QED
    BY <1>2, <1>4, <2>1, <2>2 DEF CaptureTypes, AtMostOne
<1>6. \E t \in [DOMAIN packets -> Nat] : CapturedAt(t)
  <2>1. [i \in DOMAIN packets |-> 0] \in [DOMAIN packets -> Nat]
    OBVIOUS
  <2>2. CapturedAt([i \in DOMAIN packets |-> 0])
    BY <1>2, <1>4 DEF CapturedAt
  <2> QED
    BY <2>1, <2>2
<1>7. HeardFirst
  BY <1>2 DEF HeardFirst
<1> QED
  BY <1>1, <1>2, <1>5, <1>6, <1>7 DEF CaptureInv

-----------------------------------------------------------------------------
(* The device and its supervisor.                                            *)

(* Audio that was over stays so as long as a device of another format has    *)
(* to wait for the rest of the delay.                                        *)
DeviceMoves ==
  /\ now' \in Nat /\ now <= now' /\ now \in Nat
  /\ \A f : supervisor' = "running" /\ device' # {f} =>
       \/ supervisor = "running" /\ device # {f} /\ now + Spare <= now' + Spare'
       \/ now + RetryDelay <= now' + Spare'

(* The order of times is transitive.                                         *)
LEMMA AtMostOrder == \A l, m, n \in Int : l <= m /\ m <= n => l <= n
OBVIOUS

(* Taking the first packet leaves the others in their order.                 *)
LEMMA TailFacts ==
  ASSUME NEW S, NEW s \in Seq(S), s # <<>>
  PROVE  /\ Len(s) \in Nat /\ Len(s) > 0 /\ DOMAIN s = 1..Len(s)
         /\ Tail(s) \in Seq(S) /\ DOMAIN Tail(s) = 1..(Len(s) - 1)
         /\ \A i \in DOMAIN Tail(s) : Tail(s)[i] = s[i + 1] /\ i + 1 \in DOMAIN s
         /\ Head(s) = s[1] /\ 1 \in DOMAIN s /\ s[1] \in S
<1>1. Len(s) \in Nat /\ Len(s) # 0 /\ DOMAIN s = 1..Len(s)
  BY LenProperties, EmptySeq
<1>2. /\ Tail(s) \in Seq(S) /\ Len(Tail(s)) = Len(s) - 1
      /\ \A i \in 1..Len(Tail(s)) : Tail(s)[i] = s[i + 1]
  BY HeadTailProperties
<1>3. DOMAIN Tail(s) = 1..Len(Tail(s))
  BY <1>2, LenProperties
<1>4. 1 \in 1..Len(s) /\ \A i \in 1..(Len(s) - 1) : i + 1 \in 1..Len(s)
  BY <1>1
<1>5. s[1] \in S
  BY <1>4, ElementOfSeq
<1> QED
  BY <1>1, <1>2, <1>3, <1>4, <1>5, HeadTailProperties

(* What is gathered comes from one of the two parts.                         *)
LEMMA ConcatElements ==
  ASSUME NEW S, NEW first \in Seq(S), NEW second \in Seq(S), NEW i \in DOMAIN (first \o second)
  PROVE  \/ i \in DOMAIN first /\ (first \o second)[i] = first[i]
         \/ \E k \in DOMAIN second : (first \o second)[i] = second[k]
<1>1. /\ Len(first) \in Nat /\ Len(second) \in Nat /\ DOMAIN first = 1..Len(first) /\ DOMAIN second = 1..Len(second)
  BY LenProperties
<1>2. /\ first \o second \in Seq(S) /\ Len(first \o second) = Len(first) + Len(second)
      /\ \A j \in 1..(Len(first) + Len(second)) :
           (first \o second)[j] = IF j <= Len(first) THEN first[j] ELSE second[j - Len(first)]
  BY ConcatProperties
<1>3. DOMAIN (first \o second) = 1..(Len(first) + Len(second))
  BY <1>2, LenProperties
<1>4. CASE i <= Len(first)
  BY <1>1, <1>2, <1>3, <1>4
<1>5. CASE ~(i <= Len(first))
  <2>1. i - Len(first) \in DOMAIN second /\ (first \o second)[i] = second[i - Len(first)]
    BY <1>1, <1>2, <1>3, <1>5
  <2> QED
    BY <2>1
<1> QED
  BY <1>4, <1>5

(* Audio that was over at a time stays over while the device moves on.       *)
LEMMA PassedStays ==
  ASSUME NEW e \in Int, NEW f, Passed(e, f), DeviceMoves, Spare \in Nat, Spare' \in Nat
  PROVE  Passed(e, f)'
<1>1. now' \in Nat /\ now \in Nat /\ now <= now' /\ RetryDelay \in Nat /\ e <= now
  BY CaptureAssumption DEF DeviceMoves, Passed
<1>2. e <= now'
  BY <1>1
<1>3. ASSUME supervisor' = "running", device' # {f} PROVE e + RetryDelay <= now' + Spare'
  <2>0. now + Spare \in Nat /\ now' + Spare' \in Nat /\ e + RetryDelay \in Int /\ now + RetryDelay \in Nat
    <3>1. \A m, n \in Nat : m + n \in Nat
      OBVIOUS
    <3>2. \A m \in Int, n \in Nat : m + n \in Int
      OBVIOUS
    <3> QED
      BY <1>1, <3>1, <3>2
  <2>1. CASE supervisor = "running" /\ device # {f} /\ now + Spare <= now' + Spare'
    <3>1. e + RetryDelay <= now + Spare
      BY <2>1 DEF Passed, Spare
    <3> QED
      BY <2>0, <2>1, <3>1, AtMostOrder
  <2>2. CASE now + RetryDelay <= now' + Spare'
    <3>1. e + RetryDelay <= now + RetryDelay
      BY <1>1
    <3> QED
      BY <2>0, <2>2, <3>1, AtMostOrder
  <2> QED
    BY <1>3, <2>1, <2>2 DEF DeviceMoves
<1> QED
  BY <1>2, <1>3 DEF Passed, Spare

(* The wait for the device is a time.                                        *)
LEMMA SpareIsNat ==
  (CaptureTypes => Spare \in Nat) /\ (CaptureTypes' => Spare' \in Nat)
BY DEF CaptureTypes, Spare

(* What the supervisor does beside the processing thread.                    *)
LEMMA BesideKeeps ==
  ASSUME CaptureInv, Beside, CaptureTypes', \E t \in [DOMAIN packets' -> Nat] : CapturedAt(t)'
  PROVE  CaptureInv' /\ InOrder
<1>1. /\ UNCHANGED vadVars /\ handed' = {}
      /\ UNCHANGED <<phase, format, held, gathered, last_watermark, heard, owed, refused>>
  BY DEF Beside
<1>2. VadInv' /\ Low' = Low
  BY <1>1, VadSame DEF CaptureInv
<1>3. UNCHANGED <<pending, expected, reported>>
  BY <1>1 DEF vadVars
<1>4. HeardFirst'
  BY <1>1, <1>2 DEF CaptureInv, HeardFirst
<1> QED
  BY <1>1, <1>2, <1>3, <1>4 DEF CaptureInv, InOrder

(* Packets wait in the queue with the times they were captured at.           *)
LEMMA QueueWaits ==
  ASSUME CaptureInv, DeviceMoves, CaptureTypes', UNCHANGED <<packets, format, clock, held>>
  PROVE  \E t \in [DOMAIN packets' -> Nat] : CapturedAt(t)'
<1>1. PICK t \in [DOMAIN packets -> Nat] : CapturedAt(t)
  BY DEF CaptureInv
<1>2. Spare \in Nat /\ Spare' \in Nat /\ PacketSamples \in Nat /\ clock \in Nat /\ held \in Nat
  BY SpareIsNat, CaptureAssumption DEF CaptureInv, CaptureTypes, VadInv, VadTypes
<1>3. PICK lead \in Int : lead = clock + held - PacketSamples
  BY <1>2
<1>4. clock' + held' - PacketSamples = lead
  BY <1>3
<1>5. ASSUME NEW i \in DOMAIN packets PROVE Passed(t[i] + PacketSamples, packets[i].format)'
  <2>1. PICK e \in Int : e = t[i] + PacketSamples
    BY <1>1, <1>2
  <2>2. PICK f : f = packets[i].format
    OBVIOUS
  <2>3. Passed(e, f)
    BY <1>1, <1>5, <2>1, <2>2 DEF CapturedAt
  <2>4. Passed(e, f)'
    BY <1>2, <2>3, PassedStays
  <2>5. packets'[i].format = f
    BY <2>2
  <2> QED
    BY <2>1, <2>4, <2>5 DEF Passed
<1>6. ASSUME NEW f \in format PROVE Passed(lead, f)'
  BY <1>1, <1>2, <1>3, <1>6, PassedStays DEF CapturedAt
<1>7. CapturedAt(t)'
  BY <1>1, <1>3, <1>4, <1>5, <1>6 DEF CapturedAt, Precedes, Passed
<1> QED
  BY <1>1, <1>7

(* Retrying, opening, losing and stopping the device keep the invariant.     *)
LEMMA SupervisorKeeps ==
  ASSUME CaptureInv, Wait \/ (\E f \in Formats : Open(f)) \/ Break \/ RequestStop \/ End
  PROVE  CaptureInv' /\ InOrder
<1>1. /\ CaptureTypes /\ now \in Nat /\ retry \in [delay : Nat, left : Nat] /\ retry.delay >= RetryDelay
      /\ RetryDelay \in Nat /\ device \in SUBSET Formats /\ AtMostOne(device)
      /\ (device # {} => supervisor = "running") /\ Spare \in Nat
  BY SpareIsNat, CaptureAssumption DEF CaptureInv, CaptureTypes
<1>2. /\ Beside /\ UNCHANGED <<packets, format, clock, held>>
      /\ phase' = phase /\ handed' = {} /\ phase # "pushing" /\ UNCHANGED <<gathered, heard>>
  BY DEF Wait, Open, Break, RequestStop, End, Beside, vadVars
<1>3. ASSUME now' \in Nat, retry' \in [delay : Nat, left : Nat], retry'.delay >= RetryDelay,
             device' \in SUBSET Formats, AtMostOne(device'), device' # {} => supervisor' = "running", DeviceMoves
      PROVE  CaptureInv' /\ InOrder
  <2>1. CaptureTypes'
    BY <1>1, <1>2, <1>3 DEF CaptureTypes
  <2> QED
    BY <1>2, <1>3, <2>1, QueueWaits, BesideKeeps
<1>4. CASE Wait
  <2>1. /\ now' = now + 1 /\ UNCHANGED <<device, supervisor>>
        /\ retry' = [retry EXCEPT !.left = IF retry.left = 0 THEN 0 ELSE retry.left - 1]
    BY <1>4 DEF Wait
  <2>2. (IF retry.left = 0 THEN 0 ELSE retry.left - 1) \in Nat
    BY <1>1
  <2>3. /\ retry' \in [delay : Nat, left : Nat] /\ retry'.delay = retry.delay
        /\ retry'.left = IF retry.left = 0 THEN 0 ELSE retry.left - 1
    BY <1>1, <2>1, <2>2
  <2>4. now' \in Nat /\ now <= now' /\ retry.left \in Nat /\ now + retry.left <= now' + retry'.left
    BY <1>1, <2>1, <2>3
  <2>5. now + Spare <= now' + Spare'
    <3>1. CASE device = {}
      BY <2>1, <2>4, <3>1 DEF Spare
    <3>2. CASE device # {}
      <4>1. Spare = 0 /\ Spare' = 0
        BY <2>1, <3>2 DEF Spare
      <4> QED
        BY <1>1, <2>1, <4>1
    <3> QED
      BY <3>1, <3>2
  <2>6. DeviceMoves
    BY <1>1, <2>1, <2>4, <2>5 DEF DeviceMoves
  <2> QED
    BY <1>1, <1>3, <2>1, <2>3, <2>4, <2>6
<1>5. ASSUME NEW f \in Formats, Open(f) PROVE CaptureInv' /\ InOrder
  <2>1. /\ supervisor = "running" /\ device = {} /\ retry.left = 0 /\ device' = {f}
        /\ UNCHANGED <<now, supervisor, retry>>
    BY <1>5 DEF Open
  <2>2. Spare = 0 /\ Spare' = 0 /\ now <= now
    BY <1>1, <2>1 DEF Spare
  <2>3. now + Spare <= now' + Spare'
    BY <1>1, <2>1, <2>2
  <2>4. DeviceMoves
    BY <1>1, <2>1, <2>2, <2>3 DEF DeviceMoves
  <2> QED
    BY <1>1, <1>3, <1>5, <2>1, <2>4 DEF AtMostOne
<1>6. CASE Break
  <2>1. /\ device' = {} /\ UNCHANGED <<now, supervisor>>
        /\ retry' = [delay |-> IF 2 * retry.delay > MaxRetryDelay THEN MaxRetryDelay ELSE 2 * retry.delay,
                     left |-> retry.delay]
    BY <1>6 DEF Break
  <2>2. MaxRetryDelay \in Nat /\ RetryDelay <= MaxRetryDelay
    BY CaptureAssumption
  <2>3. PICK delay : delay = IF 2 * retry.delay > MaxRetryDelay THEN MaxRetryDelay ELSE 2 * retry.delay
    OBVIOUS
  <2>4. delay \in Nat /\ delay >= RetryDelay /\ retry.delay \in Nat
    BY <1>1, <2>2, <2>3
  <2>5. retry' = [delay |-> delay, left |-> retry.delay]
    BY <2>1, <2>3
  <2>6. retry' \in [delay : Nat, left : Nat] /\ retry'.delay = delay /\ retry'.left = retry.delay
    BY <2>4, <2>5
  <2>7. Spare' = retry.delay
    BY <2>1, <2>6 DEF Spare
  <2>8. now <= now /\ now + RetryDelay <= now + retry.delay
    BY <1>1, <2>4
  <2>9. DeviceMoves
    BY <1>1, <2>1, <2>7, <2>8 DEF DeviceMoves
  <2> QED
    BY <1>1, <1>3, <2>1, <2>4, <2>6, <2>9 DEF AtMostOne
<1>7. CASE RequestStop
  <2>1. UNCHANGED <<now, device, supervisor, retry>>
    BY <1>7 DEF RequestStop
  <2>2. Spare' = Spare /\ now <= now /\ now + Spare <= now + Spare
    BY <1>1, <2>1 DEF Spare
  <2>3. DeviceMoves
    BY <1>1, <2>1, <2>2 DEF DeviceMoves
  <2> QED
    BY <1>1, <1>3, <2>1, <2>3
<1>8. CASE End
  <2>1. supervisor' = "ended" /\ device' = {} /\ UNCHANGED <<now, retry>>
    BY <1>8 DEF End
  <2>2. now <= now
    BY <1>1
  <2>3. DeviceMoves
    BY <1>1, <2>1, <2>2 DEF DeviceMoves
  <2> QED
    BY <1>1, <1>3, <2>1, <2>3 DEF AtMostOne
<1> QED
  BY <1>4, <1>5, <1>6, <1>7, <1>8

(* A captured packet begins after everything captured before.                *)
LEMMA CaptureKeeps ==
  ASSUME KeepsTime, CaptureInv, NEW drift \in Drifts, Capture(drift)
  PROVE  CaptureInv' /\ InOrder
<1>1. /\ CaptureTypes /\ now \in Nat /\ device \in SUBSET Formats /\ AtMostOne(device)
      /\ (device # {} => supervisor = "running") /\ Spare \in Nat /\ packets \in Seq(Packets)
      /\ PacketSamples \in Nat /\ RetryDelay \in Nat /\ clock \in Nat /\ held \in Nat
  BY SpareIsNat, CaptureAssumption DEF CaptureInv, CaptureTypes, VadInv, VadTypes
<1>2. PICK f \in device, late \in BOOLEAN :
        /\ now' = now + PacketSamples - drift
        /\ packets' = IF Len(packets) < PacketCapacity
                      THEN Append(packets, [format |-> f, start |-> IF late THEN now' ELSE now])
                      ELSE packets
        /\ UNCHANGED <<stop, device, supervisor, retry>> /\ Beside
  BY DEF Capture
<1>3. /\ UNCHANGED <<clock, phase, format, held, gathered, heard>> /\ handed' = {}
      /\ phase # "pushing"
  BY <1>2 DEF Beside, vadVars
<1>4. now' = now + PacketSamples /\ now' \in Nat /\ now <= now'
  <2>1. drift = 0
    BY DEF KeepsTime
  <2> QED
    BY <1>1, <1>2, <2>1
<1>5. device = {f} /\ f \in Formats /\ supervisor = "running" /\ Spare = 0 /\ Spare' = 0
  BY <1>1, <1>2 DEF AtMostOne, Spare
<1>6. DeviceMoves
  <2>1. now + Spare <= now' + Spare'
    BY <1>1, <1>4, <1>5
  <2> QED
    BY <1>1, <1>2, <1>4, <2>1 DEF DeviceMoves
<1>7. ASSUME packets' \in Seq(Packets) PROVE CaptureTypes'
  BY <1>1, <1>2, <1>3, <1>4, <1>7 DEF CaptureTypes
<1>8. CASE packets' = packets
  <2>1. CaptureTypes'
    BY <1>1, <1>7, <1>8
  <2> QED
    BY <1>2, <1>3, <1>6, <1>8, <2>1, QueueWaits, BesideKeeps
<1>9. CASE packets' # packets
  <2>1. PICK p : p = [format |-> f, start |-> IF late THEN now' ELSE now]
    OBVIOUS
  <2>2. /\ p \in Packets /\ p.format = f /\ p.start \in {now, now + PacketSamples}
        /\ packets' = Append(packets, p)
    BY <1>1, <1>2, <1>4, <1>5, <1>9, <2>1 DEF Packets
  <2>3. /\ packets' \in Seq(Packets) /\ Len(packets) \in Nat /\ DOMAIN packets = 1..Len(packets)
        /\ DOMAIN packets' = 1..(Len(packets) + 1)
        /\ \A i \in 1..Len(packets) : packets'[i] = packets[i]
        /\ packets'[Len(packets) + 1] = p
    BY <1>1, <2>2
  <2>4. PICK t \in [DOMAIN packets -> Nat] : CapturedAt(t)
    BY DEF CaptureInv
  <2>5. PICK lead \in Int : lead = clock + held - PacketSamples
    BY <1>1
  <2>6. clock' + held' - PacketSamples = lead
    BY <1>3, <2>5
  <2>7. PICK s : s = [i \in DOMAIN packets' |-> IF i \in DOMAIN packets THEN t[i] ELSE now]
    OBVIOUS
  <2>8. /\ s \in [DOMAIN packets' -> Nat] /\ \A i \in DOMAIN packets : s[i] = t[i] /\ t[i] \in Nat
        /\ s[Len(packets) + 1] = now /\ Len(packets) + 1 \notin DOMAIN packets
    BY <1>1, <2>3, <2>4, <2>7
  <2>9. ASSUME NEW e \in Int, NEW g, Passed(e, g) PROVE Passed(e, g)' /\ Precedes(e, g, now, f)
    <3>1. Passed(e, g)'
      BY <1>5, <1>6, <2>9, PassedStays
    <3>2. e <= now /\ (g # f => e + RetryDelay <= now + 0)
      BY <1>5, <2>9 DEF Passed, Spare
    <3> QED
      BY <1>1, <3>1, <3>2 DEF Precedes
  <2>10. /\ \A i \in DOMAIN packets : Passed(t[i] + PacketSamples, packets[i].format) /\ t[i] + PacketSamples \in Int
         /\ \A g \in format : Passed(lead, g)
    BY <1>1, <2>4, <2>5 DEF CapturedAt
  <2>11. PICK e \in Int : e = now + PacketSamples /\ Passed(e, f)'
    <3>1. PICK e \in Int : e = now + PacketSamples
      BY <1>1
    <3>2. e <= now'
      BY <1>1, <1>4, <3>1
    <3> QED
      BY <1>2, <1>5, <3>1, <3>2 DEF Passed
  <2>12. ASSUME NEW i \in DOMAIN packets'
         PROVE  /\ packets'[i].start \in {s[i], s[i] + PacketSamples}
                /\ Passed(s[i] + PacketSamples, packets[i].format)'
                /\ \A g \in format : Precedes(lead, g, s[i], packets'[i].format)
    <3>1. CASE i \in DOMAIN packets
      <4>1. packets'[i] = packets[i] /\ s[i] = t[i]
        BY <2>3, <2>8, <3>1
      <4>2. PICK d \in Int, g \in {packets[i].format} : d = t[i] + PacketSamples /\ g = packets[i].format
        BY <2>10, <3>1
      <4>3. Passed(d, g)'
        BY <2>9, <2>10, <3>1, <4>2
      <4>4. Passed(s[i] + PacketSamples, packets[i].format)'
        BY <4>1, <4>2, <4>3 DEF Passed
      <4> QED
        BY <2>4, <2>5, <3>1, <4>1, <4>4 DEF CapturedAt
    <3>2. CASE i = Len(packets) + 1
      <4>1. packets'[i] = p /\ s[i] = now
        BY <2>3, <2>8, <3>2
      <4>2. Passed(s[i] + PacketSamples, packets[i].format)'
        BY <2>2, <2>11, <4>1 DEF Passed
      <4>3. \A g \in format : Precedes(lead, g, s[i], packets'[i].format)
        BY <2>2, <2>9, <2>10, <4>1
      <4> QED
        BY <2>2, <4>1, <4>2, <4>3
    <3> QED
      BY <2>3, <3>1, <3>2
  <2>13. ASSUME NEW i \in DOMAIN packets', NEW j \in DOMAIN packets', i < j
         PROVE  Precedes(s[i] + PacketSamples, packets'[i].format, s[j], packets'[j].format)
    <3>1. i \in DOMAIN packets /\ packets'[i] = packets[i] /\ s[i] = t[i]
      BY <2>3, <2>8, <2>13
    <3>2. CASE j \in DOMAIN packets
      BY <2>3, <2>4, <2>8, <2>13, <3>1, <3>2 DEF CapturedAt
    <3>3. CASE j = Len(packets) + 1
      <4>1. PICK d \in Int, g \in {packets[i].format} : d = t[i] + PacketSamples /\ g = packets[i].format
        BY <2>10, <3>1
      <4>2. Precedes(d, g, now, f)
        BY <2>9, <2>10, <3>1, <4>1
      <4> QED
        BY <2>2, <2>3, <2>8, <3>1, <3>3, <4>1, <4>2
    <3> QED
      BY <2>3, <3>2, <3>3
  <2>14. ASSUME NEW g \in format PROVE Passed(lead, g)'
    BY <2>9, <2>10, <2>14
  <2>15. CapturedAt(s)'
    <3>1. /\ \A i \in DOMAIN packets' :
               /\ packets'[i].start \in {s[i], s[i] + PacketSamples}
               /\ Passed(s[i] + PacketSamples, packets[i].format)'
               /\ \A g \in format' : Precedes(clock' + held' - PacketSamples, g, s[i], packets'[i].format)
          /\ \A i, j \in DOMAIN packets' :
               i < j => Precedes(s[i] + PacketSamples, packets'[i].format, s[j], packets'[j].format)
          /\ \A g \in format' : Passed(clock + held - PacketSamples, g)'
      BY <1>3, <2>6, <2>12, <2>13, <2>14 DEF Passed
    <3> QED
      BY <3>1 DEF CapturedAt, Precedes, Passed
  <2>16. CaptureTypes'
    BY <1>7, <2>3
  <2> QED
    BY <1>2, <2>8, <2>15, <2>16, BesideKeeps
<1> QED
  BY <1>8, <1>9

-----------------------------------------------------------------------------
(* The processing thread.                                                    *)

(* A packet leaves the queue: it is refused, or its audio is counted.        *)
LEMMA QueuePops ==
  ASSUME CaptureTypes, NEW t \in [DOMAIN packets -> Nat], CapturedAt(t), packets # <<>>,
         packets' = Tail(packets), UNCHANGED deviceVars, clock \in Nat, held \in Nat,
         \/ UNCHANGED <<format, clock, held>>
         \/ /\ format' = {packets[1].format} /\ clock' \in Nat /\ held' \in Nat
            /\ clock' + held' - PacketSamples <= t[1] + PacketSamples
  PROVE  \E s \in [DOMAIN packets' -> Nat] : CapturedAt(s)'
<1>1. /\ packets \in Seq(Packets) /\ PacketSamples \in Nat /\ RetryDelay \in Nat
      /\ UNCHANGED <<now, device, supervisor, retry>>
  BY CaptureAssumption DEF CaptureTypes, deviceVars
<1>2. /\ Len(packets) \in Nat /\ Len(packets) > 0 /\ DOMAIN packets = 1..Len(packets)
      /\ packets' \in Seq(Packets) /\ DOMAIN packets' = 1..(Len(packets) - 1)
      /\ \A i \in DOMAIN packets' : packets'[i] = packets[i + 1] /\ i + 1 \in DOMAIN packets
      /\ 1 \in DOMAIN packets
  BY <1>1, TailFacts
<1>3. PICK s : s = [i \in DOMAIN packets' |-> t[i + 1]]
  OBVIOUS
<1>4. s \in [DOMAIN packets' -> Nat] /\ \A i \in DOMAIN packets' : s[i] = t[i + 1]
  BY <1>2, <1>3
<1>5. 1 \in DOMAIN packets /\ t[1] \in Nat /\ now \in Nat
  BY <1>2 DEF CaptureTypes
<1>6. PICK end \in Int, first \in {packets[1].format} : end = t[1] + PacketSamples /\ first = packets[1].format
  BY <1>1, <1>5
<1>7. PICK lead \in Int : lead = clock' + held' - PacketSamples
  BY <1>1
<1>8. ASSUME NEW g \in format'
      PROVE  /\ Passed(lead, g)
             /\ \A j \in DOMAIN packets' : Precedes(lead, g, s[j], packets'[j].format)
  <2>1. CASE UNCHANGED <<format, clock, held>>
    BY <1>2, <1>4, <1>7, <1>8, <2>1 DEF CapturedAt
  <2>2. CASE format' = {packets[1].format} /\ lead <= t[1] + PacketSamples
    <3>1. g = first /\ lead <= end
      BY <1>6, <1>8, <2>2
    <3>2. Passed(end, first)
      BY <1>5, <1>6 DEF CapturedAt
    <3>3. ASSUME NEW m \in Int, end <= m PROVE lead <= m
      BY <3>1, <3>3
    <3>4. ASSUME NEW m \in Int, end + RetryDelay <= m PROVE lead + RetryDelay <= m
      BY <1>1, <3>1, <3>4
    <3>5. Passed(lead, g)
      <4>1. now \in Int /\ now + (IF device = {} THEN retry.left ELSE 0) \in Int
        BY <1>5 DEF CaptureTypes
      <4> QED
        BY <3>1, <3>2, <3>3, <3>4, <4>1 DEF Passed
    <3>6. ASSUME NEW j \in DOMAIN packets' PROVE Precedes(lead, g, s[j], packets'[j].format)
      <4>1. j + 1 \in DOMAIN packets /\ 1 < j + 1 /\ s[j] = t[j + 1] /\ packets'[j] = packets[j + 1] /\ s[j] \in Int
        BY <1>2, <1>4
      <4>2. Precedes(end, first, s[j], packets'[j].format)
        BY <1>5, <1>6, <4>1 DEF CapturedAt
      <4> QED
        BY <3>1, <3>3, <3>4, <4>1, <4>2 DEF Precedes
    <3> QED
      BY <3>5, <3>6
  <2> QED
    BY <1>7, <2>1, <2>2
<1>9. ASSUME NEW i \in DOMAIN packets'
      PROVE  /\ packets'[i].start \in {s[i], s[i] + PacketSamples}
             /\ Passed(s[i] + PacketSamples, packets'[i].format)
             /\ \A j \in DOMAIN packets' :
                  i < j => Precedes(s[i] + PacketSamples, packets'[i].format, s[j], packets'[j].format)
  <2>1. i + 1 \in DOMAIN packets /\ s[i] = t[i + 1] /\ packets'[i] = packets[i + 1]
    BY <1>2, <1>4
  <2>2. ASSUME NEW j \in DOMAIN packets', i < j
        PROVE  j + 1 \in DOMAIN packets /\ s[j] = t[j + 1] /\ packets'[j] = packets[j + 1] /\ i + 1 < j + 1
    BY <1>2, <1>4, <2>2
  <2> QED
    BY <2>1, <2>2 DEF CapturedAt
<1>10. ASSUME NEW e, NEW f, Passed(e, f) PROVE Passed(e, f)'
  BY <1>1, <1>10 DEF Passed
<1>11. ASSUME NEW i \in DOMAIN packets' PROVE Passed(s[i] + PacketSamples, packets[i].format)'
  <2>1. PICK e, f : e = s[i] + PacketSamples /\ f = packets'[i].format
    OBVIOUS
  <2>2. Passed(e, f)'
    BY <1>9, <1>10, <2>1
  <2> QED
    BY <2>1, <2>2 DEF Passed
<1>12. ASSUME NEW g \in format' PROVE Passed(clock + held - PacketSamples, g)'
  <2>1. Passed(lead, g)'
    BY <1>8, <1>10, <1>12
  <2> QED
    BY <1>7, <2>1 DEF Passed
<1>13. CapturedAt(s)'
  BY <1>7, <1>8, <1>9, <1>11, <1>12 DEF CapturedAt, Precedes
<1> QED
  BY <1>4, <1>13

(* A packet that is taken was the first of the queue.                        *)
LEMMA TakeFacts ==
  ASSUME CaptureInv, Take
  PROVE  /\ packets # <<>> /\ packets' = Tail(packets) /\ packets' \in Seq(Packets) /\ Head(packets) = packets[1]
         /\ 1 \in DOMAIN packets /\ packets[1] \in Packets
         /\ handed' = {} /\ UNCHANGED <<now, device, supervisor, retry, heard>> /\ UNCHANGED deviceVars
         /\ phase = "idle" /\ clock \in Nat /\ held \in Nat
<1>1. packets \in Seq(Packets) /\ packets # <<>>
  BY DEF Take, CaptureInv, CaptureTypes
<1>2. /\ packets' \in Seq(Packets) /\ Head(packets) = packets[1] /\ 1 \in DOMAIN packets /\ packets[1] \in Packets
  BY <1>1, TailFacts DEF Take
<1> QED
  BY <1>1, <1>2 DEF Take, deviceVars, CaptureInv, CaptureTypes, VadInv, VadTypes

(* One start comes next.                                                     *)
LEMMA LowOrder ==
  ASSUME VadTypes, BuffersHold
  PROVE  \A low, later \in Low : low <= later
<1>1. \A low \in Low : low \in Nat /\ low <= low
  BY LowFacts
<1>2. AtMostOne(Low)
  BY DEF Low, VadTypes, AtMostOne
<1> QED
  BY <1>1, <1>2 DEF AtMostOne

(* What was heard stays behind what comes when that moves on.                *)
LEMMA HeardStays ==
  ASSUME CaptureInv, VadTypes', BuffersHold', \A low \in Low, later \in Low' : low <= later
  PROVE  \A w \in heard, later \in Low' : w <= later
<1> SUFFICES ASSUME NEW w \in heard, NEW later \in Low' PROVE w <= later
  OBVIOUS
<1>1. later \in Nat /\ w \in Nat
  BY LaterIsNat DEF CaptureInv, CaptureTypes
<1>2. PICK low \in Low : TRUE
  BY DEF Low
<1>3. low \in Nat
  BY LowFacts DEF CaptureInv, VadInv
<1>4. w <= low /\ low <= later
  BY DEF CaptureInv, HeardFirst
<1> QED
  BY <1>1, <1>3, <1>4

(* A packet in a format the pipeline refuses, with or without a flush.       *)
LEMMA RefuseKeeps ==
  ASSUME CaptureInv, Refuse
  PROVE  CaptureInv' /\ InOrder
<1>1. /\ packets # <<>> /\ packets' = Tail(packets) /\ packets' \in Seq(Packets) /\ handed' = {}
      /\ UNCHANGED <<now, device, supervisor, retry, heard>> /\ UNCHANGED deviceVars /\ phase = "idle"
      /\ clock \in Nat /\ held \in Nat
  BY TakeFacts DEF Refuse
<1>2. UNCHANGED <<clock, phase, format, held, gathered>>
  BY DEF Refuse
<1>3. CaptureTypes'
  BY <1>1, <1>2 DEF CaptureInv, CaptureTypes
<1>4. \E t \in [DOMAIN packets' -> Nat] : CapturedAt(t)'
  <2>1. PICK t \in [DOMAIN packets -> Nat] : CapturedAt(t)
    BY DEF CaptureInv
  <2> QED
    BY <1>1, <1>2, <2>1, QueuePops DEF CaptureInv
<1>5. /\ VadInv' /\ (\A low \in Low, later \in Low' : low <= later)
      /\ format = {} => UNCHANGED <<pending, expected, reported>>
  <2>1. CASE Changed(Head(packets))
    <3>1. Clear
      BY <2>1 DEF Refuse, FlushIf
    <3>2. Finish
      BY <1>2, <3>1 DEF Finish
    <3>3. format # {}
      BY <2>1 DEF Changed
    <3>4. /\ VadTypes /\ BuffersHold /\ clock' \in Nat /\ clock' >= clock
      BY <1>1, <1>2 DEF CaptureInv, VadInv
    <3>5. Low' = {clock'}
      BY <3>1, <3>4, ClearKeeps, VadAssumption
    <3>6. \A low \in Low : low <= clock'
      BY <1>2, <3>4, LowFacts
    <3>7. VadInv'
      BY <3>2, VadNextHolds DEF VadNext, CaptureInv
    <3> QED
      BY <3>3, <3>5, <3>6, <3>7
  <2>2. CASE ~Changed(Head(packets))
    <3>1. UNCHANGED vadVars
      BY <1>2, <2>2 DEF Refuse, FlushIf, vadVars
    <3>2. VadInv' /\ Low' = Low /\ UNCHANGED <<pending, expected, reported>>
      BY <3>1, VadSame DEF CaptureInv, vadVars
    <3>3. \A low, later \in Low : low <= later
      BY LowOrder DEF CaptureInv, VadInv
    <3> QED
      BY <3>2, <3>3
  <2> QED
    BY <2>1, <2>2
<1>6. HeardFirst'
  <2>1. VadTypes' /\ BuffersHold'
    BY <1>5 DEF VadInv
  <2>2. \A w \in heard, later \in Low' : w <= later
    BY <1>5, <2>1, HeardStays
  <2> QED
    BY <1>1, <1>2, <2>2 DEF CaptureInv, HeardFirst
<1> QED
  BY <1>1, <1>2, <1>3, <1>4, <1>5, <1>6 DEF CaptureInv, InOrder

(* A new format begins when its first packet was captured, later than all    *)
(* that was counted in the format before.                                    *)
LEMMA SwitchKeeps ==
  ASSUME KeepsTime, CaptureInv, Switch
  PROVE  CaptureInv' /\ InOrder
<1>1. /\ packets # <<>> /\ packets' = Tail(packets) /\ packets' \in Seq(Packets) /\ Head(packets) = packets[1]
      /\ 1 \in DOMAIN packets /\ packets[1] \in Packets /\ handed' = {}
      /\ UNCHANGED <<now, device, supervisor, retry, heard>> /\ UNCHANGED deviceVars
      /\ clock \in Nat /\ held \in Nat
  BY TakeFacts DEF Switch
<1>2. /\ packets[1].format \in Formats /\ packets[1].start \in Nat /\ PacketSamples \in Nat /\ RetryDelay \in Nat
      /\ PacketSamples <= RetryDelay
  BY <1>1, CaptureAssumption DEF Packets, KeepsTime
<1>3. /\ format # {packets[1].format} /\ clock' = packets[1].start /\ format' = {packets[1].format}
      /\ held' = PacketSamples /\ phase' = "pushing"
      /\ gathered' = [utterances |-> IF Changed(packets[1]) THEN Flush ELSE <<>>, partial |-> {}]
      /\ FlushIf(Changed(packets[1]))
  BY <1>1 DEF Switch, Flushed
<1>4. PICK t \in [DOMAIN packets -> Nat] : CapturedAt(t)
  BY DEF CaptureInv
<1>5. t[1] \in Nat /\ packets[1].start \in {t[1], t[1] + PacketSamples}
  BY <1>1, <1>4 DEF CapturedAt
<1>6. \E s \in [DOMAIN packets' -> Nat] : CapturedAt(s)'
  <2>1. clock' \in Nat /\ held' \in Nat /\ clock' + held' - PacketSamples <= t[1] + PacketSamples
    BY <1>2, <1>3, <1>5
  <2> QED
    BY <1>1, <1>3, <1>4, <2>1, QueuePops DEF CaptureInv
<1>7. CaptureTypes'
  <2>1. gathered' \in [utterances : Seq(Pieces), partial : SUBSET Pieces]
    <3>1. Flush \in Seq(Pieces) /\ <<>> \in Seq(Pieces) /\ {} \in SUBSET Pieces
      BY FlushIs DEF CaptureInv, VadInv
    <3> QED
      BY <1>3, <3>1
  <2> QED
    BY <1>1, <1>2, <1>3, <2>1 DEF CaptureInv, CaptureTypes, AtMostOne
<1>8. CASE Changed(packets[1])
  <2>1. /\ Clear /\ format # {} /\ gathered' = [utterances |-> Flush, partial |-> {}]
    BY <1>3, <1>8 DEF FlushIf, Changed
  <2>2. clock' \in Nat /\ clock' >= clock
    <3>1. PICK f \in format : f # packets[1].format
      BY <1>3, <2>1 DEF CaptureInv, CaptureTypes, AtMostOne
    <3>2. clock + held - PacketSamples + RetryDelay <= t[1]
      BY <1>1, <1>4, <3>1 DEF CapturedAt, Precedes
    <3> QED
      BY <1>1, <1>2, <1>3, <1>5, <3>2
  <2>3. /\ VadTypes' /\ BuffersHold' /\ Low' = {clock'}
        /\ outcome' = [utterances |-> Flush, partial |-> {}]
        /\ \A i \in DOMAIN Flush : Flush[i].start \in Low
    <3>1. outcome' = [utterances |-> Flush, partial |-> {}]
      BY <2>1 DEF Clear
    <3> QED
      BY <2>1, <2>2, <3>1, ClearKeeps, VadAssumption DEF CaptureInv, VadInv
  <2>4. \A low \in Low, later \in Low' : low <= later
    <3> SUFFICES ASSUME NEW low \in Low PROVE low <= clock'
      BY <2>3
    <3>1. low \in Nat /\ low <= clock
      BY LowFacts DEF CaptureInv, VadInv
    <3> QED
      BY <1>1, <2>2, <3>1
  <2>5. VadInv'
    <3>1. reported' = reported
      BY <2>1 DEF Clear
    <3> QED
      BY <2>3, <2>4, <3>1, ReportedStays DEF CaptureInv
  <2>6. HeardFirst'
    <3>1. \A w \in heard, i \in DOMAIN Flush : w <= Flush[i].start
      BY <2>3 DEF CaptureInv, HeardFirst
    <3> QED
      BY <1>1, <2>1, <2>3, <2>4, <3>1, HeardStays DEF CaptureInv, HeardFirst
  <2> QED
    BY <1>1, <1>3, <1>6, <1>7, <2>5, <2>6 DEF CaptureInv, InOrder
<1>9. CASE ~Changed(packets[1])
  <2>1. format = {} /\ pending = 0 /\ expected = {} /\ heard = {} /\ reported = {}
    BY <1>3, <1>9 DEF Changed, CaptureInv
  <2>2. UNCHANGED <<pending, pending_start, expected, pre_roll, pre_roll_end, active, last_partial_end,
                    outcome, reported>>
    BY <1>3, <1>9 DEF FlushIf
  <2>3. VadTypes'
    BY <1>2, <1>3, <2>2 DEF CaptureInv, VadInv, VadTypes
  <2>4. BuffersHold'
    <3>1. /\ pending' = 0 /\ expected' = {} /\ pending_start' = {} /\ active' = {} /\ pre_roll' = 0
          /\ 0 <= PreRollSamples /\ 0 <= clock'
      BY <1>2, <1>3, <2>1, <2>2, VadAssumption DEF CaptureInv, VadInv, BuffersHold
    <3> QED
      BY <3>1 DEF BuffersHold
  <2>5. VadInv'
    BY <2>1, <2>2, <2>3, <2>4 DEF VadInv, AtMostOne
  <2>6. HeardFirst'
    BY <1>1, <2>1 DEF HeardFirst
  <2> QED
    BY <1>1, <1>3, <1>6, <1>7, <2>5, <2>6 DEF CaptureInv, InOrder
<1> QED
  BY <1>8, <1>9

(* A packet of the format in use adds its samples to those to be pushed.     *)
LEMMA ContinueKeeps ==
  ASSUME CaptureInv, Continue
  PROVE  CaptureInv' /\ InOrder
<1>1. /\ packets # <<>> /\ packets' = Tail(packets) /\ packets' \in Seq(Packets) /\ Head(packets) = packets[1]
      /\ 1 \in DOMAIN packets /\ packets[1] \in Packets /\ handed' = {}
      /\ UNCHANGED <<now, device, supervisor, retry, heard>> /\ UNCHANGED deviceVars
      /\ clock \in Nat /\ held \in Nat
  BY TakeFacts DEF Continue
<1>2. /\ format = {packets[1].format} /\ held' = held + PacketSamples /\ gathered' = Nothing /\ phase' = "pushing"
      /\ UNCHANGED <<vadVars, format>> /\ PacketSamples \in Nat
  BY <1>1, CaptureAssumption DEF Continue
<1>3. PICK t \in [DOMAIN packets -> Nat] : CapturedAt(t)
  BY DEF CaptureInv
<1>4. \E s \in [DOMAIN packets' -> Nat] : CapturedAt(s)'
  <2>1. clock' = clock
    BY <1>2 DEF vadVars
  <2>2. t[1] \in Nat /\ clock + held - PacketSamples <= t[1]
    BY <1>1, <1>2, <1>3 DEF CapturedAt, Precedes
  <2>3. clock' \in Nat /\ held' \in Nat /\ clock' + held' - PacketSamples <= t[1] + PacketSamples
    BY <1>1, <1>2, <2>1, <2>2
  <2> QED
    BY <1>1, <1>2, <1>3, <2>3, QueuePops DEF CaptureInv
<1>5. CaptureTypes'
  <2>1. gathered' \in [utterances : Seq(Pieces), partial : SUBSET Pieces] /\ held' \in Nat
    <3>1. <<>> \in Seq(Pieces) /\ {} \in SUBSET Pieces
      OBVIOUS
    <3> QED
      BY <1>1, <1>2, <3>1 DEF Nothing
  <2> QED
    BY <1>1, <1>2, <2>1 DEF CaptureInv, CaptureTypes
<1>6. VadInv' /\ Low' = Low
  BY <1>2, VadSame DEF CaptureInv
<1>7. HeardFirst'
  <2>1. DOMAIN gathered'.utterances = {}
    BY <1>2 DEF Nothing
  <2> QED
    BY <1>1, <1>6, <2>1 DEF CaptureInv, HeardFirst
<1> QED
  BY <1>1, <1>2, <1>4, <1>5, <1>6, <1>7 DEF CaptureInv, InOrder

(* Nothing is counted twice: a chunk moves from what is held to the clock.   *)
LEMMA PushChunkKeeps ==
  ASSUME CaptureInv, NEW speech, PushChunk(speech)
  PROVE  CaptureInv' /\ InOrder
<1>1. /\ VadTypes /\ BuffersHold /\ clock \in Nat /\ held \in Nat /\ PacketSamples \in Nat
      /\ ChunkSamples \in Nat /\ phase = "pushing" /\ handed = {} /\ format # {} /\ held >= ChunkSamples
  BY CaptureAssumption, VadAssumption DEF CaptureInv, CaptureTypes, VadInv, VadTypes, PushChunk
<1>2. /\ Push(speech) /\ held' = held - ChunkSamples /\ gathered' = Merge(outcome')
      /\ UNCHANGED <<deviceVars, packets, phase, format, handed, heard>>
  BY DEF PushChunk
<1>3. /\ VadTypes' /\ BuffersHold' /\ \A low \in Low, later \in Low' : low <= later
      /\ \A i \in DOMAIN outcome'.utterances : outcome'.utterances[i].start \in Low
  BY <1>1, <1>2, PushKeeps, VadAssumption
<1>4. VadInv'
  <2>1. reported' = Watermark
    BY <1>2 DEF Push
  <2>2. reported' \subseteq Low' /\ AtMostOne(reported')
    BY <1>3, <2>1, WatermarkFacts
  <2>3. \A later \in Low' : later \in Nat /\ later <= later
    BY <1>3, LaterIsNat
  <2>4. AtMostOne(Low')
    BY <1>3 DEF Low, VadTypes, AtMostOne
  <2> QED
    BY <1>3, <2>2, <2>3, <2>4 DEF VadInv, AtMostOne
<1>5. held' \in Nat /\ clock' = clock + ChunkSamples /\ clock' + held' - PacketSamples = clock + held - PacketSamples
  <2>1. clock' = clock + ChunkSamples
    BY <1>2 DEF Push
  <2> QED
    BY <1>1, <1>2, <2>1
<1>6. /\ gathered'.utterances = gathered.utterances \o outcome'.utterances
      /\ gathered' \in [utterances : Seq(Pieces), partial : SUBSET Pieces]
      /\ gathered.utterances \in Seq(Pieces) /\ outcome'.utterances \in Seq(Pieces)
  <2>1. PICK next : next = outcome'
    OBVIOUS
  <2>2. next \in [utterances : Seq(Pieces), partial : SUBSET Pieces] /\ gathered \in [utterances : Seq(Pieces), partial : SUBSET Pieces]
    BY <1>3, <2>1 DEF VadTypes, CaptureInv, CaptureTypes
  <2>3. gathered.utterances \o next.utterances \in Seq(Pieces)
    BY <2>2, ConcatProperties
  <2>4. gathered' = [utterances |-> gathered.utterances \o next.utterances,
                    partial |-> IF next.partial # {} THEN next.partial ELSE gathered.partial]
    BY <1>2, <2>1 DEF Merge
  <2> QED
    BY <2>1, <2>2, <2>3, <2>4
<1>7. CaptureTypes'
  BY <1>1, <1>2, <1>5, <1>6 DEF CaptureInv, CaptureTypes, deviceVars
<1>8. \E t \in [DOMAIN packets' -> Nat] : CapturedAt(t)'
  <2>1. PICK t \in [DOMAIN packets -> Nat] : CapturedAt(t)
    BY DEF CaptureInv
  <2>2. CapturedAt(t)'
    BY <1>2, <1>5, <2>1 DEF CapturedAt, Passed, Precedes, deviceVars
  <2> QED
    BY <1>2, <2>1, <2>2
<1>9. HeardFirst'
  <2>1. \A w \in heard, later \in Low' : w <= later
    BY <1>3, HeardStays
  <2>2. ASSUME NEW w \in heard, NEW i \in DOMAIN gathered'.utterances PROVE w <= gathered'.utterances[i].start
    <3>1. PICK first \in Seq(Pieces), second \in Seq(Pieces) :
            first = gathered.utterances /\ second = outcome'.utterances
      BY <1>6
    <3>2. \A k \in DOMAIN first : w <= first[k].start
      BY <2>2, <3>1 DEF CaptureInv, HeardFirst
    <3>3. \A k \in DOMAIN second : w <= second[k].start
      BY <1>3, <2>2, <3>1 DEF CaptureInv, HeardFirst
    <3>4. i \in DOMAIN (first \o second) /\ gathered'.utterances = first \o second
      BY <1>6, <2>2, <3>1
    <3>5. \/ i \in DOMAIN first /\ (first \o second)[i] = first[i]
          \/ \E k \in DOMAIN second : (first \o second)[i] = second[k]
      BY <3>4, ConcatElements
    <3> QED
      BY <3>2, <3>3, <3>4, <3>5
  <2> QED
    BY <1>2, <2>1, <2>2 DEF HeardFirst
<1> QED
  BY <1>1, <1>2, <1>4, <1>7, <1>8, <1>9 DEF CaptureInv, InOrder

(* What is handed over with a watermark keeps to it later.                   *)
LEMMA ForwardKeeps ==
  ASSUME CaptureInv, Forward
  PROVE  CaptureInv' /\ InOrder
<1>1. /\ VadTypes /\ BuffersHold /\ format # {} /\ HeardFirst
      /\ UNCHANGED <<vadVars, deviceVars, packets, format, held>> /\ gathered' = Nothing /\ phase' = "idle"
  BY DEF Forward, CaptureInv, CaptureTypes, VadInv
<1>2. VadInv' /\ Low' = Low /\ UNCHANGED <<pending, expected, reported, clock>>
  BY <1>1, VadSame DEF CaptureInv, vadVars
<1>3. Frontier \subseteq Low /\ Frontier \in SUBSET Nat
  BY <1>1, LowFacts
<1>4. \/ handed' = {} /\ heard' = heard
      \/ handed' = {Update} /\ heard' = IF Frontier # {} THEN Frontier ELSE heard
  BY DEF Forward, Handed, Update
<1>5. CaptureTypes'
  <2>1. gathered' \in [utterances : Seq(Pieces), partial : SUBSET Pieces]
    <3>1. <<>> \in Seq(Pieces) /\ {} \in SUBSET Pieces
      OBVIOUS
    <3> QED
      BY <1>1, <3>1 DEF Nothing
  <2>2. heard' \in SUBSET Nat
    BY <1>3, <1>4 DEF CaptureInv, CaptureTypes
  <2> QED
    BY <1>1, <2>1, <2>2 DEF CaptureInv, CaptureTypes, deviceVars
<1>6. \E t \in [DOMAIN packets' -> Nat] : CapturedAt(t)'
  BY <1>1, <1>2 DEF CaptureInv, CapturedAt, Passed, Precedes, deviceVars
<1>7. HeardFirst'
  <2>1. DOMAIN gathered'.utterances = {}
    BY <1>1 DEF Nothing
  <2>2. \A w \in heard' : w \in heard \/ w \in Low
    BY <1>3, <1>4
  <2>3. \A w \in heard', low \in Low : w <= low
    BY <1>1, <2>2, LowOrder DEF HeardFirst
  <2> QED
    BY <1>2, <2>1, <2>3 DEF HeardFirst
<1>8. InOrder
  <2>1. CASE handed' = {}
    BY <2>1 DEF InOrder
  <2>2. CASE handed' = {Update}
    <3>1. ASSUME NEW w \in heard PROVE w \in Nat
      BY <3>1 DEF CaptureInv, CaptureTypes
    <3>2. ASSUME NEW w \in heard, NEW v \in Frontier PROVE v >= w
      <4>1. w \in Nat /\ v \in Nat /\ w <= v
        BY <1>1, <1>3, <3>1, <3>2 DEF HeardFirst
      <4> QED
        BY <4>1
    <3>3. ASSUME NEW w \in heard, NEW i \in DOMAIN gathered.utterances PROVE gathered.utterances[i].start >= w
      <4>1. PICK piece \in Pieces : piece = gathered.utterances[i]
        <5>1. gathered.utterances \in Seq(Pieces)
          BY DEF CaptureInv, CaptureTypes
        <5> QED
          BY <3>3, <5>1, ElementOfSeq, LenProperties
      <4>2. w \in Nat /\ piece.start \in Nat /\ w <= piece.start
        BY <1>1, <3>1, <3>3, <4>1 DEF HeardFirst, Pieces
      <4> QED
        BY <4>1, <4>2
    <3>4. Update.utterances = gathered.utterances /\ Update.watermark = Frontier
      BY DEF Update
    <3> QED
      BY <2>2, <3>2, <3>3, <3>4 DEF InOrder
  <2> QED
    BY <1>4, <2>1, <2>2
<1> QED
  BY <1>1, <1>2, <1>5, <1>6, <1>7, <1>8 DEF CaptureInv

(* A receiver that is gone leaves nothing to hand over.                      *)
LEMMA LoseKeeps ==
  ASSUME CaptureInv, Lose
  PROVE  CaptureInv' /\ InOrder
<1>1. /\ UNCHANGED <<vadVars, deviceVars, format, held, gathered, heard>> /\ packets' = <<>>
      /\ handed' = {} /\ phase' = "lost"
  BY DEF Lose
<1>2. VadInv' /\ Low' = Low /\ UNCHANGED <<pending, expected, reported, clock>>
  BY <1>1, VadSame DEF CaptureInv, vadVars
<1>3. packets' \in Seq(Packets) /\ DOMAIN packets' = {}
  BY <1>1
<1>4. CaptureTypes'
  BY <1>1, <1>3 DEF CaptureInv, CaptureTypes, deviceVars
<1>5. \E t \in [DOMAIN packets' -> Nat] : CapturedAt(t)'
  <2>1. \A f \in format' : Passed(clock + held - PacketSamples, f)'
    BY <1>1, <1>2 DEF CaptureInv, CapturedAt, Passed, deviceVars
  <2>2. PICK t : t = [i \in DOMAIN packets' |-> 0]
    OBVIOUS
  <2>3. t \in [DOMAIN packets' -> Nat] /\ CapturedAt(t)'
    BY <1>3, <2>1, <2>2 DEF CapturedAt
  <2> QED
    BY <2>3
<1>6. HeardFirst'
  BY <1>1, <1>2 DEF CaptureInv, HeardFirst
<1> QED
  BY <1>1, <1>2, <1>4, <1>5, <1>6 DEF CaptureInv, InOrder

(* The final update holds what the segmenter had, none of it behind what     *)
(* was heard.                                                                *)
LEMMA FinishStreamKeeps ==
  ASSUME CaptureInv, FinishStream
  PROVE  CaptureInv' /\ InOrder
<1>1. /\ Finish /\ Clear /\ clock' = clock /\ clock \in Nat /\ phase' = "done"
      /\ handed' = {[utterances |-> Flush, partial |-> {}, watermark |-> {}, terminal |-> TRUE]}
      /\ UNCHANGED <<deviceVars, packets, format, held, gathered, heard>> /\ VadTypes /\ BuffersHold
  BY DEF FinishStream, Finish, CaptureInv, VadInv, VadTypes
<1>2. /\ VadTypes' /\ BuffersHold' /\ Low' = {clock'}
  BY <1>1, ClearKeeps, VadAssumption
<1>3. VadInv'
  BY <1>1, VadNextHolds DEF VadNext, CaptureInv
<1>4. \A low \in Low, later \in Low' : low <= later
  BY <1>1, <1>2, LowFacts
<1>5. CaptureTypes'
  BY <1>1 DEF CaptureInv, CaptureTypes, deviceVars
<1>6. \E t \in [DOMAIN packets' -> Nat] : CapturedAt(t)'
  BY <1>1 DEF CaptureInv, CapturedAt, Passed, Precedes, deviceVars
<1>7. HeardFirst'
  <2>1. \A w \in heard, later \in Low' : w <= later
    BY <1>2, <1>4, HeardStays
  <2> QED
    BY <1>1, <2>1 DEF CaptureInv, HeardFirst
<1>8. pending' = 0 /\ expected' = {} /\ reported' = reported
  BY <1>1 DEF Clear
<1>9. InOrder
  <2>1. ASSUME NEW w \in heard, NEW i \in DOMAIN Flush PROVE Flush[i].start >= w
    <3>1. PICK a \in active : Flush[i].start = a.start
      BY <1>1, <2>1, FlushIs
    <3>2. a.start \in Nat /\ w \in Nat /\ w <= a.start
      BY <1>1, <2>1 DEF VadTypes, Utterances, CaptureInv, CaptureTypes, HeardFirst, Low
    <3> QED
      BY <3>1, <3>2
  <2> QED
    BY <1>1, <2>1 DEF InOrder
<1> QED
  BY <1>1, <1>3, <1>5, <1>6, <1>7, <1>8, <1>9 DEF CaptureInv

-----------------------------------------------------------------------------
(* Every step of a source keeps its invariant and the promise of its         *)
(* watermarks.                                                               *)
LEMMA CaptureNextHolds ==
  ASSUME KeepsTime, CaptureInv, [CaptureNext]_captureVars
  PROVE  CaptureInv' /\ [InOrder]_captureVars
<1>1. CASE CaptureNext
  <2>1. CASE Wait \/ (\E f \in Formats : Open(f)) \/ Break \/ RequestStop \/ End
    BY <2>1, SupervisorKeeps
  <2>2. CASE (\E drift \in Drifts : Capture(drift)) \/ Refuse \/ Switch \/ Continue
    BY <2>2, CaptureKeeps, RefuseKeeps, SwitchKeeps, ContinueKeeps
  <2>3. CASE (\E speech \in BOOLEAN : PushChunk(speech)) \/ Forward \/ Lose \/ FinishStream
    BY <2>3, PushChunkKeeps, ForwardKeeps, LoseKeeps, FinishStreamKeeps
  <2> QED
    BY <1>1, <2>1, <2>2, <2>3 DEF CaptureNext
<1>2. CASE UNCHANGED captureVars
  <2>1. /\ UNCHANGED <<vadVars, deviceVars, packets, phase, format, held, gathered, handed, heard>>
    BY <1>2 DEF captureVars, processorVars
  <2>2. VadInv' /\ Low' = Low /\ UNCHANGED <<pending, expected, reported, clock>>
    BY <2>1, VadSame DEF CaptureInv, vadVars
  <2>3. CaptureTypes'
    BY <2>1 DEF CaptureInv, CaptureTypes, deviceVars
  <2>4. \E t \in [DOMAIN packets' -> Nat] : CapturedAt(t)'
    BY <2>1, <2>2 DEF CaptureInv, CapturedAt, Passed, Precedes, deviceVars
  <2>5. HeardFirst'
    BY <2>1, <2>2 DEF CaptureInv, HeardFirst
  <2> QED
    BY <1>2, <2>1, <2>2, <2>3, <2>4, <2>5 DEF CaptureInv
<1> QED
  BY <1>1, <1>2

(* The inductive invariant of a source, from its device to its updates.      *)
THEOREM CaptureInvariant ==
  ASSUME KeepsTime
  PROVE  CaptureSpec => []CaptureInv
<1>1. CaptureInv /\ [CaptureNext]_captureVars => CaptureInv'
  BY CaptureNextHolds
<1> QED
  BY <1>1, CaptureInitHolds, PTL DEF CaptureSpec

(* What a source hands over keeps the promise of every watermark that it     *)
(* handed over before, across formats, outages and dropped packets.          *)
THEOREM UpdatesKeepWatermarks ==
  ASSUME KeepsTime
  PROVE  CaptureSpec => ForwardedInOrder
<1>1. CaptureInv /\ [CaptureNext]_captureVars =>
        [\A update \in handed', w \in heard :
           /\ \A i \in DOMAIN update.utterances : update.utterances[i].start >= w
           /\ \A v \in update.watermark : v >= w]_captureVars
  BY CaptureNextHolds DEF InOrder
<1> QED
  BY <1>1, CaptureInvariant, PTL DEF CaptureSpec, ForwardedInOrder
=============================================================================
