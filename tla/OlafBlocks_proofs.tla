-------------------------- MODULE OlafBlocks_proofs --------------------------
(***************************************************************************)
(* Proofs about OlafBlocks, for any block size, step, chunks and bound.    *)
(***************************************************************************)
EXTENDS OlafBlocks, TLAPS

\* Nothing was heard before the first call.
Fresh == ~called => sampleIndex = 0 /\ blockIndex = 0 /\ heard = 0

BlocksInv == BlocksTypeOK /\ Fresh /\ NoSampleLost /\ BlocksAreConsecutive
-----------------------------------------------------------------------------
\* The first sample of the block after b.
LEMMA NextStart ==
  ASSUME NEW b \in Nat
  PROVE  /\ b * StepSize \in Nat
         /\ (b + 1) * StepSize = b * StepSize + StepSize
         /\ (b + 1) - 1 = b
BY BlocksAssumption

\* What a write leaves in the buffer.
LEMMA WrittenFacts ==
  ASSUME BlocksTypeOK, NEW i \in Nat, NEW k \in Nat
  PROVE  /\ Written(audio, i, k) \in [Slots -> Nat]
         /\ \A j \in Slots : Written(audio, i, k)[j] =
              IF i <= j /\ j < i + k THEN heard + 1 + (j - i) ELSE audio[j]
BY BlocksAssumption DEF BlocksTypeOK, Written, Slots

\* What the shift leaves.
LEMMA ShiftedFacts ==
  ASSUME NEW buf \in [Slots -> Nat]
  PROVE  /\ Shifted(buf) \in [Slots -> Nat]
         /\ \A j \in Slots : j < Overlap => j + StepSize \in Slots
                                            /\ Shifted(buf)[j] = buf[j + StepSize]
<1>1. \A j \in Slots : j < Overlap => j + StepSize \in Slots
  BY BlocksAssumption DEF Slots, Overlap
<1>2. \A j \in Slots : (IF j < Overlap THEN buf[j + StepSize] ELSE buf[j]) \in Nat
  BY <1>1
<1> QED
  BY <1>1, <1>2 DEF Shifted

\* A block that becomes full holds the samples from blockIndex * StepSize on.
LEMMA FullBlock ==
  ASSUME BlocksInv, called, ~trapped
  PROVE  \A j \in Slots : Written(audio, sampleIndex, BlockSize - sampleIndex)[j]
                            = blockIndex * StepSize + j + 1
<1> DEFINE used == BlockSize - sampleIndex
<1>1. used \in Nat /\ sampleIndex \in Nat /\ sampleIndex + used = BlockSize
  BY BlocksAssumption DEF BlocksInv, BlocksTypeOK, Slots
<1>2. SUFFICES ASSUME NEW j \in Slots
               PROVE  Written(audio, sampleIndex, used)[j] = blockIndex * StepSize + j + 1
  OBVIOUS
<1>3. Written(audio, sampleIndex, used)[j] =
        IF sampleIndex <= j /\ j < sampleIndex + used
        THEN heard + 1 + (j - sampleIndex) ELSE audio[j]
  BY <1>1, WrittenFacts DEF BlocksInv
<1>4. j \in Nat /\ j < BlockSize
  BY BlocksAssumption DEF Slots
<1>5. CASE sampleIndex <= j
  <2>1. Written(audio, sampleIndex, used)[j] = heard + 1 + (j - sampleIndex)
    BY <1>1, <1>3, <1>4, <1>5
  <2>2. heard = blockIndex * StepSize + sampleIndex
    BY DEF BlocksInv, NoSampleLost
  <2> QED
    BY <1>1, <1>4, <2>1, <2>2, NextStart DEF BlocksInv, BlocksTypeOK
<1>6. CASE j < sampleIndex
  BY <1>1, <1>3, <1>4, <1>6 DEF BlocksInv, NoSampleLost
<1> QED
  BY <1>1, <1>4, <1>5, <1>6

-----------------------------------------------------------------------------
\* The first call, and calls that complete no block.
LEMMA CollectKeepsInv ==
  ASSUME BlocksInv, NEW n \in Chunks, Collect(n)
  PROVE  BlocksInv'
<1>1. n \in Nat /\ n < BlockSize
  BY BlocksAssumption DEF Chunks
<1>2. CASE FirstCall(n)
  <2>1. sampleIndex = 0 /\ blockIndex = 0 /\ heard = 0
    BY <1>2 DEF BlocksInv, Fresh, FirstCall
  <2>2. audio' \in [Slots -> Nat] /\ \A j \in Slots : j < n => audio'[j] = j + 1
    BY <1>1, <1>2, <2>1, WrittenFacts DEF BlocksInv, FirstCall, Slots
  <2>3. BlocksTypeOK'
    <3>1. sampleIndex' \in Slots /\ heard' \in Nat
      BY <1>1, <1>2, BlocksAssumption DEF FirstCall, Slots
    <3> QED
      BY <1>2, <2>2, <3>1 DEF BlocksInv, BlocksTypeOK, FirstCall
  <2>4. NoSampleLost'
    <3>1. heard' = n /\ sampleIndex' = n /\ blockIndex' = 0 /\ 0 * StepSize = 0
      BY <1>2, <2>1, BlocksAssumption DEF FirstCall
    <3>2. \A j \in Slots : j \in Nat
      BY BlocksAssumption DEF Slots
    <3> QED
      BY <1>1, <2>2, <3>1, <3>2 DEF NoSampleLost
  <2> QED
    BY <1>2, <2>1, <2>3, <2>4
    DEF BlocksInv, Fresh, BlocksAreConsecutive, FirstCall
<1>3. CASE FirstCallTraps(n)
  BY <1>1, <1>3 DEF BlocksInv, BlocksTypeOK, Fresh, NoSampleLost, BlocksAreConsecutive,
                    FirstCallTraps, Slots
<1>4. CASE Fill(n)
  <2>1. sampleIndex \in Nat /\ blockIndex \in Nat /\ heard \in Nat
    BY DEF BlocksInv, BlocksTypeOK, Slots
  <2>2. /\ audio' \in [Slots -> Nat]
        /\ \A j \in Slots : audio'[j] =
             IF sampleIndex <= j /\ j < sampleIndex + n
             THEN heard + 1 + (j - sampleIndex) ELSE audio[j]
    BY <1>1, <1>4, <2>1, WrittenFacts DEF BlocksInv, Fill
  <2>3. BlocksTypeOK'
    <3>1. sampleIndex' \in Slots /\ heard' \in Nat
      BY <1>1, <1>4, <2>1, BlocksAssumption DEF Fill, Slots
    <3> QED
      BY <1>4, <2>2, <3>1 DEF BlocksInv, BlocksTypeOK, Fill
  <2>4. /\ heard = blockIndex * StepSize + sampleIndex
        /\ \A j \in Slots : j < sampleIndex => audio[j] = blockIndex * StepSize + j + 1
    BY <1>4 DEF BlocksInv, NoSampleLost, Fill, Live
  <2>5. ASSUME NEW j \in Slots, j < sampleIndex + n
        PROVE  audio'[j] = blockIndex * StepSize + j + 1
    <3>1. j \in Nat /\ blockIndex * StepSize \in Nat
      BY <2>1, NextStart DEF Slots
    <3> QED
      BY <1>1, <2>1, <2>2, <2>4, <2>5, <3>1
  <2>6. NoSampleLost'
    BY <1>1, <1>4, <2>1, <2>4, <2>5, NextStart DEF NoSampleLost, Fill
  <2> QED
    BY <1>4, <2>3, <2>6 DEF BlocksInv, Fresh, BlocksAreConsecutive, Fill, Live
<1> QED
  BY <1>2, <1>3, <1>4 DEF Collect

\* A call that completes a block.
LEMMA CompleteKeepsInv ==
  ASSUME BlocksInv, NEW n \in Chunks, Complete(n)
  PROVE  BlocksInv'
<1> DEFINE used == BlockSize - sampleIndex
<1> DEFINE rest == n - used
<1>1. /\ n \in Nat /\ n <= StepSize
      /\ sampleIndex \in Nat /\ blockIndex \in Nat /\ heard \in Nat
      /\ used \in Nat /\ 0 < used /\ rest \in Nat /\ rest < StepSize
      /\ Overlap \in Nat /\ Overlap + rest < BlockSize
  <2>1. /\ n \in Nat /\ n <= StepSize /\ blockIndex \in Nat /\ heard \in Nat
        /\ sampleIndex \in 0 .. BlockSize - 1 /\ sampleIndex + n >= BlockSize
    BY BlocksAssumption DEF BlocksInv, BlocksTypeOK, Slots, Chunks, Complete
  <2> QED
    BY <2>1, BlocksAssumption DEF Overlap
<1>2. called /\ ~trapped /\ called' /\ ~trapped'
  BY DEF Complete, Live
<1>3. /\ block' \in [Slots -> Nat]
      /\ \A j \in Slots : block'[j] = blockIndex * StepSize + j + 1
  BY <1>1, <1>2, FullBlock, WrittenFacts DEF BlocksInv, Complete
<1>4. heard = blockIndex * StepSize + sampleIndex
  BY <1>2 DEF BlocksInv, NoSampleLost
<1>5. audio' = [j \in Slots |-> IF Overlap <= j /\ j < Overlap + rest
                                THEN heard + used + 1 + (j - Overlap)
                                ELSE Shifted(block')[j]]
  BY DEF Complete
<1>6. audio' \in [Slots -> Nat]
  <2>1. \A j \in Slots : (IF Overlap <= j /\ j < Overlap + rest
                          THEN heard + used + 1 + (j - Overlap)
                          ELSE Shifted(block')[j]) \in Nat
    <3>1. Shifted(block') \in [Slots -> Nat]
      BY <1>3, ShiftedFacts
    <3>2. \A j \in Slots : j \in Nat
      BY BlocksAssumption DEF Slots
    <3> QED
      BY <1>1, <3>1, <3>2
  <2> QED
    BY <1>5, <2>1
<1>7. BlocksTypeOK'
  <2>1. sampleIndex' \in Slots
    BY <1>1, BlocksAssumption DEF Complete, Slots
  <2>2. blockIndex' \in Nat /\ heard' \in Nat
    BY <1>1 DEF Complete
  <2>3. called' \in BOOLEAN /\ trapped' \in BOOLEAN
    BY DEF BlocksInv, BlocksTypeOK, Complete
  <2> QED
    BY <1>3, <1>6, <2>1, <2>2, <2>3 DEF BlocksTypeOK
<1>8. ASSUME NEW j \in Slots, j < Overlap + rest
      PROVE  audio'[j] = (blockIndex + 1) * StepSize + j + 1
  <2>1. j \in Nat /\ blockIndex * StepSize \in Nat /\ StepSize \in Nat
        /\ (blockIndex + 1) * StepSize = blockIndex * StepSize + StepSize
    BY <1>1, NextStart, BlocksAssumption DEF Slots
  <2>2. CASE Overlap <= j
    <3>1. audio'[j] = heard + used + 1 + (j - Overlap)
      BY <1>5, <1>8, <2>2
    <3>2. heard + used = blockIndex * StepSize + BlockSize
      BY <1>1, <1>4, <2>1, BlocksAssumption
    <3> QED
      BY <1>1, <2>1, <3>1, <3>2, BlocksAssumption DEF Overlap
  <2>3. CASE j < Overlap
    <3>1. audio'[j] = block'[j + StepSize] /\ j + StepSize \in Slots
      BY <1>1, <1>3, <1>5, <2>1, <2>3, ShiftedFacts
    <3> QED
      BY <1>3, <2>1, <3>1
  <2> QED
    BY <1>1, <2>1, <2>2, <2>3
<1>9. NoSampleLost'
  <2>1. /\ sampleIndex' = Overlap + rest /\ heard' = heard + n
        /\ blockIndex' = blockIndex + 1
    BY DEF Complete
  <2>2. heard + n = (blockIndex + 1) * StepSize + (Overlap + rest)
    BY <1>1, <1>4, NextStart, BlocksAssumption DEF Overlap
  <2> QED
    BY <1>8, <2>1, <2>2 DEF NoSampleLost
<1>10. BlocksAreConsecutive'
  <2>1. block' = [j \in Slots |-> blockIndex * StepSize + j + 1]
    BY <1>3
  <2>2. blockIndex' = blockIndex + 1 /\ (blockIndex + 1) - 1 = blockIndex
    BY <1>1, NextStart DEF Complete
  <2> QED
    BY <2>1, <2>2 DEF BlocksAreConsecutive
<1> QED
  BY <1>2, <1>7, <1>9, <1>10 DEF BlocksInv, Fresh

-----------------------------------------------------------------------------
\* The invariant holds initially and in every step.
LEMMA BlocksInductive ==
  /\ BlocksInit => BlocksInv
  /\ BlocksInv /\ [BlocksNext]_blockVars => BlocksInv'
<1>1. BlocksInit => BlocksInv
  <2>1. BlocksInit => sampleIndex \in Slots
    BY BlocksAssumption DEF BlocksInit, Slots
  <2>2. BlocksInit => BlocksTypeOK
    <3>1. BlocksInit => audio \in [Slots -> Nat] /\ block \in [Slots -> Nat]
      BY DEF BlocksInit
    <3>2. BlocksInit => called \in BOOLEAN /\ trapped \in BOOLEAN
      BY DEF BlocksInit
    <3>3. BlocksInit => blockIndex \in Nat /\ heard \in Nat
      BY DEF BlocksInit
    <3> QED
      BY <2>1, <3>1, <3>2, <3>3 DEF BlocksTypeOK
  <2>3. BlocksInit => Fresh /\ NoSampleLost
    BY DEF BlocksInit, Fresh, NoSampleLost
  <2>4. BlocksInit => BlocksAreConsecutive
    BY SMT DEF BlocksInit, BlocksAreConsecutive
  <2> QED
    BY <2>2, <2>3, <2>4 DEF BlocksInv
<1>2. ASSUME BlocksInv, UNCHANGED blockVars PROVE BlocksInv'
  BY <1>2 DEF BlocksInv, BlocksTypeOK, Fresh, NoSampleLost, BlocksAreConsecutive, blockVars
<1>3. ASSUME BlocksInv, BlocksNext PROVE BlocksInv'
  BY <1>3, CollectKeepsInv, CompleteKeepsInv DEF BlocksNext
<1> QED
  BY <1>1, <1>2, <1>3

\* The buffer, its index and the counters have their types: every write of
\* olaf_fingerprint_match is inside the buffer, whatever the chunks.
THEOREM BlocksTypes == BlocksSpec => []BlocksTypeOK
<1>1. BlocksInv => BlocksTypeOK
  BY DEF BlocksInv
<1> QED
  BY <1>1, BlocksInductive, PTL DEF BlocksSpec

\* No sample is lost, and block b starts at sample b * StepSize.
THEOREM BlocksAreTimes == BlocksSpec => [](NoSampleLost /\ BlocksAreConsecutive)
<1>1. BlocksInv => NoSampleLost /\ BlocksAreConsecutive
  BY DEF BlocksInv
<1> QED
  BY <1>1, BlocksInductive, PTL DEF BlocksSpec
=============================================================================
