----------------------------- MODULE OlafBlocks -----------------------------
(***************************************************************************)
(* From render quanta to audio blocks: process() hands every quantum,      *)
(* resampled, to olaf_fingerprint_match, which cuts the stream into        *)
(* overlapping blocks (Olaf: wasm/js/olaf_processor_edit.js process,       *)
(* src/olaf_wasm.c olaf_fingerprint_match).                                *)
(*                                                                         *)
(* Samples are numbered from 1 in the order process() hands them over; 0   *)
(* is what calloc left in the buffer.                                      *)
(***************************************************************************)
EXTENDS Integers

CONSTANTS
  BlockSize,   \* config->audioBlockSize
  StepSize,    \* config->audioStepSize
  MaxChunk,    \* most samples the resampler makes of one quantum
  LowMemory,   \* what address 0 may hold when config is read through NULL:
               \* "zero", or the "cookie" of a build with assertions
  MaxBlocks    \* bound: blocks processed

VARIABLES
  audio,        \* state.audio
  sampleIndex,  \* state.audio_sample_index
  blockIndex,   \* state.audio_block_index
  called,       \* the first call has set everything up (fftSetup # NULL)
  trapped,      \* the engine wrote outside its memory; process() threw
  heard,        \* samples handed over
  block         \* the block processed last

blockVars == <<audio, sampleIndex, blockIndex, called, trapped, heard, block>>

Slots   == 0 .. BlockSize - 1
Overlap == BlockSize - StepSize
Chunks  == 0 .. MaxChunk

ASSUME BlocksAssumption ==
  /\ BlockSize \in Nat /\ StepSize \in Nat /\ MaxChunk \in Nat /\ MaxBlocks \in Nat
  /\ 0 < StepSize /\ StepSize < BlockSize
  /\ MaxChunk <= StepSize
  /\ LowMemory \subseteq {"zero", "cookie"}

\* The buffer after k more samples, from slot i on.
Written(buf, i, k) ==
  [j \in Slots |-> IF i <= j /\ j < i + k THEN heard + 1 + (j - i) ELSE buf[j]]

\* The first call reads step_size and block_size through state.config before
\* it is set.  Zeros put the first sample at index 0, and no block is full in
\* this call since the size to compare with is 0 ...
FirstCall(n) ==
  /\ ~called /\ "zero" \in LowMemory
  /\ called' = TRUE /\ heard' = n
  /\ audio' = Written(audio, 0, n) /\ sampleIndex' = n
  /\ UNCHANGED <<blockIndex, trapped, block>>

\* ... a stack cookie puts it far behind the buffer.
FirstCallTraps(n) ==
  /\ ~called /\ "cookie" \in LowMemory
  /\ called' = TRUE /\ heard' = n /\ trapped' = TRUE
  /\ UNCHANGED <<audio, sampleIndex, blockIndex, block>>

\* Any later call; at most one block becomes full because MaxChunk <= StepSize.
Live == called /\ ~trapped /\ blockIndex < MaxBlocks

Fill(n) ==
  /\ Live /\ sampleIndex + n < BlockSize
  /\ audio' = Written(audio, sampleIndex, n)
  /\ sampleIndex' = sampleIndex + n /\ heard' = heard + n
  /\ UNCHANGED <<blockIndex, called, trapped, block>>

Shifted(buf) == [j \in Slots |-> IF j < Overlap THEN buf[j + StepSize] ELSE buf[j]]

CompleteWithoutShift(n) ==
  /\ Live /\ sampleIndex + n >= BlockSize
  /\ LET used == BlockSize - sampleIndex
         rest == n - used
     IN /\ block' = Written(audio, sampleIndex, used)
        /\ audio' = [j \in Slots |-> IF Overlap <= j /\ j < Overlap + rest
                                     THEN heard + used + 1 + (j - Overlap) ELSE block'[j]]
        /\ sampleIndex' = Overlap + rest
  /\ blockIndex' = blockIndex + 1 /\ heard' = heard + n
  /\ UNCHANGED <<called, trapped>>

CompleteDropsRest(n) ==
  /\ Live /\ sampleIndex + n >= BlockSize
  /\ block' = Written(audio, sampleIndex, BlockSize - sampleIndex)
  /\ audio' = Shifted(block') /\ sampleIndex' = Overlap
  /\ blockIndex' = blockIndex + 1 /\ heard' = heard + n
  /\ UNCHANGED <<called, trapped>>

\* The block is full: it is processed, its last Overlap samples move to the
\* front, and the rest of the chunk goes behind them.
Complete(n) ==
  /\ Live /\ sampleIndex + n >= BlockSize
  /\ LET used == BlockSize - sampleIndex
         rest == n - used
     IN /\ block' = Written(audio, sampleIndex, used)
        /\ audio' = [j \in Slots |-> IF Overlap <= j /\ j < Overlap + rest
                                     THEN heard + used + 1 + (j - Overlap)
                                     ELSE Shifted(block')[j]]
        /\ sampleIndex' = Overlap + rest
  /\ blockIndex' = blockIndex + 1 /\ heard' = heard + n
  /\ UNCHANGED <<called, trapped>>

BlocksInit ==
  /\ audio = [j \in Slots |-> 0] /\ block = [j \in Slots |-> 0]
  /\ sampleIndex = 0 /\ blockIndex = 0 /\ heard = 0
  /\ called = FALSE /\ trapped = FALSE

\* A call that completes no block.
Collect(n) == FirstCall(n) \/ FirstCallTraps(n) \/ Fill(n)

BlocksNext == \E n \in Chunks : Collect(n) \/ Complete(n)

BlocksSpec == BlocksInit /\ [][BlocksNext]_blockVars

-----------------------------------------------------------------------------
BlocksTypeOK ==
  /\ audio \in [Slots -> Nat] /\ block \in [Slots -> Nat]
  /\ sampleIndex \in Slots
  /\ blockIndex \in Nat /\ heard \in Nat
  /\ called \in BOOLEAN /\ trapped \in BOOLEAN

\* However the resampler cuts the stream, each block holds BlockSize consecutive
\* samples and starts StepSize samples after the one before: block b starts at
\* sample b * StepSize, so a block number is a time.
BlocksAreConsecutive ==
  blockIndex > 0 =>
    block = [j \in Slots |-> (blockIndex - 1) * StepSize + j + 1]

\* Between calls the buffer holds what the next block needs, and no sample that
\* was handed over is lost.
NoSampleLost ==
  called /\ ~trapped =>
    /\ heard = blockIndex * StepSize + sampleIndex
    /\ \A j \in Slots : j < sampleIndex => audio[j] = blockIndex * StepSize + j + 1
=============================================================================
