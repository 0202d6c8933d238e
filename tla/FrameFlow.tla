----------------------------- MODULE FrameFlow -----------------------------
(***************************************************************************)
(* What the pipeline promises about one numbered frame: it is born with    *)
(* the next number, moves one stage at a time from hand to channel to hand *)
(* and leaves only from a hand, or from the last channel when the sink     *)
(* finds it invalid.  It is never in two stages, never goes back, and is   *)
(* never taken out of the first two channels but by the next stage.        *)
(***************************************************************************)
EXTENDS Integers

CONSTANT Frames   \* frame numbers, 1..n for some n

VARIABLE stage    \* the stage each frame is in

Unborn == 0
InFramer == 1
InFramerCh == 2
InFft == 3
InFftCh == 4
InDemux == 5
InMeasCh == 6
InSink == 7
Gone == 8

FlowInit == stage = [n \in Frames |-> Unborn]

Born(n) ==
  /\ stage[n] = Unborn
  /\ \A k \in Frames : k < n => stage[k] # Unborn
  /\ stage' = [stage EXCEPT ![n] = InFramer]

Forward(n) ==
  /\ stage[n] \in InFramer..InMeasCh
  /\ stage' = [stage EXCEPT ![n] = @ + 1]

Leave(n) ==
  /\ stage[n] \in {InFramer, InFft, InDemux, InMeasCh, InSink}
  /\ stage' = [stage EXCEPT ![n] = Gone]

FlowNext == \E n \in Frames : Born(n) \/ Forward(n) \/ Leave(n)

FlowSpec == FlowInit /\ [][FlowNext]_stage
=============================================================================
