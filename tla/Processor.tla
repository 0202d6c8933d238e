----------------------------- MODULE Processor -----------------------------
(***************************************************************************)
(* The FFT processor: workers that take frames from framerCh, transform    *)
(* them and offer the results to fftCh without blocking.  processFrame     *)
(* never returns an error, so the error branch of the worker is never      *)
(* taken and has no action.                                                *)
(***************************************************************************)
EXTENDS Integers, Sequences, FiniteSets

CONSTANTS
  FftWorkers,  \* cfg.FFT.Workers goroutines
  FftCap       \* capacity of fftCh

VARIABLES
  framerCh,  \* frames from the framer
  fftCh,     \* results for the demultiplexer
  ppc,       \* where each worker is
  pframe,    \* the frame each worker holds, 0 for none
  pstats,    \* Processor.stats
  plost,     \* history: results given up without any counter
  cancelled, closed

processorVars == <<framerCh, fftCh, ppc, pframe, pstats, plost>>

ProcessorPlaces == {"select", "process", "send", "exit"}

ProcessorGo(w, from, to) == ppc[w] = from /\ ppc' = [ppc EXCEPT ![w] = to]

ProcessorReceive(w) ==
  /\ framerCh # <<>>
  /\ ProcessorGo(w, "select", "process")
  /\ pframe' = [pframe EXCEPT ![w] = Head(framerCh)]
  /\ framerCh' = Tail(framerCh)
  /\ UNCHANGED <<fftCh, pstats, plost>>

ProcessorStop(w) ==
  /\ \/ "fft" \in cancelled
     \/ framerCh = <<>> /\ "framerCh" \in closed
  /\ ProcessorGo(w, "select", "exit")
  /\ UNCHANGED <<framerCh, fftCh, pframe, pstats, plost>>

TransformFrame(w) ==
  /\ ProcessorGo(w, "process", "send")
  /\ pstats' = [pstats EXCEPT !.FramesProcessed = @ + 1]
  /\ UNCHANGED <<framerCh, fftCh, pframe, plost>>

ProcessorLetGo(w) == pframe' = [pframe EXCEPT ![w] = 0]

ProcessorSend(w) ==
  /\ Len(fftCh) < FftCap
  /\ ProcessorGo(w, "send", "select")
  /\ fftCh' = Append(fftCh, pframe[w])
  /\ ProcessorLetGo(w)
  /\ UNCHANGED <<framerCh, pstats, plost>>

ProcessorAbandon(w) ==
  /\ "fft" \in cancelled
  /\ ProcessorGo(w, "send", "exit")
  /\ ProcessorLetGo(w)
  /\ plost' = plost + 1
  /\ UNCHANGED <<framerCh, fftCh, pstats>>

ProcessorSkipRequeues(w) ==  \* mutant: a full fftCh sends the frame back
  /\ Len(fftCh) >= FftCap
  /\ "fft" \notin cancelled
  /\ ProcessorGo(w, "send", "select")
  /\ framerCh' = Append(framerCh, pframe[w])
  /\ ProcessorLetGo(w)
  /\ UNCHANGED <<fftCh, pstats, plost>>

ProcessorSkip(w) ==
  /\ Len(fftCh) >= FftCap
  /\ "fft" \notin cancelled
  /\ ProcessorGo(w, "send", "select")
  /\ ProcessorLetGo(w)
  /\ pstats' = [pstats EXCEPT !.DroppedFrames = @ + 1]
  /\ UNCHANGED <<framerCh, fftCh, plost>>

ProcessorWork(w) ==
  \/ ProcessorReceive(w) \/ ProcessorStop(w) \/ TransformFrame(w)
  \/ ProcessorSend(w) \/ ProcessorAbandon(w) \/ ProcessorSkip(w)

ProcessorExited == \A w \in FftWorkers : ppc[w] = "exit"

(* framerCh belongs to the framer's initial state, fftCh to the demux's.   *)
ProcessorInit ==
  /\ ppc = [w \in FftWorkers |-> "select"]
  /\ pframe = [w \in FftWorkers |-> 0]
  /\ pstats = [FramesProcessed |-> 0, DroppedFrames |-> 0]
  /\ plost = 0
=============================================================================
