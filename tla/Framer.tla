------------------------------- MODULE Framer -------------------------------
(***************************************************************************)
(* The framer: workers that take datagrams from udpCh, check and number    *)
(* them, and offer the frames to framerCh without blocking.  The extraction*)
(* of the samples does not affect the flow of frames and is left out.      *)
(***************************************************************************)
EXTENDS Integers, Sequences, FiniteSets

CONSTANTS
  FramerWorkers,  \* at most four goroutines
  FramerCap       \* capacity of framerCh

VARIABLES
  udpCh,     \* datagrams from the listener
  framerCh,  \* frame numbers for the FFT processor
  fpc,       \* where each worker is
  fpacket,   \* the datagram each worker parses
  fframe,    \* the number of the frame each worker made, 0 for none
  frameNum,  \* Framer.frameNum
  fstats,    \* Framer.stats
  flost,     \* history: frames given up without any counter
  cancelled, closed

framerVars == <<udpCh, framerCh, fpc, fpacket, fframe, frameNum, fstats, flost>>

NoPacket == [id |-> 0, kind |-> "none"]
FramerPlaces == {"select", "parse", "send", "exit"}

FramerGo(w, from, to) == fpc[w] = from /\ fpc' = [fpc EXCEPT ![w] = to]

FramerReceive(w) ==
  /\ udpCh # <<>>
  /\ FramerGo(w, "select", "parse")
  /\ fpacket' = [fpacket EXCEPT ![w] = Head(udpCh)]
  /\ udpCh' = Tail(udpCh)
  /\ UNCHANGED <<framerCh, fframe, frameNum, fstats, flost>>

FramerStop(w) ==
  /\ \/ "framer" \in cancelled
     \/ udpCh = <<>> /\ "udpCh" \in closed
  /\ FramerGo(w, "select", "exit")
  /\ UNCHANGED <<udpCh, framerCh, fpacket, fframe, frameNum, fstats, flost>>

ParseFrameUnlocked(w) ==  \* mutant: frameNum++ without f.mu may lose an update
  /\ fpacket[w].kind = "frame"
  /\ FramerGo(w, "parse", "send")
  /\ \E stale \in {frameNum, frameNum - 1} :
       /\ stale >= 0
       /\ frameNum' = stale + 1
       /\ fframe' = [fframe EXCEPT ![w] = stale + 1]
  /\ fpacket' = [fpacket EXCEPT ![w] = NoPacket]
  /\ fstats' = [fstats EXCEPT !.FramesParsed = @ + 1]
  /\ UNCHANGED <<udpCh, framerCh, flost>>

(* parseFrame on a complete frame: the next number, taken under the lock   *)
(* some time after the receive, so numbers need not follow arrival.        *)
ParseFrame(w) ==
  /\ fpacket[w].kind = "frame"
  /\ FramerGo(w, "parse", "send")
  /\ frameNum' = frameNum + 1
  /\ fframe' = [fframe EXCEPT ![w] = frameNum + 1]
  /\ fpacket' = [fpacket EXCEPT ![w] = NoPacket]
  /\ fstats' = [fstats EXCEPT !.FramesParsed = @ + 1]
  /\ UNCHANGED <<udpCh, framerCh, flost>>

(* ErrInvalidFrameSize and ErrInvalidHeader also count as invalid frames,  *)
(* ErrFrameIncomplete does not.                                            *)
RejectFrame(w) ==
  /\ fpacket[w].kind # "frame"
  /\ FramerGo(w, "parse", "select")
  /\ fpacket' = [fpacket EXCEPT ![w] = NoPacket]
  /\ fstats' = [fstats EXCEPT
                  !.Errors = @ + 1,
                  !.InvalidFrames = IF fpacket[w].kind = "invalid" THEN @ + 1 ELSE @]
  /\ UNCHANGED <<udpCh, framerCh, fframe, frameNum, flost>>

FramerLetGo(w) == fframe' = [fframe EXCEPT ![w] = 0]

FramerSend(w) ==
  /\ Len(framerCh) < FramerCap
  /\ FramerGo(w, "send", "select")
  /\ framerCh' = Append(framerCh, fframe[w])
  /\ FramerLetGo(w)
  /\ UNCHANGED <<udpCh, fpacket, frameNum, fstats, flost>>

FramerAbandon(w) ==
  /\ "framer" \in cancelled
  /\ FramerGo(w, "send", "exit")
  /\ FramerLetGo(w)
  /\ flost' = flost + 1
  /\ UNCHANGED <<udpCh, framerCh, fpacket, frameNum, fstats>>

(* The default case only logs: no counter sees the frame dropped.          *)
FramerSkip(w) ==
  /\ Len(framerCh) >= FramerCap
  /\ "framer" \notin cancelled
  /\ FramerGo(w, "send", "select")
  /\ FramerLetGo(w)
  /\ flost' = flost + 1
  /\ UNCHANGED <<udpCh, framerCh, fpacket, frameNum, fstats>>

FramerWork(w) ==
  \/ FramerReceive(w) \/ FramerStop(w)
  \/ ParseFrame(w) \/ RejectFrame(w)
  \/ FramerSend(w) \/ FramerAbandon(w) \/ FramerSkip(w)

FramerExited == \A w \in FramerWorkers : fpc[w] = "exit"

(* udpCh belongs to the listener's initial state.                          *)
FramerInit ==
  /\ framerCh = <<>>
  /\ fpc = [w \in FramerWorkers |-> "select"]
  /\ fpacket = [w \in FramerWorkers |-> NoPacket]
  /\ fframe = [w \in FramerWorkers |-> 0]
  /\ frameNum = 0
  /\ fstats = [FramesParsed |-> 0, Errors |-> 0, InvalidFrames |-> 0]
  /\ flost = 0
=============================================================================
