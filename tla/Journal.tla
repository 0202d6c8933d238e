------------------------------ MODULE Journal ------------------------------
(***************************************************************************)
(* What the storage promises: a bounded first-in first-out queue of        *)
(* accepted measurements that is emptied from the front, a batch at a      *)
(* time, each batch going whole into the log or being given up whole.      *)
(* Measurements are their serial numbers.                                  *)
(***************************************************************************)
EXTENDS Integers, Sequences

CONSTANTS
  JournalCap,   \* most measurements that can be waiting
  BatchMax      \* largest batch

VARIABLES
  queue,    \* serial numbers waiting
  log,      \* serial numbers written
  last      \* last serial number given out

journalVars == <<queue, log, last>>

JournalInit == queue = <<>> /\ log = <<>> /\ last = 0

Enqueue ==
  /\ Len(queue) < JournalCap
  /\ queue' = Append(queue, last + 1)
  /\ last' = last + 1
  /\ UNCHANGED log

(* The first k leave the queue, and reach the log together or not at all.  *)
Settle(k) ==
  /\ queue' = SubSeq(queue, k + 1, Len(queue))
  /\ log' = log \o SubSeq(queue, 1, k) \/ log' = log
  /\ UNCHANGED last

JournalNext ==
  Enqueue \/ \E k \in 1..BatchMax : k <= Len(queue) /\ Settle(k)

JournalSpec == JournalInit /\ [][JournalNext]_journalVars
=============================================================================
