------------------------------ MODULE Listener ------------------------------
(***************************************************************************)
(* The UDP listener: each worker reads datagrams from its own socket,      *)
(* copies each into a pooled frame and offers it to udpCh without          *)
(* blocking.  A datagram is what the framer will make of it: a complete    *)
(* frame, one that is too short or has a wrong magic, or an incomplete     *)
(* one.  The network is external: any datagram may arrive, and a read may  *)
(* fail.  The pooled frames are the subject of BufferPool.                 *)
(*                                                                         *)
(* Start binds one socket per worker, all of them to cfg.UDP.ListenAddr:   *)
(* cfg.UDP.Port is never read.  An address is what becomes of it: without  *)
(* a port it does not resolve, with one it can be bound once, and with     *)
(* port 0 every socket gets a port of its own.                             *)
(***************************************************************************)
EXTENDS Integers, Sequences, FiniteSets

CONSTANTS
  ListenerWorkers,  \* cfg.UDP.Workers goroutines
  Kinds,            \* the kinds of datagram that arrive
  UdpCap,           \* capacity of udpCh
  ListenAddrs,      \* the forms of cfg.UDP.ListenAddr that are tried
  BindMayFail,      \* may the system refuse a bind
  MaxDatagrams,     \* bound: datagrams that arrive
  MaxReadErrors     \* bound: failed reads while the sockets are open

VARIABLES
  udpCh,       \* datagrams for the framer
  lpc,         \* where each worker is
  lheld,       \* the datagram each worker holds
  lstats,      \* Listener.stats
  llost,       \* history: datagrams given up without any counter
  listenAddr,  \* cfg.UDP.ListenAddr
  conns,       \* the workers whose socket is open
  offered,     \* datagrams that have arrived (network)
  cancelled, closed

listenerVars == <<udpCh, lpc, lheld, lstats, llost, offered>>

NoDatagram == [id |-> 0, kind |-> "none"]
Addresses == {"host", "host:port", "host:0"}
ListenerPlaces == {"unborn", "top", "read", "failed", "send", "exit"}

ListenerGo(w, from, to) == lpc[w] = from /\ lpc' = [lpc EXCEPT ![w] = to]

-----------------------------------------------------------------------------
(* Start and Close, called by main.                                        *)
Resolves == listenAddr # "host"

Bindable == conns = {} \/ listenAddr = "host:0"

BindSocket(w) ==
  /\ Resolves /\ Bindable
  /\ ListenerGo(w, "unborn", "top")
  /\ conns' = conns \cup {w}
  /\ UNCHANGED <<udpCh, lheld, lstats, llost, offered>>

BindRefused ==
  /\ Resolves
  /\ \E w \in ListenerWorkers : lpc[w] = "unborn"
  /\ Bindable => BindMayFail

Bound == \A w \in ListenerWorkers : lpc[w] # "unborn"

CloseConnsOnceBound ==  \* mutant: the sockets are recorded after the loop
  conns' = IF Bound THEN {} ELSE conns

CloseConns == conns' = {}

ListenerExited == \A w \in ListenerWorkers : lpc[w] \in {"unborn", "exit"}

-----------------------------------------------------------------------------
(* The select at the head of the loop, and the one after a failed read,    *)
(* only look at the context; the sleep after a failure is not timed.       *)
Poll(w) ==
  /\ \E from \in {"top", "failed"} :
       ListenerGo(w, from,
                  IF "listener" \in cancelled THEN "exit"
                  ELSE IF from = "failed" THEN "top" ELSE "read")
  /\ UNCHANGED <<udpCh, lheld, lstats, llost, offered>>

(* ReadMsgUDP returns a datagram: the copy into a frame and the counter.   *)
ReadDatagram(w) ==
  /\ w \in conns
  /\ offered < MaxDatagrams
  /\ ListenerGo(w, "read", "send")
  /\ offered' = offered + 1
  /\ \E k \in Kinds : lheld' = [lheld EXCEPT ![w] = [id |-> offered + 1, kind |-> k]]
  /\ lstats' = [lstats EXCEPT !.PacketsReceived = @ + 1]
  /\ UNCHANGED <<udpCh, llost>>

(* An empty datagram: no frame and no counter.                             *)
ReadEmpty(w) ==
  /\ w \in conns
  /\ ListenerGo(w, "read", "top")
  /\ UNCHANGED <<udpCh, lheld, lstats, llost, offered>>

(* A read fails when its socket is closed, and may fail before.            *)
ReadFails(w) ==
  /\ w \notin conns \/ lstats.Errors < MaxReadErrors
  /\ ListenerGo(w, "read", "failed")
  /\ lstats' = [lstats EXCEPT !.Errors = @ + 1]
  /\ UNCHANGED <<udpCh, lheld, llost, offered>>

DropDatagram(w) == lheld' = [lheld EXCEPT ![w] = NoDatagram]

ListenerSend(w) ==
  /\ Len(udpCh) < UdpCap
  /\ ListenerGo(w, "send", "top")
  /\ udpCh' = Append(udpCh, lheld[w])
  /\ DropDatagram(w)
  /\ UNCHANGED <<lstats, llost, offered>>

ListenerAbandon(w) ==
  /\ "listener" \in cancelled
  /\ ListenerGo(w, "send", "exit")
  /\ DropDatagram(w)
  /\ llost' = llost + 1
  /\ UNCHANGED <<udpCh, lstats, offered>>

ListenerSkipUncounted(w) ==  \* mutant: the drop is not counted
  /\ Len(udpCh) >= UdpCap
  /\ "listener" \notin cancelled
  /\ ListenerGo(w, "send", "top")
  /\ DropDatagram(w)
  /\ UNCHANGED <<udpCh, lstats, llost, offered>>

ListenerSkip(w) ==
  /\ Len(udpCh) >= UdpCap
  /\ "listener" \notin cancelled
  /\ ListenerGo(w, "send", "top")
  /\ DropDatagram(w)
  /\ lstats' = [lstats EXCEPT !.PacketsDropped = @ + 1]
  /\ UNCHANGED <<udpCh, llost, offered>>

ListenerWork(w) ==
  \/ Poll(w) \/ ReadDatagram(w) \/ ReadEmpty(w) \/ ReadFails(w)
  \/ ListenerSend(w) \/ ListenerAbandon(w) \/ ListenerSkip(w)

ListenerInit ==
  /\ listenAddr \in ListenAddrs
  /\ conns = {}
  /\ udpCh = <<>>
  /\ lpc = [w \in ListenerWorkers |-> "unborn"]
  /\ lheld = [w \in ListenerWorkers |-> NoDatagram]
  /\ lstats = [PacketsReceived |-> 0, PacketsDropped |-> 0, Errors |-> 0]
  /\ llost = 0
  /\ offered = 0
=============================================================================
