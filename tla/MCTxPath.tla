----------------------------- MODULE MCTxPath ------------------------------
EXTENDS TxPath, TLC

CONSTANTS engine, tun, console, mux

\* Cache instance: two PPP senders and the console; N1 = 4, so that the engine
\* sends a full frame and a tail, the tun thread an exact frame or two.
CacheSender == {engine, tun, console}
CacheSource == CacheSender \union {mux}
CacheDlciOf == [s \in CacheSender |-> IF s = console THEN 1 ELSE 2]
CachePacketLens == (engine :> {6, 8}) @@ (tun :> {4}) @@ (console :> {2})

\* Flow-control instance: both PPP senders on one channel.
FlowSender == {engine, tun}
FlowSource == FlowSender \union {mux}
FlowDlciOf == [s \in FlowSender |-> 2]
FlowPacketLens == (engine :> {2}) @@ (tun :> {5})
=============================================================================
