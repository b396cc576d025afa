-------------------------- MODULE NodeStop_proofs --------------------------
(***************************************************************************)
(* HandlersDown, for any peers, channel size and batches.  Tangerine.Stop  *)
(* closes the set of peers before it waits for them; a closed set takes no *)
(* peer, so that those the wait did not find stay out.                     *)
(***************************************************************************)
EXTENDS NodeStop, TLAPS

\* A call of Stop that waits for the peers has closed their set.
Closed ==
  \A c \in Callers :
    stop[c] \in {"wait", "proposer", "proposer2", "rest"} => pm.closed

StopInv == HandlersDown /\ Closed

LEMMA StopInit == Init => StopInv
<1> SUFFICES ASSUME Init PROVE StopInv
  BY Zenon
<1>1. 0 \in 0..MaxBatch /\ 0 \in 0..ReceiveChannelSize /\ 2 \in 0..2
  BY SizesAssumption
<1>2. /\ peer \in [Peers -> {"out", "accepted", "counted", "handling", "gone"}]
      /\ batch \in [Peers -> 0..MaxBatch] /\ connected \subseteq Peers
      /\ pm \in [syncer : BOOLEAN, quit : BOOLEAN, closed : BOOLEAN]
  BY Zenon, <1>1 DEF Init
<1>3. /\ stop \in [Callers -> {"none", "indexer", "indexer2", "syncer", "quit",
                               "peers", "wait", "proposer", "proposer2", "rest"}]
      /\ \A c \in Callers : stop[c] = "none"
  BY Zenon DEF Init
<1>4. TypeOK
  BY Zenon, <1>1, <1>2, <1>3 DEF Init, TypeOK
<1> QED  BY Zenon, <1>3, <1>4 DEF StopInv, HandlersDown, Closed

\* The steps of a peer: only an open set takes it.
LEMMA PeerStep ==
  ASSUME StopInv, NEW p \in Peers, PeerSteps(p)
  PROVE  StopInv'
<1>0. TypeOK /\ Closed /\ HandlersDown
  BY Zenon DEF StopInv, HandlersDown
<1>1. /\ stop' = stop /\ pm' = pm /\ receiving' = receiving /\ core' = core
      /\ guard' = guard /\ bp' = bp /\ stopCh' = stopCh /\ indexer' = indexer
      /\ exited' = FALSE
  BY Zenon DEF PeerSteps, NewPeer, AddPeer, Register, Leave, Disconnect, sendCoreMsg, HandleMsg,
         Alive, channel, proposer
<1>2. /\ peer' \in [Peers -> {"out", "accepted", "counted", "handling", "gone"}]
      /\ \A q \in Peers : peer'[q] = "handling" => peer[q] = "handling" \/ ~pm.closed
  BY Zenon, <1>0 DEF PeerSteps, NewPeer, AddPeer, Register, Leave, Disconnect, sendCoreMsg, HandleMsg,
         Goes, TypeOK
<1>3. /\ batch' \in [Peers -> 0..MaxBatch] /\ receiveCh' \in 0..ReceiveChannelSize
      /\ connected' \subseteq Peers
  BY <1>0, SizesAssumption DEF PeerSteps, NewPeer, AddPeer, Register, Leave, Disconnect,
         sendCoreMsg, HandleMsg, channel, TypeOK
<1>4. TypeOK'
  BY ZenonT(30), <1>0, <1>1, <1>2, <1>3 DEF TypeOK
<1>5. Closed'
  BY Zenon, <1>0, <1>1 DEF Closed
<1>6. ASSUME NEW c \in Callers, stop'[c] \in {"proposer", "proposer2", "rest"}, NEW q \in Peers
      PROVE  peer'[q] # "handling"
  BY Zenon, <1>0, <1>1, <1>2, <1>6 DEF Closed, HandlersDown
<1> QED  BY Zenon, <1>4, <1>5, <1>6 DEF StopInv, HandlersDown

\* The other goroutines leave the peers and the calls of Stop past their
\* beginning alone.
LEMMA OtherStep ==
  ASSUME StopInv,
         \/ deliverNetworkMsg \/ MessageLoopStuck
         \/ GuardSignals \/ GuardPanics \/ GuardCancels
         \/ ProposerSteps \/ OperatorStops
  PROVE  StopInv'
<1>0. TypeOK /\ Closed /\ HandlersDown
  BY Zenon DEF StopInv, HandlersDown
<1>1. /\ peer' = peer /\ batch' = batch /\ connected' = connected /\ pm' = pm
      /\ indexer' = indexer /\ stopCh' = stopCh /\ receiving' = receiving
      /\ exited' \in BOOLEAN
  BY Zenon DEF deliverNetworkMsg, MessageLoopStuck, GuardSignals, GuardPanics, GuardCancels,
         ProposerSteps, Synced, StopSignal, StopService, ProposerReturns, OperatorStops,
         Alive, Ends, peers, channel, proposer
<1>2. /\ core' \in {"running", "stuck", "cancelled"}
      /\ guard' \in {"watching", "signalled", "done"}
      /\ bp' \in {"syncing", "running", "stopping", "leaving", "returned"}
      /\ receiveCh' \in 0..ReceiveChannelSize
  BY <1>0, SizesAssumption
     DEF deliverNetworkMsg, MessageLoopStuck, GuardSignals, GuardPanics, GuardCancels,
         ProposerSteps, Synced, StopSignal, StopService, ProposerReturns, OperatorStops,
         channel, proposer, TypeOK
<1>3. stop' = stop \/ \E c \in Callers : stop' = [stop EXCEPT ![c] = "indexer"]
  BY Zenon DEF deliverNetworkMsg, MessageLoopStuck, GuardSignals, GuardPanics, GuardCancels,
         ProposerSteps, Synced, StopSignal, StopService, ProposerReturns, OperatorStops,
         Then, Callers
<1>4. /\ stop' \in [Callers -> {"none", "indexer", "indexer2", "syncer", "quit",
                                "peers", "wait", "proposer", "proposer2", "rest"}]
      /\ \A c \in Callers : stop'[c] = stop[c] \/ stop'[c] = "indexer"
  BY Zenon, <1>0, <1>3 DEF TypeOK
<1>5. TypeOK'
  BY Zenon, <1>0, <1>1, <1>2, <1>4 DEF TypeOK
<1>6. Closed'
  BY Zenon, <1>0, <1>1, <1>4 DEF Closed
<1>7. ASSUME NEW c \in Callers, stop'[c] \in {"proposer", "proposer2", "rest"}, NEW q \in Peers
      PROVE  peer'[q] # "handling"
  BY Zenon, <1>0, <1>1, <1>4, <1>7 DEF HandlersDown
<1> QED  BY Zenon, <1>5, <1>6, <1>7 DEF StopInv, HandlersDown

\* A call of Stop: the set is closed before the wait, and the wait ends when
\* no peer is counted.
LEMMA StopStep ==
  ASSUME StopInv, NEW c \in Callers, StopSteps(c)
  PROVE  StopInv'
<1>0. TypeOK /\ Closed /\ HandlersDown
  BY Zenon DEF StopInv, HandlersDown
<1>1. /\ peer' = peer /\ batch' = batch /\ receiveCh' = receiveCh /\ core' = core
      /\ guard' = guard /\ bp' = bp /\ exited' \in BOOLEAN
  BY Zenon DEF StopSteps, CloseIndexer, StopSyncer, Quit, ClosePeers, WaitForPeers, StopProposer,
         WaitForProposer, Exit, Alive, Ends, peers, channel, proposer
<1>2. /\ connected' \subseteq Peers /\ receiving' \in BOOLEAN
      /\ stopCh' \in {"open", "closed"}
      /\ indexer' = indexer \/ (indexer > 0 /\ indexer' = indexer - 1)
  BY Zenon, <1>0 DEF StopSteps, CloseIndexer, StopSyncer, Quit, ClosePeers, WaitForPeers,
         StopProposer, WaitForProposer, Exit, peers, channel, proposer, TypeOK
<1>3. /\ pm' \in [syncer : BOOLEAN, quit : BOOLEAN, closed : BOOLEAN]
      /\ pm.closed => pm'.closed
  BY Zenon, <1>0 DEF StopSteps, CloseIndexer, StopSyncer, Quit, ClosePeers, WaitForPeers,
         StopProposer, WaitForProposer, Exit, TypeOK
<1>4. PICK pc \in {"indexer2", "syncer", "quit", "peers", "wait", "proposer",
                    "proposer2", "rest"} :
        /\ stop' = [stop EXCEPT ![c] = pc] \/ stop' = stop
        /\ pc = "wait" => pm'.closed
        /\ pc = "proposer" => /\ stop[c] = "wait"
                              /\ \A p \in Peers : peer[p] # "handling"
        /\ pc \in {"proposer2", "rest"} => stop[c] \in {"proposer", "proposer2"}
  BY Zenon, <1>0 DEF StopSteps, CloseIndexer, StopSyncer, Quit, ClosePeers, WaitForPeers,
         StopProposer, WaitForProposer, Exit, At, Then, TypeOK
<1>5. /\ stop' \in [Callers -> {"none", "indexer", "indexer2", "syncer", "quit",
                                "peers", "wait", "proposer", "proposer2", "rest"}]
      /\ \A d \in Callers : stop'[d] = stop[d] \/ (d = c /\ stop'[d] = pc)
  BY <1>0, <1>4 DEF TypeOK
<1>6. TypeOK'
  <2>1. indexer' \in 0..2
    BY <1>0, <1>2 DEF TypeOK
  <2> QED  BY Zenon, <1>0, <1>1, <1>2, <1>3, <1>5, <2>1 DEF TypeOK
<1>7. Closed'
  BY Zenon, <1>0, <1>3, <1>4, <1>5 DEF Closed
<1>8. ASSUME NEW d \in Callers, stop'[d] \in {"proposer", "proposer2", "rest"}, NEW p \in Peers
      PROVE  peer'[p] # "handling"
  BY Zenon, <1>0, <1>1, <1>4, <1>5, <1>8 DEF HandlersDown
<1> QED  BY Zenon, <1>6, <1>7, <1>8 DEF StopInv, HandlersDown

LEMMA StopNext == StopInv /\ [Next]_vars => StopInv'
<1> SUFFICES ASSUME StopInv, [Next]_vars PROVE StopInv'
  BY Zenon
<1>1. CASE UNCHANGED vars
  BY <1>1 DEF vars, peers, channel, proposer, StopInv, HandlersDown, Closed, TypeOK
<1>2. CASE Next
  BY Zenon, <1>2, PeerStep, OtherStep, StopStep DEF Next
<1> QED  BY Zenon, <1>1, <1>2

\* ProtocolManager.Stop: past the wait for the peers no handler runs, and none
\* is started any more.
THEOREM StopHandlersDown == Spec => []HandlersDown
<1>1. StopInv => HandlersDown
  BY Zenon DEF StopInv
<1> QED  BY <1>1, StopInit, StopNext, PTL DEF Spec
=============================================================================
