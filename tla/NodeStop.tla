------------------------------ MODULE NodeStop ------------------------------
(***************************************************************************)
(* How a node that proposes blocks comes down.  Tangerine.Stop is called   *)
(* by the node, when the operator stops it, and by the block proposer, when *)
(* the core's delivery guard has seen no block for a minute and the process *)
(* is to be restarted.  It waits for the goroutines of the peers, which may *)
(* be inside sendCoreMsg, a send to a bounded channel only the core reads. *)
(* A peer connects once; the messages it sends are for the core.           *)
(***************************************************************************)
EXTENDS Naturals, FiniteSets

CONSTANTS
  Peers,
  ReceiveChannelSize,   \* the capacity of receiveCh (2048 in the code)
  MaxBatch              \* bound: the votes or blocks in one message

ASSUME SizesAssumption ==
  ReceiveChannelSize \in Nat \ {0} /\ MaxBatch \in Nat \ {0}

\* Who calls Tangerine.Stop.
Callers == {"node", "proposer"}

VARIABLES
  peer,       \* where the goroutine of each peer is
  batch,      \* what the handler of a peer has left to send to the core
  connected,  \* the peers whose session is up
  receiveCh,  \* the number of messages in the channel
  receiving,  \* receiveCoreMessage
  core,       \* the core that reads the channel
  guard,      \* the delivery guard
  bp,         \* the goroutine of the block proposer
  stopCh,     \* whether stopCh is closed
  indexer,    \* the loops of the bloom indexer that run
  pm,         \* protocol manager: syncer runs, quitSync closed, peers closed
  stop,       \* where each call of Tangerine.Stop is
  exited      \* the process has ended

peers == <<peer, batch, connected>>
channel == <<receiveCh, receiving>>
proposer == <<guard, bp, stopCh>>
vars == <<peers, channel, core, proposer, indexer, pm, stop, exited>>

Init ==
  /\ peer = [p \in Peers |-> "out"]
  /\ batch = [p \in Peers |-> 0]
  /\ connected = {}
  /\ receiveCh = 0
  /\ receiving = TRUE
  /\ core = "running"
  /\ guard = "watching"
  /\ bp = "syncing"
  /\ stopCh = "open"
  /\ indexer = 2
  /\ pm = [syncer |-> TRUE, quit |-> FALSE, closed |-> FALSE]
  /\ stop = [c \in Callers |-> "none"]
  /\ exited = FALSE

-----------------------------------------------------------------------------
(* The goroutine of a peer: Run of the sub-protocol, handle and handleMsg.  *)

Alive == ~exited /\ exited' = FALSE
Ends == ~exited /\ exited' = TRUE

Goes(p, pc) == peer' = [peer EXCEPT ![p] = pc]

\* The syncer takes the new peer, or the node is quitting.
NewPeer(p) ==
  /\ peer[p] = "out"
  /\ \/ pm.syncer /\ Goes(p, "accepted")
     \/ pm.quit /\ Goes(p, "gone")
  /\ UNCHANGED <<batch, connected, channel, core, proposer, indexer, pm, stop>>
  /\ Alive

\* wg.Add, once the syncer has taken the peer.
AddPeer(p) ==
  /\ peer[p] = "accepted"
  /\ Goes(p, "counted")
  /\ UNCHANGED <<batch, connected, channel, core, proposer, indexer, pm, stop>>
  /\ Alive

\* A registration without the check that the set is closed.
RegisterAnyway(p) ==
  /\ peer[p] = "counted"
  /\ Goes(p, "handling") /\ connected' = connected \cup {p}
  /\ UNCHANGED <<batch, channel, core, proposer, indexer, pm, stop>>
  /\ Alive

\* The checks and the handshake may fail; a closed set takes no peer.
Register(p) ==
  /\ peer[p] = "counted"
  /\ \/ Goes(p, "gone") /\ UNCHANGED connected
     \/ /\ ~pm.closed
        /\ Goes(p, "handling") /\ connected' = connected \cup {p}
  /\ UNCHANGED <<batch, channel, core, proposer, indexer, pm, stop>>
  /\ Alive

\* A message with votes or blocks for the core.
HandleMsg(p, n) ==
  /\ peer[p] = "handling" /\ batch[p] = 0 /\ p \in connected
  /\ receiving
  /\ batch' = [batch EXCEPT ![p] = n]
  /\ UNCHANGED <<peer, connected, channel, core, proposer, indexer, pm, stop>>
  /\ Alive

sendCoreMsg(p) ==
  /\ batch[p] > 0 /\ receiveCh < ReceiveChannelSize
  /\ receiveCh' = receiveCh + 1
  /\ batch' = [batch EXCEPT ![p] = @ - 1]
  /\ UNCHANGED <<peer, connected, receiving, core, proposer, indexer, pm, stop>>
  /\ Alive

\* The next read fails when the session is down.
Leave(p) ==
  /\ peer[p] = "handling" /\ batch[p] = 0 /\ p \notin connected
  /\ Goes(p, "gone")
  /\ UNCHANGED <<batch, connected, channel, core, proposer, indexer, pm, stop>>
  /\ Alive

\* The other side hangs up, or the peer is removed as a bad one.
Disconnect(p) ==
  /\ p \in connected
  /\ connected' = connected \ {p}
  /\ UNCHANGED <<peer, batch, channel, core, proposer, indexer, pm, stop>>
  /\ Alive

-----------------------------------------------------------------------------
(* The core and its delivery guard. *)

\* deliverNetworkMsg; the channel behind it only adds to the capacity.
deliverNetworkMsg ==
  /\ core = "running" /\ receiveCh > 0
  /\ receiveCh' = receiveCh - 1
  /\ UNCHANGED <<peers, receiving, core, proposer, indexer, pm, stop>>
  /\ Alive

\* The message loop blocks for good: in ConfirmBlock (module CoreNode), or on
\* ReportBadPeerChan, which nobody reads once quitSync is closed.
MessageLoopStuck ==
  /\ core = "running" /\ bp = "running"
  /\ core' = "stuck"
  /\ UNCHANGED <<peers, channel, proposer, indexer, pm, stop>>
  /\ Alive

\* No block was delivered for a minute: the send to stopCh meets the block
\* proposer, and panics when the channel is closed.
GuardSignals ==
  /\ guard = "watching" /\ bp = "running" /\ stopCh = "open"
  /\ guard' = "signalled" /\ bp' = "stopping"
  /\ UNCHANGED <<peers, channel, core, stopCh, indexer, pm, stop>>
  /\ Alive

GuardPanics ==
  /\ guard = "watching" /\ bp # "syncing" /\ stopCh = "closed"
  /\ Ends
  /\ UNCHANGED <<peers, channel, core, proposer, indexer, pm, stop>>

\* ctxCancel: the core reads no more.
GuardCancels ==
  /\ guard = "signalled"
  /\ guard' = "done" /\ core' = "cancelled"
  /\ UNCHANGED <<peers, channel, bp, stopCh, indexer, pm, stop>>
  /\ Alive

-----------------------------------------------------------------------------
(* The goroutine of blockProposer.Start. *)

\* syncConsensus returns the core, or an error on an early stop.
Synced ==
  /\ bp = "syncing"
  /\ \/ bp' = "running"
     \/ stopCh = "closed" /\ bp' = "returned"
  /\ UNCHANGED <<peers, channel, core, guard, stopCh, indexer, pm, stop>>
  /\ Alive

StopSignal ==
  /\ bp = "running" /\ stopCh = "closed"
  /\ bp' = "stopping"
  /\ UNCHANGED <<peers, channel, core, guard, stopCh, indexer, pm, stop>>
  /\ Alive

\* The goroutine that stops the service and exits is started.
StopService ==
  /\ bp = "stopping"
  /\ bp' = "leaving"
  /\ stop' = [stop EXCEPT !["proposer"] = "indexer"]
  /\ UNCHANGED <<peers, channel, core, guard, stopCh, indexer, pm>>
  /\ Alive

\* running is reset and the wait group released.
ProposerReturns ==
  /\ bp = "leaving"
  /\ bp' = "returned"
  /\ UNCHANGED <<peers, channel, core, guard, stopCh, indexer, pm, stop>>
  /\ Alive

-----------------------------------------------------------------------------
(* Tangerine.Stop. *)

At(c, pc) == stop[c] = pc
Then(c, pc) == stop' = [stop EXCEPT ![c] = pc]

OperatorStops ==
  /\ At("node", "none") /\ Then("node", "indexer")
  /\ UNCHANGED <<peers, channel, core, proposer, indexer, pm>>
  /\ Alive

\* ChainIndexer.Close tears down the two loops, each of which ends with the
\* first request it gets.
CloseIndexer(c) ==
  /\ indexer > 0 /\ indexer' = indexer - 1
  /\ \/ At(c, "indexer") /\ Then(c, "indexer2")
     \/ At(c, "indexer2") /\ Then(c, "syncer")
  /\ UNCHANGED <<peers, channel, core, proposer, pm>>
  /\ Alive

\* The chain is stopped; then the send to noMorePeers ends the syncer.
StopSyncer(c) ==
  /\ At(c, "syncer") /\ pm.syncer
  /\ pm' = [pm EXCEPT !.syncer = FALSE]
  /\ Then(c, "quit")
  /\ UNCHANGED <<peers, channel, core, proposer, indexer>>
  /\ Alive

Quit(c) ==
  /\ At(c, "quit")
  /\ pm' = [pm EXCEPT !.quit = TRUE]
  /\ Then(c, "peers")
  /\ UNCHANGED <<peers, channel, core, proposer, indexer>>
  /\ Alive

\* The set is closed and the sessions are left alone.
ClosePeersGateOnly(c) ==
  /\ At(c, "peers")
  /\ pm' = [pm EXCEPT !.closed = TRUE]
  /\ Then(c, "wait")
  /\ UNCHANGED <<peers, channel, core, proposer, indexer>>
  /\ Alive

ClosePeers(c) ==
  /\ At(c, "peers")
  /\ pm' = [pm EXCEPT !.closed = TRUE]
  /\ connected' = {}
  /\ Then(c, "wait")
  /\ UNCHANGED <<peer, batch, channel, core, proposer, indexer>>
  /\ Alive

WaitForPeers(c) ==
  /\ At(c, "wait")
  /\ \A p \in Peers : peer[p] \notin {"counted", "handling"}
  /\ Then(c, "proposer")
  /\ UNCHANGED <<peers, channel, core, proposer, indexer, pm>>
  /\ Alive

\* blockProposer.Stop, when the block proposer still runs.
StopProposer(c) ==
  /\ At(c, "proposer")
  /\ IF bp = "returned"
     THEN Then(c, "rest") /\ UNCHANGED <<receiving, stopCh>>
     ELSE Then(c, "proposer2") /\ receiving' = FALSE /\ stopCh' = "closed"
  /\ UNCHANGED <<peers, receiveCh, core, guard, bp, indexer, pm>>
  /\ Alive

WaitForProposer(c) ==
  /\ At(c, "proposer2") /\ bp = "returned"
  /\ Then(c, "rest")
  /\ UNCHANGED <<peers, channel, core, proposer, indexer, pm>>
  /\ Alive

\* The database is closed; the node ends, or the block proposer exits.
Exit(c) ==
  /\ At(c, "rest")
  /\ Ends
  /\ UNCHANGED <<peers, channel, core, proposer, indexer, pm, stop>>

-----------------------------------------------------------------------------
PeerSteps(p) ==
  \/ NewPeer(p) \/ AddPeer(p) \/ Register(p) \/ Leave(p) \/ Disconnect(p)
  \/ sendCoreMsg(p)
  \/ \E n \in 1..MaxBatch : HandleMsg(p, n)

StopSteps(c) ==
  \/ CloseIndexer(c) \/ StopSyncer(c) \/ Quit(c) \/ ClosePeers(c)
  \/ WaitForPeers(c) \/ StopProposer(c) \/ WaitForProposer(c) \/ Exit(c)

ProposerSteps == Synced \/ StopSignal \/ StopService \/ ProposerReturns

Next ==
  \/ \E p \in Peers : PeerSteps(p)
  \/ deliverNetworkMsg \/ MessageLoopStuck
  \/ GuardSignals \/ GuardPanics \/ GuardCancels
  \/ ProposerSteps
  \/ OperatorStops
  \/ \E c \in Callers : StopSteps(c)

Spec == Init /\ [][Next]_vars

\* The goroutines are scheduled, a blocked sender gets its turn (a channel
\* serves its senders in order), and the guard's timer fires when the message
\* loop is stuck.  Nothing obliges a peer to connect or to send, the operator
\* to stop the node, or the synchronisation to end before it is stopped.
Fairness ==
  /\ \A p \in Peers :
       /\ WF_vars(AddPeer(p) \/ Register(p) \/ Leave(p))
       /\ SF_vars(sendCoreMsg(p))
  /\ WF_vars(deliverNetworkMsg)
  /\ WF_vars(core = "stuck" /\ GuardSignals)
  /\ WF_vars(GuardCancels)
  /\ WF_vars(stopCh = "closed" /\ Synced)
  /\ WF_vars(StopSignal \/ StopService \/ ProposerReturns)
  /\ \A c \in Callers : WF_vars(StopSteps(c))

LiveSpec == Spec /\ Fairness

-----------------------------------------------------------------------------
TypeOK ==
  /\ peer \in [Peers -> {"out", "accepted", "counted", "handling", "gone"}]
  /\ batch \in [Peers -> 0..MaxBatch] /\ connected \subseteq Peers
  /\ receiveCh \in 0..ReceiveChannelSize /\ receiving \in BOOLEAN
  /\ core \in {"running", "stuck", "cancelled"}
  /\ guard \in {"watching", "signalled", "done"}
  /\ bp \in {"syncing", "running", "stopping", "leaving", "returned"}
  /\ stopCh \in {"open", "closed"}
  /\ indexer \in 0..2
  /\ pm \in [syncer : BOOLEAN, quit : BOOLEAN, closed : BOOLEAN]
  /\ stop \in [Callers -> {"none", "indexer", "indexer2", "syncer", "quit",
                           "peers", "wait", "proposer", "proposer2", "rest"}]
  /\ exited \in BOOLEAN

\* Once Stop is past its wait for the peers, and goes on to close what they
\* use, no peer is registered: not even one the syncer took just before it
\* ended and that the wait group did not count yet (ProtocolManager.Stop: such
\* sessions exit when they try to register).
HandlersDown ==
  /\ TypeOK
  /\ \A c \in Callers :
       stop[c] \in {"proposer", "proposer2", "rest"} =>
         \A p \in Peers : peer[p] # "handling"

\* A handler waits in sendCoreMsg for a core that reads no more.
HandlerBlocked ==
  core # "running" /\ receiveCh = ReceiveChannelSize
    /\ \E p \in Peers : batch[p] > 0

\* Two calls of Stop have torn down one loop of the indexer each, and wait for
\* the other one.
IndexerShared == indexer = 0 /\ \A c \in Callers : stop[c] = "indexer2"

\* When the node is told to stop, or its core is stuck, the process ends: the
\* guard, the block proposer, the peers and the two calls of Stop wait for each
\* other only if a handler is blocked in sendCoreMsg on a channel the core
\* reads no more, or if the operator's Stop and the block proposer's meet in
\* the indexer.
StopEnds ==
  (core = "stuck" \/ \E c \in Callers : stop[c] # "none")
    ~> (exited \/ HandlerBlocked \/ IndexerShared)

=============================================================================
