------------------------------ MODULE Listener ------------------------------
(***************************************************************************)
(* How connections reach the handshake: the accept loop of network/        *)
(* server.go and its two users in main.go.  In server mode main listens,   *)
(* takes one client, closes the port and listens again when the session is *)
(* over; in client and TUI mode a background server listens for the whole  *)
(* life of the process and drains what it accepts.  Accept looks after one *)
(* connection at a time, the others wait in the kernel's backlog.  The     *)
(* handshake of the connection Accept is at is that of Handshake; a dialer *)
(* in the backlog has written its random block and waits for the answer,   *)
(* without a deadline.                                                     *)
(***************************************************************************)
EXTENDS Handshake

CONSTANTS
    MaxDials,     \* bound: connections of the dialer
    MaxStrangers  \* bound: connections of others

ASSUME ListenerAssumption == MaxDials \in Nat /\ MaxStrangers \in Nat

\* Others that find the port: one never sends its random block, one does and
\* fails the handshake or says nothing more.
Strangers == {"silent", "impostor"}
Callers == {"dialer"} \cup Strangers

VARIABLES
    role,      \* "server": main's own Accept; "client": the background server
    listening, \* the port is bound by this process
    backlog,   \* the connections waiting to be accepted
    serving,   \* the connection Accept is looking after, or "none"
    dials, calls  \* connections of the dialer and of strangers so far

portVars == <<role, listening, backlog, serving, dials, calls>>
linkVars == <<vars, portVars>>

ListenerTypeOK ==
    /\ TypeOK
    /\ role \in {"server", "client"}
    /\ listening \in BOOLEAN
    /\ backlog \in Seq(Callers)
    /\ serving \in Callers \cup {"none"}
    /\ dials \in 0..MaxDials
    /\ calls \in 0..MaxStrangers

\* Nobody is connected yet.
ListenerInit ==
    /\ Init
    /\ role \in {"server", "client"}
    /\ listening = FALSE
    /\ backlog = <<>>
    /\ serving = "none"
    /\ dials = 0
    /\ calls = 0

Queued(c) == \E i \in 1..Len(backlog) : backlog[i] = c

\* The dialer has no connection: it has closed the last one, or the last one
\* was reset before anybody accepted it.
Unconnected ==
    /\ ~Queued("dialer")
    /\ Closed("dialer") \/ (stage["dialer"] = "start" /\ serving # "dialer")

-----------------------------------------------------------------------------
\* connectClient: NewServer binds the port, in server mode when no session is
\* up.  When the port is bound by an earlier background server it fails and a
\* warning is all that comes of it.
NewServer ==
    /\ ~listening
    /\ role = "server" => stage["listener"] # "up"
    /\ listening' = TRUE
    /\ UNCHANGED <<vars, role, backlog, serving, dials, calls>>

\* Connect dials again; while nobody listens it is refused, and retried.
Dial ==
    /\ listening
    /\ dials < MaxDials
    /\ Unconnected
    /\ dials' = dials + 1
    /\ backlog' = Append(backlog, "dialer")
    /\ UNCHANGED <<vars, role, listening, serving, calls>>

StrangerDials(s) ==
    /\ listening
    /\ calls < MaxStrangers
    /\ calls' = calls + 1
    /\ backlog' = Append(backlog, s)
    /\ UNCHANGED <<vars, role, listening, serving, dials>>

\* The state of a new connection; what is left of the dialer's last one, if
\* its goroutine still drains it, only ends.
NewConnection ==
    /\ stage' = [p \in Sides |-> "start"]
    /\ sent' = [p \in Sides |-> 0]
    /\ gotOurAck' = [p \in Sides |-> FALSE]
    /\ gotTheirHandshake' = [p \in Sides |-> FALSE]
    /\ remoteID' = [p \in Sides |-> "none"]
    /\ chan' = [p \in Sides |-> <<>>]
    /\ data' = [p \in Sides |-> 0]
    /\ UNCHANGED sameKey

\* listener.Accept returns the connection that has waited longest.
Accept ==
    /\ listening
    /\ serving = "none"
    /\ backlog # <<>>
    /\ serving' = Head(backlog)
    /\ backlog' = Tail(backlog)
    /\ IF Head(backlog) = "dialer" THEN NewConnection ELSE UNCHANGED vars
    /\ UNCHANGED <<role, listening, dials, calls>>

\* listener.Accept fails: the server is closed, and with it what waits.  In
\* server mode main tries again, the background server is gone until main
\* connects again.
AcceptFails ==
    /\ listening
    /\ serving = "none"
    /\ listening' = FALSE
    /\ backlog' = <<>>
    /\ UNCHANGED <<vars, role, serving, dials, calls>>

\* Faulty variant of TurnAway: a failed primer ends Accept without the
\* continue.
GivesUp(s) ==
    /\ serving = s
    /\ serving' = s
    /\ UNCHANGED <<vars, role, listening, backlog, dials, calls>>

\* The primer or the handshake of a stranger fails: close it and accept the
\* next.  For the impostor the deadline sees to it; the read of the random
\* block has none and only ends when the silent one leaves.
TurnAway(s) ==
    /\ serving = s
    /\ serving' = "none"
    /\ UNCHANGED <<vars, role, listening, backlog, dials, calls>>

\* After Accept's handshake.  A failure goes on with the next connection; a
\* success returns the client: main closes its server, the background server
\* starts a goroutine that drains the client and accepts the next.
AcceptReturns ==
    LET over == stage'["listener"] = "up"
    IN  /\ serving' = IF over \/ Closed("listener")' THEN "none" ELSE serving
        /\ listening' = (listening /\ ~(over /\ role = "server"))
        /\ backlog' = IF over /\ role = "server" THEN <<>> ELSE backlog
        /\ UNCHANGED <<role, dials, calls>>

\* The listener's side of the handshake, inside Accept.
ListenerHandshake ==
    /\ serving = "dialer"
    /\ HandshakeStep("listener")
    /\ AcceptReturns

ListenerTimesOut ==
    /\ serving = "dialer"
    /\ ReadTimesOut("listener")
    /\ AcceptReturns

\* The dialer's side: Connect.
DialerHandshake ==
    /\ stage["listener"] = "start" => serving = "dialer"
    /\ HandshakeStep("dialer")
    /\ UNCHANGED portVars

DialerTimesOut ==
    /\ ReadTimesOut("dialer")
    /\ UNCHANGED portVars

\* The session on either side; the background server's goroutine only reads.
InSession(p) ==
    /\ \/ SessionStep(p) /\ (p = "listener" => role = "server")
       \/ p = "listener" /\ role = "client" /\ (Receive(p) \/ ReceiveEOF(p))
    /\ UNCHANGED portVars

\* The dialer's program ends and closes the connection.
DialerLeaves ==
    /\ stage["dialer"] = "up"
    /\ Enter("dialer", "lost")
    /\ UNCHANGED <<sent, gotOurAck, gotTheirHandshake, remoteID, chan, data, portVars>>

ListenerNext ==
    \/ NewServer \/ Dial \/ Accept \/ AcceptFails
    \/ ListenerHandshake \/ ListenerTimesOut
    \/ DialerHandshake \/ DialerTimesOut \/ DialerLeaves
    \/ \E s \in Strangers : StrangerDials(s) \/ TurnAway(s)
    \/ \E p \in Sides : InSession(p)

ListenerSpec == ListenerInit /\ [][ListenerNext]_linkVars

\* Both programs run and TCP delivers; the deadline ends an impostor's
\* handshake.  A silent stranger need never leave, nobody need dial.
ListenerFairness ==
    /\ WF_linkVars(role = "server" /\ NewServer)
    /\ WF_linkVars(Accept)
    /\ WF_linkVars(ListenerHandshake)
    /\ WF_linkVars(DialerHandshake)
    /\ WF_linkVars(TurnAway("impostor"))
    /\ \A p \in Sides : WF_linkVars(InSession(p))

FairListenerSpec == ListenerSpec /\ ListenerFairness

-----------------------------------------------------------------------------
\* Once Accept is at the dialer's connection both sides get connected, or a
\* deadline passes, however the exchange interleaves and whatever failed
\* before; only a dialer that has finished and left can spoil it.
AcceptedGetsConnected ==
    (sameKey /\ serving = "dialer" /\ ~Closed("dialer"))
      ~> \/ stage["listener"] = "up"
         \/ \E p \in Sides : stage[p] = "expired"
         \/ stage["dialer"] = "lost"

\* "if err ... continue": no caller that fails its handshake, nor one that
\* stops in the middle of it, keeps the others out.  A connection in the
\* backlog is accepted or reset unless a caller that never says a word holds
\* Accept for ever.
OnlySilenceBlocks ==
    (Queued("dialer") ~> ~Queued("dialer")) \/ <>[](serving = "silent")
=============================================================================
