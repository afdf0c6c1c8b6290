------------------------------ MODULE Session ------------------------------
(***************************************************************************)
(* Life of the process in client and server mode (main.go): connect, run a *)
(* session of concurrent goroutines, tear it down, connect again.  Each    *)
(* session has a connection, a context, a disconnectCh and goroutines of   *)
(* its own; an old one may still be ending while main goes on.  Sleeps     *)
(* order nothing: what follows one may come at any time.                   *)
(***************************************************************************)
EXTENDS Naturals

CONSTANTS
    MaxSessions,    \* bound on the sessions begun
    MaxInterrupts   \* bound on the SIGINTs delivered

ASSUME SessionAssumption ==
    /\ MaxSessions \in Nat \ {0}
    /\ MaxInterrupts \in Nat

Sessions == 1..MaxSessions
\* "capture" is RunMouseLoop and RunKeyboardLoop with the loops they start,
\* "tickers" sendHeartbeats and, when it is on, runMouseJiggler: they end for the
\* same reason and are over when the last of them is.
Workers == {"capture", "watch", "tickers"}

VARIABLES
    main,     \* where main is
    cur,      \* the sessions begun; the last one is the current one
    conn,     \* conn[s]: the TCP connection; "reset" fails one read, then ends
    silent,   \* silent[s]: the peer has stopped answering and reading, and its
              \* TCP still acknowledges
    ctx,      \* ctx[s]: cancelled
    lost,     \* lost[s]: disconnectCh closed
    recv,     \* recv[s]: where receiveLoop is
    work,     \* work[s][w]: "none", "run" or "done"
    held,     \* held[s]: a keyboard loop is in Grab: it has evdev's mu and writes
    tidy,     \* tidy[s]: what the cleanup goroutine does next
    notified, \* the sigCh channels registered: those of sessions 1..notified
    sig,      \* sig[s]: sigCh holds a signal
    asked     \* how many SIGINTs the user has sent

vars == <<main, cur, conn, silent, ctx, lost, recv, work, held, tidy, notified, sig, asked>>
sessionVars == <<silent, recv, work, held, tidy>>

TypeOK ==
    /\ main \in {"connect", "retry", "start", "notify", "select", "stopping",
                 "closing", "backoff", "exited"}
    /\ cur \in 0..MaxSessions
    /\ conn \in [Sessions -> {"none", "up", "reset", "eof", "closed"}]
    /\ silent \in [Sessions -> BOOLEAN]
    /\ ctx \in [Sessions -> BOOLEAN]
    /\ lost \in [Sessions -> BOOLEAN]
    /\ recv \in [Sessions -> {"none", "check", "read", "ungrab", "done"}]
    /\ work \in [Sessions -> [Workers -> {"none", "run", "done"}]]
    /\ held \in [Sessions -> BOOLEAN]
    /\ tidy \in [Sessions -> {"none", "wait", "capture", "clipboard", "virtual", "done"}]
    /\ notified \in 0..cur
    /\ sig \in [Sessions -> BOOLEAN]
    /\ asked \in 0..MaxInterrupts

Init ==
    /\ main = "connect"
    /\ cur = 0
    /\ conn = [s \in Sessions |-> "none"]
    /\ silent = [s \in Sessions |-> FALSE]
    /\ ctx = [s \in Sessions |-> FALSE]
    /\ lost = [s \in Sessions |-> FALSE]
    /\ recv = [s \in Sessions |-> "none"]
    /\ work = [s \in Sessions |-> [w \in Workers |-> "none"]]
    /\ held = [s \in Sessions |-> FALSE]
    /\ tidy = [s \in Sessions |-> "none"]
    /\ notified = 0
    /\ sig = [s \in Sessions |-> FALSE]
    /\ asked = 0

Alive == main # "exited"

-----------------------------------------------------------------------------
\* The main goroutine.

\* connectClient fails (nobody listens, no handshake): sleep and try again.
ConnectFails ==
    /\ main = "connect"
    /\ main' = "retry"
    /\ UNCHANGED <<cur, conn, ctx, lost, notified, sig, asked, sessionVars>>

Retry ==
    /\ main = "retry"
    /\ main' = "connect"
    /\ UNCHANGED <<cur, conn, ctx, lost, notified, sig, asked, sessionVars>>

ConnectSucceeds ==
    /\ main = "connect"
    /\ cur < MaxSessions
    /\ cur' = cur + 1
    /\ conn' = [conn EXCEPT ![cur'] = "up"]
    /\ main' = "start"
    /\ UNCHANGED <<ctx, lost, notified, sig, asked, sessionVars>>

\* runSession starts the goroutines of the session.
RunSession ==
    /\ main = "start"
    /\ main' = "notify"
    /\ recv' = [recv EXCEPT ![cur] = "check"]
    /\ work' = [work EXCEPT ![cur] = [w \in Workers |-> "run"]]
    /\ tidy' = [tidy EXCEPT ![cur] = "wait"]
    /\ UNCHANGED <<cur, conn, silent, held, ctx, lost, notified, sig, asked>>

\* No uinput, or no input device: log.Fatalf.
StartFails ==
    /\ main = "start"
    /\ main' = "exited"
    /\ UNCHANGED <<cur, conn, ctx, lost, notified, sig, asked, sessionVars>>

\* signal.Notify on this session's sigCh; nobody calls signal.Stop on the
\* earlier ones.
Notify ==
    /\ main = "notify"
    /\ main' = "select"
    /\ notified' = cur
    /\ UNCHANGED <<cur, conn, ctx, lost, sig, asked, sessionVars>>

\* cancel()
Cancel(s) == ctx' = [ctx EXCEPT ![s] = TRUE]

SelectSignal ==
    /\ main = "select"
    /\ sig[cur]
    /\ sig' = [sig EXCEPT ![cur] = FALSE]
    /\ Cancel(cur)
    /\ main' = "stopping"
    /\ UNCHANGED <<cur, conn, lost, notified, asked, sessionVars>>

\* Faulty variant of SelectLost: the session is cancelled and waited for still.
WaitsOn ==
    /\ main = "select"
    /\ lost[cur]
    /\ Cancel(cur)
    /\ main' = "select"
    /\ UNCHANGED <<cur, conn, lost, notified, sig, asked, sessionVars>>

SelectLost ==
    /\ main = "select"
    /\ lost[cur]
    /\ Cancel(cur)
    /\ main' = "closing"
    /\ UNCHANGED <<cur, conn, lost, notified, sig, asked, sessionVars>>

\* Faulty variant of CloseConn: the connection is left open.
LeavesOpen(s) == conn' = conn

\* client.Conn.Close()
CloseConn(s) == conn' = [conn EXCEPT ![s] = "closed"]

\* 100 ms after cancel: close the connection and return from main.
Shutdown ==
    /\ main = "stopping"
    /\ CloseConn(cur)
    /\ main' = "exited"
    /\ UNCHANGED <<cur, ctx, lost, notified, sig, asked, sessionVars>>

\* 100 ms after cancel: close the connection, then wait 5 s.
CloseLost ==
    /\ main = "closing"
    /\ CloseConn(cur)
    /\ main' = "backoff"
    /\ UNCHANGED <<cur, ctx, lost, notified, sig, asked, sessionVars>>

Reconnect ==
    /\ main = "backoff"
    /\ main' = "connect"
    /\ UNCHANGED <<cur, conn, ctx, lost, notified, sig, asked, sessionVars>>

\* The whole of main but the one step that needs the peer.
MainStep ==
    \/ ConnectFails \/ Retry \/ RunSession \/ StartFails \/ Notify
    \/ SelectSignal \/ SelectLost \/ Shutdown \/ CloseLost \/ Reconnect

-----------------------------------------------------------------------------
\* The goroutines of session s.

\* A goroutine in Send may have to wait for the peer to read, for ever: there
\* is no deadline, and only closing the connection ends the wait.
MayBlock(s) == silent[s] /\ conn[s] # "closed"

\* The top of receiveLoop's loop.
CheckContext(s) ==
    /\ recv[s] = "check"
    /\ recv' = [recv EXCEPT ![s] = IF ctx[s] THEN "done" ELSE "read"]
    /\ UNCHANGED <<main, cur, conn, silent, ctx, lost, work, held, tidy, notified, sig, asked>>

\* A packet is received and handled; MachineSwitched calls evdev.Ungrab.
ReceivePacket(s) ==
    /\ recv[s] = "read"
    /\ conn[s] = "up"
    /\ ~silent[s]
    /\ \E next \in {"check", "ungrab"} : recv' = [recv EXCEPT ![s] = next]
    /\ UNCHANGED <<main, cur, conn, silent, ctx, lost, work, held, tidy, notified, sig, asked>>

\* Ungrab waits for evdev's mu.
Ungrab(s) ==
    /\ recv[s] = "ungrab"
    /\ ~held[s]
    /\ recv' = [recv EXCEPT ![s] = "check"]
    /\ UNCHANGED <<main, cur, conn, silent, ctx, lost, work, held, tidy, notified, sig, asked>>

\* Any error but EOF: read on.  A reset is reported once, EOF after it.
ReceiveError(s) ==
    /\ recv[s] = "read"
    /\ conn[s] \in {"reset", "closed"}
    /\ conn' = [conn EXCEPT ![s] = IF @ = "reset" THEN "eof" ELSE @]
    /\ recv' = [recv EXCEPT ![s] = "check"]
    /\ UNCHANGED <<main, cur, silent, ctx, lost, work, held, tidy, notified, sig, asked>>

\* Faulty variant of ReceiveEOF: close(disconnectCh) without the return.
ReadsOn(s) ==
    /\ recv[s] = "read"
    /\ conn[s] = "eof"
    /\ lost' = [lost EXCEPT ![s] = TRUE]
    /\ recv' = [recv EXCEPT ![s] = "check"]
    /\ UNCHANGED <<main, cur, conn, silent, ctx, work, held, tidy, notified, sig, asked>>

\* EOF: close disconnectCh and return.
ReceiveEOF(s) ==
    /\ recv[s] = "read"
    /\ conn[s] = "eof"
    /\ lost' = [lost EXCEPT ![s] = TRUE]
    /\ recv' = [recv EXCEPT ![s] = "done"]
    /\ UNCHANGED <<main, cur, conn, silent, ctx, work, held, tidy, notified, sig, asked>>

\* A keyboard loop reads the shortcut and calls Grab, which sends the key-ups
\* with evdev's mu held.
KeyboardGrabs(s) ==
    /\ work[s]["capture"] = "run"
    /\ ~held[s]
    /\ held' = [held EXCEPT ![s] = TRUE]
    /\ UNCHANGED <<main, cur, conn, silent, ctx, lost, recv, work, tidy, notified, sig, asked>>

\* The key-ups are written, or writing them has failed.
GrabReturns(s) ==
    /\ held[s]
    /\ held' = [held EXCEPT ![s] = FALSE]
    /\ UNCHANGED <<main, cur, conn, silent, ctx, lost, recv, work, tidy, notified, sig, asked>>

\* What ends a worker: for the capture loops the read after evdev.Close, which
\* comes with the next event of their device and not before; stopCh for
\* clip.Watch, the context for the others.
Stopped(s, w) ==
    CASE w = "capture" -> tidy[s] \in {"clipboard", "virtual", "done"} /\ ~held[s]
      [] w = "watch" -> tidy[s] \in {"virtual", "done"}
      [] w = "tickers" -> ctx[s]

WorkerEnds(s, w) ==
    /\ work[s][w] = "run"
    /\ Stopped(s, w)
    /\ work' = [work EXCEPT ![s][w] = "done"]
    /\ UNCHANGED <<main, cur, conn, silent, ctx, lost, recv, held, tidy, notified, sig, asked>>

\* The cleanup goroutine of runSession: select, evdev.Close (which needs the
\* lock a keyboard loop holds while it sends), clip.Stop, vi.Close.
TidyStep(s) ==
    /\ \/ /\ tidy[s] = "wait"
          /\ ctx[s] \/ lost[s]
          /\ tidy' = [tidy EXCEPT ![s] = "capture"]
       \/ /\ tidy[s] = "capture"
          /\ ~held[s]
          /\ tidy' = [tidy EXCEPT ![s] = "clipboard"]
       \/ /\ tidy[s] = "clipboard"
          /\ tidy' = [tidy EXCEPT ![s] = "virtual"]
       \/ /\ tidy[s] = "virtual"
          /\ tidy' = [tidy EXCEPT ![s] = "done"]
    /\ UNCHANGED <<main, cur, conn, silent, ctx, lost, recv, work, held, notified, sig, asked>>

ReceiveStep(s) ==
    CheckContext(s) \/ ReceivePacket(s) \/ Ungrab(s) \/ ReceiveError(s) \/ ReceiveEOF(s)

-----------------------------------------------------------------------------
\* The peer and the user.

PeerFallsSilent(s) ==
    /\ conn[s] = "up"
    /\ ~silent[s]
    /\ silent' = [silent EXCEPT ![s] = TRUE]
    /\ UNCHANGED <<main, cur, conn, ctx, lost, recv, work, held, tidy, notified, sig, asked>>

\* The machine of the peer resets the connection, and writes fail as reads do;
\* or the peer closes it, perhaps one direction only: then it may never read
\* what is written to it.
PeerGoes(s) ==
    /\ conn[s] = "up"
    /\ \E how \in {"eof", "reset"}, reads \in BOOLEAN :
         /\ how = "reset" => reads
         /\ conn' = [conn EXCEPT ![s] = how]
         /\ silent' = [silent EXCEPT ![s] = ~reads]
    /\ UNCHANGED <<main, cur, ctx, lost, recv, work, held, tidy, notified, sig, asked>>

\* SIGINT: every registered channel with room takes it; when there is none the
\* signal has its default effect.
Interrupt ==
    /\ asked < MaxInterrupts
    /\ asked' = asked + 1
    /\ main' = IF notified = 0 THEN "exited" ELSE main
    /\ sig' = [s \in Sessions |-> sig[s] \/ s <= notified]
    /\ UNCHANGED <<cur, conn, ctx, lost, notified, sessionVars>>

\* The process is over.
Exited == main = "exited" /\ UNCHANGED vars

SessionStep(s) ==
    \/ ReceiveStep(s)
    \/ KeyboardGrabs(s)
    \/ GrabReturns(s)
    \/ \E w \in Workers : WorkerEnds(s, w)
    \/ TidyStep(s)
    \/ PeerFallsSilent(s)
    \/ PeerGoes(s)

Next ==
    \/ Exited
    \/ /\ Alive
       /\ MainStep \/ ConnectSucceeds \/ Interrupt \/ \E s \in Sessions : SessionStep(s)

Spec == Init /\ [][Next]_vars

\* What the session's goroutines do by themselves; the loops end with an event
\* that only the user can bring.
Progress(s) ==
    \/ ReceiveStep(s)
    \/ TidyStep(s)
    \/ ~MayBlock(s) /\ \E w \in Workers \ {"capture"} : WorkerEnds(s, w)

\* Goroutines run and get evdev's mu in turn (sync.Mutex is starvation free),
\* except that a write may wait for a silent peer; and a peer that is dialled
\* again and again is there again some day.
Fairness ==
    /\ WF_vars(Alive /\ MainStep)
    /\ SF_vars(ConnectSucceeds)
    /\ \A s \in Sessions :
         /\ SF_vars(Alive /\ Progress(s))
         /\ WF_vars(Alive /\ ~MayBlock(s) /\ GrabReturns(s))

FairSpec == Spec /\ Fairness

-----------------------------------------------------------------------------
\* receiveLoop alone injects input and sets the clipboard: it never runs for
\* two sessions at once, nor while main is connecting again, however late the
\* goroutines of the old session end.
OneReceiver ==
    \A s \in Sessions :
        recv[s] \notin {"none", "done"} =>
            s = cur /\ main \in {"notify", "select", "stopping", "closing", "exited"}

\* vi.Close walks the map of pressed keys that receiveLoop writes, without a
\* lock.  When a session is lost its receiver has returned before that, so the
\* two never meet; after an interrupt they may, in the 100 ms left to live.
ReceiverGoesFirst ==
    \A s \in Sessions :
        tidy[s] \in {"virtual", "done"} =>
            recv[s] = "done" \/ (s = cur /\ main \in {"stopping", "exited"})

Ended(s) ==
    /\ conn[s] = "closed"
    /\ recv[s] = "done"
    /\ ~held[s]
    /\ tidy[s] = "done"
    /\ \A w \in Workers \ {"capture"} : work[s][w] # "run"

\* receiveLoop waits for a Grab that waits for a peer that only writes no more.
BehindGrab(s) == recv[s] = "ungrab" /\ held[s] /\ MayBlock(s)

\* A session whose peer went away is torn down: the connection and the devices
\* are closed and every goroutine ends, even when one of them was blocked in a
\* write to that peer with evdev's mu in its hands.  The exceptions are the
\* capture loops, which end with the next event of their device, and a session
\* whose receiver cannot see the end because it waits for that mu itself.
LostSessionEnds ==
    \A s \in Sessions :
        (recv[s] # "none" /\ conn[s] \in {"eof", "reset"})
            ~> (Ended(s) \/ BehindGrab(s) \/ ~Alive)

\* "Connection lost, reconnecting": after a session is lost another one begins.
Reconnects ==
    \A s \in 1..(MaxSessions - 1) : lost[s] ~> (cur > s \/ ~Alive)

\* "Ctrl+C - Quit.": an interrupt ends the process.
CtrlCQuits == (asked > 0) ~> ~Alive

\* Refuted too (README, "Known deviations"): peers that miss heartbeats are
\* disconnected, so a session whose peer has fallen silent does not stay up
\* for ever.
SilentPeerIsDropped ==
    \A s \in Sessions : silent[s] ~> (conn[s] # "up" \/ ~Alive)
=============================================================================
