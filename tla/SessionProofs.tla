--------------------------- MODULE SessionProofs ---------------------------
(***************************************************************************)
(* Proofs about Session for any number of sessions and of interrupts: no   *)
(* two sessions are ever injecting input, and a receiver has ended when    *)
(* the virtual devices it writes to are closed.                            *)
(***************************************************************************)
EXTENDS Session, TLAPS

\* The sessions that have not begun are untouched, and the current one has no
\* goroutine before runSession.
NotBegun ==
    /\ \A s \in Sessions :
         s > cur \/ (s = cur /\ main = "start") =>
             recv[s] = "none" /\ tidy[s] = "none" /\ ~lost[s] /\ ~ctx[s]
    /\ main \notin {"connect", "retry", "exited"} => cur \in Sessions

\* Main leaves a session behind, or waits to connect again, only once the
\* session's disconnectCh is closed.
LeftIsLost ==
    \A s \in Sessions :
        s < cur \/ (s = cur /\ main \in {"connect", "retry", "closing", "backoff"})
            => lost[s]

\* disconnectCh is closed by a receiver that returns.
LostHasReturned == \A s \in Sessions : lost[s] => recv[s] = "done"

\* A context is cancelled when its session is lost, or when main is to exit.
CancelledIsOver ==
    \A s \in Sessions :
        ctx[s] => lost[s] \/ (s = cur /\ main \in {"stopping", "exited"})

\* The cleanup goroutine moves only once its select has fired.
TidyWasTold ==
    \A s \in Sessions : tidy[s] \in {"none", "wait"} \/ ctx[s] \/ lost[s]

SessionInv ==
    /\ TypeOK
    /\ NotBegun
    /\ LeftIsLost
    /\ LostHasReturned
    /\ CancelledIsOver
    /\ TidyWasTold

\* No session has begun when main first connects.
LEMMA SessionInitially == Init => SessionInv
  BY SessionAssumption
  DEF Init, SessionInv, TypeOK, NotBegun, LeftIsLost, LostHasReturned, CancelledIsOver,
      TidyWasTold, Sessions, Workers

\* A step of main keeps the invariant.
LEMMA MainKeeps == SessionInv /\ (MainStep \/ ConnectSucceeds) => SessionInv'
  <1> SUFFICES ASSUME SessionInv, MainStep \/ ConnectSucceeds PROVE SessionInv'
    OBVIOUS
  <1> USE SessionAssumption DEF SessionInv, sessionVars
  <1>1. CASE ConnectFails
    BY <1>1 DEF ConnectFails, TypeOK, NotBegun, LeftIsLost, LostHasReturned,
                CancelledIsOver, TidyWasTold
  <1>2. CASE Retry
    BY <1>2 DEF Retry, TypeOK, NotBegun, LeftIsLost, LostHasReturned,
                CancelledIsOver, TidyWasTold
  <1>3. CASE ConnectSucceeds
    BY <1>3 DEF ConnectSucceeds, TypeOK, NotBegun, LeftIsLost, LostHasReturned,
                CancelledIsOver, TidyWasTold, Sessions
  <1>4. CASE RunSession
    <2>1. cur \in Sessions
      BY <1>4 DEF RunSession, NotBegun
    <2>2. TypeOK'
      BY <1>4, <2>1 DEF RunSession, TypeOK
    <2> QED
      BY <1>4, <2>1, <2>2 DEF RunSession, TypeOK, NotBegun, LeftIsLost, LostHasReturned,
                CancelledIsOver, TidyWasTold, Sessions
  <1>5. CASE StartFails
    BY <1>5 DEF StartFails, TypeOK, NotBegun, LeftIsLost, LostHasReturned,
                CancelledIsOver, TidyWasTold
  <1>6. CASE Notify
    BY <1>6 DEF Notify, TypeOK, NotBegun, LeftIsLost, LostHasReturned,
                CancelledIsOver, TidyWasTold, Sessions
  <1>7. CASE SelectSignal
    BY <1>7 DEF SelectSignal, Cancel, TypeOK, NotBegun, LeftIsLost, LostHasReturned,
                CancelledIsOver, TidyWasTold, Sessions
  <1>8. CASE SelectLost
    BY <1>8 DEF SelectLost, Cancel, TypeOK, NotBegun, LeftIsLost, LostHasReturned,
                CancelledIsOver, TidyWasTold, Sessions
  <1>9. CASE Shutdown
    BY <1>9 DEF Shutdown, CloseConn, TypeOK, NotBegun, LeftIsLost, LostHasReturned,
                CancelledIsOver, TidyWasTold
  <1>10. CASE CloseLost
    BY <1>10 DEF CloseLost, CloseConn, TypeOK, NotBegun, LeftIsLost, LostHasReturned,
                CancelledIsOver, TidyWasTold
  <1>11. CASE Reconnect
    BY <1>11 DEF Reconnect, TypeOK, NotBegun, LeftIsLost, LostHasReturned,
                CancelledIsOver, TidyWasTold
  <1> QED BY <1>1, <1>2, <1>3, <1>4, <1>5, <1>6, <1>7, <1>8, <1>9, <1>10, <1>11
      DEF MainStep

\* A step of a session's goroutines, or of its peer, keeps the invariant.
LEMMA GoroutinesKeep ==
    ASSUME SessionInv, NEW s \in Sessions, SessionStep(s)
    PROVE  SessionInv'
  <1> USE DEF SessionInv
  <1>1. CASE CheckContext(s)
    BY <1>1 DEF CheckContext, TypeOK, NotBegun, LeftIsLost, LostHasReturned,
                CancelledIsOver, TidyWasTold
  <1>2. CASE ReceivePacket(s)
    BY <1>2 DEF ReceivePacket, TypeOK, NotBegun, LeftIsLost, LostHasReturned,
                CancelledIsOver, TidyWasTold
  <1>3. CASE ReceiveError(s)
    BY <1>3 DEF ReceiveError, TypeOK, NotBegun, LeftIsLost, LostHasReturned,
                CancelledIsOver, TidyWasTold
  <1>4. CASE ReceiveEOF(s)
    BY <1>4 DEF ReceiveEOF, TypeOK, NotBegun, LeftIsLost, LostHasReturned,
                CancelledIsOver, TidyWasTold
  <1>5. ASSUME NEW w \in Workers, WorkerEnds(s, w)
        PROVE  SessionInv'
    BY <1>5 DEF WorkerEnds, TypeOK, NotBegun, LeftIsLost, LostHasReturned,
                CancelledIsOver, TidyWasTold
  <1>6. CASE TidyStep(s)
    <2>1. PICK next \in {"capture", "clipboard", "virtual", "done"} :
            tidy' = [tidy EXCEPT ![s] = next]
      BY <1>6 DEF TidyStep
    <2>2. /\ UNCHANGED <<main, cur, conn, silent, ctx, lost, recv, work, held, notified, sig, asked>>
          /\ tidy[s] # "none" /\ (ctx[s] \/ lost[s])
      BY <1>6 DEF TidyStep, TidyWasTold
    <2>3. /\ tidy' \in [Sessions -> {"none", "wait", "capture", "clipboard", "virtual", "done"}]
          /\ \A t \in Sessions : t # s => tidy'[t] = tidy[t]
      BY <2>1 DEF TypeOK
    <2>4. TypeOK'
      BY <2>2, <2>3 DEF TypeOK
    <2>5. NotBegun'
      BY <2>2, <2>3 DEF NotBegun
    <2>6. TidyWasTold'
      BY <2>2, <2>3 DEF TidyWasTold
    <2> QED BY <2>2, <2>4, <2>5, <2>6 DEF LeftIsLost, LostHasReturned, CancelledIsOver
  <1>9. CASE Ungrab(s)
    BY <1>9 DEF Ungrab, TypeOK, NotBegun, LeftIsLost, LostHasReturned,
                CancelledIsOver, TidyWasTold
  <1>10. CASE KeyboardGrabs(s)
    BY <1>10 DEF KeyboardGrabs, TypeOK, NotBegun, LeftIsLost, LostHasReturned,
                CancelledIsOver, TidyWasTold
  <1>11. CASE GrabReturns(s)
    BY <1>11 DEF GrabReturns, TypeOK, NotBegun, LeftIsLost, LostHasReturned,
                CancelledIsOver, TidyWasTold
  <1>7. CASE PeerFallsSilent(s)
    BY <1>7 DEF PeerFallsSilent, TypeOK, NotBegun, LeftIsLost, LostHasReturned,
                CancelledIsOver, TidyWasTold
  <1>8. CASE PeerGoes(s)
    BY <1>8 DEF PeerGoes, TypeOK, NotBegun, LeftIsLost, LostHasReturned,
                CancelledIsOver, TidyWasTold
  <1> QED BY <1>1, <1>2, <1>3, <1>4, <1>5, <1>6, <1>7, <1>8, <1>9, <1>10, <1>11
      DEF SessionStep, ReceiveStep

\* SessionInv is inductive.
LEMMA SessionInductive == SessionInv /\ [Next]_vars => SessionInv'
  <1> SUFFICES ASSUME SessionInv, [Next]_vars PROVE SessionInv'
    OBVIOUS
  <1>1. CASE Interrupt
    BY <1>1, SessionAssumption
    DEF Interrupt, SessionInv, sessionVars, TypeOK, NotBegun, LeftIsLost, LostHasReturned,
        CancelledIsOver, TidyWasTold
  <1>2. CASE Exited \/ UNCHANGED vars
    BY <1>2 DEF Exited, vars, SessionInv, TypeOK, NotBegun, LeftIsLost, LostHasReturned,
        CancelledIsOver, TidyWasTold
  <1> QED BY <1>1, <1>2, MainKeeps, GoroutinesKeep DEF Next

\* main.go injects the input of one session at a time: no receiveLoop runs for
\* an old session, nor while main connects again, for any number of sessions.
THEOREM OneReceiverAlways == Spec => []OneReceiver
  <1>1. SessionInv => OneReceiver
    BY DEF SessionInv, TypeOK, NotBegun, LeftIsLost, LostHasReturned, OneReceiver, Sessions
  <1> QED BY <1>1, SessionInitially, SessionInductive, PTL DEF Spec

\* When runSession's cleanup closes the virtual devices, the receiver that
\* writes their map of pressed keys has returned, or the process is exiting.
THEOREM ReceiverGoesFirstAlways == Spec => []ReceiverGoesFirst
  <1>1. SessionInv => ReceiverGoesFirst
    BY DEF SessionInv, LostHasReturned, CancelledIsOver, TidyWasTold, ReceiverGoesFirst
  <1> QED BY <1>1, SessionInitially, SessionInductive, PTL DEF Spec
=============================================================================
