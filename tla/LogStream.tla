----------------------------- MODULE LogStream -----------------------------
(***************************************************************************)
(* The live log of a repository: the hub the git jobs publish to (LogHub in *)
(* worker.go) and the WebSocket handlers that subscribe to it, each with a   *)
(* goroutine that reads, one that pings and one that re-checks the           *)
(* credential (wsPrincipal.watch).  StreamRepositoryLogs subscribes to the   *)
(* lines of the repository, StreamDashboardLogs to those of every one.       *)
(*                                                                         *)
(* Lines are counted, not told apart.  The hub is locked for the length of   *)
(* each of its methods.  Of the library it is assumed that a write fails     *)
(* once the peer is gone or a close frame was sent; no deadline is set, so a *)
(* peer that stops reading holds it up until it is gone.  Time is left out:  *)
(* watch may look at any time, and looks again and again.                    *)
(***************************************************************************)
EXTENDS Naturals, FiniteSets

CONSTANTS Streams,    \* handlers, each with its connection and channel
          Firehoses,  \* those of the dashboard; the others are the repository's
          Capacity,   \* the capacity of a subscription's channel
          MaxLines    \* bound on lines published

VARIABLES loop,        \* loop[s]: where the handler is
          watcher,     \* watcher[s]: where its watch is
          subscribers, \* LogHub.subscribers of the repository
          globalSubs,  \* LogHub.globalSubs
          queue,       \* queue[s]: lines in the channel
          open,        \* channels not closed
          panicked,    \* a send on, or a close of, a closed channel
          cancelled,   \* contexts that are done
          closeSent,   \* connections over which a close frame was sent
          gone,        \* peers that went away
          credential,  \* credential[s]: its row and its user are still good
          lines        \* lines published so far

connVars == <<closeSent, gone, credential>>
hubVars == <<subscribers, globalSubs, queue, open, panicked, lines>>
vars == <<loop, watcher, hubVars, cancelled, connVars>>

TypeOK ==
    /\ loop \in [Streams -> {"upgrade", "subscribe", "select", "write", "stalled", "leave", "done"}]
    /\ watcher \in [Streams -> {"none", "wait", "close", "cancel", "done"}]
    /\ subscribers \subseteq Streams \ Firehoses
    /\ globalSubs \subseteq Streams \cap Firehoses
    /\ queue \in [Streams -> 0..Capacity]
    /\ open \subseteq Streams
    /\ panicked \in BOOLEAN
    /\ cancelled \subseteq Streams
    /\ closeSent \subseteq Streams
    /\ gone \subseteq Streams
    /\ credential \in [Streams -> BOOLEAN]
    /\ lines \in 0..MaxLines

Init ==
    /\ loop = [s \in Streams |-> "upgrade"]
    /\ watcher = [s \in Streams |-> "none"]
    /\ subscribers = {} /\ globalSubs = {} /\ open = {} /\ panicked = FALSE
    /\ queue = [s \in Streams |-> 0]
    /\ cancelled = {} /\ closeSent = {} /\ gone = {}
    /\ credential \in [Streams -> BOOLEAN]
    /\ lines = 0

-----------------------------------------------------------------------------
(* The hub.                                                                *)

listen(s) ==
    /\ loop[s] = "subscribe"
    /\ open' = open \cup {s}
    /\ loop' = [loop EXCEPT ![s] = "select"]
    /\ watcher' = [watcher EXCEPT ![s] = "wait"]
    /\ UNCHANGED <<queue, panicked, lines, cancelled, connVars>>

Subscribe(s) ==
    /\ s \notin Firehoses
    /\ subscribers' = subscribers \cup {s}
    /\ listen(s)
    /\ UNCHANGED globalSubs

SubscribeAll(s) ==
    /\ s \in Firehoses
    /\ globalSubs' = globalSubs \cup {s}
    /\ listen(s)
    /\ UNCHANGED subscribers

\* The channel is closed if it is still in the list.  The deferred calls of the
\* handler then cancel the context and close the connection.
drop(s, list) ==
    /\ loop[s] = "leave"
    /\ open' = IF s \in list THEN open \ {s} ELSE open
    /\ panicked' = (panicked \/ (s \in list /\ s \notin open))
    /\ loop' = [loop EXCEPT ![s] = "done"]
    /\ UNCHANGED <<watcher, queue, lines, cancelled, connVars>>

Unsubscribe(s) ==
    /\ s \notin Firehoses
    /\ drop(s, subscribers)
    /\ subscribers' = subscribers \ {s}
    /\ UNCHANGED globalSubs

\* Mutant: the channel is closed and stays in the list.
UnsubscribeAllLeaves(s) ==
    /\ s \in Firehoses
    /\ drop(s, globalSubs)
    /\ UNCHANGED <<subscribers, globalSubs>>

UnsubscribeAll(s) ==
    /\ s \in Firehoses
    /\ drop(s, globalSubs)
    /\ globalSubs' = globalSubs \ {s}
    /\ UNCHANGED subscribers

\* A job publishes a line: a full channel loses it, and nobody waits.
Broadcast ==
    /\ lines < MaxLines
    /\ lines' = lines + 1
    /\ queue' = [s \in Streams |-> IF s \in subscribers \cup globalSubs /\ queue[s] < Capacity
                                   THEN queue[s] + 1 ELSE queue[s]]
    /\ panicked' = (panicked \/ ~(subscribers \cup globalSubs \subseteq open))
    /\ UNCHANGED <<loop, watcher, subscribers, globalSubs, open, cancelled, connVars>>

-----------------------------------------------------------------------------
(* The handler.                                                            *)

\* captureWSPrincipal asks the database, not the cache, before the upgrade.
capture(s) ==
    /\ loop[s] = "upgrade"
    /\ loop' = [loop EXCEPT ![s] = IF credential[s] THEN "subscribe" ELSE "done"]
    /\ UNCHANGED <<watcher, hubVars, cancelled, connVars>>

\* The upgrade to a WebSocket failed.
upgradeFails(s) ==
    /\ loop[s] = "subscribe"
    /\ loop' = [loop EXCEPT ![s] = "done"]
    /\ UNCHANGED <<watcher, hubVars, cancelled, connVars>>

\* select: a line is there, or the context is done; with both, either.
receive(s) ==
    /\ loop[s] = "select"
    /\ queue[s] > 0
    /\ queue' = [queue EXCEPT ![s] = @ - 1]
    /\ loop' = [loop EXCEPT ![s] = "write"]
    /\ UNCHANGED <<watcher, subscribers, globalSubs, open, panicked, lines, cancelled, connVars>>

\* The line is written, unless the connection refuses it.
write(s) ==
    /\ \/ /\ loop[s] = "write" /\ s \notin closeSent
          /\ loop' = [loop EXCEPT ![s] = "select"]
       \/ /\ loop[s] = "write" /\ s \in closeSent \cup gone
          /\ loop' = [loop EXCEPT ![s] = "leave"]
       \/ /\ loop[s] = "stalled" /\ s \in gone
          /\ loop' = [loop EXCEPT ![s] = "leave"]
    /\ UNCHANGED <<watcher, hubVars, cancelled, connVars>>

\* The peer has stopped reading and its buffers are full.
stall(s) ==
    /\ loop[s] = "write" /\ s \notin gone
    /\ loop' = [loop EXCEPT ![s] = "stalled"]
    /\ UNCHANGED <<watcher, hubVars, cancelled, connVars>>

stop(s) ==
    /\ loop[s] = "select"
    /\ s \in cancelled
    /\ loop' = [loop EXCEPT ![s] = "leave"]
    /\ UNCHANGED <<watcher, hubVars, cancelled, connVars>>

\* The reader's ReadMessage fails once the peer is gone or answered the close.
readFails(s) ==
    /\ loop[s] \in {"select", "write", "stalled"}
    /\ s \in gone \cup (IF loop[s] = "stalled" THEN {} ELSE closeSent)
    /\ s \notin cancelled
    /\ cancelled' = cancelled \cup {s}
    /\ UNCHANGED <<loop, watcher, hubVars, connVars>>

-----------------------------------------------------------------------------
(* watch.                                                                  *)

\* Mutant: a credential that was good at the upgrade is taken to be good.
trust(s) ==
    /\ watcher[s] = "wait"
    /\ s \in cancelled \/ loop[s] = "done"
    /\ watcher' = [watcher EXCEPT ![s] = "done"]
    /\ UNCHANGED <<loop, hubVars, cancelled, connVars>>

\* The timer fired: end with the stream, or re-validate the credential, which
\* fails if it was revoked or the database does not answer.
revalidate(s) ==
    /\ watcher[s] = "wait"
    /\ \/ /\ s \in cancelled \/ loop[s] = "done"
          /\ watcher' = [watcher EXCEPT ![s] = "done"]
       \/ /\ s \notin cancelled /\ loop[s] # "done"
          /\ watcher' = [watcher EXCEPT ![s] = "close"]
          /\ ~credential[s]
    /\ UNCHANGED <<loop, hubVars, cancelled, connVars>>

\* The database did not answer in time: closed all the same.
revalidateFails(s) ==
    /\ watcher[s] = "wait"
    /\ s \notin cancelled /\ loop[s] # "done"
    /\ watcher' = [watcher EXCEPT ![s] = "close"]
    /\ UNCHANGED <<loop, hubVars, cancelled, connVars>>

\* The close frame, after which the connection takes no more lines.  A write
\* in progress may keep it waiting past its deadline; the error is ignored.
sendClose(s) ==
    /\ watcher[s] = "close"
    /\ watcher' = [watcher EXCEPT ![s] = "cancel"]
    /\ \/ /\ loop[s] # "stalled"
          /\ closeSent' = IF loop[s] = "done" THEN closeSent ELSE closeSent \cup {s}
       \/ loop[s] \in {"write", "stalled"} /\ closeSent' = closeSent
    /\ UNCHANGED <<loop, hubVars, cancelled, gone, credential>>

cancel(s) ==
    /\ watcher[s] = "cancel"
    /\ watcher' = [watcher EXCEPT ![s] = "done"]
    /\ cancelled' = cancelled \cup {s}
    /\ UNCHANGED <<loop, hubVars, connVars>>

-----------------------------------------------------------------------------
\* Logout, password change, revocation, expiry, a disabled or deleted user.
revoke(s) ==
    /\ credential[s]
    /\ credential' = [credential EXCEPT ![s] = FALSE]
    /\ UNCHANGED <<loop, watcher, hubVars, cancelled, closeSent, gone>>

\* The tab is closed.
depart(s) ==
    /\ s \notin gone
    /\ loop[s] # "done"
    /\ gone' = gone \cup {s}
    /\ UNCHANGED <<loop, watcher, hubVars, cancelled, closeSent, credential>>

Next ==
    \/ Broadcast
    \/ \E s \in Streams :
         \/ capture(s) \/ upgradeFails(s) \/ Subscribe(s) \/ SubscribeAll(s)
         \/ receive(s) \/ write(s) \/ stall(s) \/ stop(s) \/ Unsubscribe(s) \/ UnsubscribeAll(s)
         \/ readFails(s)
         \/ revalidate(s) \/ revalidateFails(s) \/ sendClose(s) \/ cancel(s)
         \/ revoke(s) \/ depart(s)

Spec == Init /\ [][Next]_vars

(* The goroutines run; a select whose context is done does not choose the    *)
(* other branch for ever, since the runtime chooses at random.               *)
Fairness ==
    \A s \in Streams :
        /\ WF_vars(capture(s)) /\ WF_vars(Subscribe(s) \/ SubscribeAll(s))
        /\ WF_vars(Unsubscribe(s) \/ UnsubscribeAll(s))
        /\ WF_vars(write(s)) /\ SF_vars(stop(s)) /\ WF_vars(readFails(s))
        /\ WF_vars(revalidate(s)) /\ WF_vars(sendClose(s)) /\ WF_vars(cancel(s))

-----------------------------------------------------------------------------
\* A job that publishes never meets a channel a leaving client has closed,
\* and no channel is closed twice: either would end the process.
NoPanic == ~panicked

\* ws_auth.go: without the re-check a stream "would keep flowing after logout".
\* A stream whose credential is revoked, or whose peer is gone, ends and gives
\* its subscription back, whatever is being published.  The exception is a
\* peer that has stopped reading and is not gone.
StreamEnds ==
    \A s \in Streams :
        (s \in gone \/ ~credential[s])
            ~> \/ loop[s] = "done" /\ s \notin subscribers \cup globalSubs
               \/ loop[s] = "stalled" /\ s \notin gone
=============================================================================
