------------------------------ MODULE ClientHub ------------------------------
(***************************************************************************)
(* The websocket connections of one node (service/conn): the registry that *)
(* maps an application instance to its connection, the read and the write  *)
(* goroutine of every connection, serveWs that accepts one, and the calls  *)
(* of Client.Send that push events.                                        *)
(*                                                                         *)
(* gorilla/websocket is external.  It is modelled by when its calls fail:  *)
(* a write fails after a close frame was written or the connection closed, *)
(* and may fail once the peer is gone; beginning a message ends the one    *)
(* that another goroutine has begun; two frames written at once panic.     *)
(***************************************************************************)
EXTENDS Integers, Sequences

CONSTANTS
  Conns,     \* the connections, past and to come
  Keys,      \* the names instances connect under
  KeyOf,     \* KeyOf[c]: the key of connection c
  Sends,     \* calls of Client.Send, one message each
  DestOf,    \* DestOf[s]: the key the message of s is for
  Cap,       \* capacity of Client.send
  Refused,   \* connections whose handshake fails
  Faults,    \* "mapRace": the runtime notices accesses to the registry that race
             \* "large": messages may be larger than the write buffer
  None

ASSUME HubAssumption ==
  /\ KeyOf \in [Conns -> Keys]
  /\ DestOf \in [Sends -> Keys]
  /\ Cap \in Nat \ {0}
  /\ Refused \subseteq Conns
  /\ Faults \subseteq {"mapRace", "large"}
  /\ None \notin Conns /\ None \notin Sends

Roles == {"reader", "writer"}

VARIABLES
  up,         \* the process runs
  clients,    \* clients[k]: the registered connection of key k, or None
  serve,      \* serve[c]: what the handler that accepts c does next
  existing,   \* existing[c]: existClient of that handler
  pc,         \* pc[c][r]: what goroutine r of c does next
  closed,     \* closed[c]: Client.closed
  chanClosed, \* chanClosed[c]: Client.send is closed
  buf,        \* buf[c]: what Client.send holds
  hand,       \* hand[c]: the message c's writer works on, or None
  cut,        \* cut[c]: the message c's writer has begun was ended by TryClose
  open,       \* open[c]: the connection is not closed on this side
  byeSent,    \* byeSent[c]: a close frame was written
  peer,       \* peer[c]: the other side is there
  send,       \* send[s]: what call s does next
  target,     \* target[s]: the connection call s found
  got         \* the messages that reached their application

conn == <<closed, chanClosed, open, byeSent, peer>>
queue == <<buf, hand, cut, got>>
vars == <<up, clients, serve, existing, pc, conn, queue, send, target>>

CloseSteps == {"closeChan", "unregister", "closeConn"}

Init ==
  /\ up = TRUE
  /\ clients = [k \in Keys |-> None]
  /\ serve = [c \in Conns |-> "lookup"]
  /\ existing = [c \in Conns |-> None]
  /\ pc = [c \in Conns |-> [r \in Roles |-> "off"]]
  /\ closed = [c \in Conns |-> FALSE]
  /\ chanClosed = [c \in Conns |-> FALSE]
  /\ buf = [c \in Conns |-> << >>]
  /\ hand = [c \in Conns |-> None]
  /\ cut = [c \in Conns |-> FALSE]
  /\ open = [c \in Conns |-> FALSE]
  /\ byeSent = [c \in Conns |-> FALSE]
  /\ peer = [c \in Conns |-> FALSE]
  /\ send = [s \in Sends |-> "lookup"]
  /\ target = [s \in Sends |-> None]
  /\ got = {}

Goes(c, r, step) == pc' = [pc EXCEPT ![c][r] = step]

(* A write on c has to fail, or may fail.                                  *)
WriteMustFail(c) == ~open[c] \/ byeSent[c]
WriteMayFail(c) == WriteMustFail(c) \/ ~peer[c]

(* A goroutine panics: the process of the node is gone.                    *)
Panic == up' = FALSE /\ UNCHANGED <<clients, serve, existing, pc, conn, queue, send, target>>

-----------------------------------------------------------------------------
(* serveWs.                                                                *)

ServeLookup(c) ==
  /\ up /\ serve[c] = "lookup"
  /\ existing' = [existing EXCEPT ![c] = clients[KeyOf[c]]]
  /\ serve' = [serve EXCEPT ![c] = IF clients[KeyOf[c]] = None THEN "upgrade" ELSE "tryClose"]
  /\ UNCHANGED <<up, clients, pc, conn, queue, send, target>>

(* TryClose writes a close frame to the old connection, from the goroutine *)
(* of the request.  It ends a message that the old connection's writer has *)
(* begun, body or no body.                                                 *)
TryClose(c) ==
  /\ up /\ serve[c] = "tryClose"
  /\ serve' = [serve EXCEPT ![c] = "upgrade"]
  /\ LET old == existing[c] IN
     /\ cut' = [cut EXCEPT ![old] = pc[old]["writer"] \in {"write", "flush"}]
     /\ byeSent' = [byeSent EXCEPT ![old] = @ \/ open[old]]
     /\ got' = IF pc[old]["writer"] = "flush" /\ ~WriteMayFail(old)
               THEN got \cup {hand[old]} ELSE got
  /\ UNCHANGED <<up, clients, existing, pc, closed, chanClosed, open, peer, buf, hand, send, target>>

(* The old connection's writer writes a message (or a part of one that is  *)
(* larger than the buffer), a ping or its own close frame at the same      *)
(* moment: whoever comes second panics.  The server recovers from that in  *)
(* a request.                                                              *)
TryCloseRace(c) ==
  /\ up /\ serve[c] = "tryClose"
  /\ pc[existing[c]]["writer"] \in {"select", "write", "flush"} /\ ~WriteMustFail(existing[c])
  /\ \/ Panic
     \/ /\ serve' = [serve EXCEPT ![c] = "gone"]
        /\ UNCHANGED <<up, clients, existing, pc, conn, queue, send, target>>

Upgrade(c) ==
  /\ up /\ serve[c] = "upgrade"
  /\ \/ /\ c \notin Refused
        /\ serve' = [serve EXCEPT ![c] = "register"]
        /\ open' = [open EXCEPT ![c] = TRUE]
        /\ peer' = [peer EXCEPT ![c] = TRUE]
     \/ /\ serve' = [serve EXCEPT ![c] = "gone"]
        /\ UNCHANGED <<open, peer>>
  /\ UNCHANGED <<up, clients, existing, pc, closed, chanClosed, byeSent, queue, send, target>>

Register(c) ==
  /\ up /\ serve[c] = "register"
  /\ serve' = [serve EXCEPT ![c] = "start"]
  /\ clients' = [clients EXCEPT ![KeyOf[c]] = c]
  /\ UNCHANGED <<up, existing, pc, conn, queue, send, target>>

StartGoroutines(c) ==
  /\ up /\ serve[c] = "start"
  /\ serve' = [serve EXCEPT ![c] = "served"]
  /\ pc' = [pc EXCEPT ![c] = [reader |-> "read", writer |-> "select"]]
  /\ UNCHANGED <<up, clients, existing, conn, queue, send, target>>

-----------------------------------------------------------------------------
(* Client.Send, called by doPush with the client GetClient found.          *)

SendLookup(s) ==
  /\ up /\ send[s] = "lookup"
  /\ target' = [target EXCEPT ![s] = clients[DestOf[s]]]
  /\ send' = [send EXCEPT ![s] = IF clients[DestOf[s]] = None THEN "done" ELSE "send"]
  /\ UNCHANGED <<up, clients, serve, existing, pc, conn, queue>>

(* (For comparison: a queue without a limit.)                              *)
SendUnbounded(s) ==
  /\ up /\ send[s] = "send" /\ ~chanClosed[target[s]]
  /\ buf' = [buf EXCEPT ![target[s]] = Append(@, s)]
  /\ send' = [send EXCEPT ![s] = "done"]
  /\ UNCHANGED <<up, clients, serve, existing, pc, conn, hand, cut, got, target>>

SendQueued(s) ==
  /\ up /\ send[s] = "send"
  /\ ~chanClosed[target[s]] /\ Len(buf[target[s]]) < Cap
  /\ buf' = [buf EXCEPT ![target[s]] = Append(@, s)]
  /\ send' = [send EXCEPT ![s] = "done"]
  /\ UNCHANGED <<up, clients, serve, existing, pc, conn, hand, cut, got, target>>

(* Sending on a closed channel panics, waiting for room in one that gets   *)
(* closed does too; Send recovers and the message is dropped.              *)
SendDropped(s) ==
  /\ up /\ send[s] = "send" /\ chanClosed[target[s]]
  /\ send' = [send EXCEPT ![s] = "done"]
  /\ UNCHANGED <<up, clients, serve, existing, pc, conn, queue, target>>

-----------------------------------------------------------------------------
(* Client.Read: the deadline passes, the peer is gone or the connection    *)
(* was closed.  A message that arrives changes nothing here.               *)
ReadFails(c) ==
  /\ up /\ pc[c]["reader"] = "read"
  /\ ~peer[c] \/ ~open[c]
  /\ Goes(c, "reader", "close")
  /\ UNCHANGED <<up, clients, serve, existing, conn, queue, send, target>>

PeerLeaves(c) ==
  /\ up /\ peer[c]
  /\ peer' = [peer EXCEPT ![c] = FALSE]
  /\ UNCHANGED <<up, clients, serve, existing, pc, closed, chanClosed, open, byeSent, queue, send, target>>

-----------------------------------------------------------------------------
(* Client.Write.                                                           *)

WriterTakes(c) ==
  /\ up /\ pc[c]["writer"] = "select" /\ buf[c] # << >>
  /\ hand' = [hand EXCEPT ![c] = Head(buf[c])]
  /\ buf' = [buf EXCEPT ![c] = Tail(@)]
  /\ Goes(c, "writer", "begin")
  /\ UNCHANGED <<up, clients, serve, existing, conn, cut, got, send, target>>

(* The channel is closed and empty: a close frame, and the writer ends.    *)
WriterSaysBye(c) ==
  /\ up /\ pc[c]["writer"] = "select" /\ buf[c] = << >> /\ chanClosed[c]
  /\ byeSent' = [byeSent EXCEPT ![c] = @ \/ open[c]]
  /\ Goes(c, "writer", "close")
  /\ UNCHANGED <<up, clients, serve, existing, closed, chanClosed, open, peer, queue, send, target>>

(* (For comparison: the error of the ping is ignored.)                     *)
PingIgnored(c) ==
  /\ up /\ pc[c]["writer"] = "select" /\ WriteMayFail(c)
  /\ UNCHANGED vars

(* The ticker fires; a ping that is written changes nothing.               *)
PingFails(c) ==
  /\ up /\ pc[c]["writer"] = "select" /\ WriteMayFail(c)
  /\ Goes(c, "writer", "close")
  /\ UNCHANGED <<up, clients, serve, existing, conn, queue, send, target>>

(* NextWriter.                                                             *)
Begin(c) ==
  /\ up /\ pc[c]["writer"] = "begin"
  /\ \/ /\ ~WriteMustFail(c)
        /\ Goes(c, "writer", "write")
        /\ UNCHANGED hand
     \/ /\ WriteMayFail(c)
        /\ Goes(c, "writer", "close")
        /\ hand' = [hand EXCEPT ![c] = None]
  /\ UNCHANGED <<up, clients, serve, existing, conn, buf, cut, got, send, target>>

(* w.Write fails when the message was ended, or when a message larger than *)
(* the buffer cannot be written; the error branch then calls Error of the  *)
(* wrong variable, which is nil.                                           *)
Body(c) ==
  /\ up /\ pc[c]["writer"] = "write"
  /\ \/ /\ ~cut[c]
        /\ Goes(c, "writer", "flush")
        /\ UNCHANGED <<up, clients, serve, existing, conn, queue, send, target>>
     \/ /\ cut[c] \/ ("large" \in Faults /\ WriteMayFail(c))
        /\ Panic

(* (For comparison: the message is never ended.)                           *)
FlushForgotten(c) ==
  /\ up /\ pc[c]["writer"] = "flush"
  /\ hand' = [hand EXCEPT ![c] = None]
  /\ cut' = [cut EXCEPT ![c] = FALSE]
  /\ Goes(c, "writer", "select")
  /\ UNCHANGED <<up, clients, serve, existing, conn, buf, got, send, target>>

(* w.Close writes the frame.                                               *)
Flush(c) ==
  /\ up /\ pc[c]["writer"] = "flush"
  /\ hand' = [hand EXCEPT ![c] = None]
  /\ cut' = [cut EXCEPT ![c] = FALSE]
  /\ \/ /\ ~cut[c] /\ ~WriteMustFail(c)
        /\ Goes(c, "writer", "select")
        /\ got' = IF peer[c] THEN got \cup {hand[c]} ELSE got
     \/ /\ cut[c] \/ WriteMayFail(c)
        /\ Goes(c, "writer", "close")
        /\ UNCHANGED got
  /\ UNCHANGED <<up, clients, serve, existing, conn, buf, send, target>>

-----------------------------------------------------------------------------
(* Client.Close, at the end of both goroutines.                            *)

(* (For comparison: closed is not looked at.)                              *)
CloseUnchecked(c, r) ==
  /\ up /\ pc[c][r] = "close"
  /\ closed' = [closed EXCEPT ![c] = TRUE]
  /\ Goes(c, r, "closeChan")
  /\ UNCHANGED <<up, clients, serve, existing, chanClosed, open, byeSent, peer, queue, send, target>>

(* Under the lock: whoever finds closed unset goes on.                     *)
Close(c, r) ==
  /\ up /\ pc[c][r] = "close"
  /\ closed' = [closed EXCEPT ![c] = TRUE]
  /\ Goes(c, r, IF closed[c] THEN "done" ELSE "closeChan")
  /\ UNCHANGED <<up, clients, serve, existing, chanClosed, open, byeSent, peer, queue, send, target>>

(* (For comparison: the channel stays open.)                               *)
ChanLeftOpen(c, r) ==
  /\ up /\ pc[c][r] = "closeChan"
  /\ Goes(c, r, "unregister")
  /\ UNCHANGED <<up, clients, serve, existing, conn, queue, send, target>>

CloseChan(c, r) ==
  /\ up /\ pc[c][r] = "closeChan"
  /\ chanClosed' = [chanClosed EXCEPT ![c] = TRUE]
  /\ Goes(c, r, "unregister")
  /\ UNCHANGED <<up, clients, serve, existing, closed, open, byeSent, peer, queue, send, target>>

(* (For comparison: the connection stays in the registry.)                 *)
LeftRegistered(c, r) ==
  /\ up /\ pc[c][r] = "unregister"
  /\ Goes(c, r, "closeConn")
  /\ UNCHANGED <<up, clients, serve, existing, conn, queue, send, target>>

(* delete(clients, c.key), whichever connection is registered.             *)
Unregister(c, r) ==
  /\ up /\ pc[c][r] = "unregister"
  /\ clients' = [clients EXCEPT ![KeyOf[c]] = None]
  /\ Goes(c, r, "closeConn")
  /\ UNCHANGED <<up, serve, existing, conn, queue, send, target>>

CloseConn(c, r) ==
  /\ up /\ pc[c][r] = "closeConn"
  /\ open' = [open EXCEPT ![c] = FALSE]
  /\ Goes(c, r, "done")
  /\ UNCHANGED <<up, clients, serve, existing, closed, chanClosed, byeSent, peer, queue, send, target>>

-----------------------------------------------------------------------------
(* The registry is a Go map without a lock: a write that meets any other   *)
(* access may stop the process ("concurrent map writes").                  *)
WritesMap ==
  {c \in Conns : serve[c] = "register" \/ \E r \in Roles : pc[c][r] = "unregister"}
ReadsMap ==
  {c \in Conns : serve[c] = "lookup"} \cup {s \in Sends : send[s] = "lookup"}

MapRace ==
  /\ up /\ "mapRace" \in Faults
  /\ \E c \in WritesMap : (WritesMap \cup ReadsMap) # {c}
  /\ Panic

-----------------------------------------------------------------------------
ServeStep(c) ==
  ServeLookup(c) \/ TryClose(c) \/ Upgrade(c) \/ Register(c) \/ StartGoroutines(c)
CloseStep(c, r) == Close(c, r) \/ CloseChan(c, r) \/ Unregister(c, r) \/ CloseConn(c, r)
WriterStep(c) == WriterTakes(c) \/ WriterSaysBye(c) \/ Begin(c) \/ Body(c) \/ Flush(c)
SendStep(s) == SendLookup(s) \/ SendQueued(s) \/ SendDropped(s)

Next ==
  \/ \E c \in Conns :
       \/ ServeStep(c) \/ TryCloseRace(c)
       \/ ReadFails(c) \/ PeerLeaves(c)
       \/ WriterStep(c) \/ PingFails(c)
       \/ \E r \in Roles : CloseStep(c, r)
  \/ \E s \in Sends : SendStep(s)
  \/ MapRace

Spec == Init /\ [][Next]_vars

(* Every goroutine that can run runs; the read deadline passes; the ticker *)
(* fires again and again, so that a ping that has to fail is tried.        *)
Fairness ==
  /\ \A c \in Conns :
       /\ WF_vars(ServeStep(c)) /\ WF_vars(ReadFails(c)) /\ WF_vars(WriterStep(c))
       /\ WF_vars(PingFails(c) /\ WriteMustFail(c))
       /\ \A r \in Roles : WF_vars(CloseStep(c, r))
  /\ \A s \in Sends : WF_vars(SendStep(s))

FairSpec == Spec /\ Fairness

-----------------------------------------------------------------------------
(* Properties.                                                             *)

(* Types.                                                                  *)
TypeOK ==
  /\ up \in BOOLEAN
  /\ clients \in [Keys -> Conns \cup {None}]
  /\ serve \in [Conns -> {"lookup", "tryClose", "upgrade", "register", "start", "served", "gone"}]
  /\ existing \in [Conns -> Conns \cup {None}]
  /\ pc \in [Conns -> [Roles -> {"off", "read", "select", "begin", "write", "flush",
                                 "close", "done"} \cup CloseSteps]]
  /\ closed \in [Conns -> BOOLEAN] /\ chanClosed \in [Conns -> BOOLEAN]
  /\ buf \in [Conns -> Seq(Sends)] /\ \A c \in Conns : Len(buf[c]) <= Cap
  /\ hand \in [Conns -> Sends \cup {None}]
  /\ cut \in [Conns -> BOOLEAN] /\ open \in [Conns -> BOOLEAN]
  /\ byeSent \in [Conns -> BOOLEAN] /\ peer \in [Conns -> BOOLEAN]
  /\ send \in [Sends -> {"lookup", "send", "done"}]
  /\ target \in [Sends -> Conns \cup {None}]
  /\ got \subseteq Sends

(* Both goroutines of a connection call Close, but only one of them goes   *)
(* past its lock: the channel is not closed twice and the registry is      *)
(* touched once per connection (Client.Close).                             *)
OneCloser ==
  \A c \in Conns :
    /\ ~(pc[c]["reader"] \in CloseSteps /\ pc[c]["writer"] \in CloseSteps)
    /\ chanClosed[c] => \A r \in Roles : pc[c][r] # "closeChan"

(* A connection in the registry still has a Close ahead of it that takes   *)
(* it out: nobody finds a connection there that nobody will remove, and a  *)
(* message is never lost to a registered connection that is long closed    *)
(* (registerClient before the goroutines start, unregisterClient).         *)
RegisteredIsAlive ==
  \A k \in Keys :
    clients[k] # None =>
      LET c == clients[k] IN
      /\ KeyOf[c] = k
      /\ open[c]
      /\ serve[c] = "start"
         \/ \E r \in Roles : pc[c][r] \notin {"done", "closeConn"}

(* The inductive invariant behind OneCloser and RegisteredIsAlive.         *)

(* What the steps that are under way refer to.                             *)
InHand ==
  /\ \A c \in Conns : serve[c] = "tryClose" => existing[c] \in Conns
  /\ \A s \in Sends : send[s] = "send" => target[s] \in Conns
  /\ \A c \in Conns : pc[c]["writer"] \in {"begin", "write", "flush"} => hand[c] \in Sends

(* Until its goroutines are started a connection is untouched.             *)
Fresh(c) ==
  serve[c] # "served" =>
    /\ pc[c]["reader"] = "off" /\ pc[c]["writer"] = "off"
    /\ ~closed[c] /\ ~chanClosed[c]
    /\ serve[c] \in {"register", "start"} => open[c]

(* Whoever is past the lock of Close has set closed, and is alone there.   *)
ClosedOnce(c) ==
  /\ \A r \in Roles : pc[c][r] \in CloseSteps \cup {"done"} => closed[c]
  /\ ~(pc[c]["reader"] \in CloseSteps /\ pc[c]["writer"] \in CloseSteps)
  /\ chanClosed[c] => closed[c] /\ \A r \in Roles : pc[c][r] # "closeChan"

(* A registered connection that was marked closed is about to be removed.  *)
Registered(c) ==
  clients[KeyOf[c]] = c =>
    /\ serve[c] \in {"start", "served"}
    /\ open[c]
    /\ \A r \in Roles : pc[c][r] # "closeConn"
    /\ closed[c] => \E r \in Roles : pc[c][r] \in {"closeChan", "unregister"}

HubInv ==
  /\ \A k \in Keys : clients[k] # None => KeyOf[clients[k]] = k
  /\ \A c \in Conns : Fresh(c) /\ ClosedOnce(c) /\ Registered(c)

(* The newest connection of a key is the one that pushes find: once its    *)
(* goroutines run and nothing is wrong with it, it is registered ("it is   *)
(* all right if the client reconnects within 30 seconds",                  *)
(* change_listener.go:113).                                                *)
Healthy(c) ==
  /\ open[c] /\ peer[c] /\ ~byeSent[c] /\ ~closed[c]
  /\ pc[c]["reader"] = "read" /\ pc[c]["writer"] = "select"

NewestIsRegistered ==
  up => \A c \in Conns :
          /\ Healthy(c)
          /\ \A d \in Conns \ {c} : KeyOf[d] = KeyOf[c] =>
               (serve[d] = "served" /\ \A r \in Roles : pc[d][r] = "done")
          => clients[KeyOf[c]] = c

(* Every call of Send returns: a full channel is drained or closed, also   *)
(* when the application has stopped reading.                               *)
SendReturns == \A s \in Sends : send[s] = "send" ~> (send[s] = "done" \/ ~up)

(* A connection that TryClose wrote a close frame to, or whose peer is     *)
(* gone, is closed in the end, even if its peer never answers.             *)
DeadIsClosed ==
  \A c \in Conns :
    (serve[c] = "served" /\ (byeSent[c] \/ ~peer[c])) ~> (~open[c] \/ ~up)

(* A message in the channel reaches its application unless the connection  *)
(* is closed or its peer is gone.                                          *)
QueuedArrives ==
  \A c \in Conns, s \in Sends :
    (\E i \in 1..Len(buf[c]) : buf[c][i] = s)
      ~> (s \in got \/ closed[c] \/ ~peer[c] \/ byeSent[c] \/ ~up)
=============================================================================
