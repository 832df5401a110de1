--------------------------- MODULE ClientHubProofs ---------------------------
(***************************************************************************)
(* Theorems about ClientHub, for any number of connections, keys and       *)
(* sends: type correctness, that one goroutine closes a connection, and    *)
(* that the registry holds nothing that is already closed.                 *)
(***************************************************************************)
EXTENDS ClientHub, TLAPS

(* The types together with what the steps under way refer to.              *)
TypeInv == TypeOK /\ InHand

LEMMA InitType == Init => TypeInv
  BY HubAssumption, SMT DEF Init, TypeInv, TypeOK, InHand, Roles

(* A panic leaves everything but up as it is.                              *)
LEMMA PanicType == TypeInv /\ Panic => TypeInv'
  BY DEF TypeInv, TypeOK, InHand, Panic, conn, queue

(* The handler that accepts a connection keeps the types.                  *)
LEMMA ServeType ==
  ASSUME TypeInv, NEW c \in Conns, ServeStep(c) \/ TryCloseRace(c)
  PROVE  TypeInv'
<1> USE HubAssumption DEF TypeInv, TypeOK, InHand, conn, queue
<1>1. CASE ServeLookup(c)
  BY <1>1 DEF ServeLookup
<1>2. CASE TryClose(c)
  <2>1. existing[c] \in Conns
    BY <1>2 DEF TryClose
  <2>2. cut' \in [Conns -> BOOLEAN] /\ byeSent' \in [Conns -> BOOLEAN]
    BY <1>2, <2>1 DEF TryClose
  <2>3. got' \subseteq Sends
    BY <1>2, <2>1 DEF TryClose
  <2> QED
    BY <1>2, <2>2, <2>3 DEF TryClose
<1>3. CASE TryCloseRace(c)
  BY <1>3, PanicType DEF TryCloseRace
<1>4. CASE Upgrade(c)
  <2>1. open' \in [Conns -> BOOLEAN] /\ peer' \in [Conns -> BOOLEAN]
    <3>1. CASE UNCHANGED <<open, peer>>
      BY <3>1
    <3>2. CASE open' = [open EXCEPT ![c] = TRUE] /\ peer' = [peer EXCEPT ![c] = TRUE]
      BY <3>2
    <3> QED
      BY <1>4, <3>1, <3>2 DEF Upgrade
  <2>2. PICK step \in {"register", "gone"} : serve' = [serve EXCEPT ![c] = step]
    BY <1>4 DEF Upgrade
  <2> QED
    BY <1>4, <2>1, <2>2 DEF Upgrade
<1>5. CASE Register(c)
  BY <1>5 DEF Register
<1>6. CASE StartGoroutines(c)
  BY <1>6 DEF StartGoroutines, Roles
<1> QED
  BY <1>1, <1>2, <1>3, <1>4, <1>5, <1>6 DEF ServeStep

(* So does a call of Send.                                                 *)
LEMMA SendType ==
  ASSUME TypeInv, NEW s \in Sends, SendStep(s)
  PROVE  TypeInv'
<1> USE HubAssumption DEF TypeInv, TypeOK, InHand, conn, queue
<1>1. CASE SendLookup(s)
  BY <1>1 DEF SendLookup
<1>2. CASE SendQueued(s)
  <2>1. target[s] \in Conns
    BY <1>2 DEF SendQueued
  <2>2. buf' \in [Conns -> Seq(Sends)]
    BY <1>2, <2>1 DEF SendQueued
  <2>3. \A d \in Conns : Len(buf'[d]) <= Cap
    BY <1>2, <2>1 DEF SendQueued
  <2> QED
    BY <1>2, <2>2, <2>3 DEF SendQueued
<1>3. CASE SendDropped(s)
  BY <1>3 DEF SendDropped
<1> QED
  BY <1>1, <1>2, <1>3 DEF SendStep

(* So do the reader, its peer and the writer.                              *)
LEMMA WriterType ==
  ASSUME TypeInv, NEW c \in Conns,
         ReadFails(c) \/ PeerLeaves(c) \/ WriterStep(c) \/ PingFails(c)
  PROVE  TypeInv'
<1> USE HubAssumption DEF TypeInv, TypeOK, InHand, conn, queue, Goes, Roles
<1> DEFINE PcType == pc \in [Conns -> [Roles -> {"off", "read", "select", "begin", "write", "flush",
                                              "close", "done"} \cup CloseSteps]]
           WriterHolds == \A d \in Conns : pc'[d]["writer"] \in {"begin", "write", "flush"}
                                             => pc[d]["writer"] \in {"begin", "write", "flush"}
<1>1. CASE ReadFails(c)
  BY <1>1 DEF ReadFails
<1>2. CASE PeerLeaves(c)
  BY <1>2 DEF PeerLeaves
<1>3. CASE WriterTakes(c)
  <2>1. Head(buf[c]) \in Sends /\ Tail(buf[c]) \in Seq(Sends) /\ Len(Tail(buf[c])) <= Cap
    BY <1>3 DEF WriterTakes
  <2> QED
    BY <1>3, <2>1 DEF WriterTakes
<1>4. CASE WriterSaysBye(c)
  <2>1. PcType' /\ WriterHolds
    BY <1>4 DEF WriterSaysBye
  <2> QED
    BY <1>4, <2>1 DEF WriterSaysBye
<1>5. CASE PingFails(c)
  <2>1. PcType' /\ WriterHolds
    BY <1>5 DEF PingFails
  <2> QED
    BY <1>5, <2>1 DEF PingFails
<1>6. CASE Begin(c)
  <2>1. CASE Goes(c, "writer", "write") /\ hand' = hand
    <3>1. PcType' /\ WriterHolds
      BY <1>6, <2>1 DEF Begin
    <3> QED
      BY <1>6, <2>1, <3>1 DEF Begin
  <2>2. CASE Goes(c, "writer", "close") /\ hand' = [hand EXCEPT ![c] = None]
    <3>1. PcType'
      BY <2>2
    <3>2. \A d \in Conns : pc'[d]["writer"] \in {"begin", "write", "flush"} =>
                             d # c /\ pc[d]["writer"] \in {"begin", "write", "flush"}
      BY <2>2
    <3> QED
      BY <1>6, <2>2, <3>1, <3>2 DEF Begin
  <2> QED
    BY <1>6, <2>1, <2>2 DEF Begin
<1>7. CASE Body(c)
  <2>1. CASE Panic
    BY <2>1, PanicType
  <2>2. CASE Goes(c, "writer", "flush")
             /\ UNCHANGED <<up, clients, serve, existing, conn, queue, send, target>>
    <3>1. PcType' /\ WriterHolds
      BY <1>7, <2>2 DEF Body
    <3> QED
      BY <2>2, <3>1
  <2> QED
    BY <1>7, <2>1, <2>2 DEF Body
<1>8. CASE Flush(c)
  <2>1. got' \subseteq Sends
    BY <1>8 DEF Flush
  <2>2. PcType' /\ \A d \in Conns : pc'[d]["writer"] \in {"begin", "write", "flush"} =>
                                   d # c /\ pc[d]["writer"] \in {"begin", "write", "flush"}
    <3>1. CASE Goes(c, "writer", "select")
      BY <3>1
    <3>2. CASE Goes(c, "writer", "close")
      BY <3>2
    <3> QED
      BY <1>8, <3>1, <3>2 DEF Flush
  <2> QED
    BY <1>8, <2>1, <2>2 DEF Flush
<1> QED
  BY <1>1, <1>2, <1>3, <1>4, <1>5, <1>6, <1>7, <1>8 DEF WriterStep

(* So does Client.Close.                                                   *)
LEMMA CloseType ==
  ASSUME TypeInv, NEW c \in Conns, NEW r \in Roles, CloseStep(c, r)
  PROVE  TypeInv'
<1> USE HubAssumption DEF TypeInv, TypeOK, InHand, conn, queue, Goes, Roles, CloseSteps
<1>1. CASE Close(c, r)
  BY <1>1 DEF Close
<1>2. CASE CloseChan(c, r)
  BY <1>2 DEF CloseChan
<1>3. CASE Unregister(c, r)
  BY <1>3 DEF Unregister
<1>4. CASE CloseConn(c, r)
  BY <1>4 DEF CloseConn
<1> QED
  BY <1>1, <1>2, <1>3, <1>4 DEF CloseStep

LEMMA NextType == TypeInv /\ [Next]_vars => TypeInv'
<1> SUFFICES ASSUME TypeInv, [Next]_vars
             PROVE  TypeInv'
  OBVIOUS
<1>1. CASE MapRace
  BY <1>1, PanicType DEF MapRace
<1>2. CASE UNCHANGED vars
  BY <1>2 DEF vars, TypeInv, TypeOK, InHand, conn, queue
<1> QED
  BY <1>1, <1>2, ServeType, SendType, WriterType, CloseType DEF Next

(* Every variable of the hub keeps its type.                               *)
THEOREM TypeCorrect == Spec => []TypeOK
<1>1. TypeInv => TypeOK
  BY DEF TypeInv
<1> QED
  BY InitType, NextType, <1>1, PTL DEF Spec

-----------------------------------------------------------------------------
(* HubInv is inductive.                                                    *)

Inv == TypeInv /\ HubInv

(* Where a goroutine is between its start and Client.Close.                *)
Working == {"read", "select", "begin", "write", "flush", "close"}

LEMMA InitHub == Init => HubInv
  BY HubAssumption, SMT DEF Init, HubInv, Fresh, ClosedOnce, Registered, Roles, CloseSteps

(* Steps of the queues and the peers do not reach what HubInv is about.    *)
LEMMA FrameHub ==
  HubInv /\ UNCHANGED <<clients, serve, pc, closed, chanClosed, open>> => HubInv'
  BY DEF HubInv, Fresh, ClosedOnce, Registered

(* A goroutine that moves on, neither in Close before nor after, has been  *)
(* started and disturbs nothing.                                           *)
LEMMA MoveHub ==
  ASSUME Inv, NEW c \in Conns, NEW r \in Roles, NEW step \in Working,
         pc[c][r] \in Working, Goes(c, r, step),
         UNCHANGED <<clients, serve, closed, chanClosed, open>>
  PROVE  HubInv'
<1> USE DEF Inv, TypeInv, TypeOK, HubInv, Working, Roles, CloseSteps, Goes
<1>1. serve[c] = "served"
  BY DEF Fresh
<1>2. /\ \A d \in Conns : d # c => pc'[d] = pc[d]
      /\ pc'[c][r] = step /\ \A q \in Roles \ {r} : pc'[c][q] = pc[c][q]
  OBVIOUS
<1>3. \A d \in Conns : Fresh(d)'
  BY <1>1, <1>2 DEF Fresh
<1>4. \A d \in Conns : ClosedOnce(d)'
  BY <1>2 DEF ClosedOnce
<1>5. \A d \in Conns : Registered(d)'
  <2> TAKE d \in Conns
  <2>1. CASE d # c
    BY <1>2, <2>1 DEF Registered
  <2>2. CASE d = c
    BY <1>2, <2>2 DEF Registered
  <2> QED
    BY <2>1, <2>2
<1> QED
  BY <1>3, <1>4, <1>5

(* The handler works on a connection that no goroutine knows yet.          *)
LEMMA ServeHub ==
  ASSUME Inv, NEW c \in Conns, ServeStep(c) \/ TryCloseRace(c)
  PROVE  HubInv'
<1> USE HubAssumption DEF Inv, TypeInv, TypeOK, HubInv, conn, queue
<1>1. ASSUME serve[c] \in {"lookup", "tryClose"},
             NEW step \in {"upgrade", "tryClose", "gone"},
             serve' = [serve EXCEPT ![c] = step],
             UNCHANGED <<clients, pc, closed, chanClosed, open>>
      PROVE  HubInv'
  <2>1. \A d \in Conns : Fresh(d)'
    BY <1>1 DEF Fresh
  <2>2. \A d \in Conns : ClosedOnce(d)'
    BY <1>1 DEF ClosedOnce
  <2>3. \A d \in Conns : Registered(d)'
    BY <1>1 DEF Registered
  <2> QED
    BY <1>1, <2>1, <2>2, <2>3
<1>2. CASE ServeLookup(c)
  BY <1>1, <1>2 DEF ServeLookup
<1>3. CASE TryClose(c)
  BY <1>1, <1>3 DEF TryClose
<1>4. CASE TryCloseRace(c)
  <2>1. CASE Panic
    BY <2>1, FrameHub DEF Panic
  <2>2. CASE ~Panic
    BY <1>1, <1>4, <2>2 DEF TryCloseRace
  <2> QED
    BY <2>1, <2>2
<1>5. CASE Upgrade(c)
  <2>1. PICK step \in {"register", "gone"} :
          /\ serve' = [serve EXCEPT ![c] = step]
          /\ step = "register" => open' = [open EXCEPT ![c] = TRUE]
          /\ step = "gone" => open' = open
    BY <1>5 DEF Upgrade
  <2>2. open' \in [Conns -> BOOLEAN] /\ \A d \in Conns : open[d] => open'[d]
    BY <2>1
  <2>3. \A d \in Conns : Fresh(d)'
    BY <1>5, <2>1, <2>2 DEF Upgrade, Fresh
  <2>4. \A d \in Conns : ClosedOnce(d)'
    BY <1>5 DEF Upgrade, ClosedOnce
  <2>5. \A d \in Conns : Registered(d)'
    BY <1>5, <2>1, <2>2 DEF Upgrade, Registered
  <2> QED
    BY <1>5, <2>3, <2>4, <2>5 DEF Upgrade
<1>6. CASE Register(c)
  <2>1. \A d \in Conns : Fresh(d)'
    BY <1>6 DEF Register, Fresh
  <2>2. \A d \in Conns : ClosedOnce(d)'
    BY <1>6 DEF Register, ClosedOnce
  <2>3. \A d \in Conns : Registered(d)'
    <3> TAKE d \in Conns
    <3>1. CASE d = c
      BY <1>6, <3>1 DEF Register, Registered, Fresh, Roles
    <3>2. CASE d # c
      BY <1>6, <3>2 DEF Register, Registered
    <3> QED
      BY <3>1, <3>2
  <2>4. \A k \in Keys : clients'[k] # None => KeyOf[clients'[k]] = k
    BY <1>6 DEF Register
  <2> QED
    BY <2>1, <2>2, <2>3, <2>4
<1>7. CASE StartGoroutines(c)
  <2>1. /\ pc'[c]["reader"] = "read" /\ pc'[c]["writer"] = "select"
        /\ \A d \in Conns : d # c => pc'[d] = pc[d] /\ serve'[d] = serve[d]
    BY <1>7 DEF StartGoroutines, Roles
  <2>2. ~closed[c] /\ ~chanClosed[c] /\ serve'[c] = "served"
    BY <1>7 DEF StartGoroutines, Fresh
  <2>3. \A d \in Conns : Fresh(d)'
    BY <1>7, <2>1, <2>2 DEF StartGoroutines, Fresh
  <2>4. \A d \in Conns : ClosedOnce(d)'
    BY <1>7, <2>1, <2>2 DEF StartGoroutines, ClosedOnce, Roles, CloseSteps
  <2>5. \A d \in Conns : Registered(d)'
    BY <1>7, <2>1, <2>2 DEF StartGoroutines, Registered, Roles
  <2> QED
    BY <1>7, <2>3, <2>4, <2>5 DEF StartGoroutines
<1> QED
  BY <1>2, <1>3, <1>4, <1>5, <1>6, <1>7 DEF ServeStep

(* The reader and the writer move on without touching the registry.        *)
LEMMA WriterHub ==
  ASSUME Inv, NEW c \in Conns,
         ReadFails(c) \/ PeerLeaves(c) \/ WriterStep(c) \/ PingFails(c)
  PROVE  HubInv'
<1> USE DEF Inv, conn, queue, Working, Roles
<1>1. CASE ReadFails(c)
  BY <1>1, MoveHub DEF ReadFails
<1>2. CASE PeerLeaves(c)
  BY <1>2, FrameHub DEF PeerLeaves
<1>3. CASE WriterTakes(c)
  BY <1>3, MoveHub DEF WriterTakes
<1>4. CASE WriterSaysBye(c)
  BY <1>4, MoveHub DEF WriterSaysBye
<1>5. CASE PingFails(c)
  BY <1>5, MoveHub DEF PingFails
<1>6. CASE Begin(c)
  BY <1>6, MoveHub DEF Begin
<1>7. CASE Body(c)
  <2>1. CASE Panic
    BY <2>1, FrameHub DEF Panic
  <2>2. CASE ~Panic
    BY <1>7, <2>2, MoveHub DEF Body
  <2> QED
    BY <2>1, <2>2
<1>8. CASE Flush(c)
  BY <1>8, MoveHub DEF Flush
<1> QED
  BY <1>1, <1>2, <1>3, <1>4, <1>5, <1>6, <1>7, <1>8 DEF WriterStep

(* Client.Close: the test of closed lets one goroutine pass, and the       *)
(* connection leaves the registry before it is closed.                     *)
LEMMA CloseHub ==
  ASSUME Inv, NEW c \in Conns, NEW r \in Roles, CloseStep(c, r)
  PROVE  HubInv'
<1> USE HubAssumption DEF Inv, TypeInv, TypeOK, HubInv, conn, queue, Goes, Roles, CloseSteps
<1>1. serve[c] = "served"
  BY DEF CloseStep, Close, CloseChan, Unregister, CloseConn, Fresh
<1>2. \A d \in Conns : d # c => pc'[d] = pc[d]
  BY DEF CloseStep, Close, CloseChan, Unregister, CloseConn
<1>3. \A q \in Roles \ {r} : pc'[c][q] = pc[c][q]
  BY DEF CloseStep, Close, CloseChan, Unregister, CloseConn
<1>4. CASE Close(c, r)
  <2>1. /\ closed' \in [Conns -> BOOLEAN] /\ closed'[c]
        /\ \A d \in Conns : d # c => closed'[d] = closed[d]
        /\ pc'[c][r] = IF closed[c] THEN "done" ELSE "closeChan"
    BY <1>4 DEF Close
  <2>2. \A d \in Conns : Fresh(d)'
    BY <1>1, <1>2, <1>4, <2>1 DEF Close, Fresh
  <2>3. \A d \in Conns : ClosedOnce(d)'
    <3> TAKE d \in Conns
    <3>1. CASE d # c
      BY <1>2, <1>4, <2>1, <3>1 DEF Close, ClosedOnce
    <3>2. CASE d = c
      BY <1>3, <1>4, <2>1, <3>2 DEF Close, ClosedOnce
    <3> QED
      BY <3>1, <3>2
  <2>4. \A d \in Conns : Registered(d)'
    <3> TAKE d \in Conns
    <3>1. CASE d # c
      BY <1>2, <1>4, <2>1, <3>1 DEF Close, Registered
    <3>2. CASE d = c
      BY <1>3, <1>4, <2>1, <3>2 DEF Close, Registered
    <3> QED
      BY <3>1, <3>2
  <2> QED
    BY <1>4, <2>2, <2>3, <2>4 DEF Close
<1>5. CASE CloseChan(c, r)
  <2>1. /\ chanClosed' \in [Conns -> BOOLEAN]
        /\ \A d \in Conns : d # c => chanClosed'[d] = chanClosed[d]
        /\ pc[c][r] = "closeChan" /\ pc'[c][r] = "unregister"
    BY <1>5 DEF CloseChan
  <2>2. \A d \in Conns : Fresh(d)'
    BY <1>1, <1>2, <1>5, <2>1 DEF CloseChan, Fresh
  <2>3. \A d \in Conns : ClosedOnce(d)'
    <3> TAKE d \in Conns
    <3>1. CASE d # c
      BY <1>2, <1>5, <2>1, <3>1 DEF CloseChan, ClosedOnce
    <3>2. CASE d = c
      BY <1>3, <1>5, <2>1, <3>2 DEF CloseChan, ClosedOnce
    <3> QED
      BY <3>1, <3>2
  <2>4. \A d \in Conns : Registered(d)'
    <3> TAKE d \in Conns
    <3>1. CASE d # c
      BY <1>2, <1>5, <3>1 DEF CloseChan, Registered
    <3>2. CASE d = c
      BY <1>3, <1>5, <2>1, <3>2 DEF CloseChan, Registered
    <3> QED
      BY <3>1, <3>2
  <2> QED
    BY <1>5, <2>2, <2>3, <2>4 DEF CloseChan
<1>6. CASE Unregister(c, r)
  <2>1. pc[c][r] = "unregister" /\ pc'[c][r] = "closeConn"
    BY <1>6 DEF Unregister
  <2>2. \A d \in Conns : Fresh(d)'
    BY <1>1, <1>2, <1>6, <2>1 DEF Unregister, Fresh
  <2>3. \A d \in Conns : ClosedOnce(d)'
    BY <1>2, <1>3, <1>6, <2>1 DEF Unregister, ClosedOnce
  <2>4. \A d \in Conns : clients'[KeyOf[d]] = d => d # c /\ clients[KeyOf[d]] = d
    BY <1>6 DEF Unregister
  <2>5. \A d \in Conns : Registered(d)'
    BY <1>2, <1>6, <2>4 DEF Unregister, Registered
  <2>6. \A k \in Keys : clients'[k] # None => KeyOf[clients'[k]] = k
    BY <1>6 DEF Unregister
  <2> QED
    BY <2>2, <2>3, <2>5, <2>6
<1>7. CASE CloseConn(c, r)
  <2>1. /\ pc[c][r] = "closeConn" /\ pc'[c][r] = "done"
        /\ \A d \in Conns : d # c => open'[d] = open[d]
    BY <1>7 DEF CloseConn
  <2>2. \A d \in Conns : Fresh(d)'
    BY <1>1, <1>2, <1>7, <2>1 DEF CloseConn, Fresh
  <2>3. \A d \in Conns : ClosedOnce(d)'
    BY <1>2, <1>3, <1>7, <2>1 DEF CloseConn, ClosedOnce
  <2>4. clients[KeyOf[c]] # c
    BY <2>1 DEF Registered
  <2>5. \A d \in Conns : Registered(d)'
    BY <1>2, <1>7, <2>1, <2>4 DEF CloseConn, Registered
  <2> QED
    BY <1>7, <2>2, <2>3, <2>5 DEF CloseConn
<1> QED
  BY <1>4, <1>5, <1>6, <1>7 DEF CloseStep

LEMMA NextHub == Inv /\ [Next]_vars => HubInv'
<1> SUFFICES ASSUME Inv, [Next]_vars
             PROVE  HubInv'
  OBVIOUS
<1> USE DEF Inv, conn, queue
<1>1. CASE \E s \in Sends : SendStep(s)
  BY <1>1, FrameHub DEF SendStep, SendLookup, SendQueued, SendDropped
<1>2. CASE MapRace
  BY <1>2, FrameHub DEF MapRace, Panic
<1>3. CASE UNCHANGED vars
  BY <1>3, FrameHub DEF vars
<1> QED
  BY <1>1, <1>2, <1>3, ServeHub, WriterHub, CloseHub DEF Next

LEMMA InvHolds == Spec => []Inv
<1>1. Init => Inv
  BY InitType, InitHub DEF Inv
<1>2. Inv /\ [Next]_vars => Inv'
  BY NextType, NextHub DEF Inv
<1> QED
  BY <1>1, <1>2, PTL DEF Spec

(* Only one of the two goroutines of a connection goes past the lock of    *)
(* Client.Close: Client.send is never closed twice.                        *)
THEOREM OneCloserHolds == Spec => []OneCloser
<1>1. Inv => OneCloser
  BY DEF Inv, HubInv, ClosedOnce, OneCloser
<1> QED
  BY InvHolds, <1>1, PTL

(* What the registry holds is open and has a Close ahead of it.            *)
THEOREM RegisteredIsAliveHolds == Spec => []RegisteredIsAlive
<1>1. Inv => RegisteredIsAlive
  <2> SUFFICES ASSUME Inv, NEW k \in Keys, clients[k] # None
               PROVE  LET c == clients[k] IN
                      /\ KeyOf[c] = k /\ open[c]
                      /\ serve[c] = "start"
                         \/ \E r \in Roles : pc[c][r] \notin {"done", "closeConn"}
    BY DEF RegisteredIsAlive
  <2> DEFINE c == clients[k]
  <2>1. c \in Conns /\ KeyOf[c] = k
    BY DEF Inv, TypeInv, TypeOK, HubInv
  <2>2. open[c] /\ serve[c] \in {"start", "served"}
    BY <2>1 DEF Inv, HubInv, Registered
  <2>3. CASE closed[c]
    BY <2>1, <2>2, <2>3 DEF Inv, HubInv, Registered
  <2>4. CASE ~closed[c]
    BY <2>1, <2>2, <2>4 DEF Inv, HubInv, ClosedOnce, CloseSteps, Roles
  <2> QED
    BY <2>1, <2>2, <2>3, <2>4
<1> QED
  BY InvHolds, <1>1, PTL
=============================================================================
