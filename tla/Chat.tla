--------------------------------- MODULE Chat ---------------------------------
(***************************************************************************)
(* The chat of realtime-demo.html over STOMP.  Each press of Connect makes *)
(* a connection of its own; its connect callback subscribes to /topic/chat *)
(* through stompClient, which is the connection of the last press by then, *)
(* and appends what comes to the log of the page.  The server hands every  *)
(* frame it receives to a pool of threads, and every frame it sends to     *)
(* another, so that neither keeps an order; a SEND is broadcast to the     *)
(* subscriptions of that moment by the thread that handles it.  The page   *)
(* and the server learn of the end of a connection each at its own time.   *)
(***************************************************************************)
EXTENDS Naturals, FiniteSets

CONSTANTS Pages,
          Presses,      \* bound on how often Connect is pressed on each page
          Messages,     \* each is sent once
          NoConnection  \* of a callback that has not subscribed

Connections == UNION {{w} \X (1..Presses[w]) : w \in Pages}
Page(c) == c[1]

ASSUME ChatAssumption == Presses \in [Pages -> Nat] /\ NoConnection \notin Connections

\* What is on its way to or from the server, its pools included.  A subscription
\* is named by the connection whose callback made it, be it on another one.
Frame == [kind : {"subscribe"}, conn : Connections, by : Connections]
           \union [kind : {"disconnect"}, conn : Connections]
           \union [kind : {"send"}, conn : Connections, message : Messages]
Delivery == [kind : {"receipt"}, conn : Connections]
              \union [kind : {"message"}, conn : Connections, by : Connections, message : Messages]

VARIABLES
  pressed,     \* the presses of a page: stompClient is the connection of the last
  phase,       \* of each connection, as stompjs has it
  server,      \* of each connection, as the server has it
  carrier,     \* the connection on which the callback of another subscribed
  inbound, outbound,
  subscribed,  \* the subscriptions of the simple broker
  shown,       \* what each subscription appended to its page's log
  \* history
  due,         \* messages sent while a connection was there to hear them
  overtook,    \* messages broadcast before a SUBSCRIBE that was there first
  lost,        \* messages whose SEND went down with its connection
  overlapped   \* pages that pressed Connect with the connection before still up

vars == <<pressed, phase, server, carrier, inbound, outbound, subscribed, shown,
          due, overtook, lost, overlapped>>

Phases == {"unused", "opening", "connected", "closing", "closed"}
Up == {"opening", "connected", "closing"}

\* "ended" by a DISCONNECT; "gone" once the socket is closed at this end.
Sessions == {"none", "session", "ended", "gone"}

Current(w) == <<w, pressed[w]>>

\* stompClient.connected: true until the receipt of a DISCONNECT.
IsConnected(c) == phase[c] \in {"connected", "closing"}

Becomes(c, s) == phase' = [phase EXCEPT ![c] = s]

\* What is written to a connection that the server has given up goes nowhere.
Receives(f) == inbound' = IF server[f.conn] = "gone" THEN inbound ELSE inbound \union {f}

SendsOf(fs) == {f.message : f \in {g \in fs : g.kind = "send"}}
On(c, fs) == {f \in fs : f.conn = c}

\* Variant: the server keeps the subscriptions of a session that is gone.
EndsQuietly(c) == server' = [server EXCEPT ![c] = "gone"] /\ UNCHANGED <<inbound, subscribed, lost>>

\* The socket is closed at the server's end, which ends its subscriptions.  SENDs
\* that had arrived are handled by the pool, those in transit are lost; its other
\* frames have no session to act on.
Ends(c) ==
  /\ server' = [server EXCEPT ![c] = "gone"]
  /\ subscribed' = {s \in subscribed : carrier[s] # c}
  /\ \E arrived \in SUBSET {f \in On(c, inbound) : f.kind = "send"} :
       /\ inbound' = (inbound \ On(c, inbound)) \union arrived
       /\ lost' = lost \union SendsOf(On(c, inbound) \ arrived)

\* The socket is closed at the page's end, and what was on its way there reaches
\* nobody.  Until the server closes its end what it does for the session reaches
\* nobody either, so only what became of the SENDs is kept of that.
Closes(c) ==
  /\ Becomes(c, "closed")
  /\ Ends(c)
  /\ outbound' = outbound \ On(c, outbound)

-----------------------------------------------------------------------------
(* The page                                                                 *)

Connect(w) ==
  /\ pressed[w] < Presses[w]
  /\ pressed' = [pressed EXCEPT ![w] = @ + 1]
  /\ Becomes(<<w, pressed[w] + 1>>, "opening")
  /\ overlapped' = IF pressed[w] > 0 /\ phase[Current(w)] \in Up
                   THEN overlapped \union {w} ELSE overlapped
  /\ UNCHANGED <<server, carrier, inbound, outbound, subscribed, shown, due, overtook, lost>>

\* stompClient.subscribe() throws unless that client is connected: while the
\* connection of a later press opens, or after it is closed.
Subscribes(c) ==
  LET d == Current(Page(c)) IN
  IF d = c \/ IsConnected(d)
  THEN /\ carrier' = [carrier EXCEPT ![c] = d]
       /\ Receives([kind |-> "subscribe", conn |-> d, by |-> c])
  ELSE UNCHANGED <<carrier, inbound>>

\* Variant: a client with a reconnect delay, which Stomp.over does not set.
OpenedAgain(c) ==
  /\ phase[c] \in {"opening", "closed"}
  /\ Becomes(c, "connected")
  /\ server' = [server EXCEPT ![c] = "session"]
  /\ Subscribes(c)
  /\ UNCHANGED <<pressed, outbound, subscribed, shown, due, overtook, lost, overlapped>>

\* The CONNECTED of a new session: the connect callback runs.
Opened(c) ==
  /\ phase[c] = "opening"
  /\ Becomes(c, "connected")
  /\ server' = [server EXCEPT ![c] = "session"]
  /\ Subscribes(c)
  /\ UNCHANGED <<pressed, outbound, subscribed, shown, due, overtook, lost, overlapped>>

Send(w, m) ==
  LET c == Current(w) IN
  /\ pressed[w] > 0
  /\ IsConnected(c)
  /\ \A d \in Connections : <<d, m>> \notin due
  /\ Receives([kind |-> "send", conn |-> c, message |-> m])
  /\ lost' = IF server[c] = "gone" THEN lost \union {m} ELSE lost
  /\ due' = due \union {<<d, m>> : d \in {e \in Connections : IsConnected(e)}}
  /\ UNCHANGED <<pressed, phase, server, carrier, outbound, subscribed, shown, overtook, overlapped>>

\* Only the connection of the last press hears of it.
Disconnect(w) ==
  LET c == Current(w) IN
  /\ pressed[w] > 0
  /\ \/ phase[c] = "opening" /\ Closes(c)
     \/ /\ phase[c] = "connected"
        /\ Becomes(c, "closing")
        /\ Receives([kind |-> "disconnect", conn |-> c])
        /\ UNCHANGED <<server, outbound, subscribed, lost>>
  /\ UNCHANGED <<pressed, carrier, shown, due, overtook, overlapped>>

Show(f) ==
  /\ f \in outbound
  /\ f.kind = "message"
  /\ outbound' = outbound \ {f}
  /\ shown' = [shown EXCEPT ![f.by] = @ \union {f.message}]
  /\ UNCHANGED <<pressed, phase, server, carrier, inbound, subscribed, due, overtook, lost, overlapped>>

\* The receipt of the DISCONNECT: stompjs closes the socket.
Closed(f) ==
  /\ f \in outbound
  /\ f.kind = "receipt"
  /\ Closes(f.conn)
  /\ UNCHANGED <<pressed, carrier, shown, due, overtook, overlapped>>

\* The page loses a connection, or notices that it is lost.
Drop(c) ==
  /\ phase[c] \in Up
  /\ Closes(c)
  /\ UNCHANGED <<pressed, carrier, shown, due, overtook, overlapped>>

-----------------------------------------------------------------------------
(* The server                                                               *)

\* The server loses a connection, or gives it up, and the page goes on taking it
\* for up.  Deliveries written before may still arrive.
Sever(c) ==
  /\ server[c] \in {"session", "ended"}
  /\ Ends(c)
  /\ \E written \in SUBSET On(c, outbound) :
       outbound' = (outbound \ On(c, outbound)) \union written
  /\ UNCHANGED <<pressed, phase, carrier, shown, due, overtook, overlapped>>

\* The process dies, with every session and every frame that it has not written.
Crash ==
  /\ \E c \in Connections : server[c] \in {"session", "ended"}
  /\ server' = [c \in Connections |-> IF server[c] = "none" THEN "none" ELSE "gone"]
  /\ inbound' = {} /\ subscribed' = {}
  /\ lost' = lost \union SendsOf(inbound)
  /\ outbound' \in SUBSET outbound
  /\ UNCHANGED <<pressed, phase, carrier, shown, due, overtook, overlapped>>

\* The broker knows a subscription only with its session.
HandleSubscribe(f) ==
  /\ f \in inbound
  /\ f.kind = "subscribe"
  /\ inbound' = inbound \ {f}
  /\ subscribed' = IF server[f.conn] = "session" THEN subscribed \union {f.by} ELSE subscribed
  /\ UNCHANGED <<pressed, phase, server, carrier, outbound, shown, due, overtook, lost, overlapped>>

\* Variant: @SendToUser, the answer goes to the sender's session alone.
AudienceOfSender(f) == {s \in subscribed : carrier[s] = f.conn}

\* Who gets the message of f: all of the topic, whoever sent it.
Audience(f) == subscribed

\* @MessageMapping("/chat.send") with @SendTo("/topic/chat").
HandleSend(f) ==
  /\ f \in inbound
  /\ f.kind = "send"
  /\ inbound' = inbound \ {f}
  /\ outbound' = outbound \union
       {[kind |-> "message", conn |-> carrier[s], by |-> s, message |-> f.message] :
           s \in Audience(f)}
  /\ overtook' = overtook \union
       {<<g.by, f.message>> : g \in {h \in inbound : h.kind = "subscribe"}}
  /\ UNCHANGED <<pressed, phase, server, carrier, subscribed, shown, due, lost, overlapped>>

HandleDisconnect(f) ==
  /\ f \in inbound
  /\ f.kind = "disconnect"
  /\ inbound' = inbound \ {f}
  /\ server' = [server EXCEPT ![f.conn] = "ended"]
  /\ subscribed' = {s \in subscribed : carrier[s] # f.conn}
  /\ outbound' = outbound \union {[kind |-> "receipt", conn |-> f.conn]}
  /\ UNCHANGED <<pressed, phase, carrier, shown, due, overtook, lost, overlapped>>

-----------------------------------------------------------------------------
Init ==
  /\ pressed = [w \in Pages |-> 0]
  /\ phase = [c \in Connections |-> "unused"]
  /\ server = [c \in Connections |-> "none"]
  /\ carrier = [c \in Connections |-> NoConnection]
  /\ inbound = {} /\ outbound = {}
  /\ subscribed = {}
  /\ shown = [c \in Connections |-> {}]
  /\ due = {} /\ overtook = {} /\ lost = {} /\ overlapped = {}

Handle(f) == HandleSubscribe(f) \/ HandleSend(f) \/ HandleDisconnect(f)
Deliver(f) == Show(f) \/ Closed(f)

Next ==
  \/ \E w \in Pages : Connect(w) \/ Disconnect(w) \/ \E m \in Messages : Send(w, m)
  \/ \E c \in Connections : Opened(c) \/ Drop(c) \/ Sever(c)
  \/ Crash
  \/ \E f \in inbound : Handle(f)
  \/ \E f \in outbound : Deliver(f)

Spec == Init /\ [][Next]_vars

\* The network and the pools go on working as long as a connection lasts; a run
\* sends finitely many frames, so that none waits for ever.
FairSpec == /\ Spec
            /\ WF_vars(\E f \in inbound : Handle(f))
            /\ WF_vars(\E f \in outbound : Deliver(f))

-----------------------------------------------------------------------------
(* Properties                                                               *)

\* The variables have their types; connections are used in the order of the
\* presses, and none after its page's last; and a subscription is on a
\* connection that both ends take for up.
TypeOK ==
  /\ pressed \in [Pages -> Nat] /\ \A w \in Pages : pressed[w] <= Presses[w]
  /\ phase \in [Connections -> Phases]
  /\ \A c \in Connections : phase[c] = "unused" <=> c[2] > pressed[Page(c)]
  /\ server \in [Connections -> Sessions]
  /\ carrier \in [Connections -> Connections \union {NoConnection}]
  /\ inbound \subseteq Frame
  /\ outbound \subseteq Delivery
  /\ subscribed \subseteq Connections
  /\ \A s \in subscribed : /\ carrier[s] \in Connections
                           /\ IsConnected(carrier[s]) /\ server[carrier[s]] = "session"
  /\ shown \in [Connections -> SUBSET Messages]
  /\ due \subseteq Connections \X Messages
  /\ overtook \subseteq Connections \X Messages
  /\ lost \subseteq Messages
  /\ overlapped \subseteq Pages

\* A page shows a message twice only if Connect was pressed while the
\* connection before was still up, be it in the middle of a Disconnect: the
\* page then has two subscriptions, on two connections or on the newer one.
DoubledByOverlap ==
  \A c, d \in Connections :
    c # d /\ Page(c) = Page(d) /\ shown[c] \intersect shown[d] # {} => Page(c) \in overlapped

\* Message m is on its way to the server, or from there to the subscription of c.
InFlight(c, m) ==
  \/ \E f \in inbound : f.kind = "send" /\ f.message = m
  \/ \E f \in outbound : f.kind = "message" /\ f.by = c /\ f.message = m

\* Why a page that takes itself for connected may not show what was sent
\* meanwhile: the pool broadcast it before it handled the SUBSCRIBE; its SEND
\* went down with the sender's connection or the process; the server has given
\* up a connection that the page still takes for up; or the connect callback
\* ran after a later press, and subscribed elsewhere or not at all.
HasCause(c, m) ==
  \/ <<c, m>> \in overtook
  \/ m \in lost
  \/ server[c] = "gone"
  \/ carrier[c] # c /\ Page(c) \in overlapped

\* What was sent while a connection was up has been shown there by the time
\* nothing of it is in flight, or one of these causes explains why not.
MissedHasCause ==
  \A c \in Connections, m \in Messages :
    <<c, m>> \in due /\ phase[c] = "connected" /\ ~InFlight(c, m) =>
      m \in shown[c] \/ HasCause(c, m)

\* What was sent while a connection was up is shown there in the end, unless
\* one of the causes comes in or the page closes the connection.
SentIsShown ==
  \A c \in Connections, m \in Messages :
    <<c, m>> \in due ~> m \in shown[c] \/ HasCause(c, m) \/ phase[c] # "connected"
=============================================================================
