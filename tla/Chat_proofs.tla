----------------------------- MODULE Chat_proofs -----------------------------
(***************************************************************************)
(* What TLAPS proves about the chat, for any numbers of pages, presses of  *)
(* Connect and messages.                                                   *)
(***************************************************************************)
EXTENDS Chat, TLAPS

USE DEF vars

\* What one end of a connection knows limits what the other end does.
EndsMatch ==
  \A c \in Connections :
    /\ phase[c] \in {"unused", "opening"} => server[c] = "none" /\ carrier[c] = NoConnection
    /\ phase[c] = "connected" => server[c] \in {"session", "gone"}
    /\ phase[c] = "closing" => server[c] \in {"session", "ended", "gone"}
    /\ phase[c] = "closed" => server[c] = "gone"

\* The frames of a session tell where its connection is, and those of a
\* subscription which connection carries it.
FramesMatchPhase ==
  /\ \A f \in inbound : f.kind = "subscribe" =>
       carrier[f.by] = f.conn /\ server[f.conn] \in {"session", "ended"}
  /\ \A f \in inbound : f.kind = "disconnect" => phase[f.conn] = "closing"
  /\ \A f \in outbound : f.kind = "receipt" => phase[f.conn] = "closing"
  /\ \A f \in outbound : f.kind = "message" => carrier[f.by] = f.conn

\* Both ends take c for up, and its callback subscribed on it.
Hears(c) == phase[c] = "connected" /\ carrier[c] = c /\ server[c] = "session"

\* A connection hears the topic from its connect callback on, once the pool has
\* handled its SUBSCRIBE.
HearsOrWillHear == \A c \in Connections : Hears(c) =>
  c \in subscribed \/ \E f \in inbound : f.kind = "subscribe" /\ f.by = c

IsSend(f, m) == f.kind = "send" /\ f.message = m
IsMessage(f, c, m) == f.kind = "message" /\ f.by = c /\ f.message = m

\* What the subscription of c shows, or will if its connection stays.
Reached(c, m) == m \in shown[c] \/ \E f \in outbound : IsMessage(f, c, m)

\* A message has one SEND, and nobody hears it before that is handled.
SentOnce ==
  /\ \A f \in inbound : f.kind = "send" => \E c \in Connections : <<c, f.message>> \in due
  /\ \A f, g \in inbound : f.kind = "send" /\ IsSend(g, f.message) => f = g
  /\ \A c \in Connections, m \in Messages : Reached(c, m) =>
       /\ \E d \in Connections : <<d, m>> \in due
       /\ \A f \in inbound : ~IsSend(f, m)

\* A message that a connection was there to hear is under way to it, or shown,
\* or overtook its SUBSCRIBE, or went down with the connection of its sender.
DueIsPending == \A c \in Connections, m \in Messages :
  <<c, m>> \in due =>
    /\ phase[c] \notin {"unused", "opening"}
    /\ Hears(c) => \/ \E f \in inbound : IsSend(f, m)
                   \/ Reached(c, m) \/ <<c, m>> \in overtook \/ m \in lost

\* Without an overlap only the connection of the last press is up.
OnlyLastIsUp == \A c \in Connections :
  Page(c) \notin overlapped /\ c # Current(Page(c)) => phase[c] \notin Up

\* Without an overlap a connect callback finds its own connection in stompClient.
CarriesItself == \A c \in Connections : Page(c) \notin overlapped =>
  carrier[c] \in {c, NoConnection} /\ (IsConnected(c) => carrier[c] = c)

\* Without an overlap a message reaches one subscription of a page.
ReachesOne == \A c, d \in Connections, m \in Messages :
  c # d /\ Page(c) = Page(d) /\ Page(c) \notin overlapped => ~(Reached(c, m) /\ Reached(d, m))

\* The inductive invariant of the safety properties.
IndInv ==
  /\ TypeOK
  /\ EndsMatch
  /\ FramesMatchPhase
  /\ HearsOrWillHear
  /\ SentOnce
  /\ DueIsPending
  /\ OnlyLastIsUp
  /\ CarriesItself
  /\ ReachesOne

-----------------------------------------------------------------------------
(* Types.                                                                   *)

\* A connection is a page and the number of a press.
LEMMA ConnectionFields ==
  ASSUME NEW c \in Connections
  PROVE  /\ Page(c) \in Pages /\ c[2] \in 1..Presses[Page(c)] /\ c[2] \in Nat
         /\ c = <<Page(c), c[2]>>
<1>1. PICK w \in Pages : c \in {w} \X (1..Presses[w])
  BY DEF Connections
<1>2. c[1] = w /\ c[2] \in 1..Presses[w] /\ c = <<c[1], c[2]>>
  BY <1>1
<1> QED
  BY <1>1, <1>2, ChatAssumption DEF Page

\* The connection of a press.
LEMMA PressIsConnection ==
  ASSUME NEW w \in Pages, NEW n \in 1..Presses[w]
  PROVE  <<w, n>> \in Connections /\ Page(<<w, n>>) = w /\ <<w, n>>[2] = n
<1>1. <<w, n>> \in {w} \X (1..Presses[w])
  OBVIOUS
<1> QED
  BY <1>1 DEF Connections, Page

\* What stompClient of a page refers to.
LEMMA CurrentIsConnection ==
  ASSUME TypeOK, NEW w \in Pages, pressed[w] > 0
  PROVE  Current(w) \in Connections /\ Page(Current(w)) = w /\ phase[Current(w)] # "unused"
<1>1. pressed[w] \in 1..Presses[w]
  BY ChatAssumption DEF TypeOK
<1>2. Current(w) \in Connections /\ Page(Current(w)) = w /\ Current(w)[2] = pressed[w]
  BY <1>1, PressIsConnection DEF Current
<1> QED
  BY <1>1, <1>2 DEF TypeOK

\* The connection of the next press has not been used.
LEMMA NextIsUnused ==
  ASSUME TypeOK, NEW w \in Pages, pressed[w] < Presses[w]
  PROVE  /\ <<w, pressed[w] + 1>> \in Connections /\ Page(<<w, pressed[w] + 1>>) = w
         /\ phase[<<w, pressed[w] + 1>>] = "unused"
<1>1. pressed[w] \in Nat /\ pressed[w] + 1 \in 1..Presses[w]
  BY ChatAssumption DEF TypeOK
<1>2. <<w, pressed[w] + 1>> \in Connections /\ Page(<<w, pressed[w] + 1>>) = w
      /\ <<w, pressed[w] + 1>>[2] = pressed[w] + 1
  BY <1>1, PressIsConnection
<1> QED
  BY <1>1, <1>2 DEF TypeOK

\* The fields of frames.
LEMMA FrameFields ==
  ASSUME TypeOK
  PROVE  /\ \A f \in inbound : f.kind \in {"subscribe", "disconnect", "send"} /\ f.conn \in Connections
         /\ \A f \in inbound : f.kind = "subscribe" => f.by \in Connections
         /\ \A f \in inbound : f.kind = "send" =>
              f.message \in Messages /\ f = [kind |-> "send", conn |-> f.conn, message |-> f.message]
         /\ \A f \in outbound : f.kind \in {"receipt", "message"} /\ f.conn \in Connections
         /\ \A f \in outbound : f.kind = "message" => f.by \in Connections /\ f.message \in Messages
  BY DEF TypeOK, Frame, Delivery

\* What the end of a connection at the server leaves.
LEMMA EndsParts ==
  ASSUME TypeOK, NEW c \in Connections, Ends(c)
  PROVE  /\ server' = [server EXCEPT ![c] = "gone"]
         /\ subscribed' = {s \in subscribed : carrier[s] # c}
         /\ inbound' \subseteq inbound
         /\ \A f \in inbound : f.conn # c => f \in inbound'
         /\ \A f \in inbound' : f.conn = c => f.kind = "send"
         /\ lost \subseteq lost' /\ lost' \subseteq Messages
         /\ \A f \in inbound : f.kind = "send" => f \in inbound' \/ f.message \in lost'
<1>1. PICK arrived \in SUBSET {f \in On(c, inbound) : f.kind = "send"} :
        /\ inbound' = (inbound \ On(c, inbound)) \union arrived
        /\ lost' = lost \union SendsOf(On(c, inbound) \ arrived)
  BY DEF Ends
<1>2. SendsOf(On(c, inbound) \ arrived) \subseteq Messages
  BY FrameFields DEF SendsOf, On
<1>3. \A f \in inbound : f.kind = "send" => f \in inbound' \/ f.message \in lost'
  BY <1>1 DEF SendsOf, On
<1> QED
  BY <1>1, <1>2, <1>3 DEF Ends, On, TypeOK

\* What the end of a connection at the page leaves.
LEMMA ClosesParts ==
  ASSUME TypeOK, NEW c \in Connections, Closes(c)
  PROVE  /\ phase' = [phase EXCEPT ![c] = "closed"]
         /\ Ends(c)
         /\ outbound' = {f \in outbound : f.conn # c}
  BY DEF Closes, Becomes, On

\* What arrives all the same once the server has ended a connection.
LEMMA SeverParts ==
  ASSUME TypeOK, NEW c \in Connections, Sever(c)
  PROVE  /\ server[c] \in {"session", "ended"}
         /\ Ends(c)
         /\ outbound' \subseteq outbound
         /\ \A f \in outbound : f.conn # c => f \in outbound'
         /\ UNCHANGED <<pressed, phase, carrier, shown, due, overtook, overlapped>>
  BY DEF Sever, On

\* What the connect callback does: it subscribes on the connection of the last
\* press, its own or one that is up, or throws.
LEMMA OpenedParts ==
  ASSUME TypeOK, EndsMatch, NEW c \in Connections, Opened(c)
  PROVE  /\ phase[c] = "opening" /\ phase' = [phase EXCEPT ![c] = "connected"]
         /\ server[c] = "none" /\ server' = [server EXCEPT ![c] = "session"]
         /\ carrier[c] = NoConnection
         /\ \/ UNCHANGED <<carrier, inbound>> /\ Current(Page(c)) # c
            \/ \E d \in Connections :
                 /\ d = Current(Page(c))
                 /\ d = c \/ IsConnected(d)
                 /\ carrier' = [carrier EXCEPT ![c] = d]
                 /\ \/ server[d] = "gone" /\ inbound' = inbound
                    \/ /\ server[d] # "gone"
                       /\ inbound' = inbound \union {[kind |-> "subscribe", conn |-> d, by |-> c]}
         /\ UNCHANGED <<pressed, outbound, subscribed, shown, due, overtook, lost, overlapped>>
<1> DEFINE d == Current(Page(c))
<1>1. Page(c) \in Pages /\ c[2] \in 1..Presses[Page(c)]
  BY ConnectionFields
<1>2. phase[c] = "opening"
  BY DEF Opened
<1>3. pressed[Page(c)] > 0
  BY <1>1, <1>2, ChatAssumption DEF TypeOK
<1>4. d \in Connections
  BY <1>1, <1>3, CurrentIsConnection
<1>5. CASE d = c \/ IsConnected(d)
  <2>1. carrier' = [carrier EXCEPT ![c] = d] /\ Receives([kind |-> "subscribe", conn |-> d, by |-> c])
    BY <1>5 DEF Opened, Subscribes
  <2> QED
    BY <1>2, <1>4, <1>5, <2>1 DEF Opened, Becomes, Receives, EndsMatch
<1>6. CASE ~(d = c \/ IsConnected(d))
  BY <1>2, <1>6 DEF Opened, Subscribes, Becomes, EndsMatch
<1> QED
  BY <1>5, <1>6

\* The initial state is well typed.
LEMMA TypeInit == Init => TypeOK
  BY ConnectionFields, ChatAssumption DEF Init, TypeOK, Phases, Sessions, IsConnected

\* The end of a connection leaves everything well typed.
LEMMA ClosesTyped ==
  ASSUME TypeOK, NEW c \in Connections, phase[c] # "unused", Closes(c),
         UNCHANGED <<pressed, carrier, shown, due, overtook, overlapped>>
  PROVE  TypeOK'
<1> USE DEF TypeOK, Phases, Sessions
<1>1. phase' \in [Connections -> Phases] /\ \A d \in Connections : phase'[d] = "unused" <=> phase[d] = "unused"
  BY ClosesParts
<1>2. inbound' \subseteq Frame /\ outbound' \subseteq Delivery /\ lost' \subseteq Messages
  BY ClosesParts, EndsParts
<1>3. server' \in [Connections -> Sessions]
  BY ClosesParts, EndsParts
<1>4. subscribed' \subseteq Connections
  BY ClosesParts, EndsParts
<1>5. ASSUME NEW s \in subscribed'
      PROVE  carrier'[s] \in Connections /\ IsConnected(carrier[s])' /\ server'[carrier'[s]] = "session"
  <2>1. s \in subscribed /\ carrier[s] # c /\ carrier'[s] = carrier[s]
    BY <1>5, ClosesParts, EndsParts
  <2>2. carrier[s] \in Connections /\ IsConnected(carrier[s]) /\ server[carrier[s]] = "session"
    BY <2>1
  <2> QED
    BY <2>1, <2>2, ClosesParts, EndsParts DEF IsConnected
<1> QED
  BY <1>1, <1>2, <1>3, <1>4, <1>5

\* Every action, and stuttering, leaves the variables well typed.
LEMMA TypeStep == TypeOK /\ EndsMatch /\ FramesMatchPhase /\ [Next]_vars => TypeOK'
<1> SUFFICES ASSUME TypeOK, EndsMatch, FramesMatchPhase, [Next]_vars PROVE TypeOK'
  OBVIOUS
<1> USE ChatAssumption DEF TypeOK, Becomes, Receives, Phases, Sessions
<1>1. ASSUME NEW w \in Pages, Connect(w) PROVE TypeOK'
  <2> DEFINE c == <<w, pressed[w] + 1>>
  <2>1. pressed[w] + 1 \in 1..Presses[w]
    BY <1>1 DEF Connect
  <2>2. c \in Connections /\ Page(c) = w /\ c[2] = pressed[w] + 1
    BY <2>1, PressIsConnection
  <2>3. phase' = [phase EXCEPT ![c] = "opening"] /\ phase[c] = "unused"
    BY <1>1, <2>2 DEF Connect
  <2>4. pressed' \in [Pages -> Nat] /\ \A x \in Pages : pressed'[x] <= Presses[x]
    BY <1>1, <2>1 DEF Connect
  <2>5. \A d \in Connections : phase'[d] = "unused" <=> d[2] > pressed'[Page(d)]
    <3> SUFFICES ASSUME NEW d \in Connections PROVE phase'[d] = "unused" <=> d[2] > pressed'[Page(d)]
      OBVIOUS
    <3>1. Page(d) \in Pages /\ d[2] \in Nat /\ d = <<Page(d), d[2]>>
      BY ConnectionFields
    <3>2. pressed'[Page(d)] = IF Page(d) = w THEN pressed[w] + 1 ELSE pressed[Page(d)]
      BY <1>1, <3>1 DEF Connect
    <3>3. d = c <=> Page(d) = w /\ d[2] = pressed[w] + 1
      BY <2>2, <3>1
    <3> QED
      BY <2>3, <3>1, <3>2, <3>3
  <2>6. \A s \in subscribed' : /\ carrier'[s] \in Connections
                               /\ IsConnected(carrier[s])' /\ server'[carrier'[s]] = "session"
    BY <1>1, <2>2, <2>3 DEF Connect, IsConnected
  <2> QED
    BY <1>1, <2>2, <2>3, <2>4, <2>5, <2>6 DEF Connect
<1>2. ASSUME NEW w \in Pages, Disconnect(w) PROVE TypeOK'
  <2>1. Current(w) \in Connections /\ phase[Current(w)] # "unused"
    BY <1>2, CurrentIsConnection DEF Disconnect
  <2>2. CASE Closes(Current(w))
    BY <1>2, <2>1, <2>2, ClosesTyped DEF Disconnect
  <2>3. CASE ~Closes(Current(w))
    <3>1. [kind |-> "disconnect", conn |-> Current(w)] \in Frame
      BY <2>1 DEF Frame
    <3> QED
      BY <1>2, <2>1, <2>3, <3>1 DEF Disconnect, IsConnected
  <2> QED
    BY <2>2, <2>3
<1>3. ASSUME NEW w \in Pages, NEW m \in Messages, Send(w, m) PROVE TypeOK'
  <2>1. Current(w) \in Connections
    BY <1>3, CurrentIsConnection DEF Send
  <2>2. [kind |-> "send", conn |-> Current(w), message |-> m] \in Frame
    BY <2>1 DEF Frame
  <2> QED
    BY <1>3, <2>2 DEF Send, IsConnected
<1>4. ASSUME NEW c \in Connections, Opened(c) PROVE TypeOK'
  <2>1. \A d \in Connections : [kind |-> "subscribe", conn |-> d, by |-> c] \in Frame
    BY DEF Frame
  <2>2. inbound' \subseteq Frame /\ carrier' \in [Connections -> Connections \union {NoConnection}]
    BY <1>4, <2>1, OpenedParts
  <2>3. c \notin subscribed
    BY <1>4, OpenedParts
  <2>4. \A s \in subscribed : carrier'[s] = carrier[s] /\ carrier[s] # c
    BY <1>4, <2>3, OpenedParts DEF IsConnected
  <2>5. \A s \in subscribed' : /\ carrier'[s] \in Connections
                               /\ IsConnected(carrier[s])' /\ server'[carrier'[s]] = "session"
    BY <1>4, <2>4, OpenedParts DEF IsConnected
  <2>6. /\ phase' \in [Connections -> Phases] /\ server' \in [Connections -> Sessions]
        /\ \A d \in Connections : phase'[d] = "unused" <=> phase[d] = "unused"
    BY <1>4, OpenedParts
  <2> QED
    BY <1>4, <2>2, <2>5, <2>6, OpenedParts
<1>5. ASSUME NEW c \in Connections, Drop(c) PROVE TypeOK'
  BY <1>5, ClosesTyped DEF Drop, Up
<1>6. ASSUME NEW c \in Connections, Sever(c) PROVE TypeOK'
  <2>1. inbound' \subseteq Frame /\ outbound' \subseteq Delivery /\ lost' \subseteq Messages
    BY <1>6, SeverParts, EndsParts
  <2>2. server' \in [Connections -> Sessions] /\ subscribed' \subseteq Connections
    BY <1>6, SeverParts, EndsParts
  <2>3. \A s \in subscribed' : /\ carrier'[s] \in Connections
                               /\ IsConnected(carrier[s])' /\ server'[carrier'[s]] = "session"
    BY <1>6, SeverParts, EndsParts DEF IsConnected
  <2> QED
    BY <1>6, <2>1, <2>2, <2>3, SeverParts
<1>7. ASSUME Crash PROVE TypeOK'
  <2>1. SendsOf(inbound) \subseteq Messages
    BY FrameFields DEF SendsOf
  <2> QED
    BY <1>7, <2>1 DEF Crash
<1>8. ASSUME NEW f \in inbound, HandleSubscribe(f) PROVE TypeOK'
  <2>1. f.conn \in Connections /\ f.by \in Connections /\ carrier[f.by] = f.conn
    BY <1>8, FrameFields DEF HandleSubscribe, FramesMatchPhase
  <2>2. server[f.conn] = "session" => IsConnected(f.conn)
    BY <2>1 DEF EndsMatch, IsConnected
  <2> QED
    BY <1>8, <2>1, <2>2 DEF HandleSubscribe, IsConnected
<1>9. ASSUME NEW f \in inbound, HandleSend(f) PROVE TypeOK'
  <2>1. f.message \in Messages
    BY <1>9, FrameFields DEF HandleSend
  <2>2. {[kind |-> "message", conn |-> carrier[s], by |-> s, message |-> f.message] : s \in Audience(f)}
          \subseteq Delivery
    BY <2>1 DEF Audience, Delivery
  <2>3. {<<g.by, f.message>> : g \in {h \in inbound : h.kind = "subscribe"}} \subseteq Connections \X Messages
    BY <2>1, FrameFields
  <2> QED
    BY <1>9, <2>2, <2>3 DEF HandleSend, IsConnected
<1>10. ASSUME NEW f \in inbound, HandleDisconnect(f) PROVE TypeOK'
  <2>1. [kind |-> "receipt", conn |-> f.conn] \in Delivery
    BY FrameFields DEF Delivery
  <2> QED
    BY <1>10, <2>1, FrameFields DEF HandleDisconnect, IsConnected
<1>11. ASSUME NEW f \in outbound, Show(f) PROVE TypeOK'
  BY <1>11, FrameFields DEF Show, IsConnected
<1>12. ASSUME NEW f \in outbound, Closed(f) PROVE TypeOK'
  BY <1>12, FrameFields, ClosesTyped DEF Closed, FramesMatchPhase
<1>13. ASSUME UNCHANGED vars PROVE TypeOK'
  BY <1>13 DEF IsConnected
<1> QED
  BY <1>1, <1>2, <1>3, <1>4, <1>5, <1>6, <1>7, <1>8, <1>9, <1>10, <1>11, <1>12, <1>13
     DEF Next, Handle, Deliver

-----------------------------------------------------------------------------
(* The inductive invariant, one lemma for each conjunct.                    *)

\* The server's view of a connection goes with the page's.
LEMMA EndsStep == TypeOK /\ EndsMatch /\ FramesMatchPhase /\ [Next]_vars => EndsMatch'
<1> SUFFICES ASSUME TypeOK, EndsMatch, FramesMatchPhase, [Next]_vars PROVE EndsMatch'
  OBVIOUS
<1> USE DEF TypeOK, EndsMatch, Becomes
<1>1. ASSUME NEW w \in Pages, Connect(w) PROVE EndsMatch'
  BY <1>1, NextIsUnused DEF Connect
<1>2. ASSUME NEW c \in Connections, phase[c] # "unused", Closes(c), carrier' = carrier PROVE EndsMatch'
  BY <1>2, ClosesParts, EndsParts
<1>3. ASSUME NEW w \in Pages, Disconnect(w) PROVE EndsMatch'
  <2>1. Current(w) \in Connections /\ phase[Current(w)] # "unused"
    BY <1>3, CurrentIsConnection DEF Disconnect
  <2> QED
    BY <1>2, <1>3, <2>1 DEF Disconnect
<1>4. ASSUME NEW w \in Pages, NEW m \in Messages, Send(w, m) PROVE EndsMatch'
  BY <1>4 DEF Send
<1>5. ASSUME NEW c \in Connections, Opened(c) PROVE EndsMatch'
  BY <1>5, OpenedParts
<1>6. ASSUME NEW c \in Connections, Drop(c) PROVE EndsMatch'
  BY <1>2, <1>6 DEF Drop, Up
<1>7. ASSUME NEW c \in Connections, Sever(c) PROVE EndsMatch'
  BY <1>7, SeverParts, EndsParts
<1>8. ASSUME Crash PROVE EndsMatch'
  BY <1>8 DEF Crash
<1>9. ASSUME NEW f \in inbound, HandleDisconnect(f) PROVE EndsMatch'
  BY <1>9, FrameFields DEF HandleDisconnect, FramesMatchPhase
<1>10. ASSUME NEW f \in outbound, Closed(f) PROVE EndsMatch'
  BY <1>2, <1>10, FrameFields DEF Closed, FramesMatchPhase
<1>11. ASSUME UNCHANGED <<phase, server, carrier>> PROVE EndsMatch'
  BY <1>11
<1> QED
  BY <1>1, <1>3, <1>4, <1>5, <1>6, <1>7, <1>8, <1>9, <1>10, <1>11
     DEF Next, Handle, Deliver, HandleSubscribe, HandleSend, Show

\* The end of a connection takes its frames along.
LEMMA ClosesFrames ==
  ASSUME TypeOK, FramesMatchPhase, NEW c \in Connections, Closes(c), carrier' = carrier
  PROVE  FramesMatchPhase'
  BY ClosesParts, EndsParts, FrameFields DEF TypeOK, FramesMatchPhase

\* A session has no frame that its connection is not up for.
LEMMA FramesStep == TypeOK /\ EndsMatch /\ FramesMatchPhase /\ [Next]_vars => FramesMatchPhase'
<1> SUFFICES ASSUME TypeOK, EndsMatch, FramesMatchPhase, [Next]_vars PROVE FramesMatchPhase'
  OBVIOUS
<1> USE FrameFields DEF TypeOK, FramesMatchPhase, Becomes, Receives, IsConnected
<1>1. ASSUME NEW w \in Pages, Connect(w) PROVE FramesMatchPhase'
  <2>1. <<w, pressed[w] + 1>> \in Connections /\ phase[<<w, pressed[w] + 1>>] = "unused"
    BY <1>1, NextIsUnused DEF Connect
  <2> QED
    BY <1>1, <2>1 DEF Connect
<1>2. ASSUME NEW w \in Pages, Disconnect(w) PROVE FramesMatchPhase'
  <2>1. Current(w) \in Connections
    BY <1>2, CurrentIsConnection DEF Disconnect
  <2>2. CASE Closes(Current(w))
    BY <1>2, <2>1, <2>2, ClosesFrames DEF Disconnect
  <2>3. CASE ~Closes(Current(w))
    BY <1>2, <2>1, <2>3 DEF Disconnect
  <2> QED
    BY <2>2, <2>3
<1>3. ASSUME NEW w \in Pages, NEW m \in Messages, Send(w, m) PROVE FramesMatchPhase'
  BY <1>3 DEF Send
<1>4. ASSUME NEW c \in Connections, Opened(c) PROVE FramesMatchPhase'
  <2>1. /\ \A f \in inbound : f.kind = "subscribe" => f.by # c
        /\ \A f \in outbound : f.kind = "message" => f.by # c
    BY <1>4, OpenedParts, ChatAssumption
  <2>2. \A d \in Connections \ {c} : carrier'[d] = carrier[d] /\ phase'[d] = phase[d]
    BY <1>4, OpenedParts
  <2>3. \A d \in Connections : server[d] \in {"session", "ended"} => server'[d] \in {"session", "ended"}
    BY <1>4, OpenedParts
  <2>4. \A f \in inbound' \ inbound : /\ f.kind = "subscribe" /\ f.by = c
                                      /\ carrier'[c] = f.conn /\ server'[f.conn] \in {"session", "ended"}
    BY <1>4, OpenedParts DEF EndsMatch
  <2>5. phase[c] = "opening" /\ outbound' = outbound
    BY <1>4, OpenedParts
  <2>6. \A f \in inbound' : f.kind = "subscribe" =>
          carrier'[f.by] = f.conn /\ server'[f.conn] \in {"session", "ended"}
    BY <2>1, <2>2, <2>3, <2>4
  <2>7. \A f \in inbound' : f.kind = "disconnect" => phase'[f.conn] = "closing"
    BY <2>2, <2>4, <2>5
  <2> QED
    BY <2>1, <2>2, <2>5, <2>6, <2>7
<1>5. ASSUME NEW c \in Connections, Drop(c) PROVE FramesMatchPhase'
  BY <1>5, ClosesFrames DEF Drop
<1>6. ASSUME NEW c \in Connections, Sever(c) PROVE FramesMatchPhase'
  BY <1>6, SeverParts, EndsParts
<1>7. ASSUME Crash PROVE FramesMatchPhase'
  BY <1>7 DEF Crash
<1>8. ASSUME NEW f \in inbound, HandleSubscribe(f) PROVE FramesMatchPhase'
  BY <1>8 DEF HandleSubscribe
<1>9. ASSUME NEW f \in inbound, HandleSend(f) PROVE FramesMatchPhase'
  BY <1>9 DEF HandleSend
<1>10. ASSUME NEW f \in inbound, HandleDisconnect(f) PROVE FramesMatchPhase'
  BY <1>10 DEF HandleDisconnect
<1>11. ASSUME NEW f \in outbound, Show(f) PROVE FramesMatchPhase'
  BY <1>11 DEF Show
<1>12. ASSUME NEW f \in outbound, Closed(f) PROVE FramesMatchPhase'
  BY <1>12, ClosesFrames DEF Closed
<1>13. ASSUME UNCHANGED vars PROVE FramesMatchPhase'
  BY <1>13
<1> QED
  BY <1>1, <1>2, <1>3, <1>4, <1>5, <1>6, <1>7, <1>8, <1>9, <1>10, <1>11, <1>12, <1>13
     DEF Next, Handle, Deliver

\* The end of a connection leaves the others' subscriptions alone.
LEMMA ClosesHears ==
  ASSUME TypeOK, FramesMatchPhase, HearsOrWillHear, NEW c \in Connections, Ends(c), carrier' = carrier,
         \A d \in Connections : phase'[d] = "connected" => phase[d] = "connected"
  PROVE  HearsOrWillHear'
<1> SUFFICES ASSUME NEW d \in Connections, Hears(d)'
             PROVE  d \in subscribed' \/ \E f \in inbound' : f.kind = "subscribe" /\ f.by = d
  BY DEF HearsOrWillHear
<1>1. d # c /\ Hears(d)
  BY EndsParts DEF Hears, TypeOK
<1>2. CASE d \in subscribed
  BY <1>1, <1>2, EndsParts DEF Hears
<1>3. ASSUME NEW f \in inbound, f.kind = "subscribe", f.by = d
      PROVE  f \in inbound'
  BY <1>1, <1>3, EndsParts DEF Hears, FramesMatchPhase
<1> QED
  BY <1>1, <1>2, <1>3 DEF HearsOrWillHear

\* Only a DISCONNECT or the end of a connection ends its subscription.
LEMMA HearsStep ==
  TypeOK /\ EndsMatch /\ FramesMatchPhase /\ HearsOrWillHear /\ [Next]_vars => HearsOrWillHear'
<1> SUFFICES ASSUME TypeOK, EndsMatch, FramesMatchPhase, HearsOrWillHear, [Next]_vars
             PROVE  HearsOrWillHear'
  OBVIOUS
<1> USE FrameFields DEF TypeOK, HearsOrWillHear, Hears, Becomes, Receives
<1>1. ASSUME NEW w \in Pages, Connect(w) PROVE HearsOrWillHear'
  BY <1>1 DEF Connect
<1>2. ASSUME NEW c \in Connections, Closes(c), carrier' = carrier PROVE HearsOrWillHear'
  <2>1. Ends(c) /\ \A d \in Connections : phase'[d] = "connected" => phase[d] = "connected"
    BY <1>2, ClosesParts
  <2> QED
    BY <1>2, <2>1, ClosesHears
<1>3. ASSUME NEW w \in Pages, Disconnect(w) PROVE HearsOrWillHear'
  <2>1. Current(w) \in Connections
    BY <1>3, CurrentIsConnection DEF Disconnect
  <2>2. CASE Closes(Current(w))
    BY <1>2, <1>3, <2>1, <2>2 DEF Disconnect
  <2>3. CASE ~Closes(Current(w))
    BY <1>3, <2>1, <2>3 DEF Disconnect
  <2> QED
    BY <2>2, <2>3
<1>4. ASSUME NEW w \in Pages, NEW m \in Messages, Send(w, m) PROVE HearsOrWillHear'
  BY <1>4 DEF Send
<1>5. ASSUME NEW c \in Connections, Opened(c) PROVE HearsOrWillHear'
  <2>1. inbound \subseteq inbound' /\ subscribed' = subscribed
    BY <1>5, OpenedParts
  <2>2. ASSUME carrier'[c] = c PROVE \E f \in inbound' : f.kind = "subscribe" /\ f.by = c
    <3> DEFINE g == [kind |-> "subscribe", conn |-> c, by |-> c]
    <3>1. g \in inbound'
      BY <1>5, <2>2, OpenedParts, ChatAssumption
    <3>2. g.kind = "subscribe" /\ g.by = c
      OBVIOUS
    <3> QED
      BY <3>1, <3>2
  <2>3. \A d \in Connections \ {c} :
          phase'[d] = phase[d] /\ carrier'[d] = carrier[d] /\ server'[d] = server[d]
    BY <1>5, OpenedParts
  <2>4. \A d \in Connections \ {c} : Hears(d) =>
          d \in subscribed' \/ \E f \in inbound' : f.kind = "subscribe" /\ f.by = d
    BY <2>1
  <2> QED
    BY <2>2, <2>3, <2>4
<1>6. ASSUME NEW c \in Connections, Drop(c) PROVE HearsOrWillHear'
  BY <1>2, <1>6 DEF Drop
<1>7. ASSUME NEW c \in Connections, Sever(c) PROVE HearsOrWillHear'
  BY <1>7, SeverParts, ClosesHears
<1>8. ASSUME Crash PROVE HearsOrWillHear'
  BY <1>8 DEF Crash
<1>9. ASSUME NEW f \in inbound, HandleSubscribe(f) PROVE HearsOrWillHear'
  BY <1>9 DEF HandleSubscribe, FramesMatchPhase
<1>10. ASSUME NEW f \in inbound, HandleSend(f) PROVE HearsOrWillHear'
  BY <1>10 DEF HandleSend
<1>11. ASSUME NEW f \in inbound, HandleDisconnect(f) PROVE HearsOrWillHear'
  BY <1>11 DEF HandleDisconnect, FramesMatchPhase
<1>12. ASSUME NEW f \in outbound, Show(f) PROVE HearsOrWillHear'
  BY <1>12 DEF Show
<1>13. ASSUME NEW f \in outbound, Closed(f) PROVE HearsOrWillHear'
  BY <1>2, <1>13 DEF Closed
<1>14. ASSUME UNCHANGED vars PROVE HearsOrWillHear'
  BY <1>14
<1> QED
  BY <1>1, <1>3, <1>4, <1>5, <1>6, <1>7, <1>8, <1>9, <1>10, <1>11, <1>12, <1>13, <1>14
     DEF Next, Handle, Deliver

\* Only the server's broadcast makes a message reach a subscription that the
\* broker then has.
LEMMA ReachedComes ==
  ASSUME TypeOK, EndsMatch, [Next]_vars, NEW c \in Connections, NEW m \in Messages, Reached(c, m)'
  PROVE  Reached(c, m) \/ \E f \in inbound : HandleSend(f) /\ IsSend(f, m) /\ c \in subscribed
<1> USE DEF TypeOK, Reached, IsMessage
<1>1. ASSUME NEW f \in inbound, HandleSend(f)
      PROVE  Reached(c, m) \/ \E g \in inbound : HandleSend(g) /\ IsSend(g, m) /\ c \in subscribed
  <2>1. CASE m \in shown[c]
    BY <2>1
  <2>2. CASE m \notin shown[c]
    <3>1. PICK g \in outbound' : IsMessage(g, c, m)
      BY <1>1, <2>2 DEF HandleSend
    <3>2. CASE g \in outbound
      BY <3>1, <3>2
    <3>3. CASE g \notin outbound
      <4>1. PICK s \in subscribed :
              g = [kind |-> "message", conn |-> carrier[s], by |-> s, message |-> f.message]
        BY <1>1, <3>3 DEF HandleSend, Audience
      <4>2. s = c /\ f.message = m
        BY <3>1, <4>1
      <4> QED
        BY <1>1, <4>1, <4>2 DEF HandleSend, IsSend
    <3> QED
      BY <3>2, <3>3
  <2> QED
    BY <2>1, <2>2
<1>2. ASSUME NEW f \in outbound, Show(f) PROVE Reached(c, m)
  BY <1>2, FrameFields DEF Show
<1>3. ASSUME NEW f \in inbound, HandleDisconnect(f) PROVE Reached(c, m)
  BY <1>3 DEF HandleDisconnect
<1>4. ASSUME outbound' \subseteq outbound, shown' = shown PROVE Reached(c, m)
  BY <1>4
<1>5. ASSUME NEW d \in Connections, Opened(d) PROVE Reached(c, m)
  BY <1>4, <1>5, OpenedParts
<1>6. ASSUME NEW d \in Connections, Sever(d) PROVE Reached(c, m)
  BY <1>4, <1>6, SeverParts
<1>7. ASSUME Crash PROVE Reached(c, m)
  BY <1>4, <1>7 DEF Crash
<1>8. ASSUME NEW w \in Pages, Disconnect(w) PROVE Reached(c, m)
  <2>1. outbound' \subseteq outbound /\ shown' = shown
    BY <1>8 DEF Disconnect, Closes
  <2> QED
    BY <1>4, <2>1
<1>9. ASSUME NEW f \in outbound, Closed(f) PROVE Reached(c, m)
  BY <1>4, <1>9 DEF Closed, Closes
<1>10. ASSUME NEW d \in Connections, Drop(d) PROVE Reached(c, m)
  BY <1>4, <1>10 DEF Drop, Closes
<1> QED
  BY <1>1, <1>2, <1>3, <1>4, <1>5, <1>6, <1>7, <1>8, <1>9, <1>10
     DEF Next, Handle, Deliver, Connect, Send, HandleSubscribe

\* What reaches a connection goes on to do so while both of its ends stay.
LEMMA ReachedStays ==
  ASSUME TypeOK, EndsMatch, FramesMatchPhase, [Next]_vars, NEW c \in Connections, NEW m \in Messages,
         Reached(c, m), Hears(c), Hears(c)'
  PROVE  Reached(c, m)'
<1> USE DEF TypeOK, Reached
<1>1. ASSUME NEW f \in outbound, Show(f) PROVE Reached(c, m)'
  BY <1>1, FrameFields DEF Show, IsMessage
<1>2. ASSUME outbound \subseteq outbound', shown' = shown PROVE Reached(c, m)'
  BY <1>2
<1>3. \A g \in outbound : IsMessage(g, c, m) => g.conn = c
  BY DEF IsMessage, FramesMatchPhase, Hears
<1>4. ASSUME NEW d \in Connections, d # c, shown' = shown,
             \A g \in outbound : g.conn # d => g \in outbound'
      PROVE  Reached(c, m)'
  BY <1>3, <1>4
<1>5. ASSUME NEW d \in Connections, Closes(d), shown' = shown PROVE Reached(c, m)'
  <2>1. d # c
    BY <1>5, ClosesParts DEF Hears
  <2> QED
    BY <1>4, <1>5, <2>1, ClosesParts
<1>6. ASSUME NEW d \in Connections, Sever(d) PROVE Reached(c, m)'
  <2>1. d # c
    BY <1>6, SeverParts, EndsParts DEF Hears
  <2> QED
    BY <1>4, <1>6, <2>1, SeverParts
<1>7. ASSUME NEW w \in Pages, Disconnect(w) PROVE Reached(c, m)'
  BY <1>2, <1>5, <1>7, CurrentIsConnection DEF Disconnect
<1>8. ASSUME NEW f \in outbound, Closed(f) PROVE Reached(c, m)'
  BY <1>5, <1>8, FrameFields DEF Closed
<1>9. ASSUME NEW d \in Connections, Drop(d) PROVE Reached(c, m)'
  BY <1>5, <1>9 DEF Drop
<1>10. ASSUME NEW d \in Connections, Opened(d) PROVE Reached(c, m)'
  BY <1>2, <1>10, OpenedParts
<1>11. ~Crash
  BY DEF Crash, Hears
<1>12. ASSUME NEW f \in inbound, Handle(f) PROVE Reached(c, m)'
  BY <1>2, <1>12 DEF Handle, HandleSubscribe, HandleSend, HandleDisconnect
<1> QED
  BY <1>1, <1>2, <1>6, <1>7, <1>8, <1>9, <1>10, <1>11, <1>12 DEF Next, Deliver, Connect, Send

\* A SEND in the server's hands was there before, or the page just sent it.
LEMMA SendsCome ==
  ASSUME TypeOK, EndsMatch, [Next]_vars, NEW f \in inbound', f.kind = "send"
  PROVE  \/ f \in inbound
         \/ \E w \in Pages, m \in Messages :
              Send(w, m) /\ f = [kind |-> "send", conn |-> Current(w), message |-> m]
<1>1. ASSUME NEW w \in Pages, NEW m \in Messages, Send(w, m)
      PROVE  f \in inbound \/ f = [kind |-> "send", conn |-> Current(w), message |-> m]
  BY <1>1 DEF Send, Receives
<1>2. ASSUME NEW c \in Connections, Closes(c) PROVE f \in inbound
  BY <1>2, ClosesParts, EndsParts
<1>3. ASSUME NEW w \in Pages, Connect(w) \/ Disconnect(w) PROVE f \in inbound
  BY <1>2, <1>3, CurrentIsConnection DEF Connect, Disconnect, Receives
<1>4. ASSUME NEW c \in Connections, Opened(c) \/ Drop(c) \/ Sever(c) PROVE f \in inbound
  BY <1>2, <1>4, OpenedParts, SeverParts, EndsParts DEF Drop
<1>5. ASSUME NEW g \in inbound, Handle(g) PROVE f \in inbound
  BY <1>5 DEF Handle, HandleSubscribe, HandleSend, HandleDisconnect
<1>6. ASSUME NEW g \in outbound, Deliver(g) PROVE f \in inbound
  BY <1>2, <1>6, FrameFields DEF Deliver, Show, Closed
<1>7. ASSUME Crash \/ UNCHANGED vars PROVE f \in inbound
  BY <1>7 DEF Crash
<1> QED
  BY <1>1, <1>3, <1>4, <1>5, <1>6, <1>7 DEF Next

\* What is due stays due.
LEMMA DueGrows == [Next]_vars => due \subseteq due'
  BY DEF Next, Handle, Deliver, Connect, Disconnect, Send, Opened, Drop, Sever, Crash,
         HandleSubscribe, HandleSend, HandleDisconnect, Show, Closed

\* A page sends each message once, as its user types it once, and the server
\* broadcasts it once.
LEMMA SentStep == TypeOK /\ EndsMatch /\ SentOnce /\ [Next]_vars => SentOnce'
<1> SUFFICES ASSUME TypeOK, EndsMatch, SentOnce, [Next]_vars PROVE SentOnce'
  OBVIOUS
<1>1. TypeOK => due \subseteq due'
  BY DueGrows
<1>2. ASSUME NEW w \in Pages, NEW m \in Messages, Send(w, m)
      PROVE  /\ Current(w) \in Connections /\ <<Current(w), m>> \in due'
             /\ \A d \in Connections : <<d, m>> \notin due
  BY <1>2, CurrentIsConnection DEF Send
<1>3. ASSUME NEW f \in inbound', f.kind = "send" PROVE \E c \in Connections : <<c, f.message>> \in due'
  <2>1. CASE f \in inbound
    BY <1>1, <1>3, <2>1 DEF SentOnce
  <2>2. ASSUME NEW w \in Pages, NEW m \in Messages, Send(w, m), f.message = m
        PROVE  \E c \in Connections : <<c, f.message>> \in due'
    BY <1>2, <2>2
  <2> QED
    BY <1>3, <2>1, <2>2, SendsCome
<1>4. ASSUME NEW f \in inbound', NEW g \in inbound', f.kind = "send", IsSend(g, f.message) PROVE f = g
  <2>1. ASSUME NEW h \in inbound, h.kind = "send", NEW w \in Pages, NEW m \in Messages, Send(w, m)
        PROVE  h.message # m
    BY <1>2, <2>1 DEF SentOnce
  <2>2. CASE f \in inbound /\ g \in inbound
    BY <1>4, <2>2 DEF SentOnce
  <2>3. CASE f \in inbound /\ g \notin inbound
    BY <1>4, <2>1, <2>3, SendsCome DEF IsSend
  <2>4. CASE f \notin inbound /\ g \in inbound
    BY <1>4, <2>1, <2>4, SendsCome DEF IsSend
  <2>5. CASE f \notin inbound /\ g \notin inbound
    <3>1. PICK w \in Pages, m \in Messages :
            Send(w, m) /\ f = [kind |-> "send", conn |-> Current(w), message |-> m]
      BY <1>4, <2>5, SendsCome
    <3>2. g = f
      BY <1>4, <2>5, <3>1 DEF Send, Receives
    <3> QED
      BY <3>2
  <2> QED
    BY <2>2, <2>3, <2>4, <2>5
<1>5. ASSUME NEW c \in Connections, NEW m \in Messages, Reached(c, m)'
      PROVE  (\E d \in Connections : <<d, m>> \in due') /\ \A f \in inbound' : ~IsSend(f, m)
  <2>1. CASE Reached(c, m)
    <3>1. (\E d \in Connections : <<d, m>> \in due) /\ \A f \in inbound : ~IsSend(f, m)
      BY <2>1 DEF SentOnce
    <3>2. ASSUME NEW f \in inbound', IsSend(f, m) PROVE FALSE
      <4>1. f \notin inbound /\ f.kind = "send" /\ f.message = m
        BY <3>1, <3>2 DEF IsSend
      <4>2. PICK w \in Pages, n \in Messages :
              Send(w, n) /\ f = [kind |-> "send", conn |-> Current(w), message |-> n]
        BY <4>1, SendsCome
      <4>3. Send(w, m)
        BY <4>1, <4>2
      <4> QED
        BY <1>2, <3>1, <4>3
    <3> QED
      BY <1>1, <3>1, <3>2
  <2>2. ASSUME NEW f \in inbound, HandleSend(f), IsSend(f, m)
        PROVE  (\E d \in Connections : <<d, m>> \in due') /\ \A g \in inbound' : ~IsSend(g, m)
    <3>1. \E d \in Connections : <<d, m>> \in due'
      BY <1>1, <2>2 DEF SentOnce, IsSend
    <3>2. ASSUME NEW g \in inbound', IsSend(g, m) PROVE FALSE
      BY <2>2, <3>2 DEF SentOnce, HandleSend, IsSend
    <3> QED
      BY <3>1, <3>2
  <2> QED
    BY <1>5, <2>1, <2>2, ReachedComes
<1> QED
  BY <1>3, <1>4, <1>5 DEF SentOnce

\* A connection that was open does not open again, nor come to be heard.
LEMMA OpensOnce ==
  ASSUME TypeOK, EndsMatch, [Next]_vars, NEW c \in Connections, phase[c] \notin {"unused", "opening"}
  PROVE  phase'[c] \notin {"unused", "opening"} /\ (Hears(c)' => Hears(c))
<1> DEFINE P == phase'[c] \notin {"unused", "opening"} /\ (Hears(c)' => Hears(c))
<1> USE DEF TypeOK, Becomes, Hears
<1>1. ASSUME NEW w \in Pages, Connect(w) PROVE P
  BY <1>1, NextIsUnused DEF Connect
<1>2. ASSUME NEW d \in Connections, Closes(d), carrier' = carrier PROVE P
  BY <1>2, ClosesParts, EndsParts
<1>3. ASSUME NEW w \in Pages, Disconnect(w) PROVE P
  BY <1>2, <1>3, CurrentIsConnection DEF Disconnect
<1>4. ASSUME NEW d \in Connections, Opened(d) PROVE P
  <2>1. d # c
    BY <1>4, OpenedParts
  <2> QED
    BY <1>4, <2>1, OpenedParts
<1>5. ASSUME NEW d \in Connections, Sever(d) PROVE P
  BY <1>5, SeverParts, EndsParts
<1>6. ASSUME Crash PROVE P
  BY <1>6 DEF Crash
<1>7. ASSUME NEW f \in outbound, Closed(f) PROVE P
  BY <1>2, <1>7, FrameFields DEF Closed
<1>8. ASSUME NEW f \in inbound, HandleDisconnect(f) PROVE P
  BY <1>8, FrameFields DEF HandleDisconnect
<1>9. ASSUME NEW d \in Connections, Drop(d) PROVE P
  BY <1>2, <1>9 DEF Drop
<1> QED
  BY <1>1, <1>3, <1>4, <1>5, <1>6, <1>7, <1>8, <1>9
     DEF Next, Handle, Deliver, Send, HandleSubscribe, HandleSend, Show

\* A SEND stays with the server until it is handled, or is lost with its
\* connection or with the process.
LEMMA SendsStay ==
  ASSUME TypeOK, EndsMatch, [Next]_vars, NEW f \in inbound, f.kind = "send"
  PROVE  f \in inbound' \/ HandleSend(f) \/ f.message \in lost'
<1>1. ASSUME NEW c \in Connections, Closes(c) PROVE f \in inbound' \/ f.message \in lost'
  BY <1>1, ClosesParts, EndsParts
<1>2. ASSUME NEW w \in Pages, Connect(w) \/ Disconnect(w) PROVE f \in inbound' \/ f.message \in lost'
  BY <1>1, <1>2, CurrentIsConnection DEF Connect, Disconnect, Receives
<1>3. ASSUME NEW w \in Pages, NEW m \in Messages, Send(w, m) PROVE f \in inbound'
  BY <1>3 DEF Send, Receives
<1>4. ASSUME NEW c \in Connections, Opened(c) PROVE f \in inbound'
  BY <1>4, OpenedParts
<1>5. ASSUME NEW c \in Connections, Drop(c) \/ Sever(c) PROVE f \in inbound' \/ f.message \in lost'
  BY <1>1, <1>5, SeverParts, EndsParts DEF Drop
<1>6. ASSUME Crash PROVE f.message \in lost'
  BY <1>6 DEF Crash, SendsOf
<1>7. ASSUME NEW g \in inbound, Handle(g) PROVE f \in inbound' \/ HandleSend(f)
  BY <1>7 DEF Handle, HandleSubscribe, HandleSend, HandleDisconnect
<1>8. ASSUME NEW g \in outbound, Deliver(g) PROVE f \in inbound' \/ f.message \in lost'
  BY <1>1, <1>8, FrameFields DEF Deliver, Show, Closed
<1>9. ASSUME UNCHANGED vars PROVE f \in inbound'
  BY <1>9
<1> QED
  BY <1>2, <1>3, <1>4, <1>5, <1>6, <1>7, <1>8, <1>9 DEF Next

\* The broadcast reaches a connection that hears the topic, or passes its SUBSCRIBE.
LEMMA BroadcastReaches ==
  ASSUME TypeOK, HearsOrWillHear, NEW c \in Connections, Hears(c), NEW f \in inbound, HandleSend(f)
  PROVE  Reached(c, f.message)' \/ <<c, f.message>> \in overtook'
<1>1. CASE c \in subscribed
  <2> DEFINE g == [kind |-> "message", conn |-> carrier[c], by |-> c, message |-> f.message]
  <2>1. g \in outbound' /\ g.kind = "message" /\ g.by = c /\ g.message = f.message
    BY <1>1 DEF HandleSend, Audience
  <2>2. \E h \in outbound' : h.kind = "message" /\ h.by = c /\ h.message = f.message
    BY <2>1
  <2> QED
    BY <2>2 DEF Reached, IsMessage
<1>2. CASE c \notin subscribed
  <2>1. PICK g \in inbound : g.kind = "subscribe" /\ g.by = c
    BY <1>2 DEF HearsOrWillHear
  <2>2. <<g.by, f.message>> \in overtook'
    BY <2>1 DEF HandleSend
  <2> QED
    BY <2>1, <2>2
<1> QED
  BY <1>1, <1>2

\* What overtook a SUBSCRIBE or was lost is remembered, and what is due was so or
\* has just been sent.
LEMMA HistoryGrows ==
  ASSUME TypeOK, EndsMatch, [Next]_vars, NEW c \in Connections, NEW m \in Messages
  PROVE  /\ overtook \subseteq overtook' /\ lost \subseteq lost'
         /\ <<c, m>> \in due' => <<c, m>> \in due \/ \E w \in Pages : Send(w, m) /\ IsConnected(c)
<1>1. ASSUME NEW w \in Pages, NEW n \in Messages, Send(w, n)
      PROVE  /\ overtook' = overtook /\ lost \subseteq lost'
             /\ <<c, m>> \in due' => <<c, m>> \in due \/ (n = m /\ IsConnected(c))
  BY <1>1 DEF Send
<1>2. ASSUME NEW d \in Connections, Closes(d) PROVE lost \subseteq lost'
  BY <1>2, ClosesParts, EndsParts
<1>3. ASSUME NEW w \in Pages, Connect(w) \/ Disconnect(w)
      PROVE  UNCHANGED <<due, overtook>> /\ lost \subseteq lost'
  BY <1>2, <1>3, CurrentIsConnection DEF Connect, Disconnect
<1>4. ASSUME NEW d \in Connections, Opened(d) \/ Drop(d) \/ Sever(d)
      PROVE  UNCHANGED <<due, overtook>> /\ lost \subseteq lost'
  BY <1>2, <1>4, OpenedParts, SeverParts, EndsParts DEF Drop
<1>5. ASSUME NEW g \in inbound, Handle(g) PROVE overtook \subseteq overtook' /\ UNCHANGED <<due, lost>>
  BY <1>5 DEF Handle, HandleSubscribe, HandleSend, HandleDisconnect
<1>6. ASSUME NEW g \in outbound, Deliver(g) PROVE UNCHANGED <<due, overtook>> /\ lost \subseteq lost'
  BY <1>2, <1>6, FrameFields DEF Deliver, Show, Closed
<1>7. ASSUME Crash \/ UNCHANGED vars PROVE UNCHANGED <<due, overtook>> /\ lost \subseteq lost'
  BY <1>7 DEF Crash
<1> QED
  BY <1>1, <1>3, <1>4, <1>5, <1>6, <1>7 DEF Next

\* While both ends of a connection stay, a message to it is not lost but with its
\* SEND, unless it overtakes the connection's SUBSCRIBE.
LEMMA DueStep ==
  TypeOK /\ EndsMatch /\ FramesMatchPhase /\ HearsOrWillHear /\ DueIsPending /\ [Next]_vars => DueIsPending'
<1> SUFFICES ASSUME TypeOK, EndsMatch, FramesMatchPhase, HearsOrWillHear, DueIsPending, [Next]_vars,
                    NEW c \in Connections, NEW m \in Messages, <<c, m>> \in due'
             PROVE  /\ phase'[c] \notin {"unused", "opening"}
                    /\ Hears(c)' => \/ \E f \in inbound' : IsSend(f, m)
                                    \/ Reached(c, m)' \/ <<c, m>> \in overtook' \/ m \in lost'
  BY DEF DueIsPending
<1> DEFINE Pending == \/ \E f \in inbound' : IsSend(f, m)
                      \/ Reached(c, m)' \/ <<c, m>> \in overtook' \/ m \in lost'
<1>1. CASE <<c, m>> \in due
  <2>1. phase'[c] \notin {"unused", "opening"} /\ (Hears(c)' => Hears(c))
    BY <1>1, OpensOnce DEF DueIsPending
  <2> SUFFICES ASSUME Hears(c)' PROVE Pending
    BY <2>1
  <2>2. CASE Reached(c, m)
    BY <2>1, <2>2, ReachedStays
  <2>3. CASE <<c, m>> \in overtook \/ m \in lost
    BY <2>3, HistoryGrows
  <2>4. ASSUME NEW f \in inbound, IsSend(f, m) PROVE Pending
    <3>1. CASE f \in inbound'
      BY <2>4, <3>1
    <3>2. CASE HandleSend(f)
      BY <2>1, <2>4, <3>2, BroadcastReaches DEF IsSend
    <3> QED
      BY <2>4, <3>1, <3>2, SendsStay DEF IsSend
  <2> QED
    BY <1>1, <2>1, <2>2, <2>3, <2>4 DEF DueIsPending
<1>2. CASE <<c, m>> \notin due
  <2>1. PICK w \in Pages : Send(w, m) /\ IsConnected(c)
    BY <1>2, HistoryGrows
  <2> DEFINE g == [kind |-> "send", conn |-> Current(w), message |-> m]
  <2>2. phase' = phase
    BY <2>1 DEF Send
  <2>3. CASE server[Current(w)] = "gone"
    BY <2>1, <2>2, <2>3 DEF Send, IsConnected
  <2>4. CASE server[Current(w)] # "gone"
    <3>1. g \in inbound' /\ g.kind = "send" /\ g.message = m
      BY <2>1, <2>4 DEF Send, Receives
    <3>2. \E f \in inbound' : f.kind = "send" /\ f.message = m
      BY <3>1
    <3> QED
      BY <2>1, <2>2, <3>2 DEF IsSend, IsConnected
  <2> QED
    BY <2>3, <2>4
<1> QED
  BY <1>1, <1>2

\* A press of Connect while the connection before is up is remembered, and
\* nothing else makes a second connection of a page come up.
LEMMA OnlyLastStep == TypeOK /\ EndsMatch /\ OnlyLastIsUp /\ [Next]_vars => OnlyLastIsUp'
<1> SUFFICES ASSUME TypeOK, EndsMatch, OnlyLastIsUp, [Next]_vars, NEW c \in Connections,
                    Page(c) \notin overlapped', c # Current(Page(c))'
             PROVE  phase'[c] \notin Up
  BY DEF OnlyLastIsUp
<1> USE DEF TypeOK, Becomes, Up
<1>1. Page(c) \in Pages /\ c[2] \in Nat /\ c = <<Page(c), c[2]>>
  BY ConnectionFields
<1>2. ASSUME NEW w \in Pages, Connect(w) PROVE phase'[c] \notin Up
  <2> DEFINE d == <<w, pressed[w] + 1>>
  <2>1. d \in Connections /\ Page(d) = w /\ phase' = [phase EXCEPT ![d] = "opening"]
    BY <1>2, NextIsUnused DEF Connect
  <2>2. Page(c) \notin overlapped /\ pressed' = [pressed EXCEPT ![w] = @ + 1]
    BY <1>2 DEF Connect
  <2>3. CASE Page(c) # w
    <3>1. Current(Page(c))' = Current(Page(c)) /\ c # d
      BY <1>1, <2>1, <2>2, <2>3 DEF Current
    <3> QED
      BY <2>1, <2>2, <3>1 DEF OnlyLastIsUp
  <2>4. CASE Page(c) = w
    <3>1. Current(w)' = d
      BY <2>2 DEF Current
    <3>2. c # d /\ phase'[c] = phase[c]
      BY <2>1, <2>4, <3>1
    <3>3. CASE c # Current(w)
      BY <2>2, <2>4, <3>2, <3>3 DEF OnlyLastIsUp
    <3>4. CASE c = Current(w)
      <4>1. pressed[w] > 0
        BY <1>1, <3>4, ConnectionFields, ChatAssumption DEF Current
      <4>2. ~(pressed[w] > 0 /\ phase[Current(w)] \in Up)
        BY <1>2, <2>4 DEF Connect
      <4> QED
        BY <3>2, <3>4, <4>1, <4>2
    <3> QED
      BY <3>3, <3>4
  <2> QED
    BY <2>3, <2>4
<1>3. ASSUME UNCHANGED <<pressed, overlapped>> PROVE phase[c] \notin Up
  BY <1>3 DEF OnlyLastIsUp, Current
<1>4. ASSUME NEW d \in Connections, Closes(d) PROVE phase'[c] \in {phase[c], "closed"}
  BY <1>4, ClosesParts
<1>5. ASSUME NEW w \in Pages, Disconnect(w) PROVE phase'[c] \notin Up
  <2>1. Current(w) \in Connections /\ phase[c] \notin Up
    BY <1>3, <1>5, CurrentIsConnection DEF Disconnect
  <2> QED
    BY <1>4, <1>5, <2>1 DEF Disconnect
<1>6. ASSUME NEW d \in Connections, Opened(d) PROVE phase'[c] \notin Up
  BY <1>3, <1>6, OpenedParts
<1>7. ASSUME NEW d \in Connections, Drop(d) PROVE phase'[c] \notin Up
  BY <1>3, <1>4, <1>7 DEF Drop
<1>8. ASSUME NEW f \in outbound, Closed(f) PROVE phase'[c] \notin Up
  BY <1>3, <1>4, <1>8, FrameFields DEF Closed
<1>9. ASSUME UNCHANGED <<pressed, phase, overlapped>> PROVE phase'[c] \notin Up
  BY <1>3, <1>9
<1> QED
  BY <1>2, <1>5, <1>6, <1>7, <1>8, <1>9
     DEF Next, Handle, Deliver, Send, Sever, Crash, HandleSubscribe, HandleSend, HandleDisconnect, Show

\* That a press of Connect overlapped is never forgotten.
LEMMA OverlappedGrows == [Next]_vars => overlapped \subseteq overlapped'
  BY DEF Next, Handle, Deliver, Connect, Disconnect, Send, Opened, Drop, Sever, Crash,
         HandleSubscribe, HandleSend, HandleDisconnect, Show, Closed

\* Without an overlap stompClient is the connection whose callback runs.
LEMMA CarriesStep == TypeOK /\ EndsMatch /\ OnlyLastIsUp /\ CarriesItself /\ [Next]_vars => CarriesItself'
<1> SUFFICES ASSUME TypeOK, EndsMatch, OnlyLastIsUp, CarriesItself, [Next]_vars,
                    NEW c \in Connections, Page(c) \notin overlapped'
             PROVE  carrier'[c] \in {c, NoConnection} /\ (IsConnected(c)' => carrier'[c] = c)
  BY DEF CarriesItself
<1> DEFINE P == carrier'[c] \in {c, NoConnection} /\ (IsConnected(c)' => carrier'[c] = c)
<1> USE DEF TypeOK, Becomes, IsConnected
<1>1. Page(c) \notin overlapped
  BY OverlappedGrows
<1>2. carrier[c] \in {c, NoConnection} /\ (IsConnected(c) => carrier[c] = c)
  BY <1>1 DEF CarriesItself
<1>3. ASSUME carrier' = carrier, phase'[c] \in {"connected", "closing"} => phase[c] \in {"connected", "closing"}
      PROVE  P
  BY <1>2, <1>3
<1>4. ASSUME NEW w \in Pages, Connect(w) PROVE P
  BY <1>3, <1>4, NextIsUnused DEF Connect
<1>5. ASSUME NEW d \in Connections, Closes(d), carrier' = carrier PROVE P
  BY <1>3, <1>5, ClosesParts
<1>6. ASSUME NEW w \in Pages, Disconnect(w) PROVE P
  BY <1>3, <1>5, <1>6, CurrentIsConnection DEF Disconnect
<1>7. ASSUME NEW d \in Connections, Opened(d) PROVE P
  <2>1. CASE d # c
    BY <1>2, <1>7, <2>1, OpenedParts
  <2>2. CASE d = c
    <3>1. c = Current(Page(c))
      BY <1>1, <1>7, <2>2, OpenedParts DEF OnlyLastIsUp, Up
    <3> QED
      BY <1>7, <2>2, <3>1, OpenedParts
  <2> QED
    BY <2>1, <2>2
<1>8. ASSUME NEW d \in Connections, Drop(d) PROVE P
  BY <1>5, <1>8 DEF Drop
<1>9. ASSUME NEW f \in outbound, Closed(f) PROVE P
  BY <1>5, <1>9, FrameFields DEF Closed
<1>10. ASSUME UNCHANGED <<phase, carrier>> PROVE P
  BY <1>3, <1>10
<1> QED
  BY <1>4, <1>6, <1>7, <1>8, <1>9, <1>10
     DEF Next, Handle, Deliver, Send, Sever, Crash, HandleSubscribe, HandleSend, HandleDisconnect, Show

\* The broadcast of a message goes to one subscription of a page without overlap.
LEMMA ReachesOneStep ==
  TypeOK /\ EndsMatch /\ SentOnce /\ OnlyLastIsUp /\ CarriesItself /\ ReachesOne /\ [Next]_vars => ReachesOne'
<1> SUFFICES ASSUME TypeOK, EndsMatch, SentOnce, OnlyLastIsUp, CarriesItself, ReachesOne, [Next]_vars,
                    NEW c \in Connections, NEW d \in Connections, NEW m \in Messages,
                    c # d, Page(c) = Page(d), Page(c) \notin overlapped',
                    Reached(c, m)', Reached(d, m)'
             PROVE  FALSE
  BY DEF ReachesOne
<1>1. Page(c) \notin overlapped
  BY OverlappedGrows
<1>2. ~(Reached(c, m) /\ Reached(d, m))
  BY <1>1 DEF ReachesOne
<1>3. \A e \in Connections : Reached(e, m) => \A f \in inbound : ~IsSend(f, m)
  BY DEF SentOnce
<1>4. /\ \E f \in inbound : HandleSend(f) /\ IsSend(f, m) /\ c \in subscribed
      /\ \E f \in inbound : HandleSend(f) /\ IsSend(f, m) /\ d \in subscribed
  BY <1>2, <1>3, ReachedComes
<1>5. carrier[c] = c /\ carrier[d] = d
  BY <1>1, <1>4, ChatAssumption DEF TypeOK, CarriesItself
<1>6. phase[c] \in Up /\ phase[d] \in Up
  BY <1>4, <1>5 DEF TypeOK, IsConnected, Up
<1>7. c = Current(Page(c)) /\ d = Current(Page(d))
  BY <1>1, <1>6 DEF OnlyLastIsUp
<1> QED
  BY <1>7

\* The inductive invariant holds at first.
LEMMA IndInit == Init => IndInv
<1> SUFFICES ASSUME Init PROVE IndInv
  OBVIOUS
<1>1. TypeOK
  BY TypeInit
<1>2. EndsMatch /\ FramesMatchPhase /\ HearsOrWillHear /\ DueIsPending
  BY DEF Init, EndsMatch, FramesMatchPhase, HearsOrWillHear, Hears, DueIsPending
<1>3. \A c \in Connections, m \in Messages : ~Reached(c, m)
  BY DEF Init, Reached
<1>4. SentOnce /\ ReachesOne
  BY <1>3 DEF Init, SentOnce, ReachesOne
<1>5. OnlyLastIsUp /\ CarriesItself
  BY DEF Init, OnlyLastIsUp, Up, CarriesItself, IsConnected
<1> QED
  BY <1>1, <1>2, <1>4, <1>5 DEF IndInv

\* Every step keeps the inductive invariant.
LEMMA IndStep == IndInv /\ [Next]_vars => IndInv'
<1> SUFFICES ASSUME IndInv, [Next]_vars PROVE IndInv'
  OBVIOUS
<1> USE DEF IndInv
<1>1. TypeOK' /\ EndsMatch' /\ FramesMatchPhase' /\ HearsOrWillHear'
  BY TypeStep, EndsStep, FramesStep, HearsStep
<1>2. SentOnce' /\ DueIsPending'
  BY SentStep, DueStep
<1>3. OnlyLastIsUp' /\ CarriesItself' /\ ReachesOne'
  BY OnlyLastStep, CarriesStep, ReachesOneStep
<1> QED
  BY <1>1, <1>2, <1>3

\* A message that is due is shown, once it is nowhere in flight, or has a cause.
LEMMA MissedFollows == IndInv => MissedHasCause
<1> SUFFICES ASSUME IndInv, NEW c \in Connections, NEW m \in Messages, <<c, m>> \in due,
                    phase[c] = "connected", ~InFlight(c, m)
             PROVE  m \in shown[c] \/ HasCause(c, m)
  BY DEF MissedHasCause
<1>1. CASE Hears(c)
  BY <1>1 DEF IndInv, DueIsPending, Reached, IsSend, IsMessage, InFlight, HasCause
<1>2. CASE ~Hears(c)
  <2>1. server[c] = "gone" \/ carrier[c] # c
    BY <1>2 DEF IndInv, EndsMatch, Hears
  <2>2. carrier[c] # c => Page(c) \in overlapped
    BY DEF IndInv, CarriesItself, IsConnected
  <2> QED
    BY <2>1, <2>2 DEF HasCause
<1> QED
  BY <1>1, <1>2

\* What two connections of a page show needs an overlap.
LEMMA DoubledFollows == IndInv => DoubledByOverlap
<1> SUFFICES ASSUME IndInv, NEW c \in Connections, NEW d \in Connections, c # d, Page(c) = Page(d),
                    NEW m \in shown[c], m \in shown[d]
             PROVE  Page(c) \in overlapped
  BY DEF DoubledByOverlap
<1>1. m \in Messages
  BY DEF IndInv, TypeOK
<1>2. Reached(c, m) /\ Reached(d, m)
  BY DEF Reached
<1> QED
  BY <1>1, <1>2 DEF IndInv, ReachesOne

-----------------------------------------------------------------------------
(* The theorems.                                                            *)

\* In every behaviour of the chat, for any pages, presses and messages, the
\* inductive invariant holds.
THEOREM Inductive == Spec => []IndInv
  BY IndInit, IndStep, PTL DEF Spec

\* The variables have their types: connections are used in the order of the
\* presses, and subscriptions are on those that both ends take for up.
THEOREM TypeCorrect == Spec => []TypeOK
<1>1. IndInv => TypeOK
  BY DEF IndInv
<1> QED
  BY <1>1, Inductive, PTL

\* What was sent while a connection was up is shown there once nothing of it is
\* in flight, unless the message overtook its SUBSCRIBE, the SEND was lost, the
\* server has given the connection up, or its callback subscribed elsewhere.
THEOREM MissedCaused == Spec => []MissedHasCause
  BY Inductive, MissedFollows, PTL

\* A page shows a message twice only after Connect was pressed on a connection
\* still up.
THEOREM DoubledOverlap == Spec => []DoubledByOverlap
  BY Inductive, DoubledFollows, PTL
=============================================================================
