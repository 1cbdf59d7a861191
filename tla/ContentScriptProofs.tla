-------------------------- MODULE ContentScriptProofs --------------------------
(***************************************************************************)
(* Theorems about ContentScript, for any calls of the page and any number  *)
(* of removals.                                                            *)
(*                                                                         *)
(* None of the invariants is inductive.  TypeOK needs that the message by  *)
(* which a port is closed is the last one (Closing); ApprovedOnce, what    *)
(* the answers on their way and the injected API go back to (Allowed);     *)
(* OwnAnswer, that without overlap and failed isEnabled() a connect        *)
(* request is in one place at a time, since an answer does not say whose   *)
(* it is (OneEach, OneInAll) but is made for the one that is pending       *)
(* (Owned); NothingLost, that a port is there before anything needs one    *)
(* (PortFirst).  LostWithPort follows from the types alone, step by step.  *)
(***************************************************************************)
EXTENDS ContentScript, SequenceTheorems, TLAPS

ConnectedMessage == [type : {"connected"}, success : BOOLEAN, auth : BOOLEAN]
ResponseMessage(protocols) ==
    [type : {"response"}, call : Checks \cup Queries, protocol : protocols]
WindowMessage ==
    [type : {"request"}, call : Calls] \cup ConnectedMessage \cup ResponseMessage({"cardano", "none"})
PortMessage == ConnectedMessage \cup ResponseMessage({"cardano"}) \cup {Disconnect}

\* What is in the queues; connect requests get no responses.
Messages == post \in Seq(WindowMessage) /\ down \in Seq(PortMessage)

\* The background closes a port with its last message, and hears nothing more.
Closing ==
    /\ port = "closing" => down # <<>> /\ up = <<>>
    /\ \A i \in 1..Len(down) : down[i].type = "disconnect" <=> (port = "closing" /\ i = Len(down))

\* TypeOK, without its use of Last.
Types ==
    /\ promise \in [Calls -> {"new", "pending", "resolved", "auth", "rejected"}]
    /\ icons \subseteq Connects /\ serving \subseteq Calls
    /\ up \in Seq(Calls)
    /\ port \in {"none", "open", "closing"}
    /\ port = "none" => up = <<>> /\ down = <<>>
    /\ port # "open" => serving = {}
    /\ injected \in BOOLEAN /\ known \in BOOLEAN /\ linked \in BOOLEAN /\ overlap \in BOOLEAN
    /\ failed \subseteq Checks /\ removals \in 0..MaxRemovals

TInv == Messages /\ Closing /\ Types

LEMMA PostTail == ASSUME Messages, post # <<>>
                  PROVE  /\ Head(post) \in WindowMessage /\ Head(post) = post[1]
                         /\ Tail(post) \in Seq(WindowMessage)
                         /\ Len(Tail(post)) = Len(post) - 1
                         /\ \A i \in 1..Len(Tail(post)) : Tail(post)[i] = post[i + 1]
BY DEF Messages

LEMMA DownTail == ASSUME Messages, down # <<>>
                  PROVE  /\ Head(down) \in PortMessage /\ Head(down) = down[1]
                         /\ Tail(down) \in Seq(PortMessage)
                         /\ Len(Tail(down)) = Len(down) - 1
                         /\ \A i \in 1..Len(Tail(down)) : Tail(down)[i] = down[i + 1]
BY DEF Messages

LEMMA AppendFacts == ASSUME NEW S, NEW s \in Seq(S), NEW e
                     PROVE  /\ Len(Append(s, e)) = Len(s) + 1
                            /\ Append(s, e)[Len(s) + 1] = e
                            /\ \A i \in 1..Len(s) : Append(s, e)[i] = s[i]
<1>1. s \in Seq(S \cup {e}) /\ Len(s) \in Nat
  OBVIOUS
<1> QED BY <1>1, AppendProperties

LEMMA InitTInv == Init => TInv
<1> SUFFICES ASSUME Init PROVE TInv
  OBVIOUS
<1>1. post \in Seq(WindowMessage) /\ down \in Seq(PortMessage) /\ up \in Seq(Calls) /\ Len(down) = 0
  BY DEF Init
<1>2. /\ promise \in [Calls -> {"new", "pending", "resolved", "auth", "rejected"}]
      /\ removals \in 0..MaxRemovals
  BY CallsAssumption DEF Init
<1>3. Types
  BY <1>1, <1>2 DEF Init, Types
<1> QED BY <1>1, <1>3 DEF Init, TInv, Messages, Closing

LEMMA CallTInv == ASSUME TInv, NEW c \in Calls, Call(c) PROVE TInv'
BY DEF TInv, Messages, Closing, Types, Call, WindowMessage, Request, scriptVars

LEMMA PageReceivesTInv == ASSUME TInv, PageReceives PROVE TInv'
<1>1. Messages' /\ Closing'
  BY PostTail DEF TInv, Messages, Closing, PageReceives, scriptVars
<1>2. promise' \in [Calls -> {"new", "pending", "resolved", "auth", "rejected"}]
  BY DEF TInv, Types, PageReceives, ConnectedListener, Outcome, ResponseListener
<1> QED BY <1>1, <1>2 DEF TInv, Types, PageReceives, scriptVars

LEMMA SkipTInv == ASSUME TInv, NEW c \in Calls, Skip(c) PROVE TInv'
BY PostTail DEF TInv, Messages, Closing, Types, Skip, WindowMessage, Connected, ConnectedMessage, scriptVars

LEMMA ConnectTInv == ASSUME TInv, NEW c \in Calls, Connect(c) PROVE TInv'
BY PostTail DEF TInv, Messages, Closing, Types, Connect, OpenPort, HasPort

LEMMA IconFetchedTInv == ASSUME TInv, NEW c \in Calls, IconFetched(c) PROVE TInv'
<1>1. Messages'
  BY DEF TInv, Messages, IconFetched, windowVars
<1>2. Closing'
  BY DEF TInv, Closing, Types, IconFetched, HasPort, Send
<1>3. c \in Calls /\ up \in Seq(Calls) /\ (up' \in Seq(Calls))
  BY DEF TInv, Types, IconFetched, HasPort, Send
<1>4. Types'
  BY <1>3 DEF TInv, Types, IconFetched, HasPort, Send, windowVars
<1> QED BY <1>1, <1>2, <1>4 DEF TInv

LEMMA RpcTInv == ASSUME TInv, NEW c \in Calls, Rpc(c) PROVE TInv'
<1>1. post' \in Seq(WindowMessage)
  BY PostTail DEF TInv, Rpc, WindowMessage, Response, ResponseMessage
<1>2. Messages'
  BY <1>1 DEF TInv, Messages, Rpc
<1>3. Closing'
  <2>1. down' = down /\ (port' = port \/ (port = "none" /\ port' = "open"))
    BY DEF Rpc, OpenPort, HasPort
  <2>2. port = "closing" => up' = up
    BY DEF Rpc, Send
  <2>3. port = "none" => down = <<>>
    BY DEF TInv, Types
  <2>4. CASE port' = port
    BY <2>1, <2>2, <2>4 DEF TInv, Closing
  <2>5. CASE port = "none" /\ port' = "open"
    BY <2>1, <2>3, <2>5 DEF Closing
  <2> QED BY <2>1, <2>4, <2>5
<1>4. (up' \in Seq(Calls)) /\ (port' = "none" => up' = <<>> /\ down' = <<>>)
  <2>1. up' = up \/ up' = Append(up, c)
    BY DEF Rpc, Send
  <2>2. up' \in Seq(Calls)
    BY <2>1 DEF TInv, Types
  <2>3. port' = "none" => port = "none" /\ up' = up /\ down' = down
    BY DEF Rpc, OpenPort, HasPort
  <2> QED BY <2>2, <2>3 DEF TInv, Types
<1>5. Types'
  <2>1. /\ UNCHANGED <<promise, icons, serving, injected, known, linked, overlap, failed, removals>>
        /\ port' = port \/ (port = "none" /\ port' = "open")
    BY DEF Rpc, HasPort, OpenPort
  <2> QED BY <1>4, <2>1 DEF TInv, Types
<1> QED BY <1>2, <1>3, <1>5 DEF TInv

LEMMA ScriptReceivesTInv == ASSUME TInv, ScriptReceives PROVE TInv'
<1> DEFINE message == Head(down)
<1>1. /\ message \in PortMessage /\ message = down[1]
      /\ down' \in Seq(PortMessage) /\ Len(down') = Len(down) - 1 /\ Len(down) \in Nat \ {0}
      /\ \A i \in 1..Len(down') : down'[i] = down[i + 1]
  BY DownTail DEF TInv, Messages, ScriptReceives
<1>2. CASE message.type = "disconnect" /\ DisconnectWallet
  <2>1. port = "closing" /\ Len(down) = 1
    BY <1>1, <1>2 DEF TInv, Closing
  <2>2. up' = <<>>
    BY <2>1 DEF TInv, Closing, ScriptReceives
  <2>3. Len(down') = 0
    BY <1>1, <2>1
  <2>4. down' = <<>>
    BY <1>1, <2>3, EmptySeq
  <2>5. Messages'
    BY <1>1, <1>2 DEF TInv, Messages, DisconnectWallet
  <2>6. Closing'
    BY <1>2, <2>3 DEF Closing, DisconnectWallet
  <2>7. serving' = {}
    BY <2>1 DEF TInv, Types, ScriptReceives
  <2>8. Types'
    BY <1>2, <2>2, <2>4, <2>7, EmptySeq DEF TInv, Types, ScriptReceives, DisconnectWallet
  <2> QED BY <2>5, <2>6, <2>8 DEF TInv
<1>3. CASE message.type # "disconnect" /\ UNCHANGED port /\ post' = Append(post, message)
           /\ injected' \in BOOLEAN /\ linked' \in BOOLEAN
  <2>1. message \in WindowMessage
    BY <1>1, <1>3 DEF PortMessage, WindowMessage, ResponseMessage, Disconnect
  <2>2. Messages'
    BY <1>1, <1>3, <2>1 DEF TInv, Messages
  <2>3. port = "closing" => Len(down) # 1
    BY <1>1, <1>3 DEF TInv, Closing
  <2>4. \A i \in 1..Len(down') : i + 1 \in 1..Len(down) /\ (i + 1 = Len(down) <=> i = Len(down'))
    BY <1>1
  <2>5. port = "closing" => up' = <<>>
    BY DEF TInv, Closing, ScriptReceives
  <2>7. port = "closing" => Len(down') # 0
    BY <1>1, <2>3
  <2>6. Closing'
    BY <1>1, <1>3, <2>4, <2>5, <2>7, EmptySeq DEF TInv, Closing
  <2> QED BY <1>3, <2>2, <2>6 DEF TInv, Types, ScriptReceives
<1>4. \/ message.type = "disconnect" /\ DisconnectWallet
      \/ message.type # "disconnect" /\ UNCHANGED port /\ post' = Append(post, message)
         /\ injected' \in BOOLEAN /\ linked' \in BOOLEAN
  <2>1. message.type = "connected" => message.success \in BOOLEAN
    BY <1>1 DEF PortMessage, ConnectedMessage, ResponseMessage, Disconnect
  <2> QED BY <2>1 DEF TInv, Types, ScriptReceives, ConnectResponse
<1> QED BY <1>2, <1>3, <1>4

LEMMA ReceiveTInv == ASSUME TInv, Receive PROVE TInv'
BY DEF TInv, Messages, Closing, Types, Receive, windowVars, scriptVars

LEMMA AnswerTInv == ASSUME TInv, NEW c \in Calls, Answer(c) PROVE TInv'
<1>1. PICK message \in PortMessage : message.type # "disconnect" /\ down' = Append(down, message)
  BY CallsAssumption DEF Answer, Connected, Response, PortMessage, ConnectedMessage, ResponseMessage,
     Calls, Connects
<1>2. known' \in BOOLEAN /\ failed' \subseteq Checks /\ port = "open"
  BY DEF TInv, Types, Answer
<1>3. Messages'
  BY <1>1 DEF TInv, Messages, Answer, windowVars
<1>4. Closing'
  BY <1>1, <1>2 DEF TInv, Messages, Closing, Answer, windowVars, scriptVars
<1>5. Types'
  BY <1>2 DEF TInv, Types, Answer, windowVars, scriptVars
<1> QED BY <1>3, <1>4, <1>5 DEF TInv

LEMMA RemoveSiteTInv == ASSUME TInv, RemoveSite PROVE TInv'
BY CallsAssumption DEF TInv, Messages, Closing, Types, RemoveSite, windowVars, PortMessage, Disconnect

LEMMA NextTInv == ASSUME TInv, [Next]_vars PROVE TInv'
<1>1. CASE UNCHANGED vars
  BY <1>1 DEF vars, windowVars, scriptVars, TInv, Messages, Closing, Types
<1> QED
  BY <1>1, CallTInv, PageReceivesTInv, SkipTInv, ConnectTInv, IconFetchedTInv, RpcTInv,
     ScriptReceivesTInv, ReceiveTInv, AnswerTInv, RemoveSiteTInv DEF Next

LEMMA Typed == Spec => []TInv
BY InitTInv, NextTInv, PTL DEF Spec

\* The state keeps its types; of a port that is gone nothing is under way.
THEOREM PortTypeCorrect == Spec => []TypeOK
<1>1. ASSUME TInv PROVE TypeOK
  <2>1. port = "closing" <=> down # <<>> /\ Last(down) = Disconnect
    <3>1. down # <<>> => Len(down) \in 1..Len(down) /\ down[Len(down)] \in PortMessage
      BY <1>1, EmptySeq DEF TInv, Messages
    <3>2. down # <<>> => (down[Len(down)].type = "disconnect" <=> down[Len(down)] = Disconnect)
      BY <3>1 DEF PortMessage, ConnectedMessage, ResponseMessage, Disconnect
    <3> QED BY <1>1, <3>1, <3>2 DEF TInv, Closing, Last
  <2> QED BY <1>1, <2>1 DEF TInv, Types, TypeOK
<1> QED BY <1>1, Typed, PTL
-----------------------------------------------------------------------------
(* ApprovedOnce: an answer that says so is on its way only if the          *)
(* background allowed the connection, and the API that lets the content    *)
(* script answer itself was injected for such an answer.                   *)

Allowed ==
    /\ injected => known
    /\ \A i \in 1..Len(post) : post[i].type = "connected" /\ post[i].success => known
    /\ \A i \in 1..Len(down) : down[i].type = "connected" /\ down[i].success => known
    /\ ApprovedOnce

LEMMA InitAllowed == Init => Allowed
<1> SUFFICES ASSUME Init PROVE Allowed
  OBVIOUS
<1>1. Len(post) = 0 /\ Len(down) = 0
  BY DEF Init
<1> QED BY <1>1 DEF Init, Allowed, ApprovedOnce, Resolved, Calls

LEMMA NextAllowed == ASSUME TInv, Allowed, [Next]_vars PROVE Allowed'
<1> USE DEF Allowed, ApprovedOnce, Resolved
<1> DEFINE Kept == /\ known => known'
                   /\ injected' = injected /\ post' = post /\ down' = down /\ promise' = promise
<1>1. CASE Kept
  BY <1>1
<1>2. ASSUME NEW c \in Calls, Call(c) PROVE Allowed'
  BY <1>2 DEF TInv, Messages, Types, Call, Request, scriptVars, Calls
<1>3. CASE PageReceives
  <2>1. CASE Head(post).type = "connected" /\ ConnectedListener(Head(post))
    <3>1. post # <<>> /\ Len(post) \in Nat \ {0} /\ Head(post) = post[1]
      BY <1>3, EmptySeq DEF TInv, Messages, PageReceives
    <3>2. Head(post).success => known
      BY <2>1, <3>1
    <3>3. /\ UNCHANGED <<injected, known, down>>
          /\ \A i \in 1..Len(post') : i + 1 \in 1..Len(post) /\ post'[i] = post[i + 1]
      <4>1. post' = Tail(post) /\ UNCHANGED <<injected, known, down>>
        BY <1>3 DEF PageReceives, scriptVars
      <4> QED BY <3>1, <4>1, PostTail DEF TInv
    <3>4. \A c \in Connects : Resolved(c)' => Resolved(c) \/ Head(post).success
      <4>1. \A c \in Connects : promise'[c] = promise[c] \/ promise'[c] = Outcome(c, Head(post))
        BY <2>1 DEF ConnectedListener, Calls
      <4> QED BY <4>1 DEF Outcome
    <3> QED BY <3>2, <3>3, <3>4
  <2>2. CASE Head(post).type = "response" /\ ResponseListener(Head(post))
    <3>1. Head(post).call \notin Connects
      BY <1>3, <2>2, PostTail, CallsAssumption DEF TInv, PageReceives, WindowMessage, ConnectedMessage,
         ResponseMessage, Connects
    <3>2. /\ UNCHANGED <<injected, known, down>>
          /\ \A i \in 1..Len(post') : i + 1 \in 1..Len(post) /\ post'[i] = post[i + 1]
      <4>1. post # <<>> /\ post' = Tail(post) /\ UNCHANGED <<injected, known, down>>
        BY <1>3 DEF PageReceives, scriptVars
      <4>2. Len(post) \in Nat \ {0}
        BY <4>1, EmptySeq DEF TInv, Messages
      <4> QED BY <4>1, <4>2, PostTail DEF TInv
    <3>3. \A c \in Connects : promise'[c] = promise[c]
      BY <2>2, <3>1 DEF TInv, Types, ResponseListener, Calls
    <3> QED BY <3>2, <3>3
  <2> QED BY <1>3, <2>1, <2>2 DEF PageReceives
<1>4. ASSUME NEW c \in Calls, Skip(c) PROVE Allowed'
  BY <1>4, PostTail DEF TInv, Skip, CanSkip, Connected, scriptVars
<1>5. ASSUME NEW c \in Calls, Connect(c) PROVE Allowed'
  BY <1>5, PostTail DEF TInv, Connect
<1>6. ASSUME NEW c \in Calls, IconFetched(c) PROVE Allowed'
  BY <1>1, <1>6 DEF IconFetched, windowVars
<1>7. ASSUME NEW c \in Calls, Rpc(c) PROVE Allowed'
  BY <1>7, PostTail DEF TInv, Rpc, Response
<1>8. CASE ScriptReceives
  <2>1. Head(down).type = "connected" /\ Head(down).success => known
    BY <1>8, DownTail, EmptySeq DEF TInv, Messages, ScriptReceives
  <2>2. \A i \in 1..Len(down') : down'[i].type = "connected" /\ down'[i].success => known
    BY <1>8, DownTail DEF TInv, Messages, ScriptReceives
  <2>3. /\ injected' => injected \/ (Head(down).type = "connected" /\ Head(down).success)
        /\ post' = post \/ post' = Append(post, Head(down))
        /\ known' = known /\ promise' = promise
    BY <1>8 DEF TInv, Types, ScriptReceives, ConnectResponse, DisconnectWallet
  <2>4. \A i \in 1..Len(post') : post'[i].type = "connected" /\ post'[i].success => known
    <3>1. \A i \in 1..Len(post') : \/ i \in 1..Len(post) /\ post'[i] = post[i]
                                   \/ post'[i] = Head(down)
      BY <2>3 DEF TInv, Messages
    <3> QED BY <2>1, <3>1
  <2> QED BY <2>1, <2>2, <2>3, <2>4
<1>9. CASE Receive
  BY <1>1, <1>9 DEF Receive, windowVars, scriptVars
<1>10. ASSUME NEW c \in Calls, Answer(c) PROVE Allowed'
  <2>1. CASE \E success \in BOOLEAN :
                 /\ down' = Append(down, Connected(success, success /\ c \in Identified))
                 /\ known' = (known \/ success)
    <3>1. known => known'
      BY <2>1
    <3>2. \A i \in 1..Len(down') : down'[i].type = "connected" /\ down'[i].success => known'
      <4>1. PICK success \in BOOLEAN :
                 /\ down' = Append(down, Connected(success, success /\ c \in Identified))
                 /\ known' = (known \/ success)
        BY <2>1
      <4>2. \A i \in 1..Len(down') : \/ i \in 1..Len(down) /\ down'[i] = down[i]
                                     \/ down'[i].success = success
        BY <4>1 DEF TInv, Messages, Connected
      <4> QED BY <4>1, <4>2, <3>1
    <3> QED BY <1>10, <3>1, <3>2 DEF Answer, windowVars, scriptVars
  <2>2. CASE down' = Append(down, Response(c, "cardano")) /\ known' = known
    <3>1. \A i \in 1..Len(down') : down'[i].type = "connected" /\ down'[i].success => known
      BY <2>2 DEF TInv, Messages, Response
    <3> QED BY <1>10, <2>2, <3>1 DEF Answer, windowVars, scriptVars
  <2>3. CASE down' = Append(down, Connected(FALSE, FALSE)) /\ known' = known
    <3>1. \A i \in 1..Len(down') : down'[i].type = "connected" /\ down'[i].success => known
      BY <2>3 DEF TInv, Messages, Connected
    <3> QED BY <1>10, <2>3, <3>1 DEF Answer, windowVars, scriptVars
  <2> QED BY <1>10, <2>1, <2>2, <2>3 DEF Answer
<1>11. CASE RemoveSite
  BY <1>11 DEF TInv, Messages, RemoveSite, windowVars, Disconnect
<1>12. CASE UNCHANGED vars
  BY <1>1, <1>12 DEF vars, windowVars, scriptVars
<1> QED BY <1>2, <1>3, <1>4, <1>5, <1>6, <1>7, <1>8, <1>9, <1>10, <1>11, <1>12 DEF Next

\* No page holds an API for a site whose connection was never allowed,
\* whoever answered its request and whatever was removed in between.
THEOREM Approved == Spec => []ApprovedOnce
<1>1. Spec => []Allowed
  BY InitAllowed, NextAllowed, Typed, PTL DEF Spec
<1> QED BY <1>1, PTL DEF Allowed
-----------------------------------------------------------------------------
(* OwnAnswer: without overlap and failed isEnabled(), at most one thing    *)
(* about a connect request is on its way, a request or an answer, and it is *)
(* about the one request that is not settled.  (It may be on its way no    *)
(* more: what is sent to a closed port is lost, and the request stays      *)
(* pending.)                                                               *)

Pending(c) == promise[c] = "pending"
OfConnect(message) ==
    message.type = "connected" \/ (message.type = "request" /\ message.call \in Connects)

InPost == \E i \in 1..Len(post) : OfConnect(post[i])
InDown == \E i \in 1..Len(down) : down[i].type = "connected"
InUp == \E i \in 1..Len(up) : up[i] \in Connects
InIcons == \E c \in Connects : c \in icons
InServing == \E c \in Connects : c \in serving

OneEach ==
    /\ \A i, j \in 1..Len(post) : OfConnect(post[i]) /\ OfConnect(post[j]) => i = j
    /\ \A i, j \in 1..Len(down) : down[i].type = "connected" /\ down[j].type = "connected" => i = j
    /\ \A i, j \in 1..Len(up) : up[i] \in Connects /\ up[j] \in Connects => i = j
OneInAll ==
    /\ InPost => ~ (InDown \/ InUp \/ InIcons \/ InServing)
    /\ InDown => ~ (InUp \/ InIcons \/ InServing)
    /\ InUp => ~ (InIcons \/ InServing)
    /\ InIcons => ~ InServing

\* The answer is the one that some pending request is to get.
For(message) ==
    \E c \in Connects : Pending(c) /\ (message.success => (message.auth <=> c \in Identified))
Owned ==
    /\ \A c, d \in Connects : Pending(c) /\ Pending(d) => c = d
    /\ \A i \in 1..Len(post) : /\ post[i].type = "connected" => For(post[i])
                               /\ post[i].type = "request" /\ post[i].call \in Connects
                                     => Pending(post[i].call)
    /\ \A i \in 1..Len(down) : down[i].type = "connected" => For(down[i])
    /\ \A i \in 1..Len(up) : up[i] \in Connects => Pending(up[i])
    /\ \A c \in Connects : c \in icons \/ c \in serving => Pending(c)
Told == \A c \in Connects : Resolved(c) => (promise[c] = "auth" <=> c \in Identified)

OInv == ~ overlap /\ failed = {} => OneEach /\ OneInAll /\ Owned /\ Told

Nowhere == ~ InPost /\ ~ InDown /\ ~ InUp /\ ~ InIcons /\ ~ InServing

LEMMA InitOInv == Init => OInv
<1> SUFFICES ASSUME Init PROVE OInv
  OBVIOUS
<1>1. Len(post) = 0 /\ Len(down) = 0 /\ Len(up) = 0
  BY DEF Init
<1>2. \A c \in Connects : promise[c] = "new"
  BY DEF Init, Calls
<1> QED BY <1>1, <1>2 DEF Init, OInv, OneEach, OneInAll, Owned, Told, InPost, InDown, InUp,
        InIcons, InServing, Pending, Resolved

\* What is first in a queue of the window is the only thing there is.
LEMMA FirstAlone ==
    ASSUME TInv, OneEach, OneInAll, post # <<>>, OfConnect(post[1])
    PROVE  /\ ~ InDown /\ ~ InUp /\ ~ InIcons /\ ~ InServing
           /\ \A i \in 1..Len(Tail(post)) : ~ OfConnect(Tail(post)[i])
<1>1. 1 \in 1..Len(post)
  BY EmptySeq DEF TInv, Messages
<1>2. InPost
  BY <1>1 DEF InPost
<1>3. \A i \in 1..Len(Tail(post)) : i + 1 \in 1..Len(post) /\ Tail(post)[i] = post[i + 1] /\ i + 1 # 1
  BY PostTail DEF TInv, Messages
<1> QED BY <1>1, <1>2, <1>3 DEF OneEach, OneInAll

LEMMA CallOInv == ASSUME TInv, OInv, NEW c \in Calls, Call(c) PROVE OInv'
<1> SUFFICES ASSUME ~ overlap', failed' = {} PROVE (OneEach /\ OneInAll /\ Owned /\ Told)'
  BY DEF OInv
<1>1. OneEach /\ OneInAll /\ Owned /\ Told
  BY DEF OInv, Call, TInv, Types
<1>2. /\ promise \in [Calls -> {"new", "pending", "resolved", "auth", "rejected"}]
      /\ promise' = [promise EXCEPT ![c] = "pending"] /\ promise[c] = "new"
      /\ UNCHANGED <<down, up, icons, serving>>
  BY DEF Call, TInv, Types, scriptVars
<1>3. /\ Len(post') = Len(post) + 1 /\ Len(post) \in Nat /\ post'[Len(post')] = Request(c)
      /\ \A i \in 1..Len(post) : post'[i] = post[i]
  BY DEF Call, TInv, Messages
<1>4. Connects \subseteq Calls /\ Told'
  BY <1>1, <1>2 DEF Told, Resolved, Calls
<1>5. CASE c \in Connects
  <2>1. \A d \in Connects : ~ Pending(d)
    BY <1>5 DEF Call, Pending
  <2>2. Nowhere
    BY <1>1, <2>1 DEF Owned, Nowhere, InPost, InDown, InUp, InIcons, InServing, For, OfConnect
  <2>3. \A i \in 1..Len(post') : OfConnect(post'[i]) => i = Len(post')
    BY <1>3, <2>2 DEF Nowhere, InPost
  <2>4. OneEach' /\ OneInAll'
    BY <1>2, <2>2, <2>3 DEF OneEach, OneInAll, Nowhere, InPost, InDown, InUp, InIcons, InServing
  <2>5. Pending(c)' /\ \A d \in Connects : Pending(d)' => d = c
    BY <1>2, <1>4, <2>1 DEF Pending
  <2>6. \A i \in 1..Len(post') : OfConnect(post'[i]) => post'[i].type = "request" /\ post'[i].call = c
    BY <1>3, <2>3 DEF Request
  <2>7. Owned'
    BY <1>2, <2>2, <2>5, <2>6 DEF Owned, Nowhere, InDown, InUp, InIcons, InServing, OfConnect
  <2> QED BY <1>4, <2>4, <2>7
<1>6. CASE c \notin Connects
  <2>1. \A d \in Connects : Pending(d)' <=> Pending(d)
    BY <1>2, <1>4, <1>6 DEF Pending
  <2>2. \A m : For(m)' <=> For(m)
    BY <2>1 DEF For
  <2>3. ~ OfConnect(Request(c))
    BY <1>6 DEF OfConnect, Request
  <2>4. \A i \in 1..Len(post') : OfConnect(post'[i]) => i \in 1..Len(post) /\ post'[i] = post[i]
    BY <1>3, <2>3
  <2>5. OneEach' /\ OneInAll'
    BY <1>1, <1>2, <2>4 DEF OneEach, OneInAll, InPost, InDown, InUp, InIcons, InServing
  <2>6. Owned'
    BY <1>1, <1>2, <2>1, <2>2, <2>4 DEF Owned, OfConnect
  <2> QED BY <1>4, <2>5, <2>6
<1> QED BY <1>5, <1>6

\* One answer settles all pending connect requests: here there is one.
LEMMA PageReceivesOInv == ASSUME TInv, OInv, PageReceives PROVE OInv'
<1> SUFFICES ASSUME ~ overlap', failed' = {} PROVE (OneEach /\ OneInAll /\ Owned /\ Told)'
  BY DEF OInv
<1>1. /\ OneEach /\ OneInAll /\ Owned /\ Told
      /\ promise \in [Calls -> {"new", "pending", "resolved", "auth", "rejected"}]
      /\ post # <<>> /\ post' = Tail(post) /\ UNCHANGED <<down, up, icons, serving>>
  BY DEF OInv, PageReceives, TInv, Types, scriptVars
<1>2. /\ Len(post) \in Nat \ {0} /\ Head(post) = post[1] /\ Head(post) \in WindowMessage
      /\ Len(post') = Len(post) - 1 /\ \A i \in 1..Len(post') : post'[i] = post[i + 1]
  BY <1>1, PostTail, EmptySeq DEF TInv, Messages
<1>3. CASE Head(post).type = "connected" /\ ConnectedListener(Head(post))
  <2>1. OfConnect(post[1])
    BY <1>2, <1>3 DEF OfConnect
  <2>2. ~ InPost' /\ ~ InDown' /\ ~ InUp' /\ ~ InIcons' /\ ~ InServing'
    BY <1>1, <2>1, FirstAlone DEF InPost, InDown, InUp, InIcons, InServing
  <2>3. For(Head(post)) /\ Head(post).success \in BOOLEAN /\ Head(post).auth \in BOOLEAN
    BY <1>1, <1>2, <1>3 DEF Owned, WindowMessage, ConnectedMessage, ResponseMessage
  <2>4. \A c \in Connects : promise'[c] = IF Pending(c) THEN Outcome(c, Head(post)) ELSE promise[c]
    BY <1>3 DEF ConnectedListener, Pending, Calls
  <2>5. \A c \in Connects : Outcome(c, Head(post)) # "pending"
    BY <2>3 DEF Outcome
  <2>6. \A c \in Connects : Pending(c) /\ Head(post).success => (Head(post).auth <=> c \in Identified)
    BY <1>1, <2>3 DEF Owned, For
  <2>7. Told'
    BY <1>1, <2>3, <2>4, <2>6 DEF Told, Resolved, Outcome
  <2>8. \A c \in Connects : ~ Pending(c)'
    BY <2>4, <2>5 DEF Pending
  <2>9. OneEach' /\ OneInAll' /\ Owned'
    BY <2>2, <2>8 DEF OneEach, OneInAll, Owned, InPost, InDown, InUp, InIcons, InServing, OfConnect
  <2> QED BY <2>7, <2>9
<1>4. CASE Head(post).type = "response" /\ ResponseListener(Head(post))
  <2>1. Head(post).call \in Checks \cup Queries /\ Head(post).call \notin Connects
    BY <1>2, <1>4, CallsAssumption DEF WindowMessage, ConnectedMessage, ResponseMessage, Connects
  <2>2. \A c \in Connects : promise'[c] = promise[c]
    BY <1>1, <1>4, <2>1 DEF ResponseListener
  <2>3. \A m : For(m)' <=> For(m)
    BY <2>2 DEF For, Pending
  <2>4. \A i \in 1..Len(post') : i + 1 \in 1..Len(post) /\ post'[i] = post[i + 1]
    BY <1>2
  <2>5. OneEach'
    BY <1>1, <1>2, <2>4 DEF OneEach
  <2>6. OneInAll'
    BY <1>1, <2>4 DEF OneInAll, InPost, InDown, InUp, InIcons, InServing
  <2>7. Owned' /\ Told'
    BY <1>1, <2>2, <2>3, <2>4 DEF Owned, Told, Pending, Resolved
  <2> QED BY <2>5, <2>6, <2>7
<1> QED BY <1>3, <1>4 DEF PageReceives

LEMMA SkipOInv == ASSUME TInv, OInv, NEW c \in Calls, Skip(c) PROVE OInv'
<1> SUFFICES ASSUME ~ overlap', failed' = {} PROVE (OneEach /\ OneInAll /\ Owned /\ Told)'
  BY DEF OInv
<1>1. /\ OneEach /\ OneInAll /\ Owned /\ Told
      /\ post # <<>> /\ Head(post) = Request(c) /\ c \in Connects /\ c \in Plain
      /\ post' = Append(Tail(post), Connected(TRUE, FALSE))
      /\ UNCHANGED <<promise, down, up, icons, serving>>
  BY DEF OInv, Skip, CanSkip, scriptVars
<1>2. Len(post) \in Nat \ {0} /\ Head(post) = post[1]
  BY <1>1, PostTail, EmptySeq DEF TInv, Messages
<1>3. OfConnect(post[1]) /\ Pending(c) /\ c \notin Identified
  BY <1>1, <1>2, CallsAssumption DEF OfConnect, Request, Owned
<1>4. /\ ~ InDown /\ ~ InUp /\ ~ InIcons /\ ~ InServing
      /\ \A i \in 1..Len(Tail(post)) : ~ OfConnect(Tail(post)[i])
  BY <1>1, <1>3, FirstAlone
<1>5. \A i \in 1..Len(post') :
        OfConnect(post'[i]) => i = Len(post') /\ post'[i] = Connected(TRUE, FALSE)
  <2>1. Tail(post) \in Seq(WindowMessage)
    BY <1>1, PostTail DEF TInv
  <2>2. \A i \in 1..Len(post') : \/ i \in 1..Len(Tail(post)) /\ post'[i] = Tail(post)[i]
                                 \/ i = Len(post') /\ post'[i] = Connected(TRUE, FALSE)
    <3> DEFINE tail == Tail(post)
               answer == Connected(TRUE, FALSE)
    <3>1. post' = Append(tail, answer) /\ tail \in Seq(WindowMessage)
      BY <1>1, <2>1
    <3> HIDE DEF tail, answer
    <3>2. \A i \in 1..Len(post') : \/ i \in 1..Len(tail) /\ post'[i] = tail[i]
                                   \/ i = Len(post') /\ post'[i] = answer
      BY <3>1
    <3> QED BY <3>2 DEF tail, answer
  <2> QED BY <1>4, <2>2
<1>6. For(Connected(TRUE, FALSE))' /\ Connected(TRUE, FALSE).type = "connected"
  BY <1>1, <1>3 DEF For, Connected, Pending
<1>7. OneEach' /\ OneInAll'
  BY <1>1, <1>4, <1>5 DEF OneEach, OneInAll, InPost, InDown, InUp, InIcons, InServing
<1>8. Owned' /\ Told'
  BY <1>1, <1>4, <1>5, <1>6 DEF Owned, Told, Pending, Resolved, OfConnect, InDown
<1> QED BY <1>7, <1>8

LEMMA ConnectOInv == ASSUME TInv, OInv, NEW c \in Calls, Connect(c) PROVE OInv'
<1> SUFFICES ASSUME ~ overlap', failed' = {} PROVE (OneEach /\ OneInAll /\ Owned /\ Told)'
  BY DEF OInv
<1>1. /\ OneEach /\ OneInAll /\ Owned /\ Told
      /\ post # <<>> /\ Head(post) = Request(c) /\ c \in Connects
      /\ post' = Tail(post) /\ icons' = icons \cup {c}
      /\ UNCHANGED <<promise, down, up, serving>>
  BY DEF OInv, Connect
<1>2. Len(post) \in Nat \ {0} /\ Head(post) = post[1]
  BY <1>1, PostTail, EmptySeq DEF TInv, Messages
<1>3. OfConnect(post[1]) /\ Pending(c)
  BY <1>1, <1>2 DEF OfConnect, Request, Owned
<1>4. ~ InDown /\ ~ InUp /\ ~ InIcons /\ ~ InServing /\ ~ InPost'
  BY <1>1, <1>3, FirstAlone DEF InPost
<1>5. OneEach' /\ OneInAll'
  BY <1>1, <1>4 DEF OneEach, OneInAll, InPost, InDown, InUp, InIcons, InServing
<1>6. Owned' /\ Told'
  BY <1>1, <1>3, <1>4 DEF Owned, Told, Pending, Resolved, OfConnect, InPost, InDown, InIcons
<1> QED BY <1>5, <1>6

LEMMA IconFetchedOInv == ASSUME TInv, OInv, NEW c \in Calls, IconFetched(c) PROVE OInv'
<1> SUFFICES ASSUME ~ overlap', failed' = {} PROVE (OneEach /\ OneInAll /\ Owned /\ Told)'
  BY DEF OInv
<1>1. /\ OneEach /\ OneInAll /\ Owned /\ Told
      /\ c \in icons /\ icons \subseteq Connects /\ icons' = icons \ {c}
      /\ up' = up \/ up' = Append(up, c)
      /\ UNCHANGED <<promise, post, down, serving>>
  BY DEF OInv, IconFetched, Send, TInv, Types, windowVars
<1>2. Pending(c) /\ c \in Connects /\ \A d \in Connects : d \in icons => d = c
  BY <1>1 DEF Owned
<1>3. InIcons /\ ~ InPost /\ ~ InDown /\ ~ InUp /\ ~ InServing /\ ~ InIcons'
  BY <1>1, <1>2 DEF OneInAll, InIcons
<1>4. \A i \in 1..Len(up') : up'[i] \in Connects => i = Len(up') /\ up'[i] = c
  BY <1>1, <1>3 DEF InUp, TInv, Types
<1>5. OneEach' /\ OneInAll'
  BY <1>1, <1>3, <1>4 DEF OneEach, OneInAll, InPost, InDown, InUp, InIcons, InServing
<1>6. Owned' /\ Told'
  BY <1>1, <1>2, <1>3, <1>4 DEF Owned, Told, Pending, Resolved, OfConnect, InPost, InDown, InIcons, InServing
<1> QED BY <1>5, <1>6

LEMMA RpcOInv == ASSUME TInv, OInv, NEW c \in Calls, Rpc(c) PROVE OInv'
<1> SUFFICES ASSUME ~ overlap', failed' = {} PROVE (OneEach /\ OneInAll /\ Owned /\ Told)'
  BY DEF OInv
<1>1. /\ OneEach /\ OneInAll /\ Owned /\ Told
      /\ post # <<>> /\ c \notin Connects
      /\ post' = Tail(post) \/ post' = Append(Tail(post), Response(c, "none"))
      /\ up' = up \/ up' = Append(up, c)
      /\ UNCHANGED <<promise, icons, down, serving>>
  BY CallsAssumption DEF OInv, Rpc, Send, Connects
<1>2. ~ OfConnect(Response(c, "none"))
  BY DEF OfConnect, Response
<1>t. /\ Tail(post) \in Seq(WindowMessage) /\ Len(Tail(post)) = Len(post) - 1 /\ Len(post) \in Nat
      /\ \A i \in 1..Len(Tail(post)) : Tail(post)[i] = post[i + 1]
  BY <1>1, PostTail, EmptySeq DEF TInv, Messages
<1>3. \A i \in 1..Len(post') :
        OfConnect(post'[i]) => i + 1 \in 1..Len(post) /\ post'[i] = post[i + 1]
  <2>1. CASE post' = Tail(post)
    BY <1>t, <2>1
  <2>2. CASE post' = Append(Tail(post), Response(c, "none"))
    <3>1. Len(post') = Len(Tail(post)) + 1 /\ post'[Len(post')] = Response(c, "none")
          /\ \A i \in 1..Len(Tail(post)) : post'[i] = Tail(post)[i]
      BY <1>t, <2>2, AppendFacts
    <3>2. ASSUME NEW i \in 1..Len(post'), OfConnect(post'[i])
          PROVE  i \in 1..Len(Tail(post))
      BY <1>t, <1>2, <3>1, <3>2
    <3> QED BY <1>t, <3>1, <3>2
  <2> QED BY <1>1, <2>1, <2>2
<1>4. \A i \in 1..Len(up') : up'[i] \in Connects => i \in 1..Len(up) /\ up'[i] = up[i]
  <2>1. up \in Seq(Calls) /\ Len(up) \in Nat
    BY DEF TInv, Types
  <2>2. CASE up' = Append(up, c)
    BY <1>1, <2>1, <2>2, AppendFacts
  <2> QED BY <1>1, <2>2
<1>l. Len(post) \in Nat /\ Len(post') \in Nat
  BY <1>1, PostTail, EmptySeq DEF TInv, Messages
<1>5. OneEach' /\ OneInAll'
  <2>1. OneEach'
    BY <1>1, <1>3, <1>4, <1>l DEF OneEach
  <2>2. (InPost' => InPost) /\ (InUp' => InUp) /\ InDown' = InDown /\ InIcons' = InIcons /\ InServing' = InServing
    BY <1>1, <1>3, <1>4, <1>l DEF InPost, InUp, InDown, InIcons, InServing
  <2>3. OneInAll'
    BY <1>1, <2>2 DEF OneInAll
  <2> QED BY <2>1, <2>3
<1>6. Owned' /\ Told'
  <2>1. \A m : For(m)' <=> For(m)
    BY <1>1 DEF For, Pending
  <2> QED BY <1>1, <1>3, <1>4, <2>1 DEF Owned, Told, Pending, Resolved, OfConnect
<1> QED BY <1>5, <1>6

LEMMA ScriptReceivesOInv == ASSUME TInv, OInv, ScriptReceives PROVE OInv'
<1> SUFFICES ASSUME ~ overlap', failed' = {} PROVE (OneEach /\ OneInAll /\ Owned /\ Told)'
  BY DEF OInv
<1> DEFINE message == Head(down)
<1>1. /\ OneEach /\ OneInAll /\ Owned /\ Told
      /\ down # <<>> /\ down' = Tail(down)
      /\ post' = post \/ post' = Append(post, message)
      /\ UNCHANGED <<promise, icons, up, serving>>
  BY DEF OInv, ScriptReceives, ConnectResponse, DisconnectWallet
<1>2. /\ Len(down) \in Nat \ {0} /\ message = down[1] /\ message \in PortMessage
      /\ Len(down') = Len(down) - 1
      /\ \A i \in 1..Len(down') : /\ i + 1 \in 1..Len(down) /\ i + 1 # 1
                                  /\ down'[i] = down[i + 1]
  <2>1. /\ Len(down) \in Nat \ {0} /\ message = down[1] /\ message \in PortMessage
        /\ Len(down') = Len(down) - 1 /\ \A i \in 1..Len(down') : down'[i] = down[i + 1]
    <3>1. Messages /\ down # <<>> /\ down' = Tail(down)
      BY <1>1 DEF TInv
    <3>2. Len(down) \in Nat \ {0}
      BY <3>1, EmptySeq DEF Messages
    <3> QED BY <3>1, <3>2, DownTail
  <2> QED BY <2>1
<1>3. \A m : For(m)' <=> For(m)
  BY <1>1 DEF For, Pending
<1>4. OfConnect(message) <=> message.type = "connected"
  BY <1>2 DEF OfConnect, PortMessage, ConnectedMessage, ResponseMessage, Disconnect
<1>5. \A i \in 1..Len(post') : \/ i \in 1..Len(post) /\ post'[i] = post[i]
                               \/ i = Len(post') /\ post'[i] = message
  BY <1>1 DEF TInv, Messages
<1>6. CASE message.type = "connected"
  <2>1. 1 \in 1..Len(down) /\ down[1].type = "connected"
    BY <1>2, <1>6
  <2>2. InDown /\ ~ InPost /\ ~ InUp /\ ~ InIcons /\ ~ InServing
    BY <1>1, <2>1 DEF OneInAll, InDown
  <2>3. ~ InDown'
    BY <1>1, <1>2, <2>1 DEF OneEach, InDown
  <2>4. \A i \in 1..Len(post') : OfConnect(post'[i]) => i = Len(post') /\ post'[i] = message
    BY <1>5, <2>2 DEF InPost
  <2>5. OneEach' /\ OneInAll'
    BY <1>1, <2>2, <2>3, <2>4 DEF OneEach, OneInAll, InPost, InDown, InUp, InIcons, InServing
  <2>6. For(message)
    BY <1>1, <2>1, <1>2 DEF Owned
  <2>7. Owned' /\ Told'
    BY <1>1, <1>3, <1>6, <2>2, <2>3, <2>4, <2>6 DEF Owned, Told, Pending, Resolved, OfConnect, InDown
  <2> QED BY <2>5, <2>7
<1>7. CASE message.type # "connected"
  <2>1. \A i \in 1..Len(post') : OfConnect(post'[i]) => i \in 1..Len(post) /\ post'[i] = post[i]
    BY <1>4, <1>5, <1>7
  <2>2. OneEach'
    BY <1>1, <1>2, <2>1 DEF OneEach
  <2>3. OneInAll'
    BY <1>1, <1>2, <2>1 DEF OneInAll, InPost, InDown, InUp, InIcons, InServing
  <2>4. Owned' /\ Told'
    BY <1>1, <1>2, <1>3, <2>1 DEF Owned, Told, Pending, Resolved, OfConnect
  <2> QED BY <2>2, <2>3, <2>4
<1> QED BY <1>6, <1>7

LEMMA ReceiveOInv == ASSUME TInv, OInv, Receive PROVE OInv'
<1> SUFFICES ASSUME ~ overlap', failed' = {} PROVE (OneEach /\ OneInAll /\ Owned /\ Told)'
  BY DEF OInv
<1>1. /\ OneEach /\ OneInAll /\ Owned /\ Told
      /\ up # <<>> /\ up' = Tail(up) /\ serving' = serving \cup {Head(up)}
      /\ UNCHANGED <<promise, post, icons, down>>
  BY DEF OInv, Receive, windowVars, scriptVars
<1>2. /\ Len(up) \in Nat \ {0} /\ Head(up) = up[1]
      /\ \A i \in 1..Len(up') : i + 1 \in 1..Len(up) /\ i + 1 # 1 /\ up'[i] = up[i + 1]
  BY <1>1, EmptySeq DEF TInv, Types
<1>3. \A m : For(m)' <=> For(m)
  BY <1>1 DEF For, Pending
<1>4. CASE up[1] \in Connects
  <2>1. InUp /\ ~ InPost /\ ~ InDown /\ ~ InIcons /\ ~ InServing
    BY <1>1, <1>2, <1>4 DEF OneInAll, InUp
  <2>2. ~ InUp' /\ \A c \in Connects : c \in serving' => c = up[1]
    BY <1>1, <1>2, <1>4, <2>1 DEF OneEach, InUp, InServing
  <2>3. OneEach' /\ OneInAll'
    BY <1>1, <2>1, <2>2 DEF OneEach, OneInAll, InPost, InDown, InUp, InIcons, InServing
  <2>4. Pending(up[1])
    BY <1>1, <1>2, <1>4 DEF Owned
  <2>5. Owned' /\ Told'
    BY <1>1, <1>3, <2>2, <2>4 DEF Owned, Told, Pending, Resolved, InUp
  <2> QED BY <2>3, <2>5
<1>5. CASE up[1] \notin Connects
  <2>1. \A c \in Connects : c \in serving' <=> c \in serving
    BY <1>1, <1>2, <1>5
  <2>2. OneEach' /\ OneInAll'
    BY <1>1, <1>2, <2>1 DEF OneEach, OneInAll, InPost, InDown, InUp, InIcons, InServing
  <2>3. Owned' /\ Told'
    BY <1>1, <1>2, <1>3, <2>1 DEF Owned, Told, Pending, Resolved
  <2> QED BY <2>2, <2>3
<1> QED BY <1>4, <1>5

LEMMA AnswerOInv == ASSUME TInv, OInv, NEW c \in Calls, Answer(c) PROVE OInv'
<1> SUFFICES ASSUME ~ overlap', failed' = {} PROVE (OneEach /\ OneInAll /\ Owned /\ Told)'
  BY DEF OInv
<1>1. /\ OneEach /\ OneInAll /\ Owned /\ Told
      /\ c \in serving /\ serving' = serving \ {c}
      /\ UNCHANGED <<promise, post, icons, up>>
  <2>1. failed = {} /\ ~ overlap
    BY DEF Answer
  <2> QED BY <2>1 DEF OInv, Answer, windowVars, scriptVars
<1>2. \A m : For(m)' <=> For(m)
  BY <1>1 DEF For, Pending
<1>3. CASE c \in Connects
  <2>1. PICK success \in BOOLEAN :
            down' = Append(down, Connected(success, success /\ c \in Identified))
    BY <1>3, CallsAssumption DEF Answer, Connects
  <2> DEFINE message == Connected(success, success /\ c \in Identified)
  <2>2. /\ Pending(c) /\ (\A d \in Connects : d \in serving => d = c)
        /\ InServing /\ ~ InPost /\ ~ InDown /\ ~ InUp /\ ~ InIcons
    BY <1>1, <1>3 DEF Owned, OneInAll, InServing
  <2>3. ~ InServing'
    BY <1>1, <2>2 DEF InServing
  <2>4. For(message) /\ message.type = "connected"
    BY <1>3, <2>2 DEF For, Connected
  <2>5. \A i \in 1..Len(down') : down'[i].type = "connected" => i = Len(down') /\ down'[i] = message
    BY <2>1, <2>2 DEF TInv, Messages, InDown
  <2> HIDE DEF message
  <2>6. OneEach' /\ OneInAll'
    BY <1>1, <2>2, <2>3, <2>5 DEF OneEach, OneInAll, InPost, InDown, InUp, InIcons, InServing
  <2>7. Owned' /\ Told'
    BY <1>1, <1>2, <2>4, <2>5 DEF Owned, Told, Pending, Resolved
  <2> QED BY <2>6, <2>7
<1>4. CASE c \notin Connects
  <2>1. \A d \in Connects : d \in serving' <=> d \in serving
    BY <1>1, <1>4
  <2>2. \A i \in 1..Len(down') : down'[i].type = "connected" => i \in 1..Len(down) /\ down'[i] = down[i]
    <3>1. down' = Append(down, Response(c, "cardano"))
      BY <1>4 DEF Answer
    <3> QED BY <3>1 DEF Response, TInv, Messages
  <2>3. OneEach' /\ OneInAll'
    BY <1>1, <2>1, <2>2 DEF OneEach, OneInAll, InPost, InDown, InUp, InIcons, InServing
  <2>4. Owned' /\ Told'
    BY <1>1, <1>2, <2>1, <2>2 DEF Owned, Told, Pending, Resolved
  <2> QED BY <2>3, <2>4
<1> QED BY <1>3, <1>4

LEMMA RemoveSiteOInv == ASSUME TInv, OInv, RemoveSite PROVE OInv'
<1> SUFFICES ASSUME ~ overlap', failed' = {} PROVE (OneEach /\ OneInAll /\ Owned /\ Told)'
  BY DEF OInv
<1>1. /\ OneEach /\ OneInAll /\ Owned /\ Told
      /\ down' = Append(down, Disconnect) /\ Len(up') = 0 /\ serving' = {}
      /\ UNCHANGED <<promise, post, icons>>
  BY DEF OInv, RemoveSite, windowVars
<1>2. \A m : For(m)' <=> For(m)
  BY <1>1 DEF For, Pending
<1>3. \A i \in 1..Len(down') : down'[i].type = "connected" => i \in 1..Len(down) /\ down'[i] = down[i]
  BY <1>1 DEF TInv, Messages, Disconnect
<1>4. ~ InServing' /\ ~ InUp' /\ OneEach'
  BY <1>1, <1>3 DEF InServing, InUp, OneEach
<1>5. OneInAll'
  BY <1>1, <1>3, <1>4 DEF OneInAll, InPost, InDown, InIcons
<1>6. Owned' /\ Told'
  BY <1>1, <1>2, <1>3 DEF Owned, Told, Pending, Resolved
<1> QED BY <1>4, <1>5, <1>6

\* A page that makes its connect requests one after the other is told of the
\* authentication it asked for, by the background or the content script, as
\* long as no isEnabled() failed.
THEOREM AnswersOwn == Spec => []OwnAnswer
<1>1. ASSUME TInv, OInv, [Next]_vars PROVE OInv'
  <2>1. CASE UNCHANGED vars
    BY <1>1, <2>1 DEF vars, windowVars, scriptVars, OInv, OneEach, OneInAll, Owned, Told, For,
       Pending, Resolved, InPost, InDown, InUp, InIcons, InServing
  <2> QED
    BY <1>1, <2>1, CallOInv, PageReceivesOInv, SkipOInv, ConnectOInv, IconFetchedOInv, RpcOInv,
       ScriptReceivesOInv, ReceiveOInv, AnswerOInv, RemoveSiteOInv DEF Next
<1>2. OInv => OwnAnswer
  BY DEF OInv, Told, OwnAnswer
<1> QED BY <1>1, <1>2, InitOInv, Typed, PTL DEF Spec
-----------------------------------------------------------------------------
(* LostWithPort and NothingLost: where a call is after each step. *)

LEMMA HeadSet == ASSUME NEW S, NEW s \in Seq(S), s # <<>>
                 PROVE  ToSet(s) = {Head(s)} \cup ToSet(Tail(s))
<1>1. /\ Len(s) \in Nat \ {0} /\ Head(s) = s[1] /\ DOMAIN s = 1..Len(s)
      /\ DOMAIN Tail(s) = 1..(Len(s) - 1)
      /\ \A i \in 1..(Len(s) - 1) : Tail(s)[i] = s[i + 1]
  BY EmptySeq
<1>2. ASSUME NEW i \in 1..Len(s) PROVE s[i] \in {Head(s)} \cup ToSet(Tail(s))
  <2>1. i = 1 \/ (i - 1 \in 1..(Len(s) - 1) /\ Tail(s)[i - 1] = s[i])
    BY <1>1
  <2> QED BY <1>1, <2>1 DEF ToSet
<1>3. ASSUME NEW i \in 1..(Len(s) - 1) PROVE Tail(s)[i] \in ToSet(s)
  <2>1. i + 1 \in DOMAIN s /\ Tail(s)[i] = s[i + 1]
    BY <1>1
  <2> QED BY <2>1 DEF ToSet
<1>4. Head(s) \in ToSet(s)
  BY <1>1 DEF ToSet
<1> QED BY <1>1, <1>2, <1>3, <1>4 DEF ToSet

LEMMA AppendSet == ASSUME NEW S, NEW s \in Seq(S), NEW e
                   PROVE  ToSet(Append(s, e)) = ToSet(s) \cup {e}
<1>1. s \in Seq(S \cup {e}) /\ Len(s) \in Nat /\ DOMAIN s = 1..Len(s)
  OBVIOUS
<1>2. /\ DOMAIN Append(s, e) = 1..(Len(s) + 1) /\ Append(s, e)[Len(s) + 1] = e
      /\ \A i \in 1..Len(s) : Append(s, e)[i] = s[i]
  BY <1>1, AppendFacts, AppendProperties
<1>3. \A i \in 1..(Len(s) + 1) : i = Len(s) + 1 \/ i \in 1..Len(s)
  BY <1>1
<1>4. Len(s) + 1 \in 1..(Len(s) + 1) /\ \A i \in 1..Len(s) : i \in 1..(Len(s) + 1)
  BY <1>1
<1> QED BY <1>1, <1>2, <1>3, <1>4 DEF ToSet

\* The exceptions of LostWithPort.
Lost(c) ==
    \/ removals' # removals /\ c \in ToSet(up) \cup serving
    \/ port = "closing" /\ (c \in icons \/ Request(c) \in ToSet(post))
    \/ port = "none" /\ c \in icons \cup Queries
    \/ c \in failed'

\* A call stays on its way if what carries it does.
LEMMA StaysOnWay ==
    ASSUME NEW c, OnWay(c),
           Request(c) \in ToSet(post) => OnWay(c)', c \in icons => OnWay(c)',
           c \in ToSet(up) => OnWay(c)', c \in serving => OnWay(c)',
           \A m \in ToSet(post) \cup ToSet(down) :
              m.type \in {"connected", "response"} => m \in (ToSet(post) \cup ToSet(down))'
    PROVE  OnWay(c)'
<1>1. CASE Response(c, "cardano") \in ToSet(post) \cup ToSet(down)
  <2>1. Response(c, "cardano")' = Response(c, "cardano") /\ Response(c, "cardano").type = "response"
    BY DEF Response
  <2> QED BY <1>1, <2>1 DEF OnWay
<1>2. CASE c \in Connects /\ \E m \in ToSet(post) \cup ToSet(down) : m.type = "connected"
  BY <1>2 DEF OnWay, Connects
<1> QED BY <1>1, <1>2 DEF OnWay

LEMMA PageWay ==
    ASSUME TInv, NEW c \in Calls, promise[c] = "pending", OnWay(c), PageReceives
    PROVE  OnWay(c)' \/ Settled(c)'
<1> DEFINE m == Head(post)
<1>1. post # <<>> /\ ToSet(post) = {m} \cup ToSet(post)' /\ m.type \in {"connected", "response"}
  BY HeadSet DEF TInv, Messages, PageReceives
<1>2. icons' = icons /\ up' = up /\ serving' = serving /\ down' = down
  BY DEF PageReceives, scriptVars
<1>3. promise \in [Calls -> {"new", "pending", "resolved", "auth", "rejected"}]
  BY DEF TInv, Types
<1>4. CASE c \in Connects /\ m.type = "connected"
  <2>1. promise' = [d \in Calls |-> IF d \in Connects /\ promise[d] = "pending" THEN Outcome(d, m) ELSE promise[d]]
    BY <1>4 DEF PageReceives, ConnectedListener
  <2>2. promise'[c] \in {"rejected", "auth", "resolved"}
    BY <1>4, <2>1 DEF Outcome
  <2> QED BY <2>2 DEF Settled
<1>5. CASE m = Response(c, "cardano")
  <2>1. m.type = "response" /\ m.call = c /\ m.protocol = "cardano"
    BY <1>5 DEF Response
  <2> HIDE DEF m
  <2>2. promise' = [promise EXCEPT ![c] = "resolved"]
    BY <2>1 DEF PageReceives, ResponseListener, Settled, m
  <2>3. promise'[c] = "resolved"
    BY <1>3, <2>2
  <2> QED BY <2>3 DEF Settled
<1>6. CASE ~ (c \in Connects /\ m.type = "connected") /\ m # Response(c, "cardano")
  <2>1. m # Request(c)
    BY <1>1 DEF Request
  <2> HIDE DEF m
  <2>2. Request(c)' = Request(c) /\ Response(c, "cardano")' = Response(c, "cardano")
    BY DEF Request, Response
  <2> QED BY <1>1, <1>2, <1>6, <2>1, <2>2 DEF OnWay, Connects
<1> QED BY <1>4, <1>5, <1>6

\* The content script takes a request from the page.
LEMMA RequestWay ==
    ASSUME TInv, NEW c \in Calls, OnWay(c), NEW d \in Calls, Skip(d) \/ Connect(d) \/ Rpc(d)
    PROVE  OnWay(c)' \/ Lost(c)
<1>1. /\ ToSet(post) = {Request(d)} \cup ToSet(Tail(post)) /\ Tail(post) \in Seq(WindowMessage)
      /\ Request(d) \in ToSet(post)
  <2>1. post # <<>> /\ Head(post) = Request(d) /\ post \in Seq(WindowMessage)
    BY DEF TInv, Messages, Skip, Connect, Rpc
  <2>2. ToSet(post) = {Head(post)} \cup ToSet(Tail(post))
    BY <2>1, HeadSet
  <2> QED BY <2>1, <2>2, PostTail DEF TInv
<1>2. /\ \A m : Append(Tail(post), m) = post' => ToSet(post)' = ToSet(Tail(post)) \cup {m}
      /\ ToSet(post)' = ToSet(Tail(post)) \/ \E m : ToSet(post)' = ToSet(Tail(post)) \cup {m}
  <2>1. \A m : Append(Tail(post), m) = post' => ToSet(post)' = ToSet(Tail(post)) \cup {m}
    BY <1>1, AppendSet
  <2>2. post' = Tail(post) \/ \E m : post' = Append(Tail(post), m)
    BY DEF Skip, Connect, Rpc
  <2> QED BY <2>1, <2>2
<1>3. /\ down' = down /\ serving' = serving /\ icons \subseteq icons'
      /\ up' = up \/ up' = Append(up, d)
  BY DEF Skip, Connect, Rpc, Send, scriptVars
<1>4. up \in Seq(Calls) /\ ToSet(Append(up, d)) = ToSet(up) \cup {d}
  BY AppendSet DEF TInv, Types
<1>5. \A x : Request(x)' = Request(x) /\ (Request(x) = Request(d) => x = d) /\ Request(x).type = "request"
  BY DEF Request
<1>6. CASE c = d
  <2>1. CASE Skip(d)
    <3>1. post' = Append(Tail(post), Connected(TRUE, FALSE)) /\ c \in Connects
      BY <1>6, <2>1 DEF Skip
    <3>2. Connected(TRUE, FALSE) \in ToSet(post)' /\ Connected(TRUE, FALSE).type = "connected"
      BY <1>2, <3>1 DEF Connected
    <3> QED BY <3>1, <3>2 DEF OnWay, Connects
  <2>2. CASE Connect(d)
    BY <1>6, <2>2 DEF Connect, OnWay
  <2>3. CASE Rpc(d) /\ (HasPort \/ OpensPort(d))
    <3>1. Send(d)
      BY <2>3 DEF Rpc
    <3>2. CASE port = "closing"
      BY <1>1, <1>6, <3>2 DEF Lost
    <3>3. CASE port # "closing"
      <4>1. c \in ToSet(up)'
        BY <1>4, <1>6, <3>1, <3>3 DEF Send
      <4> QED BY <4>1 DEF OnWay
    <3> QED BY <3>2, <3>3
  <2>4. CASE Rpc(d) /\ ~ (HasPort \/ OpensPort(d))
    BY <1>6, <2>4 DEF Rpc, HasPort, OpensPort, Lost
  <2> QED BY <2>1, <2>2, <2>3, <2>4
<1>7. CASE c # d
  <2>1. Request(c) \in ToSet(post) => OnWay(c)'
    BY <1>1, <1>2, <1>5, <1>7 DEF OnWay
  <2>2. (c \in icons => OnWay(c)') /\ (c \in serving => OnWay(c)') /\ (c \in ToSet(up) => OnWay(c)')
    BY <1>3, <1>4 DEF OnWay
  <2>3. \A m \in ToSet(post) \cup ToSet(down) :
           m.type \in {"connected", "response"} => m \in (ToSet(post) \cup ToSet(down))'
    BY <1>1, <1>2, <1>3, <1>5
  <2> QED BY <2>1, <2>2, <2>3, StaysOnWay
<1> QED BY <1>6, <1>7

LEMMA IconWay ==
    ASSUME TInv, NEW c \in Calls, OnWay(c), NEW d \in Calls, IconFetched(d)
    PROVE  OnWay(c)' \/ Lost(c)
<1>1. /\ post' = post /\ down' = down /\ serving' = serving /\ icons' = icons \ {d}
      /\ up' = up \/ up' = Append(up, d)
      /\ HasPort => Send(d)
  BY DEF IconFetched, Send, windowVars
<1>2. ToSet(Append(up, d)) = ToSet(up) \cup {d}
  BY AppendSet DEF TInv, Types
<1>3. CASE c = d /\ c \in icons
  <2>1. CASE port = "open"
    <3>1. c \in ToSet(up)'
      BY <1>1, <1>2, <1>3, <2>1 DEF Send, HasPort
    <3> QED BY <3>1 DEF OnWay
  <2>2. CASE port # "open"
    BY <1>3, <2>2 DEF Lost, TInv, Types
  <2> QED BY <2>1, <2>2
<1>4. CASE ~ (c = d /\ c \in icons)
  <2>1. (c \in icons => OnWay(c)') /\ (c \in serving => OnWay(c)') /\ (c \in ToSet(up) => OnWay(c)')
    BY <1>1, <1>2, <1>4 DEF OnWay
  <2>2. Request(c) \in ToSet(post) => OnWay(c)'
    BY <1>1 DEF OnWay, Request
  <2> QED BY <1>1, <2>1, <2>2, StaysOnWay
<1> QED BY <1>3, <1>4

\* A message of the background reaches the content script.
LEMMA ScriptWay ==
    ASSUME TInv, NEW c \in Calls, OnWay(c), ScriptReceives
    PROVE  OnWay(c)'
<1> DEFINE m == Head(down)
<1>1. ToSet(down) = {m} \cup ToSet(down)'
  BY HeadSet DEF TInv, Messages, ScriptReceives
<1>2. /\ icons' = icons /\ up' = up /\ serving' = serving
      /\ post' = Append(post, m) \/ (post' = post /\ m.type = "disconnect")
  BY DEF ScriptReceives, ConnectResponse, DisconnectWallet
<1>3. ToSet(Append(post, m)) = ToSet(post) \cup {m}
  BY AppendSet DEF TInv, Messages
<1> HIDE DEF m
<1>4. \A x \in ToSet(post) \cup ToSet(down) :
         x.type \in {"connected", "response"} => x \in (ToSet(post) \cup ToSet(down))'
  BY <1>1, <1>2, <1>3
<1>5. (c \in icons => OnWay(c)') /\ (c \in serving => OnWay(c)') /\ (c \in ToSet(up) => OnWay(c)')
  BY <1>2 DEF OnWay
<1>6. Request(c) \in ToSet(post) => OnWay(c)'
  BY <1>2, <1>3 DEF OnWay, Request
<1> QED BY <1>4, <1>5, <1>6, StaysOnWay

\* The background's side.
LEMMA BackgroundWay ==
    ASSUME TInv, NEW c \in Calls, OnWay(c),
           Receive \/ (\E d \in Calls : Answer(d)) \/ RemoveSite
    PROVE  OnWay(c)' \/ Lost(c)
<1>1. post' = post /\ icons' = icons
  BY DEF Receive, Answer, RemoveSite, windowVars, scriptVars
<1>2. Request(c)' = Request(c)
  BY DEF Request
<1>3. (c \in icons => OnWay(c)') /\ (Request(c) \in ToSet(post) => OnWay(c)')
  BY <1>1, <1>2 DEF OnWay
<1>4. CASE Receive
  <2>1. ToSet(up) = {Head(up)} \cup ToSet(up)' /\ serving' = serving \cup {Head(up)} /\ down' = down
    BY <1>4, HeadSet DEF TInv, Types, Receive, scriptVars
  <2>2. (c \in serving => OnWay(c)') /\ (c \in ToSet(up) => OnWay(c)')
    BY <2>1 DEF OnWay
  <2> QED BY <1>1, <1>3, <2>1, <2>2, StaysOnWay
<1>5. ASSUME NEW d \in Calls, Answer(d) PROVE OnWay(c)' \/ Lost(c)
  <2>1. PICK m : /\ down' = Append(down, m)
                 /\ \/ d \in Connects /\ m.type = "connected"
                    \/ d \notin Connects /\ m = Response(d, "cardano")
                    \/ d \in failed'
    <3>1. CASE d \in Connects
      <4>1. PICK success \in BOOLEAN : down' = Append(down, Connected(success, success /\ d \in Identified))
        BY <1>5, <3>1, CallsAssumption DEF Answer, Connects
      <4>2. Connected(success, success /\ d \in Identified).type = "connected"
        BY DEF Connected
      <4> QED BY <3>1, <4>1, <4>2
    <3>2. CASE d \notin Connects
      BY <1>5, <3>2 DEF Answer
    <3> QED BY <3>1, <3>2
  <2>2. ToSet(down)' = ToSet(down) \cup {m} /\ up' = up /\ serving' = serving \ {d}
    BY <1>5, <2>1, AppendSet DEF TInv, Messages, Answer
  <2>3. c \in serving => OnWay(c)' \/ c \in failed'
    <3>1. CASE c # d
      BY <2>2, <3>1 DEF OnWay
    <3>2. CASE c = d
      BY <2>1, <2>2, <3>2 DEF OnWay, Connects, Response
    <3> QED BY <3>1, <3>2
  <2>4. c \in ToSet(up) => OnWay(c)'
    BY <2>2 DEF OnWay
  <2>5. CASE c \in failed'
    BY <2>5 DEF Lost
  <2>6. CASE c \notin failed'
    BY <1>1, <1>3, <2>2, <2>3, <2>4, <2>6, StaysOnWay
  <2> QED BY <2>5, <2>6
<1>6. CASE RemoveSite
  <2>1. removals' # removals
    BY <1>6, CallsAssumption DEF TInv, Types, RemoveSite
  <2>2. ToSet(down) \subseteq ToSet(down)'
    BY <1>6, AppendSet DEF TInv, Messages, RemoveSite
  <2>3. CASE c \in ToSet(up) \cup serving
    BY <2>1, <2>3 DEF Lost
  <2>4. CASE c \notin ToSet(up) \cup serving
    BY <1>1, <1>3, <2>2, <2>4, StaysOnWay
  <2> QED BY <2>3, <2>4
<1> QED BY <1>4, <1>5, <1>6

LEMMA NextWay ==
    ASSUME TInv, [Next]_vars, NEW c \in Calls, promise[c] = "pending", OnWay(c)
    PROVE  OnWay(c)' \/ Settled(c)' \/ Lost(c)
<1>1. CASE UNCHANGED vars
  BY <1>1 DEF vars, windowVars, scriptVars, OnWay, Request, Response, Connects
<1>2. ASSUME NEW d \in Calls, Call(d) PROVE OnWay(c)'
  <2>1. ToSet(post)' = ToSet(post) \cup {Request(d)}
    BY <1>2, AppendSet DEF TInv, Messages, Call
  <2> QED BY <1>2, <2>1 DEF Call, scriptVars, OnWay, Request, Response, Connects
<1> QED
  BY <1>1, <1>2, PageWay, RequestWay, IconWay, ScriptWay, BackgroundWay DEF Next

\* Whatever is removed in between, a call is lost only with its port, and the
\* answer to it never, unless it is an isEnabled() that fails.
THEOREM PortLosesCalls == Spec => LostWithPort
<1> DEFINE A == \A c \in Calls : promise[c] = "pending" /\ OnWay(c) /\ ~ OnWay(c)' /\ ~ Settled(c)' => Lost(c)
<1>1. TInv /\ [Next]_vars => [A]_vars
  BY NextWay
<1>2. Spec => [][A]_vars
  BY <1>1, Typed, PTL DEF Spec
<1> QED BY <1>2 DEF LostWithPort, A, Lost

\* Without removals: nobody closes a port, and before there is one nobody has
\* an API and nothing is on its way from the background.
PortFirst == removals = 0 =>
    /\ port # "closing"
    /\ port = "none" =>
          /\ icons = {}
          /\ \A c \in Queries : promise[c] = "new"
          /\ \A c \in Connects : ~ Resolved(c)
          /\ \A i \in 1..Len(post) :
                /\ post[i].type # "connected"
                /\ post[i].type = "response" => post[i].protocol = "none"

LEMMA InitPortFirst == Init => PortFirst
<1>1. Init => Len(post) = 0
  BY DEF Init
<1> QED BY <1>1 DEF Init, PortFirst, Calls, Connects, Resolved

LEMMA NoneRemoved == ASSUME TInv, [Next]_vars, removals' = 0 PROVE removals = 0 /\ ~ RemoveSite
<1>1. removals \in Nat
  BY CallsAssumption DEF TInv, Types
<1>2. ~ RemoveSite
  BY <1>1 DEF RemoveSite
<1>3. removals' = removals
  BY <1>2 DEF Next, Call, Skip, Connect, IconFetched, Rpc, Answer, PageReceives,
     ScriptReceives, Receive, vars
<1> QED BY <1>2, <1>3

LEMMA NextPortFirst == ASSUME TInv, PortFirst, [Next]_vars PROVE PortFirst'
<1> SUFFICES ASSUME removals' = 0 PROVE PortFirst'
  BY DEF PortFirst
<1>1. removals = 0 /\ ~ RemoveSite
  BY NoneRemoved
<1>2. port # "closing"
  BY <1>1 DEF PortFirst
<1>3. ASSUME ScriptReceives PROVE port' = port /\ port = "open"
  <2>1. down # <<>> /\ Head(down) = down[1] /\ Len(down) \in Nat \ {0}
    BY <1>3, EmptySeq DEF TInv, Messages, ScriptReceives
  <2>2. Head(down).type # "disconnect"
    BY <1>2, <2>1 DEF TInv, Closing
  <2> QED BY <1>2, <1>3, <2>1, <2>2 DEF TInv, Types, ScriptReceives
<1>4. port' \in {port, "open"}
  BY <1>1, <1>3 DEF Next, Call, Skip, Connect, IconFetched, Rpc, Answer, PageReceives,
     Receive, vars, scriptVars, OpenPort
<1>5. CASE port' = "open"
  BY <1>5 DEF PortFirst
<1>6. CASE port = "none" /\ port' = "none"
  <2> DEFINE Quiet(m) == m.type # "connected" /\ (m.type = "response" => m.protocol = "none")
  <2>1. /\ icons = {} /\ (\A c \in Queries : promise[c] = "new") /\ (\A c \in Connects : ~ Resolved(c))
        /\ \A i \in 1..Len(post) : Quiet(post[i])
    BY <1>1, <1>6 DEF PortFirst
  <2> HIDE DEF Quiet
  <2>2. serving = {} /\ up = <<>> /\ promise \in [Calls -> {"new", "pending", "resolved", "auth", "rejected"}]
    BY <1>6 DEF TInv, Types
  <2>3. SUFFICES /\ icons' = {} /\ (\A c \in Queries : promise'[c] = "new")
                 /\ (\A c \in Connects : ~ Resolved(c)')
                 /\ \A i \in 1..Len(post') : Quiet(post'[i])
    BY <1>6 DEF PortFirst, Quiet, Connects, Resolved
  <2>4. ASSUME NEW c \in Calls, Call(c)
        PROVE  /\ icons' = {} /\ (\A d \in Queries : promise'[d] = "new")
               /\ (\A d \in Connects : ~ Resolved(d)')
               /\ \A i \in 1..Len(post') : Quiet(post'[i])
    <3>1. c \notin Queries /\ icons' = icons /\ promise' = [promise EXCEPT ![c] = "pending"]
          /\ post' = Append(post, Request(c))
      BY <2>1, <2>4 DEF Call, scriptVars
    <3>2. Quiet(Request(c))
      BY DEF Quiet, Request
    <3>3. \A i \in 1..Len(post') :
             (i \in 1..Len(post) /\ post'[i] = post[i]) \/ post'[i] = Request(c)
      BY <3>1, AppendFacts DEF TInv, Messages
    <3> QED BY <2>1, <2>2, <3>1, <3>2, <3>3 DEF Resolved, Calls, Connects
  <2>5. ASSUME post # <<>>
        PROVE  \A i \in 1..Len(Tail(post)) : Quiet(Tail(post)[i])
    <3>1. /\ Len(post) \in Nat \ {0} /\ Len(Tail(post)) = Len(post) - 1
          /\ \A i \in 1..Len(Tail(post)) : Tail(post)[i] = post[i + 1]
      BY <2>5, PostTail, EmptySeq DEF TInv, Messages
    <3> QED BY <2>1, <3>1
  <2>6. CASE PageReceives
    <3>1. post # <<>> /\ post' = Tail(post) /\ icons' = icons /\ Quiet(Head(post))
      <4>1. post # <<>> /\ Head(post) = post[1] /\ Len(post) \in Nat \ {0}
        BY <2>6, EmptySeq DEF TInv, Messages, PageReceives
      <4> QED BY <2>1, <2>6, <4>1 DEF PageReceives, scriptVars
    <3>2. promise' = promise
      BY <2>6, <3>1 DEF PageReceives, ResponseListener, Quiet
    <3> QED BY <2>1, <2>5, <3>1, <3>2 DEF Resolved
  <2>7. ASSUME NEW c \in Calls, Rpc(c)
        PROVE  /\ icons' = {} /\ promise' = promise
               /\ \A i \in 1..Len(post') : Quiet(post'[i])
    <3>1. /\ post # <<>> /\ icons' = icons /\ promise' = promise
          /\ post' = Append(Tail(post), Response(c, "none"))
      BY <1>6, <2>7 DEF Rpc, OpenPort, HasPort
    <3>2. Quiet(Response(c, "none"))
      BY DEF Quiet, Response
    <3>3. Tail(post) \in Seq(WindowMessage)
      BY <3>1, PostTail DEF TInv
    <3>4. \A i \in 1..Len(post') :
             (i \in 1..Len(Tail(post)) /\ post'[i] = Tail(post)[i]) \/ post'[i] = Response(c, "none")
      BY <3>1, <3>3, AppendFacts
    <3> QED BY <2>1, <2>5, <3>1, <3>2, <3>4
  <2>8. CASE UNCHANGED <<promise, post, icons>>
    BY <2>1, <2>8 DEF Resolved
  <2>9. ASSUME NEW c \in Calls, Skip(c) \/ Connect(c) \/ IconFetched(c) \/ Answer(c) PROVE FALSE
    BY <1>6, <2>1, <2>2, <2>9 DEF Skip, CanSkip, HasPort, Connect, OpenPort, IconFetched, Answer
  <2>10. ~ Receive /\ ~ ScriptReceives
    BY <1>3, <1>6, <2>2 DEF Receive
  <2> QED BY <1>1, <2>1, <2>4, <2>6, <2>7, <2>8, <2>9, <2>10 DEF Next, vars, windowVars, scriptVars, Resolved
<1> QED BY <1>2, <1>4, <1>5, <1>6 DEF TInv, Types

LEMMA NextNothingLost ==
    ASSUME TInv, PortFirst, PortFirst', NothingLost, [Next]_vars PROVE NothingLost'
<1> SUFFICES ASSUME removals' = 0, NEW c \in Calls, promise'[c] = "pending", c \notin failed'
             PROVE  OnWay(c)'
  BY DEF NothingLost, Calls, Connects
<1>1. removals = 0 /\ c \notin failed
  <2>1. failed \subseteq failed'
    BY DEF Next, Call, Skip, Connect, IconFetched, Rpc, Answer, PageReceives, ScriptReceives,
       Receive, RemoveSite, vars
  <2> QED BY <2>1, NoneRemoved
<1>2. CASE promise[c] = "pending"
  <2>1. OnWay(c)
    BY <1>1, <1>2 DEF NothingLost
  <2>2. ~ Settled(c)'
    BY DEF Settled
  <2>3. ~ Lost(c)
    BY <1>1, <1>2 DEF Lost, PortFirst
  <2> QED BY <1>2, <2>1, <2>2, <2>3, NextWay
<1>3. CASE promise[c] # "pending"
  <2>1. Call(c)
    <3>1. promise \in [Calls -> {"new", "pending", "resolved", "auth", "rejected"}]
      BY DEF TInv, Types
    <3>2. ~ PageReceives
      BY <1>3, <3>1 DEF PageReceives, ConnectedListener, Outcome, ResponseListener
    <3>3. ASSUME NEW d \in Calls, Call(d) PROVE d = c
      BY <1>3, <3>1, <3>3 DEF Call
    <3>4. promise' # promise
      BY <1>3
    <3> QED BY <3>2, <3>3, <3>4 DEF Next, Skip, Connect, IconFetched, Rpc, Answer, ScriptReceives,
               Receive, RemoveSite, vars, windowVars
  <2>2. ToSet(post)' = ToSet(post) \cup {Request(c)}
    BY <2>1, AppendSet DEF TInv, Messages, Call
  <2> QED BY <2>2 DEF OnWay, Request
<1> QED BY <1>2, <1>3

\* As long as no site is removed, every call the page waits for is on its way
\* to the background, at work there, or being answered, but for an isEnabled()
\* that failed.
THEOREM CallsAreNotLost == Spec => []NothingLost
<1>1. Init => NothingLost
  BY DEF Init, NothingLost
<1>2. Spec => []PortFirst
  BY InitPortFirst, NextPortFirst, Typed, PTL DEF Spec
<1>3. TInv /\ PortFirst /\ PortFirst' /\ NothingLost /\ [Next]_vars => NothingLost'
  BY NextNothingLost
<1> QED BY <1>1, <1>2, <1>3, Typed, PTL DEF Spec
===============================================================================
