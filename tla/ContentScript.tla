----------------------------- MODULE ContentScript -----------------------------
(***************************************************************************)
(* A page of a dApp, the scripts injected into it and the content script   *)
(* (yoroi-ergo-connector/src/inject.js), with the Cardano protocol.  The   *)
(* background is here only what its side of the port does; DappConnector   *)
(* is about what it does to answer.                                        *)
(*                                                                         *)
(* promise    what became of each call of the page; "auth": resolved with  *)
(*            an API that has the authentication asked for                 *)
(* post       messages of the window: of the page to the content script    *)
(*            and back, delivered in this order                            *)
(* icons      connect requests whose favicon is being fetched              *)
(* port       yoroiPort: "none" is null; "closing": the background has     *)
(*            closed it, the content script does not know yet              *)
(* up, down   messages on their way to the background and back             *)
(* serving    calls the background works at                                *)
(* injected   cardanoApiInjected                                           *)
(* known      the background has a ConnectedSite of the page: it allowed   *)
(*            a connection                                                 *)
(* linked     history variable: of the port the content script has, a      *)
(*            connection was reported                                      *)
(* overlap    history variable: a connect request was made while another   *)
(*            one was not settled                                          *)
(* failed     history variable: calls of isEnabled() whose error the         *)
(*            background posted as the refusal of a connect request        *)
(* removals   how often the user removed the site                          *)
(*                                                                         *)
(* Left out: the Ergo protocol, and that injecting a script may throw.     *)
(***************************************************************************)
EXTENDS Naturals, Sequences, SequencesExt

CONSTANTS Plain,        \* calls of enable()
          Identified,   \* calls of enable({requestIdentification})
          Checks,       \* calls of isEnabled()
          Queries,      \* calls of the API that enable() resolves to
          MaxRemovals   \* bound: removals of the site

ASSUME CallsAssumption ==
    /\ Plain \cap Identified = {}
    /\ (Plain \cup Identified) \cap (Checks \cup Queries) = {}
    /\ MaxRemovals \in Nat

VARIABLES promise, post, icons, port, up, down, serving, injected, known,
          linked, overlap, failed, removals

windowVars == <<promise, post>>
scriptVars == <<icons, port, injected, linked>>
vars == <<windowVars, scriptVars, up, down, serving, known, overlap, failed, removals>>

Connects == Plain \cup Identified
Calls == Connects \cup Checks \cup Queries

Request(c) == [type |-> "request", call |-> c]
Response(c, protocol) == [type |-> "response", call |-> c, protocol |-> protocol]
Connected(success, auth) == [type |-> "connected", success |-> success, auth |-> auth]
Disconnect == [type |-> "disconnect"]

\* One type invariant; a port that is gone has nothing under way, and the
\* last message of one the background closed says so.
TypeOK ==
    /\ promise \in [Calls -> {"new", "pending", "resolved", "auth", "rejected"}]
    /\ icons \subseteq Connects /\ serving \subseteq Calls
    /\ up \in Seq(Calls)
    /\ port \in {"none", "open", "closing"}
    /\ port = "none" => up = <<>> /\ down = <<>>
    /\ port # "open" => serving = {}
    /\ port = "closing" <=> down # <<>> /\ Last(down) = Disconnect
    /\ injected \in BOOLEAN /\ known \in BOOLEAN /\ linked \in BOOLEAN /\ overlap \in BOOLEAN
    /\ failed \subseteq Checks /\ removals \in 0..MaxRemovals

Init ==
    /\ promise = [c \in Calls |-> "new"]
    /\ post = <<>> /\ icons = {}
    /\ port = "none" /\ up = <<>> /\ down = <<>> /\ serving = {}
    /\ injected = FALSE /\ known = FALSE
    /\ linked = FALSE /\ overlap = FALSE /\ failed = {} /\ removals = 0

Resolved(c) == promise[c] \in {"resolved", "auth"}
Settled(c) == promise[c] \notin {"new", "pending"}
-----------------------------------------------------------------------------
(* The page *)

\* enable(), isEnabled(), and with an API any method of it.
Call(c) ==
    /\ promise[c] = "new"
    /\ c \in Queries => \E d \in Connects : Resolved(d)
    /\ promise' = [promise EXCEPT ![c] = "pending"]
    /\ post' = Append(post, Request(c))
    /\ overlap' = (overlap \/ (c \in Connects /\ \E d \in Connects : promise[d] = "pending"))
    /\ UNCHANGED <<scriptVars, up, down, serving, known, failed, removals>>

\* connector_connected: every promise in connectRequests is settled alike.
Outcome(c, message) ==
    CASE ~ message.success -> "rejected"
      [] message.success /\ message.auth -> "auth"
      [] OTHER -> "resolved"
ConnectedListener(message) ==
    promise' = [c \in Calls |-> IF c \in Connects /\ promise[c] = "pending"
                                THEN Outcome(c, message) ELSE promise[c]]

\* connector_rpc_response: the listener takes those of its protocol only.
ResponseListener(message) ==
    promise' = IF message.protocol = "cardano" /\ ~ Settled(message.call)
               THEN [promise EXCEPT ![message.call] = "resolved"] ELSE promise

PageReceives ==
    /\ post # <<>>
    /\ LET message == Head(post)
       IN  \/ message.type = "connected" /\ ConnectedListener(message)
           \/ message.type = "response" /\ ResponseListener(message)
    /\ post' = Tail(post)
    /\ UNCHANGED <<scriptVars, up, down, serving, known, overlap, failed, removals>>
-----------------------------------------------------------------------------
(* The content script *)

HasPort == port # "none"
\* createYoroiPort
OpenPort == port' = IF HasPort THEN port ELSE "open"

\* Changed: an identification makes no difference.
CanSkipAll(c) == injected /\ HasPort

\* handleConnectorConnectRequest: the API is in the page and there is a port,
\* so the content script answers for the background; a request with an
\* identification needs the background's answer.
CanSkip(c) == injected /\ HasPort /\ c \in Plain

Skip(c) ==
    /\ post # <<>> /\ Head(post) = Request(c) /\ c \in Connects /\ CanSkip(c)
    /\ post' = Append(Tail(post), Connected(TRUE, FALSE))
    /\ UNCHANGED <<promise, scriptVars, up, down, serving, known, overlap, failed, removals>>

\* handleConnectorConnectRequest otherwise: the favicon is fetched first.
Connect(c) ==
    /\ post # <<>> /\ Head(post) = Request(c) /\ c \in Connects /\ ~ CanSkip(c)
    /\ post' = Tail(post)
    /\ OpenPort
    /\ icons' = icons \cup {c}
    /\ UNCHANGED <<promise, injected, linked, up, down, serving, known, overlap, failed, removals>>

\* Changed: posted before the port is opened.
SendFirst(c) == up' = IF port # "open" THEN up ELSE Append(up, c)

\* What is posted to a port the background has closed is lost.
Send(c) == up' = IF port = "closing" THEN up ELSE Append(up, c)

\* The favicon is there.  Without a port the promise of the fetch fails, and
\* nobody hears of it.
IconFetched(c) ==
    /\ c \in icons
    /\ icons' = icons \ {c}
    /\ IF HasPort THEN Send(c) ELSE UNCHANGED up
    /\ UNCHANGED <<windowVars, port, injected, linked, down, serving, known, overlap, failed, removals>>

\* Changed: isEnabled() opens no port.
OpensPortNever(c) == FALSE

\* isEnabled() opens a port if there is none.
OpensPort(c) == c \in Checks

\* handleConnectorRpcRequest; without a port it answers "Wallet disconnected",
\* in a message that names no protocol.
Rpc(c) ==
    /\ post # <<>> /\ Head(post) = Request(c) /\ c \in Checks \cup Queries
    /\ IF HasPort \/ OpensPort(c)
       THEN post' = Tail(post) /\ Send(c) /\ OpenPort
       ELSE post' = Append(Tail(post), Response(c, "none")) /\ UNCHANGED <<up, port>>
    /\ UNCHANGED <<promise, icons, injected, linked, down, serving, known, overlap, failed, removals>>

\* Changed: the API is injected with any answer.
ConnectResponseAlways(message) ==
    /\ injected' = TRUE
    /\ linked' = (linked \/ message.success)
    /\ post' = Append(post, message)

\* yoroi_connect_response/cardano: with a success the API is injected.
ConnectResponse(message) ==
    /\ injected' = (injected \/ message.success)
    /\ linked' = (linked \/ message.success)
    /\ post' = Append(post, message)

\* Changed: yoroiPort is not reset.
DisconnectKeepsPort ==
    /\ linked' = FALSE
    /\ UNCHANGED <<port, injected, post>>

\* disconnectWallet
DisconnectWallet ==
    /\ port' = "none" /\ linked' = FALSE
    /\ UNCHANGED <<injected, post>>

ScriptReceives ==
    /\ down # <<>>
    /\ down' = Tail(down)
    /\ LET message == Head(down)
       IN  \/ /\ message.type = "connected" /\ ConnectResponse(message)
              /\ UNCHANGED port
           \/ /\ message.type = "response" /\ post' = Append(post, message)
              /\ UNCHANGED <<port, injected, linked>>
           \/ message.type = "disconnect" /\ DisconnectWallet
    /\ UNCHANGED <<promise, icons, up, serving, known, overlap, failed, removals>>
-----------------------------------------------------------------------------
(* The background's side of the port *)

Receive ==
    /\ up # <<>>
    /\ up' = Tail(up) /\ serving' = serving \cup {Head(up)}
    /\ UNCHANGED <<windowVars, scriptVars, down, known, overlap, failed, removals>>

\* A connect request is answered with what the user decided or decided
\* before, any other call with its result or an error.  An isEnabled() that
\* throws is answered as if a connect request had been refused.
Answer(c) ==
    /\ c \in serving
    /\ serving' = serving \ {c}
    /\ \/ /\ c \in Connects
          /\ \E success \in BOOLEAN :
                /\ down' = Append(down, Connected(success, success /\ c \in Identified))
                /\ known' = (known \/ success)
          /\ UNCHANGED failed
       \/ /\ c \notin Connects
          /\ down' = Append(down, Response(c, "cardano"))
          /\ UNCHANGED <<known, failed>>
       \/ /\ c \in Checks
          /\ down' = Append(down, Connected(FALSE, FALSE))
          /\ failed' = failed \cup {c}
          /\ UNCHANGED known
    /\ UNCHANGED <<windowVars, scriptVars, up, overlap, removals>>

\* remove_wallet_from_whitelist: the port is closed, so that what was asked
\* through it is not answered; the ConnectedSite stays.
RemoveSite ==
    /\ known /\ port = "open" /\ removals < MaxRemovals
    /\ removals' = removals + 1
    /\ port' = "closing"
    /\ down' = Append(down, Disconnect)
    /\ up' = <<>> /\ serving' = {}
    /\ UNCHANGED <<windowVars, icons, injected, linked, known, overlap, failed>>
-----------------------------------------------------------------------------
Next ==
    \/ \E c \in Calls : Call(c) \/ Skip(c) \/ Connect(c) \/ IconFetched(c) \/ Rpc(c) \/ Answer(c)
    \/ PageReceives \/ ScriptReceives \/ Receive \/ RemoveSite

Spec == Init /\ [][Next]_vars

\* Messages are delivered, favicons come or fail, the background answers
\* (Answered of DappConnector).
FairSpec ==
    /\ Spec
    /\ WF_vars(PageReceives \/ \E c \in Calls : Skip(c) \/ Connect(c) \/ Rpc(c))
    /\ WF_vars(ScriptReceives) /\ WF_vars(Receive)
    /\ \A c \in Calls : WF_vars(IconFetched(c)) /\ WF_vars(Answer(c))
-----------------------------------------------------------------------------
(* Properties *)

\* No page holds an API for a site whose connection nobody ever allowed,
\* whoever answered its request.
ApprovedOnce == \A c \in Connects : Resolved(c) => known

\* A page that makes its connect requests one after the other gets the
\* authentication it asks for, and none it did not ask for.  Not so after a
\* failed isEnabled(): it refuses a request whose answer is still to come, and
\* that answer settles the next one.
OwnAnswer ==
    ~ overlap /\ failed = {} => \A c \in Connects : Resolved(c) => (promise[c] = "auth" <=> c \in Identified)

\* A call of the page is on its way: to the background, at work there, or
\* with an answer coming; any answer to a connect request is one to all.
OnWay(c) ==
    LET coming == ToSet(post) \cup ToSet(down)
    IN  \/ Request(c) \in ToSet(post) \/ c \in icons
        \/ c \in ToSet(up) \/ c \in serving
        \/ Response(c, "cardano") \in coming
        \/ c \in Connects /\ \E m \in coming : m.type = "connected"

\* As long as no site was removed, no call of the page is lost: the port is
\* there before anything has to go through it and nobody closes it.  Only an
\* isEnabled() that failed waits for ever.
NothingLost ==
    removals = 0 => \A c \in Calls : promise[c] = "pending" => OnWay(c) \/ c \in failed

\* With removals, a call is lost only with the port, and never the answer to
\* it: at the background by the removal itself, by a message to a port that
\* the background has closed, or as a favicon or a method of the API comes
\* when there is no port any more.  A failed isEnabled() is not answered.
LostWithPort == [][
    \A c \in Calls : promise[c] = "pending" /\ OnWay(c) /\ ~ OnWay(c)' /\ ~ Settled(c)' =>
        \/ removals' # removals /\ c \in ToSet(up) \cup serving
        \/ port = "closing" /\ (c \in icons \/ Request(c) \in ToSet(post))
        \/ port = "none" /\ c \in icons \cup Queries
        \/ c \in failed']_vars

\* Every call the content script gets is settled, also the first ones after
\* the background closed the port, unless it closes the port once more.  Not
\* so the methods of an API whose port is closed: the page drops their answer;
\* nor an isEnabled() that fails: it gets none.
Reached(c) ==
    /\ Request(c) \in ToSet(post)
    /\ port # "closing" /\ (c \in Queries => port = "open")
Answered ==
    \A c \in Calls : \A n \in 0..MaxRemovals :
        Reached(c) /\ removals = n ~> Settled(c) \/ removals # n \/ c \in failed

\* inject.js: "we can skip communication - API injected + hasn't been
\* disconnected".  Does not hold: isEnabled() opens a port again after the
\* connection was closed, and the API stays injected.
SkipsOnlyConnected == [][\A c \in Connects : Skip(c) => linked]_vars
=============================================================================
