-------------------------- MODULE RealtimeChannels --------------------------
(***************************************************************************)
(* The realtime provider's channels and the streams written over them      *)
(* (platform/realtime/supabase-realtime.ts).  The provider keeps two maps  *)
(* by name, of its own channels and of the client's; whoever asked for a   *)
(* channel keeps the object, whatever becomes of the maps.  Removing and   *)
(* disconnecting wait for the client between closing a channel and         *)
(* forgetting it, and anything may be called meanwhile.                    *)
(*                                                                         *)
(* The client and the network are external: a message reaches the joined   *)
(* channels of its name in the order sent, its sender's included (self),   *)
(* or is lost.                                                             *)
(***************************************************************************)
EXTENDS Integers, Sequences

CONSTANTS
  Names,       \* channels' names
  Handlers,
  MaxLinks,    \* BOUND: channels opened
  MaxWriters,  \* BOUND: streams created
  MaxSent,     \* BOUND: messages
  MaxCalls     \* BOUND: subscriptions, and removals, presence calls and disconnects

NoName == "none"

\* What the constants are to satisfy (Services assumes it).
ChannelsAssumption ==
  {MaxLinks, MaxWriters, MaxSent, MaxCalls} \subseteq Nat /\ NoName \notin Names

VARIABLES
  state,      \* connectionState
  channels,   \* channels: the last channel opened under a name, 0 when there is none
  clients,    \* supabaseChannels, likewise
  links,      \* every channel object ever made, with its client's channel
  writers,
  removals,   \* removeChannel calls that wait for the client: [name, link]
  leaving,    \* what disconnect waits for: [name, link], name NoName when it does not
  heard,      \* heard[h]: [link, writer, type] (history variable)
  calls, sent,
  orphaned    \* channels opened behind the provider's back (history variable)

vars == <<state, channels, clients, links, writers, removals, leaving, heard, calls,
          sent, orphaned>>

MessageType == {"stream-chunk", "stream-end", "stream-error"}
Message == [writer : 1..MaxWriters, type : MessageType]

\* handlers: how often each is subscribed.
Link == [name : Names, subscribed : BOOLEAN, handlers : [Handlers -> 0..MaxCalls],
         listeners : 0..MaxCalls, joined : BOOLEAN, present : BOOLEAN, inbox : Seq(Message)]

NoHandlers == [h \in Handlers |-> 0]

NewLink(n) == [name |-> n, subscribed |-> FALSE, handlers |-> NoHandlers, listeners |-> 0,
               joined |-> FALSE, present |-> FALSE, inbox |-> <<>>]

TypeOK ==
  /\ state \in {"disconnected", "connected"}
  /\ channels \in [Names -> 0..MaxLinks] /\ clients \in [Names -> 0..MaxLinks]
  /\ links \in Seq(Link) /\ Len(links) <= MaxLinks
  /\ writers \in Seq([on : 1..MaxLinks, closed : BOOLEAN])
  /\ removals \subseteq [name : Names, link : 1..MaxLinks]
  /\ leaving \in [name : Names \cup {NoName}, link : 0..MaxLinks]
  /\ heard \in [Handlers -> Seq([link : 1..MaxLinks, writer : 1..MaxWriters,
                                 type : MessageType])]
  /\ calls \in 0..MaxCalls /\ sent \in 0..MaxSent
  /\ orphaned \subseteq DOMAIN links

Init ==
  /\ state = "disconnected"
  /\ channels = [n \in Names |-> 0] /\ clients = [n \in Names |-> 0]
  /\ links = <<>> /\ writers = <<>>
  /\ removals = {}
  /\ leaving = [name |-> NoName, link |-> 0]
  /\ heard = [h \in Handlers |-> <<>>]
  /\ calls = 0 /\ sent = 0
  /\ orphaned = {}

Call == calls < MaxCalls /\ calls' = calls + 1

-----------------------------------------------------------------------------
(* Channels *)

\* channel(n): the one in the map, or a new one, which both maps then hold.
Current(n) == IF channels[n] # 0 THEN channels[n] ELSE Len(links) + 1
Opened(n) == IF channels[n] # 0 THEN links ELSE Append(links, NewLink(n))

Claim(n) ==
  /\ Current(n) <= MaxLinks
  /\ channels' = [channels EXCEPT ![n] = Current(n)]
  /\ clients' = IF channels[n] # 0 THEN clients ELSE [clients EXCEPT ![n] = Current(n)]

\* A handler more; the first one has the client listen and join.  The handlers of
\* a channel that was unsubscribed and is subscribed again are called once more
\* for every message.
Subscribed(l, h) ==
  [l EXCEPT !.handlers[h] = @ + 1, !.subscribed = TRUE,
            !.listeners = IF l.subscribed THEN @ ELSE @ + 1,
            !.joined = IF l.subscribed THEN @ ELSE TRUE]

\* The provider knows of the client's channel of link o, and will close it.
Held(o) == clients[links[o].name] = o /\ \A r \in removals \cup {leaving} : r.link # o

\* subscribeStream, and subscribe on a channel just asked for.
SubscribeStream(n, h) ==
  /\ Call
  /\ Claim(n)
  /\ links' = [Opened(n) EXCEPT ![Current(n)] = Subscribed(@, h)]
  /\ orphaned' = IF channels[n] # 0 /\ ~Held(channels[n]) /\ ~links[channels[n]].subscribed
                 THEN orphaned \cup {channels[n]} ELSE orphaned
  /\ UNCHANGED <<state, writers, removals, leaving, heard, sent>>

\* subscribe on a channel asked for earlier, which may have been removed since.
Subscribe(o, h) ==
  /\ Call
  /\ links' = [links EXCEPT ![o] = Subscribed(@, h)]
  /\ orphaned' = IF ~Held(o) /\ ~links[o].subscribed THEN orphaned \cup {o} ELSE orphaned
  /\ UNCHANGED <<state, channels, clients, writers, removals, leaving, heard, sent>>

\* Every subscription of the same handler goes with the first that is given up.
GiveUp(o, h) ==
  /\ links[o].handlers[h] > 0
  /\ links' = [links EXCEPT ![o].handlers[h] = 0]
  /\ UNCHANGED <<state, channels, clients, writers, removals, leaving, heard, calls, sent, orphaned>>

\* Mutant: the client is not told.
LeftOpen(l) == l

\* The client leaves the channel: nothing more arrives over it.
Left(l) == [l EXCEPT !.joined = FALSE, !.present = FALSE, !.inbox = <<>>]

Unsubscribed(l) == [Left(l) EXCEPT !.handlers = NoHandlers, !.subscribed = FALSE]

Unsubscribe(o) ==
  /\ Call
  /\ links' = [links EXCEPT ![o] = Unsubscribed(@)]
  /\ UNCHANGED <<state, channels, clients, writers, removals, leaving, heard, sent, orphaned>>

Present(o, there) ==
  /\ links[o].joined /\ links[o].present # there
  /\ Call
  /\ links' = [links EXCEPT ![o].present = there]
  /\ UNCHANGED <<state, channels, clients, writers, removals, leaving, heard, sent, orphaned>>

-----------------------------------------------------------------------------
(* removeChannel and disconnect *)

\* The entry of name n is dropped, whichever channel it is by now.
Forget(n, o) ==
  /\ clients' = [clients EXCEPT ![n] = 0]
  /\ orphaned' = IF clients[n] \notin {0, o} THEN orphaned \cup {clients[n]} ELSE orphaned

\* Up to the wait: the channel is unsubscribed and gone from its map.
RemoveChannel(n) ==
  /\ Call
  /\ channels' = [channels EXCEPT ![n] = 0]
  /\ links' = [o \in DOMAIN links |->
                 CASE o = channels[n] -> Unsubscribed(links[o])
                   [] o # channels[n] /\ o = clients[n] -> Left(links[o])
                   [] OTHER -> links[o]]
  /\ removals' = IF clients[n] = 0 THEN removals
                 ELSE removals \cup {[name |-> n, link |-> clients[n]]}
  /\ UNCHANGED <<state, clients, writers, leaving, heard, sent, orphaned>>

RemovalAnswered(r) ==
  /\ r \in removals
  /\ removals' = removals \ {r}
  /\ Forget(r.name, r.link)
  /\ UNCHANGED <<state, channels, links, writers, leaving, heard, calls, sent>>

\* Goes to the next entry, or has closed them all: the channels are forgotten
\* without being unsubscribed, and think themselves subscribed still.
CloseNext(entries) ==
  \/ \E n \in Names :
       /\ entries[n] # 0
       /\ leaving' = [name |-> n, link |-> entries[n]]
       /\ links' = [links EXCEPT ![entries[n]] = Left(@)]
       /\ UNCHANGED <<channels, state>>
  \/ /\ \A n \in Names : entries[n] = 0
     /\ leaving' = [name |-> NoName, link |-> 0]
     /\ channels' = [n \in Names |-> 0]
     /\ state' = "disconnected"
     /\ UNCHANGED links

Disconnect ==
  /\ leaving.name = NoName
  /\ Call
  /\ CloseNext(clients)
  /\ UNCHANGED <<clients, writers, removals, heard, sent, orphaned>>

DisconnectAnswered ==
  /\ leaving.name # NoName
  /\ Forget(leaving.name, leaving.link)
  /\ CloseNext(clients')
  /\ UNCHANGED <<writers, removals, heard, calls, sent>>

Connect ==
  /\ state # "connected"
  /\ state' = "connected"
  /\ UNCHANGED <<channels, clients, links, writers, removals, leaving, heard, calls, sent, orphaned>>

-----------------------------------------------------------------------------
(* Streams *)

\* A writer keeps the channel that was its session's when it was made.
CreateStream(n) ==
  /\ Len(writers) < MaxWriters
  /\ Claim(n)
  /\ links' = Opened(n)
  /\ writers' = Append(writers, [on |-> Current(n), closed |-> FALSE])
  /\ UNCHANGED <<state, removals, leaving, heard, calls, sent, orphaned>>

\* broadcast: to every joined channel of the name.  A failed one is only warned of.
Broadcast(w, type) ==
  LET from == links[writers[w].on].name
      message == [writer |-> w, type |-> type]
  IN
  /\ sent < MaxSent /\ sent' = sent + 1
  /\ \/ links' = [o \in DOMAIN links |->
                    IF links[o].name = from /\ links[o].joined
                    THEN [links[o] EXCEPT !.inbox = Append(@, message)] ELSE links[o]]
     \/ UNCHANGED links

\* write, of a chunk or of the last one; a closed writer throws.
WriteChunk(w, type) ==
  /\ ~writers[w].closed
  /\ type # "stream-error"
  /\ Broadcast(w, type)
  /\ UNCHANGED <<state, channels, clients, writers, removals, leaving, heard, calls, orphaned>>

\* close: the readers are not told.
Close(w) ==
  /\ ~writers[w].closed
  /\ writers' = [writers EXCEPT ![w].closed = TRUE]
  /\ UNCHANGED <<state, channels, clients, links, removals, leaving, heard, calls, sent, orphaned>>

\* abort, of a closed stream too.
Abort(w) ==
  /\ writers' = [writers EXCEPT ![w].closed = TRUE]
  /\ Broadcast(w, "stream-error")
  /\ UNCHANGED <<state, channels, clients, removals, leaving, heard, calls, orphaned>>

\* The oldest message of a channel: every listener calls every handler.
Deliver(o) ==
  /\ links[o].joined /\ links[o].inbox # <<>>
  /\ links' = [links EXCEPT ![o].inbox = Tail(@)]
  /\ LET message == Head(links[o].inbox)
         note == [link |-> o, writer |-> message.writer, type |-> message.type]
         times(h) == links[o].listeners * links[o].handlers[h]
     IN heard' = [h \in Handlers |-> heard[h] \o [i \in 1..times(h) |-> note]]
  /\ UNCHANGED <<state, channels, clients, writers, removals, leaving, calls, sent, orphaned>>

Next ==
  \/ \E n \in Names :
       RemoveChannel(n) \/ CreateStream(n) \/ \E h \in Handlers : SubscribeStream(n, h)
  \/ \E o \in DOMAIN links :
       \/ \E h \in Handlers : Subscribe(o, h) \/ GiveUp(o, h)
       \/ Unsubscribe(o) \/ \E there \in BOOLEAN : Present(o, there)
       \/ Deliver(o)
  \/ \E r \in removals : RemovalAnswered(r)
  \/ Disconnect \/ DisconnectAnswered \/ Connect
  \/ \E w \in DOMAIN writers :
       Close(w) \/ Abort(w) \/ \E type \in MessageType : WriteChunk(w, type)

Spec == Init /\ [][Next]_vars

-----------------------------------------------------------------------------
(* Properties *)

\* What the client has joined, the provider knows and a disconnect will close,
\* but for two kinds of channels: one opened while a removal of its name was
\* waiting, whose entry the removal then deleted, and one whose removed object
\* was subscribed again (channel, removeChannel, disconnect).
OpenIsKnown ==
  \A o \in DOMAIN links : links[o].joined => clients[links[o].name] = o \/ o \in orphaned

\* Over one channel a reader hears no chunk of a stream after its error (write,
\* abort), however many handlers, listeners and writers the channel has.
NothingAfterTheError ==
  \A h \in Handlers : \A i, j \in DOMAIN heard[h] :
    /\ i < j
    /\ heard[h][i].type = "stream-error"
    /\ heard[h][j].link = heard[h][i].link /\ heard[h][j].writer = heard[h][i].writer
    => heard[h][j].type = "stream-error"

StreamsAreKept == OpenIsKnown /\ NothingAfterTheError

-----------------------------------------------------------------------------
(* What makes them hold *)

\* The maps, the writers and the removals name channels that were made.
RefersToMade ==
  /\ \A n \in Names : channels[n] <= Len(links) /\ clients[n] <= Len(links)
  /\ Len(writers) <= MaxWriters
  /\ \A w \in DOMAIN writers : writers[w].on <= Len(links)
  /\ \A r \in removals : r.link <= Len(links)
  /\ leaving.link <= Len(links) /\ (leaving.name # NoName => leaving.link # 0)

\* No more handlers and listeners than calls.
FewerThanCalls ==
  \A o \in DOMAIN links :
    links[o].listeners <= calls /\ \A h \in Handlers : links[o].handlers[h] <= calls

\* A channel that is being closed was left, unless it was subscribed again; and an
\* entry whose channel the provider has dropped is being closed.
ClosingIsLeft ==
  /\ \A r \in removals \cup {leaving} :
       r.link # 0 /\ links[r.link].joined => r.link \in orphaned
  /\ \A n \in Names :
       channels[n] = 0 /\ clients[n] # 0 => [name |-> n, link |-> clients[n]] \in removals

\* An error is of a closed writer, and all that is still to come of it are errors.
ErrorsAreLast ==
  /\ \A o \in DOMAIN links : \A i \in DOMAIN links[o].inbox :
       links[o].inbox[i].type = "stream-error" =>
         /\ links[o].inbox[i].writer \in DOMAIN writers
         /\ writers[links[o].inbox[i].writer].closed
         /\ \A j \in DOMAIN links[o].inbox :
              i < j /\ links[o].inbox[j].writer = links[o].inbox[i].writer
                => links[o].inbox[j].type = "stream-error"
  /\ \A h \in Handlers : \A i \in DOMAIN heard[h] :
       heard[h][i].type = "stream-error" =>
         /\ heard[h][i].writer \in DOMAIN writers
         /\ writers[heard[h][i].writer].closed
         /\ heard[h][i].link \in DOMAIN links
         /\ \A j \in DOMAIN links[heard[h][i].link].inbox :
              links[heard[h][i].link].inbox[j].writer = heard[h][i].writer
                => links[heard[h][i].link].inbox[j].type = "stream-error"

IInv ==
  /\ TypeOK /\ RefersToMade /\ FewerThanCalls /\ ClosingIsLeft /\ ErrorsAreLast
  /\ StreamsAreKept
=============================================================================
