------------------------------ MODULE SocketLoop ------------------------------
(***************************************************************************)
(* One pass after another over the server's sockets: accept, read, advance *)
(* the core, write and reap.  The clients and the network act at any time  *)
(* between two system calls of a pass.                                     *)
(*                                                                         *)
(* Abstractions.  What a client sends is numbered in units; two units tell *)
(* its transport, and the first Handshake units of a secure client, or of  *)
(* a browser, are no data.  A browser's pings are counted beside its data: *)
(* one could have come before any of it that is behind the handshake.      *)
(* What a transport does not accept ends a client's stream: nothing behind *)
(* it is looked at.                                                        *)
(* The core is what the loop can see of it: it hears data, says something, *)
(* closes a connection with a last word, and is told of a disconnection.   *)
(* What it says is numbered; Reply is the answer of a handshake.  Of what  *)
(* a browser's transport says of its own (its pongs, its refusal, the      *)
(* frame that closes a session) it matters how much there is: where it     *)
(* goes out between the core's words, behind the reply, is left open.      *)
(* The cap of connections per address has the form of the one overall and  *)
(* is left out.                                                            *)
(***************************************************************************)
EXTENDS Integers, FiniteSets, SequencesExt

CONSTANTS
  Clients,        \* who connects, once each
  Secures,        \* the clients that ask for a secure session
  Browsers,       \* the clients that ask for a WebSocket
  Handshake,      \* units of a handshake
  MaxConnections, \* --max-connections
  MaxPending,     \* what may wait for a socket before its client is dropped (1 MB)
  SendBuffer,     \* what a socket takes before it would block
  MaxSessions,    \* bound: how many clients with a handshake connect
  MaxSent,        \* bound: units the clients send, all together
  MaxPings,       \* bound: pings the browsers send, all together
  MaxSaid         \* bound: what the core says, to all clients together

ASSUME SocketAssumption ==
  /\ IsFiniteSet(Clients) /\ Secures \union Browsers \subseteq Clients
  /\ Secures \intersect Browsers = {}
  /\ {MaxSessions, MaxSent, MaxPings, MaxSaid} \subseteq Nat
  /\ {MaxConnections, MaxPending, SendBuffer} \subseteq Nat \ {0}
  /\ Handshake \in Nat \ {0, 1}

VARIABLES
  client,  \* where each client is
  sent,    \* how many units each client has sent
  wire,    \* what has arrived from it and was not read yet
  pinged,  \* how many pings each client has sent
  pings,   \* those that have arrived and were not read yet
  spoilt,  \* whether what its transport does not accept is on its way, or was read
  window,  \* what its socket would take
  told,    \* what its socket took
  peers,   \* the clients whose sockets the server has
  peer,    \* the server's record of each
  conn,    \* the core's connection of each
  out,     \* what the core has to say to it
  said,    \* how much the core has said to it
  heard,   \* what the core has heard from it
  phase,   \* the part of the pass under way
  left,    \* the peers this part has still to look at
  failed,  \* the clients to whom a send failed
  require  \* whether plain connections are refused (--require-secure)

network == <<client, sent, wire, pinged, pings, spoilt, window>>
core    == <<conn, out, said, heard>>
vars    == <<network, told, peers, peer, core, phase, left, failed, require>>

Reply == 0

SumOf(f) == FoldFunction(+, 0, f)

\* The clients whose transport has a handshake.
Sessions == Secures \union Browsers

\* What waits for a socket is what is pending, and the transport's own.
NewPeer == [first |-> <<>>, transport |-> "undecided", fed |-> 0, failed |-> FALSE,
            pending |-> <<>>, own |-> 0]

Init ==
  /\ client = [c \in Clients |-> "away"]
  /\ sent = [c \in Clients |-> 0]
  /\ wire = [c \in Clients |-> <<>>]
  /\ pinged = [c \in Clients |-> 0] /\ pings = [c \in Clients |-> 0]
  /\ spoilt = [c \in Clients |-> "no"]
  /\ window = [c \in Clients |-> SendBuffer]
  /\ told = [c \in Clients |-> <<>>]
  /\ peers = {} /\ peer = [c \in Clients |-> NewPeer]
  /\ conn = [c \in Clients |-> "none"]
  /\ out = [c \in Clients |-> <<>>]
  /\ said = [c \in Clients |-> 0]
  /\ heard = [c \in Clients |-> <<>>]
  /\ phase = "accept" /\ left = {} /\ failed = {}
  /\ require \in BOOLEAN

-----------------------------------------------------------------------------
(***************************************************************************)
(* The clients and the network.                                            *)
(***************************************************************************)
ClientConnects(c) ==
  /\ client[c] = "away"
  /\ c \in Sessions => Cardinality({b \in Sessions : client[b] # "away"}) < MaxSessions
  /\ client' = [client EXCEPT ![c] = "backlog"]
  /\ UNCHANGED <<sent, wire, pinged, pings, spoilt, window>>

\* What a client sends before it is accepted is read no sooner than what it sends then.
Sending(c) == client[c] = "connected" /\ spoilt[c] = "no"

ClientSends(c) ==
  /\ Sending(c) /\ SumOf(sent) < MaxSent
  /\ sent' = [sent EXCEPT ![c] = @ + 1]
  /\ wire' = [wire EXCEPT ![c] = Append(@, sent'[c])]
  /\ UNCHANGED <<client, pinged, pings, spoilt, window>>

\* A ping, behind the handshake.
ClientPings(c) ==
  /\ Sending(c) /\ c \in Browsers /\ sent[c] >= Handshake
  /\ SumOf(pinged) < MaxPings
  /\ pinged' = [pinged EXCEPT ![c] = @ + 1]
  /\ pings' = [pings EXCEPT ![c] = @ + 1]
  /\ UNCHANGED <<client, sent, wire, spoilt, window>>

\* What its transport does not accept: a damaged record, a request that is refused,
\* a frame that is not allowed, a close frame.
ClientSpoils(c) ==
  /\ Sending(c) /\ c \in Sessions /\ sent[c] >= 1
  /\ spoilt' = [spoilt EXCEPT ![c] = "coming"]
  /\ UNCHANGED <<client, sent, wire, pinged, pings, window>>

ClientReads(c) ==
  /\ client[c] = "connected" /\ window[c] < SendBuffer
  /\ window' = [window EXCEPT ![c] = SendBuffer]
  /\ UNCHANGED <<client, sent, wire, pinged, pings, spoilt>>

ClientCloses(c) ==
  /\ client[c] = "connected"
  /\ client' = [client EXCEPT ![c] = "closed"]
  /\ UNCHANGED <<sent, wire, pinged, pings, spoilt, window>>

\* A connection has ended, and what was not read from it is gone.
Ended(c) ==
  /\ client' = [client EXCEPT ![c] = "reset"]
  /\ wire' = [wire EXCEPT ![c] = <<>>] /\ pings' = [pings EXCEPT ![c] = 0]
  /\ spoilt' = [spoilt EXCEPT ![c] = "no"]

\* The connection is broken, or what is sent to a closed client comes back.
Reset(c) ==
  /\ client[c] \in {"connected", "closed"}
  /\ Ended(c)
  /\ UNCHANGED <<sent, pinged, window>>

ServerWaits == UNCHANGED <<told, peers, peer, core, phase, left, failed, require>>

Network ==
  /\ \E c \in Clients :
       \/ ClientConnects(c) \/ ClientSends(c) \/ ClientPings(c) \/ ClientSpoils(c)
       \/ ClientReads(c) \/ ClientCloses(c) \/ Reset(c)
  /\ ServerWaits

-----------------------------------------------------------------------------
(***************************************************************************)
(* Accept.                                                                 *)
(***************************************************************************)
Accept(c) ==
  /\ phase = "accept" /\ client[c] = "backlog"
  /\ IF Cardinality(peers) >= MaxConnections
     THEN /\ client' = [client EXCEPT ![c] = "reset"]
          /\ UNCHANGED <<peers, conn>>
     ELSE /\ client' = [client EXCEPT ![c] = "connected"]
          /\ peers' = peers \union {c}
          /\ conn' = [conn EXCEPT ![c] = "open"]
  /\ UNCHANGED <<sent, wire, pinged, pings, spoilt, window, told, peer, out, said, heard>>
  /\ UNCHANGED <<phase, left, failed, require>>

Accepted ==
  /\ phase = "accept" /\ \A c \in Clients : client[c] # "backlog"
  /\ phase' = "read" /\ left' = peers
  /\ UNCHANGED <<network, told, peers, peer, core, failed, require>>

-----------------------------------------------------------------------------
(***************************************************************************)
(* Read.                                                                   *)
(***************************************************************************)
\* Mutation: what came before the transport was told is forgotten.
GatheredLate(c, units) == units

\* The first bytes are put together until they tell the transport.
Gathered(c, units) == peer[c].first \o units

Decided(c, units) == peer[c].transport # "undecided" \/ Len(Gathered(c, units)) >= 2

Transport(c) ==
  IF peer[c].transport # "undecided" THEN peer[c].transport
  ELSE IF c \in Browsers THEN "websocket"
  ELSE IF c \in Secures THEN "secure" ELSE "plain"

\* A plain connection where they are not accepted is told to the core as gone.
Refused(c) == peer[c].transport = "undecided" /\ Transport(c) = "plain" /\ require

\* What the handshake still needs.
Missing(c) == IF peer[c].fed < Handshake THEN Handshake - peer[c].fed ELSE 0

\* What a read hands to the transport.
ReadOf(c, n) ==
  IF peer[c].transport = "undecided" THEN Gathered(c, SubSeq(wire[c], 1, n)) ELSE SubSeq(wire[c], 1, n)

\* The data in what was read: the transport keeps the handshake.
Data(c, units) ==
  IF Transport(c) = "plain" THEN units ELSE SubSeq(units, Missing(c) + 1, Len(units))

Fed(c, units) == IF Transport(c) = "plain" THEN 0 ELSE peer[c].fed + Len(units)

\* The handshake is over (mReady, mUpgraded).
Begun(p) == p.transport \in {"secure", "websocket"} /\ p.fed >= Handshake

\* Only a WebSocket that is closing is not ready any more.
Ready(p) == Begun(p) /\ (p.transport = "websocket" => ~p.failed)

\* The reply waits when the last unit of the handshake is read, and then a pong for
\* each ping.
PeerAfter(c, units, pongs) ==
  LET p == [peer[c] EXCEPT !.first = <<>>, !.transport = Transport(c), !.fed = Fed(c, units),
                           !.own = @ + pongs]
  IN  IF Begun(p) /\ ~Begun(peer[c]) THEN [p EXCEPT !.pending = Append(@, Reply)] ELSE p

\* The core is told that the connection is gone.
Gone(c) == [conn EXCEPT ![c] = "closed"]

Says(c) ==
  /\ SumOf(said) < MaxSaid
  /\ said' = [said EXCEPT ![c] = @ + 1]
  /\ out' = [out EXCEPT ![c] = Append(@, said'[c])]

\* The core may answer what it hears.
Hears(c, data) ==
  /\ heard' = [heard EXCEPT ![c] = @ \o data]
  /\ UNCHANGED <<out, said>> \/ Says(c)

\* What the reads returned, units and pings, and then nothing more, or no more
\* rounds. The core may close the connection with a last word.
ReadSome(c, n, k) ==
  LET data == Data(c, ReadOf(c, n))
  IN  /\ n \in 0..Len(wire[c]) /\ k \in 0..pings[c] /\ n + k # 0
      /\ k # 0 => Begun(PeerAfter(c, ReadOf(c, n), k))
      /\ wire' = [wire EXCEPT ![c] = SubSeq(@, n + 1, Len(@))]
      /\ pings' = [pings EXCEPT ![c] = @ - k]
      /\ IF ~Decided(c, SubSeq(wire[c], 1, n))
         THEN /\ peer' = [peer EXCEPT ![c].first = ReadOf(c, n)]
              /\ UNCHANGED core
         ELSE /\ peer' = [peer EXCEPT ![c] = PeerAfter(c, ReadOf(c, n), k)]
              /\ IF Refused(c) THEN conn' = Gone(c) /\ UNCHANGED <<out, said, heard>>
                 ELSE IF data # <<>> /\ conn[c] = "open"
                 THEN Hears(c, data) /\ (conn' = conn \/ (conn' = Gone(c) /\ said' # said))
                 ELSE UNCHANGED core
      /\ UNCHANGED <<client, sent, pinged, spoilt, window>>

\* The last of the reads is of what the transport does not accept. A WebSocket hands
\* on what came before it and says something of its own; a secure session loses what
\* came with it, all but the n units of the reads before, and its own reply. The core
\* is told that the connection is gone.
ReadSpoilt(c, n) ==
  LET data == Data(c, ReadOf(c, n))
      p == PeerAfter(c, ReadOf(c, n), pings[c])
  IN  /\ spoilt[c] = "coming" /\ n \in 0..Len(wire[c])
      /\ c \in Browsers => n = Len(wire[c])
      /\ wire' = [wire EXCEPT ![c] = <<>>] /\ pings' = [pings EXCEPT ![c] = 0]
      /\ spoilt' = [spoilt EXCEPT ![c] = "read"]
      /\ peer' = [peer EXCEPT ![c] =
           [p EXCEPT !.failed = TRUE, !.fed = Fed(c, ReadOf(c, Len(wire[c]))),
                     !.own = IF c \in Browsers THEN @ + 1 ELSE @]]
      /\ conn' = Gone(c)
      /\ IF data # <<>> /\ conn[c] = "open" THEN Hears(c, data) ELSE UNCHANGED <<out, said, heard>>
      /\ UNCHANGED <<client, sent, pinged, window>>

AllRead(c) == wire[c] = <<>> /\ pings[c] = 0 /\ spoilt[c] # "coming"

\* Mutation: the end of the stream is noticed by the next send.
LostLater(c) == FALSE

\* The end of the stream, or an error.
Lost(c) == client[c] = "reset" \/ (client[c] = "closed" /\ AllRead(c))

ReadNone(c) ==
  /\ AllRead(c)
  /\ conn' = IF Lost(c) THEN Gone(c) ELSE conn
  /\ UNCHANGED <<network, peer, out, said, heard>>

\* Another round may find the end of the stream behind what was read.
Read(c) ==
  /\ phase = "read" /\ c \in left
  /\ \/ ReadNone(c)
     \/ \E n \in 0..MaxSent : ReadSpoilt(c, n) \/ \E k \in 0..MaxPings : ReadSome(c, n, k)
  /\ \/ left' = left \ {c}
     \/ ~AllRead(c) /\ AllRead(c)' /\ ~peer'[c].failed /\ client[c] = "closed" /\ UNCHANGED left
  /\ UNCHANGED <<told, peers, phase, failed, require>>

-----------------------------------------------------------------------------
(***************************************************************************)
(* Advance: the core says something to somebody, or closes a connection    *)
(* that says nothing, or that has to leave.                                *)
(***************************************************************************)
Tells(c) ==
  /\ conn[c] = "open" /\ Says(c)
  /\ \/ heard[c] # <<>> /\ UNCHANGED conn
     \/ conn' = Gone(c)
  /\ UNCHANGED heard

Advance ==
  /\ phase = "read" /\ left = {}
  /\ phase' = "write" /\ left' = peers
  /\ UNCHANGED core \/ \E c \in Clients : Tells(c)
  /\ UNCHANGED <<network, told, peers, peer, failed, require>>

-----------------------------------------------------------------------------
(***************************************************************************)
(* Write and reap.                                                         *)
(***************************************************************************)
\* The core's output is taken in any case; without a session that is ready, it is lost.
PassedOn(c) == IF peer[c].transport \in {"undecided", "plain"} \/ Ready(peer[c]) THEN out[c] ELSE <<>>

\* Mutation: a closed connection is not waited for.
DoneAtOnce(c, waiting) == conn[c] # "open"

Done(c, waiting) == conn[c] # "open" /\ waiting = 0

\* Mutation: what the socket took is not looked at.
TooMuchEver(waiting) == FALSE

\* A client that does not read.
TooMuch(waiting) == waiting > MaxPending

\* The socket takes what it can, of the core's words and of the transport's own.
Write(c) ==
  /\ phase = "write" /\ c \in left
  /\ left' = left \ {c}
  /\ out' = [out EXCEPT ![c] = <<>>]
  /\ LET pending == peer[c].pending \o PassedOn(c)
         waiting == Len(pending) + peer[c].own
         fails == client[c] = "reset" /\ waiting # 0
         room == IF fails THEN 0 ELSE IF window[c] < waiting THEN window[c] ELSE waiting
     IN  \E taken \in 0..Len(pending) :
           /\ room - taken \in 0..peer[c].own
           /\ room = taken \/ \A i \in taken + 1..Len(pending) : pending[i] # Reply
           /\ window' = [window EXCEPT ![c] = @ - room]
           /\ told' = [told EXCEPT ![c] = @ \o SubSeq(pending, 1, taken)]
           /\ failed' = IF fails THEN failed \union {c} ELSE failed
           /\ peers' = IF fails \/ Done(c, waiting - room) THEN peers \ {c} ELSE peers
           /\ peer' = [peer EXCEPT ![c].pending = SubSeq(pending, taken + 1, Len(pending)),
                                   ![c].own = @ - (room - taken)]
           /\ conn' = IF c \in peers' /\ TooMuch(waiting - room) THEN Gone(c) ELSE conn
  /\ IF c \in peers' THEN UNCHANGED <<client, wire, pings, spoilt>> ELSE Ended(c)
  /\ UNCHANGED <<sent, pinged, said, heard, phase, require>>

Reaped ==
  /\ phase = "write" /\ left = {}
  /\ phase' = "accept"
  /\ UNCHANGED <<network, told, peers, peer, core, left, failed, require>>

PumpSockets ==
  \/ \E c \in Clients : Accept(c) \/ Read(c) \/ Write(c)
  \/ Accepted \/ Advance \/ Reaped

Next == Network \/ PumpSockets

Spec == Init /\ [][Next]_vars

\* The loop runs for ever; what is sent to a client that closed comes back.
Fairness ==
  /\ WF_vars(PumpSockets)
  /\ \A c \in Clients : WF_vars(client[c] = "closed" /\ Reset(c) /\ ServerWaits)

FairSpec == Spec /\ Fairness

-----------------------------------------------------------------------------
(***************************************************************************)
(* Properties.                                                             *)
(***************************************************************************)
\* The units of data a client has sent.
FirstData(c) == IF c \in Sessions THEN Handshake + 1 ELSE 1

Consecutive(units, first) == \A i \in 1..Len(units) : units[i] = first + i - 1

\* The words of the core from the first, and the reply in place r, or not at all.
Arranged(words, r) ==
  \A i \in 1..Len(words) : words[i] = IF i < r THEN i ELSE IF i = r THEN Reply ELSE i - 1

\* Clients that had a socket and have none any more.
Parted(c) == conn[c] # "none" /\ c \notin peers

\* The type of the loop's state.
TypeOK ==
  /\ client \in [Clients -> {"away", "backlog", "connected", "closed", "reset"}]
  /\ sent \in [Clients -> 0..MaxSent] /\ pinged \in [Clients -> 0..MaxPings]
  /\ \A c \in Clients : pings[c] \in 0..pinged[c]
  /\ spoilt \in [Clients -> {"no", "coming", "read"}]
  /\ window \in [Clients -> 0..SendBuffer]
  /\ peers \subseteq Clients /\ left \subseteq peers /\ Cardinality(peers) <= MaxConnections
  /\ \A c \in Clients : Len(peer[c].first) <= 1 /\ peer[c].fed \in 0..MaxSent
  /\ \A c \in Clients : peer[c].first # <<>> => peer[c].transport = "undecided"
  /\ conn \in [Clients -> {"none", "open", "closed"}]
  /\ said \in [Clients -> 0..MaxSaid]
  /\ phase \in {"accept", "read", "write"}

\* However reads are cut, also before the transport is known, the core hears a
\* client's data from its start and in order, and where plain connections are
\* refused it hears nothing from one, then or in a later pass; a browser's pings and
\* what a transport does not accept leave no gap in it.
HeardInOrder ==
  \A c \in Clients :
    /\ Consecutive(heard[c], FirstData(c))
    /\ require /\ c \notin Sessions => heard[c] = <<>>

\* What a client is told is what the core said to it, from the start and without a
\* gap, however little its socket takes; once its handshake is over, the reply to it
\* comes before all else.
ToldInOrder ==
  \A c \in Clients : \E r \in 1..Len(told[c]) + 1 :
    /\ Arranged(told[c], r)
    /\ r \in 2..Len(told[c]) => conn[c] = "closed"

\* What every system call keeps: the types, and both directions of every client.
SocketInv == TypeOK /\ HeardInOrder /\ ToldInOrder

\* A socket is closed only when the core has closed the connection and its last
\* words are on their way, or when a send failed.  (A failed send closes the socket
\* and tells the core nothing: that connection may stay open in the core for ever.)
LastWords ==
  \A c \in Clients : Parted(c) /\ c \notin failed =>
    /\ conn[c] = "closed"
    /\ c \notin Sessions => Len(told[c]) = said[c]

\* What waits for a client that does not read stops growing: one pass adds at most
\* an answer and a word of the core's own to what the limit allows.
\* Only a browser makes it grow on, by pings, which are answered past the core and
\* past the limit, and by the frame that ends its session.
BacklogBounded ==
  \A c \in Clients :
    Len(peer[c].pending) + peer[c].own
      <= MaxPending + 2 + (IF c \in Browsers THEN pinged[c] + 1 ELSE 0)

\* A client that closed its connection, in whatever state it was, gives its place
\* back.
PlacesComeBack == \A c \in Clients : client[c] \in {"closed", "reset"} ~> c \notin peers
=============================================================================
