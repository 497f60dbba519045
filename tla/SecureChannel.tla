----------------------------- MODULE SecureChannel -----------------------------
(***************************************************************************)
(* A connection's secure session and its frames, from Send at one end to   *)
(* the frame parser at the other: the handshake, the records, what waits   *)
(* for the keys, and reads that cut the stream anywhere.                   *)
(*                                                                         *)
(* Abstractions.  The stream is one of units.  A key is what it is derived *)
(* from and its way; a sealed unit opens with its own key and number only. *)
(* A record is its length and its sealed rest, a frame its length and its  *)
(* rest.  A length that is none, or a damaged one, frames what does not    *)
(* open.  A socket takes what it is given; SocketLoop has the rest.        *)
(***************************************************************************)
EXTENDS Integers, Sequences

CONSTANTS
  MaxFrames, \* bound: frames sent each way
  MaxPlain,  \* units of plaintext in a record (kMaxPlain)
  MaxFaults  \* bound: units lost, repeated or damaged on their way

ASSUME ChannelAssumption ==
  /\ {MaxFrames, MaxFaults} \subseteq Nat
  /\ MaxPlain \in Nat \ {0}

VARIABLES
  client,  \* Secure::Client, its frame parser, and what waits for the keys
  server,  \* Secure::Server and its frame parser
  stream,  \* by way, the units on their way
  sent,    \* by way, the frames sent
  got,     \* by way, the frames that arrived
  pinned,  \* the server key the client expects
  faults

vars == <<client, server, stream, sent, got, pinned, faults>>

Ways == {"up", "down"}

\* The handshake: the client's part, the server's part, and the server's proof.
Unit(kind) == [kind |-> kind]
Hello      == <<Unit("magic"), Unit("client key")>>
Ephemeral  == <<Unit("server key"), Unit("server key's rest")>>
Ready      == <<[frame |-> 0, part |-> "ready"]>>
Damaged    == Unit("damaged")

Length(n)               == [kind |-> "length", size |-> n]
Rest(key, number, data) == [kind |-> "rest", key |-> key, number |-> number, data |-> data]

NoKey == <<>>

Init ==
  /\ client = [haveKeys |-> FALSE, ready |-> FALSE, failed |-> FALSE, inbox |-> <<>>,
               sendKey |-> NoKey, sendCounter |-> 0, recvKey |-> NoKey, recvCounter |-> 0,
               recvInbox |-> <<>>, waiting |-> <<>>, parser |-> <<>>]
  /\ server = [ready |-> FALSE, failed |-> FALSE, inbox |-> <<>>,
               sendKey |-> NoKey, sendCounter |-> 0, recvKey |-> NoKey, recvCounter |-> 0,
               recvInbox |-> <<>>, parser |-> <<>>]
  /\ stream = [up |-> Hello, down |-> <<>>]
  /\ sent = [w \in Ways |-> <<>>] /\ got = [w \in Ways |-> <<>>]
  /\ pinned \in {"server", "other"}
  /\ faults = 0

-----------------------------------------------------------------------------
(***************************************************************************)
(* Keys, records and frames.                                               *)
(***************************************************************************)
\* DeriveKeys: from both secrets and all of the handshake.
DerivedKey(way, hello, ephemeral, public) == <<way, hello, ephemeral, public>>

Piece(data, i) == SubSeq(data, (i - 1) * MaxPlain + 1, IF i * MaxPlain < Len(data) THEN i * MaxPlain ELSE Len(data))

RecordsOf(data) == (Len(data) + MaxPlain - 1) \div MaxPlain

\* Records::Seal: for each piece a length and a rest.
Sealed(key, counter, data) ==
  [u \in 1..2 * RecordsOf(data) |->
     LET piece == Piece(data, (u + 1) \div 2)
     IN  IF u % 2 = 1 THEN Length(Len(piece)) ELSE Rest(key, counter + (u \div 2) - 1, piece)]

\* Mutation: any number will do.
OpensAnyNumber(unit, key, number) == unit.kind = "rest" /\ unit.key = key

Opens(unit, key, number) == unit.kind = "rest" /\ unit.key = key /\ unit.number = number

\* Record i of these units opens.
Whole(units, i, key, counter) ==
  /\ units[2 * i - 1].kind = "length"
  /\ Opens(units[2 * i], key, counter + i - 1)
  /\ Len(units[2 * i].data) = units[2 * i - 1].size

\* The data of the first records.
DataOf(units) ==
  LET data[i \in 0..(Len(units) \div 2)] == IF i = 0 THEN <<>> ELSE data[i - 1] \o units[2 * i].data
  IN  data

\* Records::Open: every whole record of what was left and what came, or failure.
Opened(key, counter, units) ==
  LET whole == Len(units) \div 2
      ok == \A i \in 1..whole : Whole(units, i, key, counter)
  IN  [ok      |-> ok,
       counter |-> counter + whole,
       inbox   |-> SubSeq(units, 2 * whole + 1, Len(units)),
       plain   |-> IF ok THEN DataOf(units)[whole] ELSE <<>>]

\* EncodeFrame, and FrameParser::Next as long as it returns something.
Frame(n) == <<[frame |-> n, part |-> "length"], [frame |-> n, part |-> "rest"]>>

\* A frame that is made of anything else has the number 0.
Parsed(units) ==
  [i \in 1..(Len(units) \div 2) |->
     IF SubSeq(units, 2 * i - 1, 2 * i) = Frame(units[2 * i].frame) THEN units[2 * i].frame ELSE 0]

Unparsed(units) == SubSeq(units, 2 * (Len(units) \div 2) + 1, Len(units))

Arrive(way, units) == got' = [got EXCEPT ![way] = @ \o Parsed(units)]

-----------------------------------------------------------------------------
(***************************************************************************)
(* The client.                                                             *)
(***************************************************************************)
\* Mutation: a number for each Seal, whatever the records it makes.
ReleasedAsOne(c) == [c EXCEPT !.waiting = <<>>, !.sendCounter = @ + 1]

\* What waits is sealed by one call.
Released(c) == [c EXCEPT !.waiting = <<>>, !.sendCounter = @ + RecordsOf(c.waiting)]

\* Mutation: only Send looks at what waits.
ReleasesWhenSending(c) == FALSE

Releases(c) == c.ready /\ c.waiting # <<>>

\* AuthConnection::Send.
ClientSend ==
  /\ ~client.failed
  /\ Len(sent.up) < MaxFrames
  /\ sent' = [sent EXCEPT !.up = Append(@, Len(@) + 1)]
  /\ LET c == [client EXCEPT !.waiting = @ \o Frame(Len(sent'.up))]
     IN  IF c.ready
         THEN /\ client' = Released(c)
              /\ stream' = [stream EXCEPT !.up = @ \o Sealed(c.sendKey, c.sendCounter, c.waiting)]
         ELSE /\ client' = c
              /\ UNCHANGED stream
  /\ UNCHANGED <<server, got, pinned, faults>>

\* The keys, once the server's part of the handshake is there.
ClientKeyed(units) ==
  LET box == client.inbox \o units
      ephemeral == SubSeq(box, 1, 2)
  IN  IF client.haveKeys THEN client
      ELSE IF Len(box) < 2 THEN [client EXCEPT !.inbox = box]
      ELSE [client EXCEPT !.haveKeys = TRUE, !.inbox = <<>>,
              !.sendKey = DerivedKey("up", Hello[2], ephemeral, pinned),
              !.recvKey = DerivedKey("down", Hello[2], ephemeral, pinned)]

\* What is for the records in what was read.
Beyond(box, units, handshake) ==
  SubSeq(box \o units, handshake + 1, Len(box) + Len(units))

\* The first record is the proof; the rest is data.
Proven(box) == [ready |-> TRUE, plain |-> SubSeq(box, 2, Len(box))]

\* Client::Feed, once the records are opened.
ClientOpened(c, opened) ==
  LET box == c.inbox \o opened.plain
      passed == IF c.ready THEN [ready |-> TRUE, plain |-> opened.plain]
                ELSE IF box = <<>> THEN [ready |-> FALSE, plain |-> <<>>]
                ELSE Proven(box)
  IN  IF ~opened.ok \/ (~c.ready /\ box # <<>> /\ SubSeq(box, 1, 1) # Ready)
      THEN [state |-> [c EXCEPT !.failed = TRUE], plain |-> <<>>]
      ELSE [state |-> [c EXCEPT !.ready = passed.ready, !.recvCounter = opened.counter, !.recvInbox = opened.inbox],
            plain |-> passed.plain]

\* One read by AuthConnection::Pump, up to the parser.
ClientFed(units) ==
  LET keyed == ClientKeyed(units)
      records == IF client.haveKeys THEN client.recvInbox \o units ELSE Beyond(client.inbox, units, 2)
  IN  IF keyed.haveKeys THEN ClientOpened(keyed, Opened(keyed.recvKey, keyed.recvCounter, records))
      ELSE [state |-> keyed, plain |-> <<>>]

\* What waited for the keys goes first.
ClientPump(n) ==
  /\ ~client.failed
  /\ n \in 1..Len(stream.down)
  /\ \E fed \in {ClientFed(SubSeq(stream.down, 1, n))} :
       LET plain == fed.state.parser \o fed.plain
           c == [fed.state EXCEPT !.parser = Unparsed(plain)]
           releases == ~c.failed /\ Releases(c)
       IN  /\ Arrive("down", plain)
           /\ client' = IF releases THEN Released(c) ELSE c
           /\ stream' = [up   |-> stream.up \o (IF releases THEN Sealed(c.sendKey, c.sendCounter, c.waiting) ELSE <<>>),
                         down |-> SubSeq(stream.down, n + 1, Len(stream.down))]
  /\ UNCHANGED <<server, sent, pinned, faults>>

-----------------------------------------------------------------------------
(***************************************************************************)
(* The server.                                                             *)
(***************************************************************************)
\* Its part of the handshake and its proof.
ServerReply(key) == Ephemeral \o Sealed(key, 0, Ready)

\* Server::Feed, once its client's part is there.
ServerKeyed(box) ==
  LET up == DerivedKey("up", box[2], Ephemeral, "server")
      down == DerivedKey("down", box[2], Ephemeral, "server")
  IN  IF Len(box) < 2 THEN [server EXCEPT !.inbox = box]
      ELSE IF box[1] # Hello[1] THEN [server EXCEPT !.failed = TRUE]
      ELSE [server EXCEPT !.ready = TRUE, !.inbox = <<>>, !.recvKey = up, !.sendKey = down, !.sendCounter = 1]

ServerOpened(s, opened) ==
  IF opened.ok
  THEN [state |-> [s EXCEPT !.recvCounter = opened.counter, !.recvInbox = opened.inbox], plain |-> opened.plain]
  ELSE [state |-> [s EXCEPT !.failed = TRUE], plain |-> <<>>]

ServerFed(units) ==
  LET keyed == IF server.ready THEN server ELSE ServerKeyed(server.inbox \o units)
      records == IF server.ready THEN server.recvInbox \o units ELSE Beyond(server.inbox, units, 2)
  IN  IF keyed.ready /\ ~keyed.failed THEN ServerOpened(keyed, Opened(keyed.recvKey, keyed.recvCounter, records))
      ELSE [state |-> keyed, plain |-> <<>>]

\* One read of the server's loop.
ServerPump(n) ==
  /\ ~server.failed
  /\ n \in 1..Len(stream.up)
  /\ \E fed \in {ServerFed(SubSeq(stream.up, 1, n))} :
       LET plain == fed.state.parser \o fed.plain
           replies == fed.state.ready /\ ~server.ready /\ ~fed.state.failed
       IN  /\ Arrive("up", plain)
           /\ server' = [fed.state EXCEPT !.parser = Unparsed(plain)]
           /\ stream' = [up   |-> SubSeq(stream.up, n + 1, Len(stream.up)),
                         down |-> stream.down \o (IF replies THEN ServerReply(fed.state.sendKey) ELSE <<>>)]
  /\ UNCHANGED <<client, sent, pinned, faults>>

\* The core has something to say, and the session has keys.
ServerSend ==
  /\ server.ready /\ ~server.failed
  /\ Len(sent.down) < MaxFrames
  /\ sent' = [sent EXCEPT !.down = Append(@, Len(@) + 1)]
  /\ LET frame == Frame(Len(sent'.down))
     IN  /\ stream' = [stream EXCEPT !.down = @ \o Sealed(server.sendKey, server.sendCounter, frame)]
         /\ server' = [server EXCEPT !.sendCounter = @ + RecordsOf(frame)]
  /\ UNCHANGED <<client, got, pinned, faults>>

-----------------------------------------------------------------------------
(***************************************************************************)
(* What the header says a receiver notices.                                *)
(***************************************************************************)
Fault(w, i) ==
  /\ faults < MaxFaults /\ faults' = faults + 1
  /\ i \in 1..Len(stream[w])
  /\ \E j \in i..Len(stream[w]) :
       LET hit == SubSeq(stream[w], i, j)
       IN  /\ j - i <= 1
           /\ \E units \in {<<>>, <<Damaged>>, hit \o hit} :
                stream' = [stream EXCEPT ![w] = SubSeq(@, 1, i - 1) \o units \o SubSeq(@, j + 1, Len(@))]
  /\ UNCHANGED <<client, server, sent, got, pinned>>

ClientReads == \E n \in 1..Len(stream.down) : ClientPump(n)

ServerReads == \E n \in 1..Len(stream.up) : ServerPump(n)

Next ==
  \/ ClientSend \/ ServerSend
  \/ ClientReads \/ ServerReads
  \/ \E w \in Ways : \E i \in 1..Len(stream[w]) : Fault(w, i)

Spec == Init /\ [][Next]_vars

\* Both ends go on reading.
FairSpec == Spec /\ WF_vars(ClientReads) /\ WF_vars(ServerReads)

-----------------------------------------------------------------------------
(***************************************************************************)
(* Properties.                                                             *)
(***************************************************************************)
Unharmed == faults = 0 /\ pinned = "server"

RestsIn(units) == {i \in 1..Len(units) : units[i].kind = "rest"}

Numbers(units) == {units[i].number : i \in RestsIn(units)}

\* The type of the ends' state: neither keeps more than what begins a record or a
\* frame, and nothing waits once there are keys to seal it with.
TypeOK ==
  /\ \A e \in {client, server} : Len(e.inbox) < 2 /\ Len(e.recvInbox) < 2 /\ Len(e.parser) < 2
  /\ client.ready => client.haveKeys /\ client.waiting = <<>>
  /\ {client.sendCounter, server.sendCounter} \subseteq 0..2 * MaxFrames + 1
  /\ faults \in 0..MaxFaults

\* Neither end sends numbers: on their way are the records from the one an end
\* expects next to the last one sealed, whatever was sealed in one piece or in
\* several and however reads cut it.
CountersMeet ==
  Unharmed =>
    /\ ~client.failed /\ ~server.failed
    /\ client.haveKeys => Numbers(stream.down) = client.recvCounter..server.sendCounter - 1
    /\ server.ready => Numbers(stream.up) = server.recvCounter..client.sendCounter - 1

\* No key seals two records with one number, one way or the other.
NumbersOnce ==
  faults = 0 =>
    \A w, v \in Ways : \A i \in RestsIn(stream[w]), j \in RestsIn(stream[v]) :
      LET this == stream[w][i]
          that == stream[v][j]
      IN  <<w, i>> # <<v, j>> => <<this.key, this.number>> # <<that.key, that.number>>

\* A client that expects another server's key never sends nor takes a frame.
WrongServerNothing ==
  pinned # "server" => ~client.ready /\ client.sendCounter = 0 /\ got.up = <<>> /\ got.down = <<>>

\* What every read and every send keeps at both ends.
ChannelInv == TypeOK /\ CountersMeet /\ NumbersOnce /\ WrongServerNothing

\* Each way the connection is a stream of frames, also over a stream that loses,
\* repeats or damages a part of what it carries.
Stream == INSTANCE FrameStream WITH Frames <- 1..MaxFrames
ImplementsStream == Stream!Spec

\* As long as nothing is harmed, everything that is sent arrives in the end, also
\* what was sent before there were keys (MaxFrames bounds what is sent).
EverythingArrives == <>[](Unharmed => got = sent)
=============================================================================
