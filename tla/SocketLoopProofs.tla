--------------------------- MODULE SocketLoopProofs ---------------------------
(***************************************************************************)
(* What the socket loop does to both directions of a client, to the core's *)
(* last words and to a client that does not read, for any number of plain  *)
(* clients, secure ones and browsers, and any limits.                      *)
(***************************************************************************)
EXTENDS SocketLoop, SequenceTheorems, FiniteSetTheorems, WellFoundedInduction, TLAPS

HIDE DEF SocketAssumption

Words == Seq(Nat)
PeerType == [first : Words, transport : {"undecided", "plain", "secure", "websocket"}, fed : Nat,
             failed : BOOLEAN, pending : Words, own : Nat]

LoopTypeOK ==
  /\ client \in [Clients -> {"away", "backlog", "connected", "closed", "reset"}]
  /\ sent \in [Clients -> Nat] /\ wire \in [Clients -> Words]
  /\ pinged \in [Clients -> Nat] /\ pings \in [Clients -> Nat]
  /\ spoilt \in [Clients -> {"no", "coming", "read"}]
  /\ window \in [Clients -> Nat] /\ told \in [Clients -> Words]
  /\ peers \subseteq Clients /\ left \subseteq peers /\ failed \subseteq Clients
  /\ peer \in [Clients -> PeerType]
  /\ conn \in [Clients -> {"none", "open", "closed"}]
  /\ out \in [Clients -> Words] /\ said \in [Clients -> Nat] /\ heard \in [Clients -> Words]
  /\ phase \in {"accept", "read", "write"}

\* Who has a socket is known to the core, and who has none any more is either
\* closed there or was lost by a send.
Known(c) ==
  /\ client[c] \in {"away", "backlog"} => conn[c] = "none"
  /\ conn[c] = "none" => /\ c \notin peers /\ peer[c] = NewPeer /\ out[c] = <<>>
                         /\ told[c] = <<>> /\ said[c] = 0
  /\ c \notin peers /\ conn[c] = "open" => c \in failed
  /\ peer[c].transport = "plain" => c \notin Sessions
  /\ peer[c].transport = "secure" => c \in Secures
  /\ peer[c].transport = "websocket" => c \in Browsers
  /\ peer[c].failed => conn[c] # "open"

\* What the core said to a plain client is told, on its way, or not fetched yet.
Counted(c) ==
  c \notin Sessions =>
    /\ c \in peers => Len(told[c]) + Len(peer[c].pending) + Len(out[c]) = said[c]
    /\ c \notin peers /\ c \notin failed => Len(told[c]) = said[c]

\* How much the core can have said to a client that is served, since it was written to.
Fresh(c) ==
  IF phase = "read" THEN 1 ELSE IF phase = "write" /\ c \in left THEN 2 ELSE 0

Waits(c) == Len(peer[c].pending)

\* Between two writes at most two words of the core come on top of what waits; who is
\* over the limit is closed, and nothing more is said to it.
Limited(c) ==
  /\ Waits(c) <= MaxPending + 2
  /\ c \in peers =>
       /\ conn[c] = "open" => Waits(c) <= MaxPending
       /\ Waits(c) + Len(out[c]) <= MaxPending + 2
       /\ Len(out[c]) <= Fresh(c)

\* Before its handshake is over nothing is heard from a client, and nothing said to it
\* but a last word: the reply finds the queue all but empty.
Silent(c) ==
  c \in Sessions /\ ~Begun(peer[c]) =>
    heard[c] = <<>> /\ Waits(c) + Len(out[c]) <= IF conn[c] = "open" THEN 0 ELSE 1

\* What a transport says of its own is the pongs for pings that were read, and once,
\* for a browser whose stream has ended, one frame more.
Piled(c) ==
  /\ c \notin Browsers => pinged[c] = 0
  /\ client[c] \in {"away", "backlog", "reset"} => pings[c] = 0
  /\ peer[c].own + pings[c] <= pinged[c] + IF peer[c].failed /\ c \in Browsers THEN 1 ELSE 0
  /\ spoilt[c] # "no" => client[c] \in {"connected", "closed"} /\ c \in Sessions
  /\ peer[c].failed => spoilt[c] = "read" \/ client[c] = "reset"

\* Who was answered already and is looked at again in this pass has only ended.
Answered(c) ==
  phase = "read" /\ c \in left /\ out[c] # <<>> =>
    AllRead(c) /\ client[c] \in {"closed", "reset"}

Fine(c) == Known(c) /\ Counted(c) /\ Limited(c) /\ Silent(c) /\ Piled(c) /\ Answered(c)

LoopInv == LoopTypeOK /\ \A c \in Clients : Fine(c)

-----------------------------------------------------------------------------
(***************************************************************************)
(* Words that wait, and who is not concerned by a step.                    *)
(***************************************************************************)
\* A queue cut in two.
LEMMA Cut ==
  ASSUME NEW s \in Words, NEW n \in 0..Len(s)
  PROVE  /\ SubSeq(s, 1, n) \in Words /\ Len(SubSeq(s, 1, n)) = n
         /\ SubSeq(s, n + 1, Len(s)) \in Words /\ Len(SubSeq(s, n + 1, Len(s))) = Len(s) - n
<1>1. Len(s) \in Nat /\ \A i \in 1..Len(s) : s[i] \in Nat
  BY DEF Words
<1>2. /\ SubSeq(s, 1, n) \in Seq(Nat)
      /\ Len(SubSeq(s, 1, n)) = IF 1 <= n THEN n - 1 + 1 ELSE 0
  <2>1. \A i \in 1..n : s[i] \in Nat
    BY <1>1
  <2> QED
    BY <2>1, SubSeqProperties
<1>3. /\ SubSeq(s, n + 1, Len(s)) \in Seq(Nat)
      /\ Len(SubSeq(s, n + 1, Len(s))) = IF n + 1 <= Len(s) THEN Len(s) - (n + 1) + 1 ELSE 0
  <2>1. \A i \in n + 1..Len(s) : s[i] \in Nat
    BY <1>1
  <2>2. n + 1 \in Int /\ Len(s) \in Int
    BY <1>1
  <2> QED
    BY <2>1, <2>2, SubSeqProperties
<1> QED
  BY <1>1, <1>2, <1>3 DEF Words

\* What a client said or was said stays as it is.
SameFor(d) ==
  /\ client'[d] = client[d] /\ wire'[d] = wire[d] /\ pinged'[d] = pinged[d] /\ pings'[d] = pings[d]
  /\ spoilt'[d] = spoilt[d] /\ peer'[d] = peer[d] /\ conn'[d] = conn[d]
  /\ out'[d] = out[d] /\ said'[d] = said[d] /\ heard'[d] = heard[d] /\ told'[d] = told[d]
  /\ (d \in peers' <=> d \in peers) /\ (d \in left' <=> d \in left)
  /\ (d \in failed' <=> d \in failed)

LEMMA StaysFine ==
  ASSUME NEW d, Fine(d), SameFor(d), phase' = phase
  PROVE  Fine(d)'
<1>1. Known(d)' /\ Counted(d)'
  BY DEF SameFor, Fine, Known, Counted
<1>2. Limited(d)' /\ Silent(d)'
  BY DEF SameFor, Fine, Limited, Silent, Fresh, Waits, Begun
<1>3. Piled(d)' /\ Answered(d)'
  BY DEF SameFor, Fine, Piled, Answered, AllRead
<1> QED
  BY <1>1, <1>2, <1>3 DEF Fine

\* A step that concerns one client.
LEMMA OneStep ==
  ASSUME LoopInv, NEW c \in Clients, \A d \in Clients \ {c} : SameFor(d), phase' = phase,
         Fine(c)', LoopTypeOK'
  PROVE  LoopInv'
BY StaysFine DEF LoopInv

\* At the start nobody is connected.
LEMMA LoopInit ==
  ASSUME SocketAssumption, Init
  PROVE  LoopInv
<1>1. /\ NewPeer \in PeerType /\ NewPeer.pending = <<>> /\ NewPeer.transport = "undecided"
      /\ NewPeer.failed = FALSE /\ NewPeer.own = 0
  BY DEF NewPeer, PeerType, Words
<1>2. LoopTypeOK
  BY <1>1 DEF Init, LoopTypeOK, SocketAssumption, Words
<1>3. ASSUME NEW c \in Clients PROVE Fine(c)
  <2>1. /\ client[c] = "away" /\ peer[c] = NewPeer /\ conn[c] = "none" /\ out[c] = <<>>
        /\ told[c] = <<>> /\ said[c] = 0 /\ heard[c] = <<>> /\ pinged[c] = 0 /\ pings[c] = 0
        /\ spoilt[c] = "no" /\ peers = {} /\ failed = {} /\ phase = "accept" /\ Len(<<>>) = 0
    BY DEF Init
  <2>2. Known(c) /\ Counted(c) /\ Answered(c)
    BY <1>1, <2>1 DEF Known, Counted, Answered
  <2>3. Limited(c) /\ Silent(c) /\ Piled(c)
    BY <1>1, <2>1 DEF Limited, Silent, Piled, Waits, SocketAssumption
  <2> QED
    BY <2>2, <2>3 DEF Fine
<1> QED
  BY <1>2, <1>3 DEF LoopInv

-----------------------------------------------------------------------------
(***************************************************************************)
(* The clients and the network.                                            *)
(***************************************************************************)
\* A step of a client keeps the types, leaves the others alone, and changes nothing
\* that the server has noticed.
ClientsTyped ==
  /\ client' \in [Clients -> {"away", "backlog", "connected", "closed", "reset"}]
  /\ sent' \in [Clients -> Nat] /\ window' \in [Clients -> Nat] /\ wire' \in [Clients -> Words]
  /\ pinged' \in [Clients -> Nat] /\ pings' \in [Clients -> Nat]
  /\ spoilt' \in [Clients -> {"no", "coming", "read"}]

Alone(c) ==
  \A d \in Clients \ {c} :
    /\ client'[d] = client[d] /\ wire'[d] = wire[d] /\ pinged'[d] = pinged[d]
    /\ pings'[d] = pings[d] /\ spoilt'[d] = spoilt[d]

Unseen(c) ==
  /\ client'[c] \in {"away", "backlog"} => client[c] \in {"away", "backlog"}
  /\ AllRead(c) /\ client[c] \in {"closed", "reset"} =>
       AllRead(c)' /\ client'[c] \in {"closed", "reset"}
  /\ Piled(c)'

Harmless(c) == ClientsTyped /\ Alone(c) /\ Unseen(c)

\* Whatever they do, the server has not noticed yet.
LEMMA NetworkStep ==
  ASSUME SocketAssumption, LoopInv, Network
  PROVE  LoopInv'
<1>1. LoopTypeOK /\ \A d \in Clients : Fine(d)
  BY DEF LoopInv
<1>2. PICK c \in Clients :
        \/ ClientConnects(c) \/ ClientSends(c) \/ ClientPings(c) \/ ClientSpoils(c)
        \/ ClientReads(c) \/ ClientCloses(c) \/ Reset(c)
  BY DEF Network
<1>3. /\ peers' = peers /\ left' = left /\ failed' = failed /\ phase' = phase
      /\ UNCHANGED <<told, peer, conn, out, said, heard>>
  BY DEF Network, ServerWaits, core
<1>4. Piled(c) /\ peer[c] \in PeerType /\ pings[c] \in Nat /\ pinged[c] \in Nat /\ sent[c] \in Nat
  BY <1>1 DEF LoopTypeOK, Fine
<1>5. ASSUME ClientConnects(c) PROVE Harmless(c)
  <2>1. /\ ClientsTyped /\ Alone(c) /\ client[c] = "away" /\ client'[c] = "backlog"
        /\ UNCHANGED <<pinged, pings, spoilt>>
    BY <1>1, <1>5 DEF ClientConnects, LoopTypeOK, ClientsTyped, Alone
  <2>2. Piled(c)'
    BY <1>3, <1>4, <2>1 DEF Piled
  <2> QED
    BY <2>1, <2>2 DEF Unseen, Harmless
<1>6. ASSUME ClientSends(c) PROVE Harmless(c)
  <2>1. sent[c] + 1 \in Nat /\ sent' = [sent EXCEPT ![c] = sent[c] + 1] /\ sent'[c] = sent[c] + 1
    BY <1>1, <1>4, <1>6 DEF ClientSends, LoopTypeOK
  <2>2. wire' = [wire EXCEPT ![c] = Append(wire[c], sent[c] + 1)]
    BY <1>6, <2>1 DEF ClientSends
  <2>3. Append(wire[c], sent[c] + 1) \in Words
    BY <1>1, <2>1 DEF LoopTypeOK, Words
  <2>4. UNCHANGED <<client, pinged, pings, spoilt, window>> /\ client[c] = "connected"
    BY <1>6 DEF ClientSends, Sending
  <2>5. ClientsTyped /\ Alone(c)
    BY <1>1, <2>1, <2>2, <2>3, <2>4 DEF LoopTypeOK, ClientsTyped, Alone
  <2>6. Piled(c)'
    BY <1>3, <1>4, <2>4 DEF Piled
  <2> QED
    BY <2>4, <2>5, <2>6 DEF Unseen, Harmless
<1>7. ASSUME ClientPings(c) PROVE Harmless(c)
  <2>1. /\ pinged' = [pinged EXCEPT ![c] = pinged[c] + 1] /\ pings' = [pings EXCEPT ![c] = pings[c] + 1]
        /\ UNCHANGED <<client, sent, wire, spoilt, window>> /\ client[c] = "connected" /\ c \in Browsers
    BY <1>7 DEF ClientPings, Sending
  <2>2. ClientsTyped /\ Alone(c) /\ pinged'[c] = pinged[c] + 1 /\ pings'[c] = pings[c] + 1
    BY <1>1, <1>4, <2>1 DEF LoopTypeOK, ClientsTyped, Alone
  <2>3. Piled(c)'
    <3>1. peer[c].own + (pings[c] + 1) <= (pinged[c] + 1) + IF peer[c].failed /\ c \in Browsers THEN 1 ELSE 0
      BY <1>4 DEF Piled, PeerType
    <3> QED
      BY <1>3, <1>4, <2>1, <2>2, <3>1 DEF Piled
  <2> QED
    BY <2>1, <2>2, <2>3 DEF Unseen, Harmless
<1>8. ASSUME ClientSpoils(c) PROVE Harmless(c)
  <2>1. /\ spoilt' = [spoilt EXCEPT ![c] = "coming"] /\ UNCHANGED <<client, sent, wire, pinged, pings, window>>
        /\ client[c] = "connected" /\ spoilt[c] = "no" /\ c \in Sessions
    BY <1>8 DEF ClientSpoils, Sending
  <2>2. ClientsTyped /\ Alone(c) /\ spoilt'[c] = "coming"
    BY <1>1, <2>1 DEF LoopTypeOK, ClientsTyped, Alone
  <2>3. Piled(c)'
    BY <1>3, <1>4, <2>1, <2>2 DEF Piled
  <2> QED
    BY <2>1, <2>2, <2>3 DEF Unseen, Harmless
<1>9. ASSUME ClientReads(c) \/ ClientCloses(c) PROVE Harmless(c)
  <2>1. /\ UNCHANGED <<sent, wire, pinged, pings, spoilt>>
        /\ client[c] = "connected" /\ client'[c] \in {"connected", "closed"}
    BY <1>1, <1>9 DEF ClientReads, ClientCloses, LoopTypeOK
  <2>2. ClientsTyped /\ Alone(c)
    BY <1>1, <1>9, <2>1 DEF ClientReads, ClientCloses, LoopTypeOK, SocketAssumption, ClientsTyped, Alone
  <2>3. Piled(c)'
    BY <1>3, <1>4, <2>1 DEF Piled
  <2> QED
    BY <2>1, <2>2, <2>3 DEF Unseen, Harmless
<1>10. ASSUME Reset(c) PROVE Harmless(c)
  <2>1. /\ client' = [client EXCEPT ![c] = "reset"] /\ wire' = [wire EXCEPT ![c] = <<>>]
        /\ pings' = [pings EXCEPT ![c] = 0] /\ spoilt' = [spoilt EXCEPT ![c] = "no"]
        /\ UNCHANGED <<sent, pinged, window>>
    BY <1>10 DEF Reset, Ended
  <2>2. /\ ClientsTyped /\ Alone(c) /\ client'[c] = "reset" /\ wire'[c] = <<>> /\ pings'[c] = 0 /\ spoilt'[c] = "no"
    BY <1>1, <2>1 DEF LoopTypeOK, Words, ClientsTyped, Alone
  <2>3. AllRead(c)'
    BY <2>2 DEF AllRead
  <2>4. Piled(c)'
    <3>1. peer[c].own + 0 <= pinged[c] + IF peer[c].failed /\ c \in Browsers THEN 1 ELSE 0
      BY <1>4 DEF Piled, PeerType
    <3> QED
      BY <1>3, <1>4, <2>1, <2>2, <3>1 DEF Piled
  <2> QED
    BY <2>2, <2>3, <2>4 DEF Unseen, Harmless
<1>11. Harmless(c)
  BY <1>2, <1>5, <1>6, <1>7, <1>8, <1>9, <1>10
<1>12. LoopTypeOK'
  BY <1>1, <1>3, <1>11 DEF LoopTypeOK, Harmless, ClientsTyped
<1>13. Fine(c)'
  <2>1. Fine(c) /\ Unseen(c)
    BY <1>1, <1>11 DEF Harmless
  <2>2. Known(c)' /\ Counted(c)' /\ Limited(c)' /\ Silent(c)'
    <3>1. client'[c] \in {"away", "backlog"} => client[c] \in {"away", "backlog"}
      BY <2>1 DEF Unseen
    <3> QED
      BY <1>3, <2>1, <3>1 DEF Fine, Known, Counted, Limited, Silent, Fresh, Waits, Begun
  <2>3. Answered(c)' /\ Piled(c)'
    BY <1>3, <2>1 DEF Fine, Answered, Unseen
  <2> QED
    BY <2>2, <2>3 DEF Fine
<1>14. \A d \in Clients \ {c} : SameFor(d)
  BY <1>3, <1>11 DEF SameFor, Harmless, Alone
<1> QED
  BY <1>3, <1>12, <1>13, <1>14, OneStep

-----------------------------------------------------------------------------
(***************************************************************************)
(* Accept.                                                                 *)
(***************************************************************************)
\* A new socket, or a refused one.
LEMMA AcceptStep ==
  ASSUME SocketAssumption, LoopInv, NEW c \in Clients, Accept(c)
  PROVE  LoopInv'
<1>1. LoopTypeOK /\ Fine(c) /\ client[c] = "backlog" /\ phase = "accept"
  BY DEF LoopInv, Accept
<1>2. /\ phase' = phase /\ left' = left /\ failed' = failed
      /\ UNCHANGED <<sent, wire, pinged, pings, spoilt, window, told, peer, out, said, heard>>
  BY DEF Accept
<1>3. \/ client' = [client EXCEPT ![c] = "reset"] /\ peers' = peers /\ conn' = conn
      \/ /\ client' = [client EXCEPT ![c] = "connected"] /\ peers' = peers \union {c}
         /\ conn' = [conn EXCEPT ![c] = "open"]
  BY DEF Accept
<1>4. LoopTypeOK'
  BY <1>1, <1>2, <1>3 DEF LoopTypeOK
<1>5. /\ conn[c] = "none" /\ c \notin peers /\ peer[c] = NewPeer /\ out[c] = <<>> /\ told[c] = <<>>
      /\ said[c] = 0
  BY <1>1 DEF Fine, Known
<1>6. /\ peer[c].pending = <<>> /\ peer[c].transport = "undecided" /\ ~peer[c].failed /\ ~Begun(peer[c])
      /\ Len(peer[c].pending) = 0 /\ Len(out[c]) = 0 /\ Len(told[c]) = 0
  BY <1>5 DEF NewPeer, Begun
<1>7. MaxPending \in Nat
  BY DEF SocketAssumption
<1>8. Fine(c)'
  <2>1. /\ client'[c] \in {"reset", "connected"}
        /\ (c \in peers' => conn'[c] = "open") /\ (c \notin peers' => conn'[c] = "none")
    BY <1>1, <1>3, <1>5 DEF LoopTypeOK
  <2>2. Known(c)' /\ Answered(c)'
    BY <1>1, <1>2, <1>5, <1>6, <2>1 DEF Known, Answered
  <2>3. Counted(c)' /\ Limited(c)'
    BY <1>1, <1>2, <1>5, <1>6, <1>7 DEF Counted, Limited, Fresh, Waits
  <2>4. Silent(c)'
    <3>1. c \in Sessions => heard[c] = <<>>
      BY <1>1, <1>6 DEF Fine, Silent
    <3> QED
      BY <1>2, <1>6, <3>1 DEF Silent, Waits
  <2>5. Piled(c)'
    BY <1>1, <1>2, <1>6 DEF Fine, Piled
  <2> QED
    BY <2>2, <2>3, <2>4, <2>5 DEF Fine
<1>9. \A d \in Clients \ {c} : SameFor(d)
  BY <1>1, <1>2, <1>3 DEF SameFor, LoopTypeOK
<1> QED
  BY <1>2, <1>4, <1>8, <1>9, OneStep

\* All were accepted: everybody has still to be read.
LEMMA AcceptedStep ==
  ASSUME LoopInv, Accepted
  PROVE  LoopInv'
<1>1. LoopTypeOK /\ phase = "accept" /\ phase' = "read" /\ left' = peers
  BY DEF LoopInv, Accepted
<1>2. UNCHANGED <<client, sent, wire, pinged, pings, spoilt, window, told, peers, peer, conn, out,
                  said, heard, failed>>
  BY DEF Accepted, network, core
<1>3. LoopTypeOK'
  BY <1>1, <1>2 DEF LoopTypeOK
<1>4. ASSUME NEW c \in Clients PROVE Fine(c)'
  <2>1. Fine(c)
    BY DEF LoopInv
  <2>2. out[c] \in Words
    BY <1>1 DEF LoopTypeOK
  <2>3. Known(c)' /\ Counted(c)' /\ Piled(c)'
    BY <1>1, <1>2, <2>1 DEF Fine, Known, Counted, Piled
  <2>4. c \in peers => out[c] = <<>> /\ Len(out[c]) = 0
    BY <1>1, <2>1, <2>2, EmptySeq DEF Fine, Limited, Fresh, Words
  <2>5. Limited(c)' /\ Silent(c)'
    <3>1. Waits(c)' = Waits(c) /\ (Begun(peer[c])' <=> Begun(peer[c])) /\ Len(out'[c]) = Len(out[c])
      BY <1>2 DEF Waits, Begun
    <3>2. Fresh(c)' = 1 /\ (c \in peers => Len(out'[c]) <= 1)
      BY <1>1, <1>2, <2>4 DEF Fresh
    <3> QED
      BY <1>2, <2>1, <3>1, <3>2 DEF Fine, Limited, Silent
  <2>6. Answered(c)'
    BY <1>1, <1>2, <2>4 DEF Answered
  <2> QED
    BY <2>3, <2>5, <2>6 DEF Fine
<1> QED
  BY <1>3, <1>4 DEF LoopInv

-----------------------------------------------------------------------------
(***************************************************************************)
(* Read.                                                                   *)
(***************************************************************************)
\* The core says one word more.
OneWord(c) ==
  /\ conn[c] = "open"
  /\ said' = [said EXCEPT ![c] = said[c] + 1]
  /\ out' = [out EXCEPT ![c] = Append(out[c], said[c] + 1)]

\* What the core may do about one client: say a word, close its connection, or nothing.
CoreActs(c) ==
  /\ conn' = conn \/ conn' = Gone(c)
  /\ UNCHANGED <<out, said>> \/ OneWord(c)

\* What has become of its words for the clients then.
Acted(c) ==
  /\ conn' \in [Clients -> {"none", "open", "closed"}]
  /\ out' \in [Clients -> Words] /\ said' \in [Clients -> Nat]
  /\ \A d \in Clients \ {c} : conn'[d] = conn[d] /\ out'[d] = out[d] /\ said'[d] = said[d]
  /\ conn'[c] = conn[c] \/ conn'[c] = "closed"
  /\ \/ out'[c] = out[c] /\ Len(out'[c]) = Len(out[c]) /\ said'[c] = said[c]
     \/ conn[c] = "open" /\ Len(out'[c]) = Len(out[c]) + 1 /\ said'[c] = said[c] + 1

LEMMA CoreActsType ==
  ASSUME LoopTypeOK, NEW c \in Clients, CoreActs(c)
  PROVE  Acted(c)
<1>1. out[c] \in Seq(Nat) /\ said[c] + 1 \in Nat
  BY DEF LoopTypeOK, Words
<1>2. /\ Append(out[c], said[c] + 1) \in Words
      /\ Len(Append(out[c], said[c] + 1)) = Len(out[c]) + 1
  BY <1>1 DEF Words
<1>3. /\ conn' \in [Clients -> {"none", "open", "closed"}]
      /\ \A d \in Clients \ {c} : conn'[d] = conn[d]
      /\ conn'[c] = conn[c] \/ conn'[c] = "closed"
  BY DEF CoreActs, Gone, LoopTypeOK
<1>4. CASE UNCHANGED <<out, said>>
  BY <1>3, <1>4 DEF LoopTypeOK, Acted
<1>5. CASE OneWord(c)
  BY <1>1, <1>2, <1>3, <1>5 DEF OneWord, LoopTypeOK, Acted
<1> QED
  BY <1>4, <1>5 DEF CoreActs

\* A word after what the core has heard.
LEMMA HearsActs ==
  ASSUME LoopTypeOK, NEW c \in Clients, NEW data \in Words, conn[c] = "open", Hears(c, data)
  PROVE  /\ UNCHANGED <<out, said>> \/ (OneWord(c) /\ SumOf(said) < MaxSaid)
         /\ heard' = [heard EXCEPT ![c] = heard[c] \o data]
<1>1. heard' = [heard EXCEPT ![c] = heard[c] \o data] /\ (UNCHANGED <<out, said>> \/ Says(c))
  BY DEF Hears
<1>2. CASE Says(c)
  <2>1. /\ said' = [said EXCEPT ![c] = said[c] + 1] /\ SumOf(said) < MaxSaid
        /\ out' = [out EXCEPT ![c] = Append(out[c], said'[c])]
    BY <1>2 DEF Says
  <2>2. said'[c] = said[c] + 1
    BY <2>1 DEF LoopTypeOK
  <2> QED
    BY <1>1, <2>1, <2>2 DEF OneWord
<1> QED
  BY <1>1, <1>2

\* Whoever has a handshake has a transport that knows it.
LEMMA TransportOf ==
  ASSUME SocketAssumption, LoopTypeOK, NEW c \in Clients, Known(c)
  PROVE  /\ Transport(c) \in {"plain", "secure", "websocket"}
         /\ Transport(c) = "plain" <=> c \notin Sessions
         /\ Transport(c) = "secure" => c \in Secures
         /\ Transport(c) = "websocket" => c \in Browsers
<1>1. peer[c].transport \in {"undecided", "plain", "secure", "websocket"}
  BY DEF LoopTypeOK, PeerType
<1>2. CASE peer[c].transport = "undecided"
  BY <1>2 DEF Transport, Sessions
<1>3. CASE peer[c].transport # "undecided"
  <2>1. Transport(c) = peer[c].transport
    BY <1>3 DEF Transport
  <2> QED
    BY <1>1, <1>3, <2>1 DEF Known, Sessions
<1> QED
  BY <1>2, <1>3

\* What a read hands on, and the data in it: nothing as long as the handshake lasts.
LEMMA ReadOfWords ==
  ASSUME LoopTypeOK, NEW c \in Clients, NEW n \in 0..Len(wire[c])
  PROVE  ReadOf(c, n) \in Words
<1> DEFINE read == SubSeq(wire[c], 1, n)
<1>1. wire[c] \in Words /\ peer[c] \in PeerType
  BY DEF LoopTypeOK
<1>2. read \in Words /\ peer[c].first \in Words
  BY <1>1, Cut DEF PeerType
<1>3. ReadOf(c, n) = read \/ ReadOf(c, n) = peer[c].first \o read
  BY DEF ReadOf, Gathered
<1> HIDE DEF read
<1>4. peer[c].first \o read \in Words
  BY <1>2, ConcatProperties DEF Words
<1> QED
  BY <1>2, <1>3, <1>4

LEMMA DataWords ==
  ASSUME SocketAssumption, LoopTypeOK, NEW c \in Clients, NEW u \in Words
  PROVE  /\ Data(c, u) \in Words
         /\ Transport(c) # "plain" /\ Fed(c, u) < Handshake => Data(c, u) = <<>>
<1>1. /\ peer[c].fed \in Nat /\ Handshake \in Nat /\ Len(u) \in Nat
  <2>1. peer[c] \in PeerType
    BY DEF LoopTypeOK
  <2>2. peer[c].fed \in Nat
    BY <2>1 DEF PeerType
  <2>3. Handshake \in Nat
    BY DEF SocketAssumption
  <2>4. Len(u) \in Nat
    BY LenProperties DEF Words
  <2> QED
    BY <2>2, <2>3, <2>4
<1>2. Missing(c) \in Nat /\ (peer[c].fed < Handshake => Missing(c) = Handshake - peer[c].fed)
  BY <1>1 DEF Missing
<1>3. CASE Transport(c) = "plain"
  BY <1>3 DEF Data
<1>4. CASE Transport(c) # "plain"
  <2>1. Data(c, u) = SubSeq(u, Missing(c) + 1, Len(u)) /\ Fed(c, u) = peer[c].fed + Len(u)
    BY <1>4 DEF Data, Fed
  <2>2. CASE Missing(c) <= Len(u)
    <3>1. Missing(c) \in 0..Len(u)
      BY <1>1, <1>2, <2>2
    <3>2. Data(c, u) \in Words /\ Len(Data(c, u)) = Len(u) - Missing(c)
      BY <2>1, <3>1, Cut
    <3>3. Fed(c, u) < Handshake => Len(Data(c, u)) = 0
      <4>1. Fed(c, u) < Handshake => peer[c].fed < Handshake /\ Len(u) < Handshake - peer[c].fed
        BY <1>1, <2>1
      <4>2. ~ Fed(c, u) < Handshake
        BY <1>1, <1>2, <2>2, <4>1
      <4> QED
        BY <4>2
    <3> QED
      BY <3>2, <3>3, EmptySeq DEF Words
  <2>3. CASE ~ Missing(c) <= Len(u)
    <3>1. Missing(c) + 1 \in Int /\ Len(u) \in Int /\ Len(u) < Missing(c) + 1
      BY <1>1, <1>2, <2>3
    <3>2. Data(c, u) = <<>>
      BY <2>1, <3>1, SubSeqEmpty
    <3> QED
      BY <3>2, EmptySeq DEF Words
  <2> QED
    BY <2>2, <2>3
<1> QED
  BY <1>3, <1>4

\* The record once a transport has taken what was read.
Follows(c, q, u, k) ==
  /\ q \in PeerType /\ q.first = <<>> /\ q.transport = Transport(c) /\ q.fed = Fed(c, u)
  /\ q.failed = peer[c].failed /\ q.own = peer[c].own + k
  /\ Begun(peer[c]) => Begun(q)
  /\ \/ q.pending = peer[c].pending /\ (Begun(q) <=> Begun(peer[c]))
     \/ q.pending = Append(peer[c].pending, Reply) /\ Begun(q) /\ ~Begun(peer[c])

LEMMA After ==
  ASSUME SocketAssumption, LoopTypeOK, NEW c \in Clients, Known(c), NEW u \in Words, NEW k \in Nat
  PROVE  Follows(c, PeerAfter(c, u, k), u, k)
<1> DEFINE p == [peer[c] EXCEPT !.first = <<>>, !.transport = Transport(c), !.fed = Fed(c, u),
                                !.own = peer[c].own + k]
           a == [p EXCEPT !.pending = Append(peer[c].pending, Reply)]
<1>1. peer[c] \in PeerType /\ Handshake \in Nat /\ Len(u) \in Nat
  BY DEF LoopTypeOK, SocketAssumption, Words
<1>2. /\ Transport(c) \in {"plain", "secure", "websocket"}
      /\ peer[c].transport # "undecided" => Transport(c) = peer[c].transport
  BY TransportOf DEF Transport
<1>3. /\ Fed(c, u) \in Nat
      /\ peer[c].transport \in {"secure", "websocket"} => Fed(c, u) >= peer[c].fed
  BY <1>1, <1>2 DEF Fed, PeerType
<1>4. /\ p \in PeerType /\ p.first = <<>> /\ p.transport = Transport(c) /\ p.fed = Fed(c, u)
      /\ p.failed = peer[c].failed /\ p.own = peer[c].own + k /\ p.pending = peer[c].pending
  <2>1. <<>> \in Words /\ peer[c].own + k \in Nat
    BY <1>1 DEF PeerType, Words
  <2> QED
    BY <1>1, <1>2, <1>3, <2>1 DEF PeerType
<1>5. Append(peer[c].pending, Reply) \in Words
  BY <1>1 DEF PeerType, Words, Reply
<1>6. /\ a \in PeerType /\ a.first = <<>> /\ a.transport = Transport(c) /\ a.fed = Fed(c, u)
      /\ a.failed = peer[c].failed /\ a.own = peer[c].own + k
      /\ a.pending = Append(peer[c].pending, Reply)
  BY <1>4, <1>5 DEF PeerType
<1>7. PeerAfter(c, u, k) = IF Begun(p) /\ ~Begun(peer[c]) THEN a ELSE p
  BY <1>4 DEF PeerAfter
<1> HIDE DEF p, a
<1>8. (Begun(a) <=> Begun(p)) /\ (Begun(peer[c]) => Begun(p))
  <2>1. Begun(a) <=> Begun(p)
    BY <1>4, <1>6 DEF Begun
  <2>2. ASSUME Begun(peer[c]) PROVE Begun(p)
    <3>1. peer[c].fed >= Handshake /\ peer[c].fed \in Nat /\ peer[c].transport \in {"secure", "websocket"}
      BY <1>1, <2>2 DEF Begun, PeerType
    <3>2. Fed(c, u) >= Handshake
      BY <1>1, <1>3, <3>1
    <3> QED
      BY <1>2, <1>4, <3>1, <3>2 DEF Begun
  <2> QED
    BY <2>1, <2>2
<1>9. CASE Begun(p) /\ ~Begun(peer[c])
  BY <1>6, <1>7, <1>8, <1>9 DEF Follows
<1>10. CASE ~ (Begun(p) /\ ~Begun(peer[c]))
  BY <1>4, <1>7, <1>8, <1>10 DEF Follows
<1> QED
  BY <1>9, <1>10

\* What a read makes of the server's record: the reply waits when the handshake is over.
Rereads(c) ==
  /\ peer' \in [Clients -> PeerType] /\ \A d \in Clients \ {c} : peer'[d] = peer[d]
  /\ peer'[c].transport = "plain" => c \notin Sessions
  /\ peer'[c].transport = "secure" => c \in Secures
  /\ peer'[c].transport = "websocket" => c \in Browsers
  /\ Begun(peer[c]) => Begun(peer'[c])
  /\ \/ peer'[c].pending = peer[c].pending
     \/ peer'[c].pending = Append(peer[c].pending, Reply) /\ Begun(peer'[c]) /\ ~Begun(peer[c])

\* What a read makes of what was sent: it is taken from the network, once.
Takes(c) ==
  /\ wire' \in [Clients -> Words] /\ pings' \in [Clients -> Nat]
  /\ spoilt' \in [Clients -> {"no", "coming", "read"}] /\ heard' \in [Clients -> Words]
  /\ \A d \in Clients \ {c} :
       wire'[d] = wire[d] /\ pings'[d] = pings[d] /\ spoilt'[d] = spoilt[d] /\ heard'[d] = heard[d]
  /\ pings'[c] <= pings[c]
  /\ spoilt'[c] = spoilt[c] \/ (spoilt[c] = "coming" /\ spoilt'[c] = "read")
  /\ \/ peer'[c].failed = peer[c].failed /\ peer'[c].own + pings'[c] <= peer[c].own + pings[c]
     \/ /\ ~peer[c].failed /\ peer'[c].failed /\ spoilt'[c] = "read" /\ conn'[c] = "closed"
        /\ peer'[c].own + pings'[c] <= peer[c].own + pings[c] + IF c \in Browsers THEN 1 ELSE 0

\* The core is told, and may answer: but not before the handshake is over, and not
\* when nothing was read.
Noted(c) ==
  /\ CoreActs(c)
  /\ c \in Sessions /\ ~Begun(peer'[c]) => UNCHANGED <<out, said, heard>>
  /\ AllRead(c) => UNCHANGED <<out, said>>

ReadFacts(c) == Rereads(c) /\ Takes(c) /\ Noted(c) /\ UNCHANGED <<client, sent, pinged, window>>

\* A read of data and pings.
LEMMA SomeFacts ==
  ASSUME SocketAssumption, LoopTypeOK, NEW c \in Clients, Known(c), NEW n, NEW k, ReadSome(c, n, k)
  PROVE  ReadFacts(c)
<1> DEFINE u == ReadOf(c, n)
           data == Data(c, u)
           q == PeerAfter(c, u, k)
<1>1. /\ n \in 0..Len(wire[c]) /\ k \in 0..pings[c] /\ n + k # 0
      /\ wire' = [wire EXCEPT ![c] = SubSeq(wire[c], n + 1, Len(wire[c]))]
      /\ pings' = [pings EXCEPT ![c] = pings[c] - k]
      /\ UNCHANGED <<client, sent, pinged, spoilt, window>>
  BY DEF ReadSome
<1>2. \/ peer' = [peer EXCEPT ![c].first = u] /\ UNCHANGED core /\ ~Decided(c, SubSeq(wire[c], 1, n))
      \/ /\ peer' = [peer EXCEPT ![c] = q]
         /\ \/ conn' = Gone(c) /\ UNCHANGED <<out, said, heard>>
            \/ /\ data # <<>> /\ conn[c] = "open" /\ Hears(c, data)
               /\ conn' = conn \/ conn' = Gone(c)
            \/ UNCHANGED core
  BY DEF ReadSome
<1>3. wire[c] \in Words /\ pings[c] \in Nat /\ peer[c] \in PeerType /\ heard[c] \in Words /\ u \in Words
  <2>1. wire[c] \in Words /\ pings[c] \in Nat /\ peer[c] \in PeerType /\ heard[c] \in Words
    BY DEF LoopTypeOK
  <2>2. u \in Words
    BY <1>1, ReadOfWords
  <2> QED
    BY <2>1, <2>2
<1>4. /\ wire' \in [Clients -> Words] /\ \A d \in Clients \ {c} : wire'[d] = wire[d]
  <2>1. SubSeq(wire[c], n + 1, Len(wire[c])) \in Words
    BY <1>1, <1>3, Cut
  <2> QED
    BY <1>1, <2>1 DEF LoopTypeOK
<1>5. /\ pings' \in [Clients -> Nat] /\ pings'[c] = pings[c] - k /\ k \in Nat /\ k <= pings[c]
      /\ \A d \in Clients \ {c} : pings'[d] = pings[d]
  BY <1>1, <1>3 DEF LoopTypeOK
<1>6. ~AllRead(c)
  <2>1. CASE n # 0
    <3>1. wire[c] # <<>>
      BY <1>1, <1>3, <2>1 DEF Words
    <3> QED
      BY <3>1 DEF AllRead
  <2>2. CASE k # 0
    <3>1. pings[c] # 0
      BY <1>3, <1>5, <2>2
    <3> QED
      BY <3>1 DEF AllRead
  <2> QED
    BY <1>1, <2>1, <2>2
<1>7. data \in Words /\ (Transport(c) # "plain" /\ Fed(c, u) < Handshake => data = <<>>)
  BY <1>3, DataWords
<1>8. CASE peer' = [peer EXCEPT ![c].first = u] /\ UNCHANGED core /\ ~Decided(c, SubSeq(wire[c], 1, n))
  <2>1. /\ peer'[c] = [peer[c] EXCEPT !.first = u] /\ peer' \in [Clients -> PeerType]
        /\ \A d \in Clients \ {c} : peer'[d] = peer[d]
    <3>1. [peer[c] EXCEPT !.first = u] \in PeerType
      BY <1>3 DEF PeerType
    <3> HIDE DEF u
    <3> QED
      BY <1>8, <3>1 DEF LoopTypeOK
  <2>2. /\ peer'[c].transport = peer[c].transport /\ peer'[c].pending = peer[c].pending
        /\ peer'[c].fed = peer[c].fed /\ peer'[c].failed = peer[c].failed /\ peer'[c].own = peer[c].own
        /\ peer[c].own \in Nat
    <3> HIDE DEF u
    <3> QED
      BY <1>3, <2>1 DEF PeerType
  <2>3. Rereads(c)
    BY <2>1, <2>2 DEF Rereads, Begun, Known
  <2>4. Takes(c)
    <3>1. peer'[c].own + pings'[c] <= peer[c].own + pings[c] /\ pings'[c] <= pings[c]
      BY <1>3, <1>5, <2>2
    <3>2. heard' = heard /\ spoilt' = spoilt
      BY <1>1, <1>8 DEF core
    <3> QED
      BY <1>4, <1>5, <2>2, <3>1, <3>2 DEF Takes, LoopTypeOK
  <2>5. Noted(c)
    BY <1>8 DEF Noted, CoreActs, core
  <2> QED
    BY <1>1, <2>3, <2>4, <2>5 DEF ReadFacts
<1>9. CASE /\ peer' = [peer EXCEPT ![c] = q]
           /\ \/ conn' = Gone(c) /\ UNCHANGED <<out, said, heard>>
              \/ /\ data # <<>> /\ conn[c] = "open" /\ Hears(c, data)
                 /\ conn' = conn \/ conn' = Gone(c)
              \/ UNCHANGED core
  <2>1. Follows(c, q, u, k)
    BY <1>3, <1>5, After
  <2> HIDE DEF q
  <2>2. /\ peer'[c] = q /\ peer' \in [Clients -> PeerType] /\ \A d \in Clients \ {c} : peer'[d] = peer[d]
    BY <1>9, <2>1 DEF LoopTypeOK, Follows
  <2>3. Rereads(c)
    <3>1. /\ q.transport = Transport(c) /\ (Begun(peer[c]) => Begun(q))
          /\ \/ q.pending = peer[c].pending
             \/ q.pending = Append(peer[c].pending, Reply) /\ Begun(q) /\ ~Begun(peer[c])
      BY <2>1 DEF Follows
    <3>2. /\ Transport(c) = "plain" => c \notin Sessions
          /\ Transport(c) = "secure" => c \in Secures
          /\ Transport(c) = "websocket" => c \in Browsers
      BY TransportOf
    <3> QED
      BY <2>2, <3>1, <3>2 DEF Rereads
  <2>4. /\ \/ UNCHANGED <<out, said, heard>>
           \/ /\ data # <<>> /\ (UNCHANGED <<out, said>> \/ OneWord(c))
              /\ heard' = [heard EXCEPT ![c] = heard[c] \o data]
        /\ conn' = conn \/ conn' = Gone(c)
    <3> HIDE DEF data
    <3>1. CASE data # <<>> /\ conn[c] = "open" /\ Hears(c, data) /\ (conn' = conn \/ conn' = Gone(c))
      BY <1>7, <3>1, HearsActs
    <3> QED
      BY <1>9, <3>1 DEF core
  <2>5. heard' \in [Clients -> Words] /\ \A d \in Clients \ {c} : heard'[d] = heard[d]
    <3>1. heard[c] \o data \in Words /\ heard \in [Clients -> Words]
      BY <1>3, <1>7, ConcatProperties DEF Words, LoopTypeOK
    <3> DEFINE h == heard[c] \o data
    <3>2. heard' = heard \/ heard' = [heard EXCEPT ![c] = h]
      BY <2>4
    <3> HIDE DEF h
    <3> QED
      BY <3>1, <3>2 DEF h
  <2>6. Takes(c)
    <3>1. /\ q.failed = peer[c].failed /\ q.own = peer[c].own + k /\ peer[c].own \in Nat
      BY <1>3, <2>1 DEF Follows, PeerType
    <3>2. q.own + pings'[c] <= peer[c].own + pings[c]
      BY <1>3, <1>5, <3>1
    <3>3. pings'[c] <= pings[c]
      BY <1>3, <1>5
    <3> QED
      BY <1>1, <1>4, <1>5, <2>2, <2>5, <3>1, <3>2, <3>3 DEF Takes, LoopTypeOK
  <2>7. c \in Sessions /\ ~Begun(q) => data = <<>>
    <3>1. Transport(c) # "plain" => Transport(c) \in {"secure", "websocket"}
      BY TransportOf
    <3>2. c \in Sessions => Transport(c) # "plain"
      BY TransportOf
    <3>3. q.fed = Fed(c, u) /\ q.fed \in Nat /\ q.transport = Transport(c) /\ Handshake \in Nat
      BY <2>1 DEF Follows, PeerType, SocketAssumption
    <3>4. Transport(c) # "plain" /\ ~Begun(q) => Fed(c, u) < Handshake
      BY <3>1, <3>3 DEF Begun
    <3> HIDE DEF data, u
    <3> QED
      BY <1>7, <3>2, <3>4
  <2>8. Noted(c)
    <3> HIDE DEF data
    <3> QED
      BY <1>6, <2>2, <2>4, <2>7 DEF Noted, CoreActs
  <2> QED
    BY <1>1, <2>3, <2>6, <2>8 DEF ReadFacts
<1> QED
  BY <1>2, <1>8, <1>9

\* A read that ends with what the transport does not accept.
LEMMA SpoiltFacts ==
  ASSUME SocketAssumption, LoopTypeOK, NEW c \in Clients, Known(c), Piled(c), NEW n, ReadSpoilt(c, n)
  PROVE  ReadFacts(c)
<1> DEFINE u == ReadOf(c, n)
           v == ReadOf(c, Len(wire[c]))
           data == Data(c, u)
           p == PeerAfter(c, u, pings[c])
           own == IF c \in Browsers THEN p.own + 1 ELSE p.own
           q == [p EXCEPT !.failed = TRUE, !.fed = Fed(c, v), !.own = own]
<1>1. /\ spoilt[c] = "coming" /\ n \in 0..Len(wire[c])
      /\ wire' = [wire EXCEPT ![c] = <<>>] /\ pings' = [pings EXCEPT ![c] = 0]
      /\ spoilt' = [spoilt EXCEPT ![c] = "read"] /\ conn' = Gone(c)
      /\ UNCHANGED <<client, sent, pinged, window>>
  BY DEF ReadSpoilt
<1>2. /\ peer' = [peer EXCEPT ![c] = q]
      /\ IF data # <<>> /\ conn[c] = "open" THEN Hears(c, data) ELSE UNCHANGED <<out, said, heard>>
  BY DEF ReadSpoilt
<1>3. /\ wire[c] \in Words /\ Len(wire[c]) \in Nat /\ pings[c] \in Nat /\ peer[c] \in PeerType
      /\ heard[c] \in Words /\ u \in Words /\ v \in Words
  <2>1. wire[c] \in Words /\ Len(wire[c]) \in Nat /\ pings[c] \in Nat /\ peer[c] \in PeerType
        /\ heard[c] \in Words
    BY DEF LoopTypeOK, Words
  <2>2. Len(wire[c]) \in 0..Len(wire[c])
    BY <2>1
  <2> QED
    BY <1>1, <2>1, <2>2, ReadOfWords
<1>4. /\ wire' \in [Clients -> Words] /\ pings' \in [Clients -> Nat]
      /\ spoilt' \in [Clients -> {"no", "coming", "read"}]
      /\ \A d \in Clients \ {c} : wire'[d] = wire[d] /\ pings'[d] = pings[d] /\ spoilt'[d] = spoilt[d]
      /\ pings'[c] = 0 /\ spoilt'[c] = "read" /\ ~AllRead(c) /\ conn'[c] = "closed"
  <2>1. <<>> \in Words
    BY DEF Words
  <2> QED
    BY <1>1, <2>1 DEF LoopTypeOK, AllRead, Gone
<1>5. data \in Words /\ (Transport(c) # "plain" /\ Fed(c, u) < Handshake => data = <<>>)
  BY <1>3, DataWords
<1>6. Follows(c, p, u, pings[c])
  BY <1>3, After
<1>7. /\ Transport(c) \in {"plain", "secure", "websocket"}
      /\ Transport(c) = "plain" <=> c \notin Sessions
      /\ Transport(c) = "secure" => c \in Secures
      /\ Transport(c) = "websocket" => c \in Browsers
      /\ c \in Sessions
  BY <1>1, TransportOf DEF Piled
<1>8. Fed(c, u) <= Fed(c, v) /\ Fed(c, u) \in Nat /\ Fed(c, v) \in Nat /\ Handshake \in Nat
  <2>1. /\ SubSeq(wire[c], 1, n) \in Words /\ Len(SubSeq(wire[c], 1, n)) = n
        /\ SubSeq(wire[c], 1, Len(wire[c])) \in Words
        /\ Len(SubSeq(wire[c], 1, Len(wire[c]))) = Len(wire[c])
    <3>1. Len(wire[c]) \in 0..Len(wire[c])
      BY <1>3
    <3> QED
      BY <1>1, <1>3, <3>1, Cut
  <2>2. Len(u) <= Len(v) /\ Len(u) \in Nat /\ Len(v) \in Nat
    <3>1. peer[c].first \in Words /\ Len(peer[c].first) \in Nat
      BY <1>3 DEF PeerType, Words
    <3>2. CASE peer[c].transport = "undecided"
      <4> DEFINE a == SubSeq(wire[c], 1, n)
                 b == SubSeq(wire[c], 1, Len(wire[c]))
      <4>1. u = peer[c].first \o a /\ v = peer[c].first \o b
        BY <3>2 DEF ReadOf, Gathered
      <4>2. a \in Seq(Nat) /\ b \in Seq(Nat) /\ Len(a) = n /\ Len(b) = Len(wire[c]) /\ peer[c].first \in Seq(Nat)
        BY <2>1, <3>1 DEF Words
      <4> HIDE DEF u, v, a, b
      <4>3. Len(peer[c].first \o a) = Len(peer[c].first) + Len(a) /\ Len(peer[c].first \o b) = Len(peer[c].first) + Len(b)
        BY <4>2, ConcatProperties
      <4>4. Len(u) = Len(peer[c].first) + n /\ Len(v) = Len(peer[c].first) + Len(wire[c])
        BY <4>1, <4>2, <4>3
      <4>5. n <= Len(wire[c]) /\ n \in Nat
        BY <1>1, <1>3
      <4> DEFINE i == Len(u)
                 j == Len(v)
                 f == Len(peer[c].first)
                 w == Len(wire[c])
      <4>6. i = f + n /\ j = f + w /\ f \in Nat /\ w \in Nat /\ n \in Nat /\ n <= w
        BY <1>3, <3>1, <4>4, <4>5
      <4> HIDE DEF i, j, f, w
      <4>7. i <= j /\ i \in Nat /\ j \in Nat
        BY ONLY <4>6
      <4> QED
        BY <4>7 DEF i, j
    <3>3. CASE peer[c].transport # "undecided"
      <4>1. Len(u) = n /\ Len(v) = Len(wire[c])
        BY <2>1, <3>3 DEF ReadOf
      <4> HIDE DEF u, v
      <4> QED
        BY <1>1, <1>3, <4>1
    <3> QED
      BY <3>2, <3>3
  <2> HIDE DEF u, v
  <2>3. peer[c].fed \in Nat /\ Handshake \in Nat
    BY <1>3 DEF PeerType, SocketAssumption
  <2> QED
    BY <2>2, <2>3 DEF Fed
<1>9. /\ q \in PeerType /\ q.transport = Transport(c) /\ q.failed = TRUE /\ q.fed = Fed(c, v)
      /\ q.own = own /\ q.pending = p.pending /\ p.own = peer[c].own + pings[c] /\ p.fed = Fed(c, u)
      /\ p.transport = Transport(c) /\ p.own \in Nat
  <2> HIDE DEF p, u, v
  <2>1. p \in PeerType /\ p.own \in Nat /\ own \in Nat
    BY <1>6 DEF Follows, PeerType
  <2> HIDE DEF own
  <2> QED
    BY <1>6, <1>8, <2>1 DEF Follows, PeerType
<1> HIDE DEF p, q, u, v, data
<1>10. Begun(p) => Begun(q)
  <2> SUFFICES ASSUME Begun(p) PROVE Begun(q)
    OBVIOUS
  <2>1. p.fed >= Handshake /\ p.transport \in {"secure", "websocket"}
    BY DEF Begun
  <2>2. q.fed >= Handshake
    BY <1>8, <1>9, <2>1
  <2> QED
    BY <1>9, <2>1, <2>2 DEF Begun
<1>11. /\ peer'[c] = q /\ peer' \in [Clients -> PeerType] /\ \A d \in Clients \ {c} : peer'[d] = peer[d]
  BY <1>2, <1>9 DEF LoopTypeOK
<1>12. Rereads(c)
  <2>1. /\ Begun(peer[c]) => Begun(p)
        /\ \/ p.pending = peer[c].pending
           \/ p.pending = Append(peer[c].pending, Reply) /\ Begun(p) /\ ~Begun(peer[c])
    BY <1>6 DEF Follows
  <2>2. /\ q.transport = "plain" => c \notin Sessions
        /\ q.transport = "secure" => c \in Secures
        /\ q.transport = "websocket" => c \in Browsers
    BY <1>7, <1>9
  <2> QED
    BY <1>9, <1>10, <1>11, <2>1, <2>2 DEF Rereads
<1>13. /\ \/ UNCHANGED <<out, said, heard>>
          \/ /\ data # <<>> /\ (UNCHANGED <<out, said>> \/ OneWord(c))
             /\ heard' = [heard EXCEPT ![c] = heard[c] \o data]
  <2>1. CASE data # <<>> /\ conn[c] = "open" /\ Hears(c, data)
    BY <1>5, <2>1, HearsActs
  <2> QED
    BY <1>2, <2>1
<1>14. heard' \in [Clients -> Words] /\ \A d \in Clients \ {c} : heard'[d] = heard[d]
  <2> DEFINE h == heard[c] \o data
  <2>1. h \in Words /\ heard \in [Clients -> Words]
    BY <1>3, <1>5, ConcatProperties DEF Words, LoopTypeOK
  <2>2. heard' = heard \/ heard' = [heard EXCEPT ![c] = h]
    BY <1>13
  <2> HIDE DEF h
  <2> QED
    BY <2>1, <2>2
<1>15. Takes(c)
  <2>1. ~peer[c].failed /\ q.failed = TRUE
    BY <1>1, <1>9 DEF Piled
  <2>2. q.own + 0 <= peer[c].own + pings[c] + (IF c \in Browsers THEN 1 ELSE 0)
    <3>1. peer[c].own + pings[c] \in Nat
      BY <1>3 DEF PeerType
    <3> QED
      BY <1>9, <3>1
  <2>3. pings'[c] <= pings[c]
    BY <1>3, <1>4
  <2> QED
    BY <1>1, <1>4, <1>11, <1>14, <2>1, <2>2, <2>3 DEF Takes
<1>16. c \in Sessions /\ ~Begun(q) => data = <<>>
  <2> SUFFICES ASSUME ~Begun(q) PROVE data = <<>>
    OBVIOUS
  <2>1. ~Begun(p) /\ Transport(c) \in {"secure", "websocket"}
    BY <1>7, <1>10
  <2>2. Fed(c, u) < Handshake
    BY <1>8, <1>9, <2>1 DEF Begun
  <2> QED
    BY <1>5, <2>1, <2>2
<1>17. Noted(c)
  BY <1>1, <1>4, <1>11, <1>13, <1>16 DEF Noted, CoreActs
<1> QED
  BY <1>1, <1>12, <1>15, <1>17 DEF ReadFacts

\* The end of a stream.
LEMMA NoneFacts ==
  ASSUME LoopTypeOK, NEW c \in Clients, Known(c), ReadNone(c)
  PROVE  ReadFacts(c)
<1>1. /\ UNCHANGED <<client, sent, wire, pinged, pings, spoilt, window, peer, out, said, heard>>
      /\ conn' = conn \/ conn' = Gone(c)
  BY DEF ReadNone, network
<1>2. Rereads(c)
  BY <1>1 DEF Rereads, LoopTypeOK, Known, Begun
<1>3. Takes(c)
  BY <1>1 DEF Takes, LoopTypeOK, PeerType
<1>4. Noted(c)
  BY <1>1 DEF Noted, CoreActs
<1> QED
  BY <1>1, <1>2, <1>3, <1>4 DEF ReadFacts

\* A read: the core may be told, and may answer or close the connection.
LEMMA ReadStep ==
  ASSUME SocketAssumption, LoopInv, NEW c \in Clients, Read(c)
  PROVE  LoopInv'
<1>1. LoopTypeOK /\ Fine(c) /\ Known(c) /\ Piled(c) /\ phase = "read" /\ c \in left /\ c \in peers
  BY DEF LoopInv, LoopTypeOK, Fine, Read
<1>2. phase' = phase /\ peers' = peers /\ failed' = failed /\ told' = told
  BY DEF Read
<1>3. ReadFacts(c)
  <2>1. CASE ReadNone(c)
    BY <1>1, <2>1, NoneFacts
  <2>2. ASSUME NEW n \in 0..MaxSent, ReadSpoilt(c, n) PROVE ReadFacts(c)
    BY <1>1, <2>2, SpoiltFacts
  <2>3. ASSUME NEW n \in 0..MaxSent, NEW k \in 0..MaxPings, ReadSome(c, n, k) PROVE ReadFacts(c)
    BY <1>1, <2>3, SomeFacts
  <2> QED
    BY <2>1, <2>2, <2>3 DEF Read
<1>4. \/ left' = left \ {c}
      \/ left' = left /\ ~AllRead(c) /\ AllRead(c)' /\ client[c] = "closed"
  BY DEF Read
<1>5. Rereads(c) /\ Takes(c) /\ Noted(c) /\ UNCHANGED <<client, sent, pinged, window>>
  BY <1>3 DEF ReadFacts
<1>6. Acted(c)
  BY <1>1, <1>5, CoreActsType DEF Noted
<1>7. LoopTypeOK'
  BY <1>1, <1>2, <1>4, <1>5, <1>6 DEF LoopTypeOK, Rereads, Takes, Acted
<1>8. /\ Len(out[c]) \in Nat /\ Len(told[c]) \in Nat /\ said[c] \in Nat /\ MaxPending \in Nat \ {0}
      /\ Len(out'[c]) \in Nat /\ Waits(c) \in Nat /\ (out[c] = <<>> => Len(out[c]) = 0)
      /\ Waits(c) = Len(peer[c].pending) /\ Waits(c)' = Len(peer'[c].pending)
  <2>1. out[c] \in Seq(Nat) /\ told[c] \in Seq(Nat) /\ said[c] \in Nat /\ peer[c].pending \in Seq(Nat)
        /\ out'[c] \in Seq(Nat)
    BY <1>1, <1>6 DEF LoopTypeOK, PeerType, Words, Acted
  <2>2. MaxPending \in Nat \ {0}
    BY DEF SocketAssumption
  <2>3. Waits(c) = Len(peer[c].pending) /\ Waits(c)' = Len(peer'[c].pending)
    BY DEF Waits
  <2> QED
    BY <2>1, <2>2, <2>3
<1>9. /\ \/ Len(out'[c]) = Len(out[c]) /\ said'[c] = said[c]
         \/ /\ conn[c] = "open" /\ Len(out[c]) = 0
            /\ Len(out'[c]) = Len(out[c]) + 1 /\ said'[c] = said[c] + 1
      /\ conn'[c] = conn[c] \/ conn'[c] = "closed"
  <2>1. CASE AllRead(c)
    <3>1. out' = out /\ said' = said
      BY <1>5, <2>1 DEF Noted
    <3> QED
      BY <1>6, <3>1 DEF Acted
  <2>2. CASE ~AllRead(c)
    <3>1. out[c] = <<>>
      BY <1>1, <2>2 DEF Fine, Answered
    <3> QED
      BY <1>6, <1>8, <3>1 DEF Acted
  <2> QED
    BY <2>1, <2>2
<1>10. \/ Waits(c)' = Waits(c)
       \/ Waits(c)' = Waits(c) + 1 /\ Begun(peer'[c]) /\ ~Begun(peer[c]) /\ c \in Sessions
  <2>1. CASE peer'[c].pending = peer[c].pending
    BY <1>8, <2>1
  <2>2. CASE peer'[c].pending = Append(peer[c].pending, Reply) /\ Begun(peer'[c]) /\ ~Begun(peer[c])
    <3>1. peer[c].pending \in Seq(Nat) /\ Reply \in Nat
      BY <1>1 DEF LoopTypeOK, PeerType, Words, Reply
    <3>2. Len(Append(peer[c].pending, Reply)) = Len(peer[c].pending) + 1
      BY <3>1
    <3>3. c \in Sessions
      BY <1>5, <2>2 DEF Rereads, Begun, Sessions
    <3> QED
      BY <1>8, <2>2, <3>2, <3>3
  <2> QED
    BY <1>5, <2>1, <2>2 DEF Rereads
<1>11. Known(c)'
  <2>1. peer'[c].failed => conn'[c] # "open"
    BY <1>1, <1>5, <1>9 DEF Takes, Known
  <2>2. conn[c] # "none" /\ conn'[c] # "none"
    BY <1>1, <1>9 DEF Known
  <2>3. conn'[c] = "open" => conn[c] = "open"
    BY <1>9
  <2> QED
    BY <1>1, <1>2, <1>5, <2>1, <2>2, <2>3 DEF Known, Rereads
<1>12. Counted(c)'
  <2> SUFFICES ASSUME c \notin Sessions
               PROVE  Len(told'[c]) + Len(peer'[c].pending) + Len(out'[c]) = said'[c]
    BY <1>1, <1>2 DEF Counted
  <2>1. Len(told[c]) + Waits(c) + Len(out[c]) = said[c] /\ Waits(c)' = Waits(c)
    BY <1>1, <1>8, <1>10 DEF Fine, Counted
  <2> DEFINE a == Len(told[c])
             w == Waits(c)
             o == Len(out[c])
             s == said[c]
             p == Len(out'[c])
             r == said'[c]
  <2>2. /\ a \in Nat /\ w \in Nat /\ o \in Nat /\ s \in Nat /\ a + w + o = s
        /\ (p = o /\ r = s) \/ (p = o + 1 /\ r = s + 1)
    BY <1>8, <1>9, <2>1
  <2>3. Len(told'[c]) = a /\ Len(peer'[c].pending) = w
    BY <1>2, <1>8, <2>1
  <2> HIDE DEF a, w, o, s, p, r
  <2>4. a + w + p = r
    BY ONLY <2>2
  <2> QED
    BY <2>3, <2>4 DEF p, r
<1>13. /\ conn[c] = "open" => Waits(c) <= MaxPending
       /\ Waits(c) + Len(out[c]) <= MaxPending + 2 /\ Waits(c) <= MaxPending + 2
       /\ Len(out[c]) <= 1
       /\ c \in Sessions /\ ~Begun(peer[c]) =>
            heard[c] = <<>> /\ Waits(c) + Len(out[c]) <= IF conn[c] = "open" THEN 0 ELSE 1
  BY <1>1 DEF Fine, Limited, Silent, Fresh
<1>14. Limited(c)'
  <2>1. Fresh(c)' = 1
    BY <1>1, <1>2 DEF Fresh
  <2> DEFINE w == Waits(c)
             v == Waits(c)'
             o == Len(out[c])
             p == Len(out'[c])
  <2>2. /\ w \in Nat /\ o \in Nat /\ MaxPending \in Nat /\ MaxPending >= 1
        /\ conn[c] = "open" => w <= MaxPending
        /\ w + o <= MaxPending + 2 /\ w <= MaxPending + 2 /\ o <= 1
        /\ p = o \/ (conn[c] = "open" /\ o = 0 /\ p = o + 1)
        /\ \/ v = w
           \/ v = w + 1 /\ w + o <= IF conn[c] = "open" THEN 0 ELSE 1
    <3>1. w \in Nat /\ o \in Nat /\ MaxPending \in Nat /\ MaxPending >= 1
      BY <1>8
    <3>2. p = o \/ (conn[c] = "open" /\ o = 0 /\ p = o + 1)
      BY <1>9
    <3>3. v = w \/ (v = w + 1 /\ c \in Sessions /\ ~Begun(peer[c]))
      BY <1>10
    <3> QED
      BY <1>13, <3>1, <3>2, <3>3
  <2>3. conn'[c] = "open" => conn[c] = "open"
    BY <1>9
  <2> HIDE DEF w, v, o, p
  <2>4. /\ v <= MaxPending + 2 /\ v + p <= MaxPending + 2 /\ p <= 1
        /\ conn[c] = "open" => v <= MaxPending
    BY ONLY <2>2
  <2> QED
    BY <2>1, <2>3, <2>4 DEF Limited, v, p
<1>15. Silent(c)'
  <2> SUFFICES ASSUME c \in Sessions, ~Begun(peer'[c])
               PROVE  heard'[c] = <<>> /\ Waits(c)' + Len(out'[c]) <= IF conn'[c] = "open" THEN 0 ELSE 1
    BY DEF Silent, Begun
  <2>1. UNCHANGED <<out, said, heard>>
    BY <1>5 DEF Noted
  <2>2. ~Begun(peer[c])
    BY <1>5 DEF Rereads
  <2>3. Waits(c)' = Waits(c) /\ Len(out'[c]) = Len(out[c]) /\ heard'[c] = heard[c]
    BY <1>10, <2>1
  <2>4. conn'[c] = "open" => conn[c] = "open"
    BY <1>9
  <2>5. /\ heard[c] = <<>> /\ Waits(c) + Len(out[c]) <= IF conn[c] = "open" THEN 0 ELSE 1
        /\ Waits(c) \in Nat /\ Len(out[c]) \in Nat
    BY <1>8, <1>13, <2>2
  <2> DEFINE l == Waits(c) + Len(out[c])
  <2>6. l \in Nat /\ l <= 1 /\ (conn'[c] = "open" => l <= 0) /\ heard'[c] = <<>>
    BY <2>3, <2>4, <2>5
  <2>7. Waits(c)' + Len(out'[c]) = l
    BY <2>3
  <2> HIDE DEF l
  <2> QED
    BY ONLY <2>6, <2>7
<1>16. Piled(c)'
  <2>1. /\ client'[c] = client[c] /\ pinged'[c] = pinged[c] /\ pings'[c] <= pings[c]
        /\ pings'[c] \in Nat /\ pings[c] \in Nat /\ pinged[c] \in Nat
        /\ peer'[c].own \in Nat /\ peer[c].own \in Nat
    BY <1>1, <1>5 DEF Takes, Rereads, LoopTypeOK, PeerType
  <2>2. /\ c \notin Browsers => pinged'[c] = 0
        /\ client'[c] \in {"away", "backlog", "reset"} => pings'[c] = 0
    BY <1>1, <2>1 DEF Piled
  <2>3. /\ spoilt'[c] # "no" => client'[c] \in {"connected", "closed"} /\ c \in Sessions
        /\ peer'[c].failed => spoilt'[c] = "read" \/ client'[c] = "reset"
    BY <1>1, <1>5, <2>1 DEF Piled, Takes
  <2>4. peer'[c].own + pings'[c] <= pinged'[c] + IF peer'[c].failed /\ c \in Browsers THEN 1 ELSE 0
    <3>1. peer[c].own + pings[c] <= pinged[c] + IF peer[c].failed /\ c \in Browsers THEN 1 ELSE 0
      BY <1>1 DEF Piled
    <3>2. CASE /\ peer'[c].failed = peer[c].failed
               /\ peer'[c].own + pings'[c] <= peer[c].own + pings[c]
      BY <2>1, <3>1, <3>2
    <3>3. CASE /\ ~peer[c].failed /\ peer'[c].failed
               /\ peer'[c].own + pings'[c] <= peer[c].own + pings[c] + IF c \in Browsers THEN 1 ELSE 0
      BY <2>1, <3>1, <3>3
    <3> QED
      BY <1>5, <3>2, <3>3 DEF Takes
  <2> QED
    BY <2>2, <2>3, <2>4 DEF Piled
<1>17. Answered(c)'
  BY <1>2, <1>4, <1>5 DEF Answered
<1>18. Fine(c)'
  BY <1>11, <1>12, <1>14, <1>15, <1>16, <1>17 DEF Fine
<1>19. \A d \in Clients \ {c} : SameFor(d)
  <2>1. \A d \in Clients \ {c} : d \in left' <=> d \in left
    BY <1>4
  <2> QED
    BY <1>2, <1>5, <1>6, <2>1 DEF SameFor, Rereads, Takes, Acted
<1> QED
  BY <1>2, <1>7, <1>18, <1>19, OneStep

-----------------------------------------------------------------------------
(***************************************************************************)
(* Advance, write and reap.                                                *)
(***************************************************************************)
\* A word of the core's own.
LEMMA TellsActs ==
  ASSUME LoopTypeOK, NEW c \in Clients, Tells(c)
  PROVE  /\ OneWord(c) /\ SumOf(said) < MaxSaid /\ heard' = heard
         /\ (conn' = conn /\ heard[c] # <<>>) \/ conn' = Gone(c)
<1>1. /\ conn[c] = "open" /\ SumOf(said) < MaxSaid
      /\ said' = [said EXCEPT ![c] = said[c] + 1] /\ out' = [out EXCEPT ![c] = Append(out[c], said'[c])]
      /\ (heard[c] # <<>> /\ conn' = conn) \/ conn' = Gone(c)
      /\ heard' = heard
  BY DEF Tells, Says
<1>2. said'[c] = said[c] + 1
  BY <1>1 DEF LoopTypeOK
<1> QED
  BY <1>1, <1>2 DEF OneWord

\* Once everybody was read, the core may say one word to one client.
LEMMA AdvanceStep ==
  ASSUME SocketAssumption, LoopInv, Advance
  PROVE  LoopInv'
<1>1. LoopTypeOK /\ phase = "read" /\ left = {} /\ phase' = "write" /\ left' = peers
  BY DEF LoopInv, Advance
<1>2. UNCHANGED <<client, sent, wire, pinged, pings, spoilt, window, told, peers, peer, failed>>
  BY DEF Advance, network
<1>3. /\ conn' \in [Clients -> {"none", "open", "closed"}]
      /\ out' \in [Clients -> Words] /\ said' \in [Clients -> Nat]
      /\ heard' = heard
      /\ \A d \in Clients :
           \/ conn'[d] = conn[d] /\ Len(out'[d]) = Len(out[d]) /\ out'[d] = out[d] /\ said'[d] = said[d]
           \/ /\ conn[d] = "open" /\ Len(out'[d]) = Len(out[d]) + 1 /\ said'[d] = said[d] + 1
              /\ conn'[d] = "closed" \/ (conn'[d] = "open" /\ heard[d] # <<>>)
  <2>1. CASE UNCHANGED core
    BY <1>1, <2>1 DEF core, LoopTypeOK
  <2>2. CASE \E c \in Clients : Tells(c)
    <3>1. PICK c \in Clients : Tells(c)
      BY <2>2
    <3>2. /\ OneWord(c) /\ heard' = heard /\ ((conn' = conn /\ heard[c] # <<>>) \/ conn' = Gone(c))
      BY <1>1, <3>1, TellsActs
    <3>3. Acted(c)
      BY <1>1, <3>2, CoreActsType DEF CoreActs
    <3>4. /\ conn[c] = "open" /\ said'[c] # said[c]
      BY <1>1, <3>2 DEF OneWord, LoopTypeOK
    <3>5. conn'[c] = "closed" \/ (conn'[c] = "open" /\ heard[c] # <<>>)
      BY <1>1, <3>2, <3>4 DEF Gone, LoopTypeOK
    <3>6. \A d \in Clients \ {c} :
            conn'[d] = conn[d] /\ Len(out'[d]) = Len(out[d]) /\ out'[d] = out[d] /\ said'[d] = said[d]
      BY <3>3 DEF Acted
    <3>7. Len(out'[c]) = Len(out[c]) + 1 /\ said'[c] = said[c] + 1
      BY <3>3, <3>4 DEF Acted
    <3>8. /\ conn' \in [Clients -> {"none", "open", "closed"}]
          /\ out' \in [Clients -> Words] /\ said' \in [Clients -> Nat]
      BY <3>3 DEF Acted
    <3> QED
      BY <3>2, <3>4, <3>5, <3>6, <3>7, <3>8
  <2> QED
    BY <2>1, <2>2 DEF Advance
<1>4. LoopTypeOK'
  BY <1>1, <1>2, <1>3 DEF LoopTypeOK
<1>5. ASSUME NEW d \in Clients PROVE Fine(d)'
  <2>1. /\ Fine(d) /\ Waits(d)' = Waits(d) /\ Waits(d) = Len(peer[d].pending)
        /\ (Begun(peer[d])' <=> Begun(peer[d])) /\ AllRead(d)' = AllRead(d)
    BY <1>2 DEF LoopInv, Waits, Begun, AllRead
  <2>2. /\ Len(out[d]) \in Nat /\ Len(told[d]) \in Nat /\ said[d] \in Nat /\ MaxPending \in Nat
        /\ peer[d].pending \in Seq(Nat)
    <3>1. out[d] \in Words /\ told[d] \in Words /\ said[d] \in Nat /\ peer[d] \in PeerType
      BY <1>1 DEF LoopTypeOK
    <3>2. peer[d].pending \in Words
      BY <3>1 DEF PeerType
    <3>3. Len(out[d]) \in Nat /\ Len(told[d]) \in Nat /\ peer[d].pending \in Seq(Nat)
      BY <3>1, <3>2 DEF Words
    <3> QED
      BY <3>1, <3>3 DEF SocketAssumption
  <2>3. \/ conn'[d] = conn[d] /\ Len(out'[d]) = Len(out[d]) /\ out'[d] = out[d] /\ said'[d] = said[d]
        \/ /\ conn[d] = "open" /\ Len(out'[d]) = Len(out[d]) + 1 /\ said'[d] = said[d] + 1
           /\ conn'[d] = "closed" \/ (conn'[d] = "open" /\ heard[d] # <<>>)
    BY <1>3
  <2>4. Waits(d) \in Nat
    BY <2>2 DEF Waits
  <2>5. Known(d)' /\ Piled(d)' /\ Answered(d)'
    BY <1>1, <1>2, <2>1, <2>3 DEF Fine, Known, Piled, Answered
  <2>6. Counted(d)'
    <3> SUFFICES ASSUME d \notin Sessions PROVE Counted(d)'
      BY DEF Counted
    <3>1. /\ d \in peers => Len(told[d]) + Waits(d) + Len(out[d]) = said[d]
          /\ d \notin peers /\ d \notin failed => Len(told[d]) = said[d] /\ conn[d] # "open"
      BY <2>1 DEF Fine, Counted, Known
    <3>2. ASSUME d \in peers
          PROVE  Len(told[d]) + Waits(d) + Len(out'[d]) = said'[d]
      <4> DEFINE t == Len(told[d])
                 w == Waits(d)
                 o == Len(out[d])
                 s == said[d]
                 p == Len(out'[d])
                 r == said'[d]
      <4>1. /\ t \in Nat /\ w \in Nat /\ o \in Nat /\ s \in Nat /\ t + w + o = s
            /\ (p = o /\ r = s) \/ (p = o + 1 /\ r = s + 1)
        BY <2>2, <2>3, <2>4, <3>1, <3>2
      <4> HIDE DEF t, w, o, s, p, r
      <4>2. t + w + p = r
        BY ONLY <4>1
      <4> QED
        BY <4>2 DEF t, w, p, r
    <3>3. d \notin peers /\ d \notin failed => Len(told[d]) = said'[d]
      BY <2>3, <3>1
    <3> QED
      BY <1>2, <2>1, <3>2, <3>3 DEF Counted
  <2>7. Limited(d)'
    <3>1. CASE d \notin peers
      BY <1>2, <2>1, <3>1 DEF Fine, Limited
    <3>2. CASE d \in peers
      <4> DEFINE w == Waits(d)
                 o == Len(out[d])
                 p == Len(out'[d])
      <4>1. /\ w \in Nat /\ o \in Nat /\ MaxPending \in Nat
            /\ conn[d] = "open" => w <= MaxPending
            /\ w + o <= MaxPending + 2 /\ w <= MaxPending + 2 /\ o <= 1
            /\ p = o \/ (conn[d] = "open" /\ p = o + 1)
        BY <1>1, <2>1, <2>2, <2>3, <2>4, <3>2 DEF Fine, Limited, Fresh
      <4>2. Fresh(d)' = 2 /\ (conn'[d] = "open" => conn[d] = "open")
        BY <1>1, <2>3, <3>2 DEF Fresh
      <4>3. Waits(d)' = w
        BY <2>1
      <4> HIDE DEF w, o, p
      <4>4. w + p <= MaxPending + 2 /\ p <= 2
        BY ONLY <4>1
      <4> QED
        BY <4>1, <4>2, <4>3, <4>4 DEF Limited, p
    <3> QED
      BY <3>1, <3>2
  <2>8. Silent(d)'
    <3> SUFFICES ASSUME d \in Sessions, ~Begun(peer[d])
                 PROVE  heard[d] = <<>> /\ Waits(d) + Len(out'[d]) <= IF conn'[d] = "open" THEN 0 ELSE 1
      BY <1>3, <2>1 DEF Silent
    <3>1. heard[d] = <<>> /\ Waits(d) + Len(out[d]) <= IF conn[d] = "open" THEN 0 ELSE 1
      BY <2>1 DEF Fine, Silent
    <3> DEFINE w == Waits(d)
               o == Len(out[d])
               p == Len(out'[d])
    <3>2. w \in Nat /\ o \in Nat /\ w + o <= 1 /\ (conn[d] = "open" => w + o <= 0)
      BY <2>2, <2>4, <3>1
    <3>3. \/ conn'[d] = conn[d] /\ p = o
          \/ conn[d] = "open" /\ conn'[d] = "closed" /\ p = o + 1
      BY <2>3, <3>1
    <3> HIDE DEF w, o, p
    <3>4. w + p <= 1 /\ (conn'[d] = "open" => w + p <= 0)
      BY <3>2, <3>3
    <3> QED
      BY <3>1, <3>4 DEF w, p
  <2> QED
    BY <2>5, <2>6, <2>7, <2>8 DEF Fine
<1> QED
  BY <1>4, <1>5 DEF LoopInv

\* What waits when a client is written to, what the socket takes of it, and what of
\* the core's words is taken and left when it takes n of them.
Queue(c) == peer[c].pending \o PassedOn(c)
Waiting(c) == Len(Queue(c)) + peer[c].own
Fails(c) == client[c] = "reset" /\ Waiting(c) # 0
Room(c) == IF Fails(c) THEN 0 ELSE IF window[c] < Waiting(c) THEN window[c] ELSE Waiting(c)
Sends(c, n) == SubSeq(Queue(c), 1, n)
Rest(c, n) == SubSeq(Queue(c), n + 1, Len(Queue(c)))

Wrote(c, n) ==
  /\ n \in 0..Len(Queue(c)) /\ Queue(c) \in Words
  /\ Sends(c, n) \in Words /\ Rest(c, n) \in Words
  /\ Len(Sends(c, n)) = n /\ Len(Rest(c, n)) = Len(Queue(c)) - n
  /\ Room(c) \in Nat /\ Room(c) <= window[c] /\ window' = [window EXCEPT ![c] = window[c] - Room(c)]
  /\ told' = [told EXCEPT ![c] = told[c] \o Sends(c, n)]
  /\ peer' \in [Clients -> PeerType] /\ \A d \in Clients \ {c} : peer'[d] = peer[d]
  /\ peer'[c].first = peer[c].first /\ peer'[c].transport = peer[c].transport
  /\ peer'[c].fed = peer[c].fed /\ peer'[c].failed = peer[c].failed
  /\ peer'[c].pending = Rest(c, n) /\ peer'[c].own <= peer[c].own
  /\ failed' = IF Fails(c) THEN failed \union {c} ELSE failed
  /\ peers' \subseteq peers /\ peers \ {c} \subseteq peers'
  /\ c \notin peers' /\ c \notin failed' => conn[c] # "open" /\ conn' = conn /\ Len(Rest(c, n)) = 0
  /\ conn' = conn \/ conn' = Gone(c)
  /\ c \in peers' /\ conn'[c] = "open" => Len(Rest(c, n)) <= MaxPending
  /\ \/ UNCHANGED <<client, wire, pings, spoilt>>
     \/ c \notin peers' /\ Ended(c)

LEMMA PassedOnWords ==
  ASSUME LoopTypeOK, NEW c \in Clients
  PROVE  /\ PassedOn(c) \in Words
         /\ PassedOn(c) = out[c] \/ PassedOn(c) = <<>>
         /\ Len(PassedOn(c)) <= Len(out[c]) /\ Len(out[c]) \in Nat
<1>1. out[c] \in Words /\ Len(out[c]) \in Nat /\ <<>> \in Words /\ Len(<<>>) = 0
  BY DEF LoopTypeOK, Words
<1>2. PassedOn(c) = out[c] \/ PassedOn(c) = <<>>
  BY DEF PassedOn
<1>3. CASE PassedOn(c) = out[c]
  BY <1>1, <1>3
<1>4. CASE PassedOn(c) = <<>>
  BY <1>1, <1>4
<1> QED
  BY <1>2, <1>3, <1>4

LEMMA Writes ==
  ASSUME SocketAssumption, LoopTypeOK, NEW c \in Clients, Write(c)
  PROVE  \E n : Wrote(c, n)
<1>1. PICK n \in 0..Len(Queue(c)) :
        /\ Room(c) - n \in 0..peer[c].own
        /\ window' = [window EXCEPT ![c] = window[c] - Room(c)]
        /\ told' = [told EXCEPT ![c] = told[c] \o Sends(c, n)]
        /\ failed' = (IF Fails(c) THEN failed \union {c} ELSE failed)
        /\ peers' = (IF Fails(c) \/ Done(c, Waiting(c) - Room(c)) THEN peers \ {c} ELSE peers)
        /\ peer' = [peer EXCEPT ![c].pending = Rest(c, n), ![c].own = peer[c].own - (Room(c) - n)]
        /\ conn' = (IF c \in peers' /\ TooMuch(Waiting(c) - Room(c)) THEN Gone(c) ELSE conn)
  BY DEF Write, Queue, Waiting, Fails, Room, Sends, Rest
<1>2. IF c \in peers' THEN UNCHANGED <<client, wire, pings, spoilt>> ELSE Ended(c)
  BY DEF Write
<1>3. /\ peer[c] \in PeerType /\ peer[c].own \in Nat /\ window[c] \in Nat /\ MaxPending \in Nat
  BY DEF LoopTypeOK, PeerType, SocketAssumption
<1>4. Queue(c) \in Words /\ Len(Queue(c)) \in Nat
  <2>1. peer[c].pending \in Seq(Nat) /\ PassedOn(c) \in Seq(Nat)
    <3>1. PassedOn(c) \in Words
      BY PassedOnWords
    <3> QED
      BY <1>3, <3>1 DEF PeerType, Words
  <2>2. Queue(c) \in Seq(Nat)
    BY <2>1, ConcatProperties DEF Queue
  <2> QED
    BY <2>2 DEF Words
<1>5. /\ Sends(c, n) \in Words /\ Rest(c, n) \in Words
      /\ Len(Sends(c, n)) = n /\ Len(Rest(c, n)) = Len(Queue(c)) - n
  BY <1>1, <1>4, Cut DEF Sends, Rest
<1>6. Waiting(c) \in Nat /\ Room(c) \in Nat /\ Room(c) <= window[c]
  <2>1. Waiting(c) \in Nat
    BY <1>3, <1>4 DEF Waiting
  <2> QED
    BY <1>3, <2>1 DEF Room
<1> DEFINE own == peer[c].own - (Room(c) - n)
<1>7. /\ own \in Nat /\ own <= peer[c].own /\ Waiting(c) - Room(c) = Len(Rest(c, n)) + own
      /\ Len(Rest(c, n)) \in Nat
  <2> DEFINE o == peer[c].own
             q == Len(Queue(c))
             r == Room(c)
             l == Len(Rest(c, n))
  <2>1. /\ o \in Nat /\ q \in Nat /\ n \in 0..q /\ r \in Nat /\ r - n \in 0..o /\ l = q - n
        /\ Waiting(c) = q + o
    BY <1>1, <1>3, <1>4, <1>5, <1>6 DEF Waiting
  <2> HIDE DEF o, q, r, l
  <2>2. /\ o - (r - n) \in Nat /\ o - (r - n) <= o /\ q + o - r = l + (o - (r - n)) /\ l \in Nat
    BY ONLY <2>1
  <2>3. o = peer[c].own /\ r = Room(c) /\ l = Len(Rest(c, n)) /\ Waiting(c) - Room(c) = q + o - r
    BY <2>1 DEF o, r, l
  <2>4. own = o - (r - n)
    BY <2>3
  <2> HIDE DEF own
  <2> QED
    BY <2>2, <2>3, <2>4, Zenon
<1> HIDE DEF own
<1>8. /\ peer' \in [Clients -> PeerType] /\ \A d \in Clients \ {c} : peer'[d] = peer[d]
      /\ peer'[c].first = peer[c].first /\ peer'[c].transport = peer[c].transport
      /\ peer'[c].fed = peer[c].fed /\ peer'[c].failed = peer[c].failed
      /\ peer'[c].pending = Rest(c, n) /\ peer'[c].own = own
  <2> DEFINE q == [peer[c] EXCEPT !.pending = Rest(c, n), !.own = own]
  <2>1. /\ q \in PeerType /\ q.pending = Rest(c, n) /\ q.own = own /\ q.first = peer[c].first
        /\ q.transport = peer[c].transport /\ q.fed = peer[c].fed /\ q.failed = peer[c].failed
    BY <1>3, <1>5, <1>7 DEF PeerType
  <2>2. peer' = [peer EXCEPT ![c] = q]
    BY <1>1 DEF LoopTypeOK, own
  <2> HIDE DEF q
  <2> QED
    BY <2>1, <2>2 DEF LoopTypeOK
<1>9. /\ c \in peers' /\ conn'[c] = "open" => Len(Rest(c, n)) <= MaxPending
      /\ conn' = conn \/ conn' = Gone(c)
  <2>1. TooMuch(Waiting(c) - Room(c)) \/ Len(Rest(c, n)) <= MaxPending
    BY <1>3, <1>7 DEF TooMuch
  <2>2. Gone(c)[c] = "closed"
    BY DEF Gone, LoopTypeOK
  <2> QED
    BY <1>1, <2>1, <2>2
<1>10. /\ peers' \subseteq peers /\ peers \ {c} \subseteq peers'
       /\ c \notin peers' /\ c \notin failed' => conn[c] # "open" /\ conn' = conn /\ Len(Rest(c, n)) = 0
  <2>1. peers' = peers \/ peers' = peers \ {c}
    BY <1>1
  <2>2. ASSUME c \notin peers', c \notin failed'
        PROVE  conn[c] # "open" /\ conn' = conn /\ Len(Rest(c, n)) = 0
    <3>1. ~Fails(c)
      BY <1>1, <2>2
    <3>2. c \in peers
      BY DEF Write, LoopTypeOK
    <3>3. Done(c, Waiting(c) - Room(c))
      BY <1>1, <2>2, <3>1, <3>2
    <3> QED
      BY <1>1, <1>7, <2>2, <3>3 DEF Done
  <2> QED
    BY <2>1, <2>2
<1>11. \/ UNCHANGED <<client, wire, pings, spoilt>>
       \/ c \notin peers' /\ Ended(c)
  BY <1>2
<1>12. Wrote(c, n)
  BY <1>1, <1>4, <1>5, <1>6, <1>7, <1>8, <1>9, <1>10, <1>11 DEF Wrote
<1> QED
  BY <1>12

\* A write: what the socket takes is told, the rest waits, and who is done or lost goes.
LEMMA WriteStep ==
  ASSUME SocketAssumption, LoopInv, NEW c \in Clients, Write(c)
  PROVE  LoopInv'
<1>1. LoopTypeOK /\ Fine(c) /\ phase = "write" /\ c \in left /\ c \in peers /\ left' = left \ {c}
  BY DEF LoopInv, LoopTypeOK, Write
<1>2. /\ phase' = phase /\ sent' = sent /\ pinged' = pinged /\ said' = said /\ heard' = heard
      /\ out' = [out EXCEPT ![c] = <<>>]
  BY DEF Write
<1>3. PICK n : Wrote(c, n)
  BY <1>1, Writes
<1>4. /\ Len(out[c]) \in Nat /\ Len(told[c]) \in Nat /\ Waits(c) \in Nat /\ window[c] \in Nat
      /\ told[c] \in Seq(Nat) /\ peer[c].pending \in Seq(Nat)
      /\ Waits(c) = Len(peer[c].pending) /\ said[c] \in Nat /\ MaxPending \in Nat
      /\ Waits(c) + Len(out[c]) \in Nat
  <2>1. /\ out[c] \in Seq(Nat) /\ told[c] \in Seq(Nat) /\ peer[c].pending \in Seq(Nat) /\ said[c] \in Nat
        /\ window[c] \in Nat
    BY <1>1 DEF LoopTypeOK, PeerType, Words
  <2>2. Len(out[c]) \in Nat /\ Len(told[c]) \in Nat /\ Len(peer[c].pending) \in Nat
    BY <2>1
  <2>3. Waits(c) = Len(peer[c].pending) /\ Waits(c) \in Nat
    BY <2>2 DEF Waits
  <2>4. Waits(c) + Len(out[c]) \in Nat
    <3> DEFINE o == Len(out[c])
    <3>1. o \in Nat /\ Waits(c) \in Nat
      BY <2>2, <2>3
    <3> HIDE DEF o
    <3> QED
      BY ONLY <3>1 DEF o
  <2> QED
    BY <2>1, <2>2, <2>3, <2>4 DEF SocketAssumption
<1>5. /\ Len(Queue(c)) = Waits(c) + Len(PassedOn(c)) /\ Len(PassedOn(c)) <= Len(out[c])
      /\ Len(PassedOn(c)) \in Nat
  <2>1. PassedOn(c) \in Seq(Nat) /\ Len(PassedOn(c)) <= Len(out[c]) /\ Len(PassedOn(c)) \in Nat
    BY <1>1, PassedOnWords DEF Words
  <2>2. Len(peer[c].pending \o PassedOn(c)) = Len(peer[c].pending) + Len(PassedOn(c))
    BY <1>4, <2>1, ConcatProperties
  <2> QED
    BY <1>4, <2>1, <2>2 DEF Queue
<1>6. /\ n \in 0..Len(Queue(c)) /\ Waits(c)' = Len(Queue(c)) - n /\ Waits(c)' \in Nat
      /\ Waits(c)' <= Waits(c) + Len(out[c]) /\ Waits(c)' = Len(Rest(c, n)) /\ Waits(c)' = Len(peer'[c].pending)
  <2>1. n \in 0..Len(Queue(c)) /\ peer'[c].pending = Rest(c, n) /\ Len(Rest(c, n)) = Len(Queue(c)) - n
    BY <1>3 DEF Wrote
  <2>2. Waits(c)' = Len(peer'[c].pending)
    BY DEF Waits
  <2> DEFINE q == Len(Queue(c))
             o == Len(out[c])
             p == Len(PassedOn(c))
             v == Waits(c)'
  <2>3. q = Waits(c) + p /\ p \in Nat /\ o \in Nat /\ p <= o /\ Waits(c) \in Nat /\ n \in 0..q /\ v = q - n
    BY <1>4, <1>5, <2>1, <2>2
  <2> HIDE DEF q, o, p, v
  <2>4. v \in Nat /\ v <= Waits(c) + o
    BY ONLY <2>3
  <2> QED
    BY <2>1, <2>2, <2>4 DEF v, o
<1>7. /\ told' \in [Clients -> Words] /\ Len(told'[c]) = Len(told[c]) + n
      /\ \A d \in Clients \ {c} : told'[d] = told[d]
  <2>1. Sends(c, n) \in Seq(Nat) /\ Len(Sends(c, n)) = n
    BY <1>3 DEF Wrote, Words
  <2>2. told[c] \o Sends(c, n) \in Words /\ Len(told[c] \o Sends(c, n)) = Len(told[c]) + n
    <3>1. /\ told[c] \o Sends(c, n) \in Seq(Nat)
          /\ Len(told[c] \o Sends(c, n)) = Len(told[c]) + Len(Sends(c, n))
      BY <1>4, <2>1, ConcatProperties
    <3> QED
      BY <2>1, <3>1 DEF Words
  <2>3. told' = [told EXCEPT ![c] = told[c] \o Sends(c, n)]
    BY <1>3 DEF Wrote
  <2> QED
    BY <1>1, <2>2, <2>3 DEF LoopTypeOK
<1>8. /\ conn' \in [Clients -> {"none", "open", "closed"}]
      /\ conn'[c] = conn[c] \/ conn'[c] = "closed"
      /\ \A d \in Clients \ {c} : conn'[d] = conn[d]
  <2>1. conn' = conn \/ conn' = [conn EXCEPT ![c] = "closed"]
    BY <1>3 DEF Wrote, Gone
  <2>2. conn \in [Clients -> {"none", "open", "closed"}]
    BY <1>1 DEF LoopTypeOK
  <2> QED
    BY <2>1, <2>2
<1>9. /\ out' \in [Clients -> Words] /\ out'[c] = <<>> /\ Len(out'[c]) = 0
      /\ \A d \in Clients \ {c} : out'[d] = out[d]
  BY <1>1, <1>2 DEF LoopTypeOK, Words
<1>10. /\ window' \in [Clients -> Nat] /\ failed' \subseteq Clients
       /\ failed \subseteq failed' /\ failed' \subseteq failed \union {c}
       /\ peers' \subseteq peers /\ peers \ {c} \subseteq peers'
  <2>1. window[c] - Room(c) \in Nat
    BY <1>3, <1>4 DEF Wrote
  <2>2. /\ window' = [window EXCEPT ![c] = window[c] - Room(c)]
        /\ failed' = IF Fails(c) THEN failed \union {c} ELSE failed
        /\ peers' \subseteq peers /\ peers \ {c} \subseteq peers'
    BY <1>3 DEF Wrote
  <2> QED
    BY <1>1, <2>1, <2>2 DEF LoopTypeOK
<1>11. /\ client' \in [Clients -> {"away", "backlog", "connected", "closed", "reset"}]
       /\ wire' \in [Clients -> Words] /\ pings' \in [Clients -> Nat]
       /\ spoilt' \in [Clients -> {"no", "coming", "read"}]
       /\ \A d \in Clients \ {c} :
            client'[d] = client[d] /\ wire'[d] = wire[d] /\ pings'[d] = pings[d] /\ spoilt'[d] = spoilt[d]
       /\ \/ client'[c] = client[c] /\ pings'[c] = pings[c] /\ spoilt'[c] = spoilt[c]
          \/ client'[c] = "reset" /\ pings'[c] = 0 /\ spoilt'[c] = "no"
  <2>1. CASE UNCHANGED <<client, wire, pings, spoilt>>
    BY <1>1, <2>1 DEF LoopTypeOK
  <2>2. CASE Ended(c)
    <3>1. <<>> \in Words
      BY DEF Words
    <3> QED
      BY <1>1, <2>2, <3>1 DEF LoopTypeOK, Ended
  <2> QED
    BY <1>3, <2>1, <2>2 DEF Wrote
<1>12. /\ peer' \in [Clients -> PeerType] /\ \A d \in Clients \ {c} : peer'[d] = peer[d]
       /\ peer'[c].transport = peer[c].transport /\ peer'[c].failed = peer[c].failed
       /\ peer'[c].own <= peer[c].own /\ (Begun(peer'[c]) <=> Begun(peer[c]))
  BY <1>3 DEF Wrote, Begun
<1>13. LoopTypeOK'
  <2>1. left' \subseteq peers'
    BY <1>1, <1>10 DEF LoopTypeOK
  <2> QED
    BY <1>1, <1>2, <1>7, <1>8, <1>9, <1>10, <1>11, <1>12, <2>1 DEF LoopTypeOK
<1>14. c \notin peers' /\ c \notin failed' => conn'[c] # "open" /\ Waits(c)' = 0
  BY <1>3, <1>6 DEF Wrote
<1>15. Known(c)'
  <2>1. Known(c) /\ conn[c] # "none"
    BY <1>1 DEF Fine, Known
  <2>2. client'[c] \notin {"away", "backlog"} /\ conn'[c] # "none"
    BY <1>8, <1>11, <2>1 DEF Known
  <2> QED
    BY <1>8, <1>12, <1>14, <2>1, <2>2 DEF Known
<1>16. Counted(c)'
  <2> SUFFICES ASSUME c \notin Sessions PROVE Counted(c)'
    BY DEF Counted
  <2>1. Len(told[c]) + Waits(c) + Len(out[c]) = said[c] /\ PassedOn(c) = out[c]
    <3>1. peer[c].transport \in {"undecided", "plain"}
      BY <1>1 DEF Fine, Known, Sessions, LoopTypeOK, PeerType
    <3> QED
      BY <1>1, <1>4, <3>1 DEF Fine, Counted, PassedOn
  <2> DEFINE t == Len(told[c])
             w == Waits(c)
             o == Len(out[c])
             u == Len(told'[c])
             v == Waits(c)'
  <2>2. /\ t \in Nat /\ w \in Nat /\ o \in Nat /\ said[c] \in Nat /\ t + w + o = said[c]
        /\ n \in 0..w + o /\ u = t + n /\ v = w + o - n
    <3>1. t \in Nat /\ w \in Nat /\ o \in Nat /\ said[c] \in Nat /\ t + w + o = said[c]
      BY <1>4, <2>1
    <3>2. Len(Queue(c)) = w + o
      BY <1>5, <2>1
    <3> QED
      BY <1>6, <1>7, <3>1, <3>2
  <2> HIDE DEF t, w, o, u, v
  <2>3. u + v + 0 = said[c] /\ (v = 0 => u = said[c])
    BY ONLY <2>2
  <2>4. /\ Len(told'[c]) + Len(peer'[c].pending) + Len(out'[c]) = said'[c]
        /\ Waits(c)' = 0 => Len(told'[c]) = said'[c]
    BY <1>2, <1>6, <1>9, <2>3 DEF u, v
  <2> QED
    BY <1>14, <2>4 DEF Counted
<1>17. Limited(c)'
  <2>1. Waits(c)' <= MaxPending + 2
    <3>1. Waits(c) + Len(out[c]) <= MaxPending + 2
      BY <1>1 DEF Fine, Limited
    <3> DEFINE l == Waits(c) + Len(out[c])
               v == Waits(c)'
    <3>2. l \in Nat /\ MaxPending \in Nat
      BY <1>4
    <3>3. v \in Nat /\ v <= l
      BY <1>6
    <3>4. l <= MaxPending + 2
      BY <3>1
    <3> HIDE DEF l, v
    <3>5. v <= MaxPending + 2
      BY ONLY <3>2, <3>3, <3>4
    <3> QED
      BY <3>5 DEF v
  <2>2. c \in peers' /\ conn'[c] = "open" => Waits(c)' <= MaxPending
    BY <1>3, <1>6 DEF Wrote
  <2>3. Fresh(c)' = 0 /\ Waits(c)' + Len(out'[c]) <= MaxPending + 2
    BY <1>1, <1>2, <1>6, <1>9, <2>1 DEF Fresh
  <2> QED
    BY <1>9, <2>1, <2>2, <2>3 DEF Limited
<1>18. Silent(c)'
  <2> SUFFICES ASSUME c \in Sessions, ~Begun(peer'[c])
               PROVE  heard'[c] = <<>> /\ Waits(c)' + Len(out'[c]) <= IF conn'[c] = "open" THEN 0 ELSE 1
    BY DEF Silent, Begun
  <2>1. heard[c] = <<>> /\ Waits(c) + Len(out[c]) <= IF conn[c] = "open" THEN 0 ELSE 1
    BY <1>1, <1>12 DEF Fine, Silent
  <2>2. conn'[c] = "open" => conn[c] = "open"
    BY <1>8
  <2> DEFINE l == Waits(c) + Len(out[c])
             v == Waits(c)'
  <2>3. l \in Nat /\ v \in Nat /\ v <= l /\ l <= 1 /\ (conn'[c] = "open" => l <= 0)
    <3>1. l \in Nat
      BY <1>4
    <3>3. v \in Nat /\ v <= l
      BY <1>6
    <3>2. l <= IF conn[c] = "open" THEN 0 ELSE 1
      BY <2>1
    <3> HIDE DEF l, v
    <3> QED
      BY <2>2, <3>1, <3>2, <3>3
  <2> HIDE DEF l, v
  <2>4. v + 0 <= 1 /\ (conn'[c] = "open" => v + 0 <= 0)
    BY <2>3
  <2> QED
    BY <1>2, <1>9, <2>1, <2>4 DEF v
<1>19. Piled(c)'
  <2>1. /\ pings[c] \in Nat /\ pinged[c] \in Nat /\ peer'[c].own \in Nat /\ peer[c].own \in Nat
        /\ Piled(c)
    BY <1>1, <1>12 DEF LoopTypeOK, PeerType, Fine
  <2>2. pings'[c] \in Nat /\ pings'[c] <= pings[c]
    BY <1>11, <2>1
  <2>3. peer'[c].own + pings'[c] <= pinged'[c] + IF peer'[c].failed /\ c \in Browsers THEN 1 ELSE 0
    <3>1. peer[c].own + pings[c] <= pinged[c] + IF peer[c].failed /\ c \in Browsers THEN 1 ELSE 0
      BY <2>1 DEF Piled
    <3> QED
      BY <1>2, <1>12, <2>1, <2>2, <3>1
  <2> QED
    BY <1>2, <1>11, <1>12, <2>1, <2>3 DEF Piled
<1>20. Answered(c)'
  BY <1>1, <1>2 DEF Answered
<1>21. Fine(c)'
  BY <1>15, <1>16, <1>17, <1>18, <1>19, <1>20 DEF Fine
<1>22. \A d \in Clients \ {c} : SameFor(d)
  BY <1>1, <1>2, <1>7, <1>8, <1>9, <1>10, <1>11, <1>12 DEF SameFor
<1> QED
  BY <1>2, <1>13, <1>21, <1>22, OneStep

\* The pass is over.
LEMMA ReapedStep ==
  ASSUME LoopInv, Reaped
  PROVE  LoopInv'
<1>1. LoopTypeOK /\ phase = "write" /\ left = {} /\ phase' = "accept" /\ left' = left
  BY DEF LoopInv, Reaped
<1>2. UNCHANGED <<client, sent, wire, pinged, pings, spoilt, window, told, peers, peer, conn, out,
                  said, heard, failed>>
  BY DEF Reaped, network, core
<1>3. LoopTypeOK'
  BY <1>1, <1>2 DEF LoopTypeOK
<1>4. ASSUME NEW c \in Clients PROVE Fine(c)'
  <2>1. Fine(c) /\ Waits(c)' = Waits(c) /\ (Begun(peer[c])' <=> Begun(peer[c]))
    BY <1>2 DEF LoopInv, Waits, Begun
  <2>2. Fresh(c) = 0 /\ Fresh(c)' = 0
    BY <1>1 DEF Fresh
  <2>3. Known(c)' /\ Counted(c)' /\ Answered(c)' /\ Piled(c)'
    BY <1>1, <1>2, <2>1 DEF Fine, Known, Counted, Answered, Piled
  <2>4. Limited(c)' /\ Silent(c)'
    BY <1>2, <2>1, <2>2 DEF Fine, Limited, Silent
  <2> QED
    BY <2>3, <2>4 DEF Fine
<1> QED
  BY <1>3, <1>4 DEF LoopInv
-----------------------------------------------------------------------------
(***************************************************************************)
(* Sums, and units and words in order.                                     *)
(***************************************************************************)
\* Induction over the natural numbers, for a set of them.
LEMMA SetInduction ==
  ASSUME NEW S \in SUBSET Nat, 0 \in S, \A n \in S : n + 1 \in S
  PROVE  S = Nat
<1> DEFINE R == OpToRel(<, Nat)
           T == Nat \ S
<1>1. SUFFICES ASSUME T # {} PROVE FALSE
  OBVIOUS
<1>2. IsWellFoundedOn(R, Nat)
  BY NatLessThanWellFounded
<1> HIDE DEF R
<1>3. PICK m \in T : \A k \in T : ~ (<<k, m>> \in R)
  BY <1>1, <1>2, WFMin
<1>4. m # 0 /\ m - 1 \in Nat
  OBVIOUS
<1>5. m - 1 \in S
  <2>1. <<m - 1, m>> \in R
    BY <1>4 DEF R, OpToRel
  <2> QED
    BY <1>3, <1>4, <2>1
<1> QED
  BY <1>5

\* How `SumOf' adds up: one element of a set after another.
Some(s) == CHOOSE x \in s : TRUE
Upto(S, n) == {s \in SUBSET S : Cardinality(s) <= n}
Sums(g, f, D) == g = [s \in D |-> IF s = {} THEN 0 ELSE f[Some(s)] + g[s \ {Some(s)}]]

\* The element that is taken leaves a smaller set.
LEMMA Smaller ==
  ASSUME NEW S, IsFiniteSet(S), NEW s \in SUBSET S, s # {}
  PROVE  /\ Some(s) \in s /\ s \ {Some(s)} \in SUBSET S
         /\ Cardinality(s) \in Nat \ {0} /\ Cardinality(s \ {Some(s)}) = Cardinality(s) - 1
<1>1. Some(s) \in s
  BY DEF Some
<1>2. IsFiniteSet(s)
  BY FS_Subset
<1>3. Cardinality(s) \in Nat /\ Cardinality(s) # 0
  BY <1>2, FS_CardinalityType, FS_EmptySet
<1> QED
  BY <1>1, <1>2, <1>3, FS_RemoveElement

\* The function that is added up with is there.
LEMMA SumsExist ==
  ASSUME NEW S, IsFiniteSet(S), NEW f
  PROVE  \E g : Sums(g, f, SUBSET S)
<1> DEFINE N == {n \in Nat : \E g : Sums(g, f, Upto(S, n))}
<1>0. \A s \in SUBSET S : Cardinality(s) \in Nat /\ (Cardinality(s) = 0 <=> s = {})
                         /\ Cardinality(s) <= Cardinality(S)
  BY FS_Subset, FS_CardinalityType, FS_EmptySet
<1>1. 0 \in N
  <2> DEFINE g == [s \in Upto(S, 0) |-> 0]
  <2>1. \A s \in Upto(S, 0) : s = {}
    BY <1>0 DEF Upto
  <2>2. Sums(g, f, Upto(S, 0))
    BY <2>1 DEF Sums
  <2> QED
    BY <2>2
<1>2. ASSUME NEW n \in N PROVE n + 1 \in N
  <2>1. PICK g : Sums(g, f, Upto(S, n))
    OBVIOUS
  <2> DEFINE h == [s \in Upto(S, n + 1) |-> IF s = {} THEN 0 ELSE f[Some(s)] + g[s \ {Some(s)}]]
  <2>2. ASSUME NEW s \in Upto(S, n) PROVE h[s] = g[s]
    <3>1. s \in Upto(S, n + 1)
      BY <1>0 DEF Upto
    <3> QED
      BY <2>1, <3>1 DEF Sums
  <2>3. ASSUME NEW s \in Upto(S, n + 1), s # {} PROVE s \ {Some(s)} \in Upto(S, n)
    <3>1. s \in SUBSET S /\ Cardinality(s) <= n + 1
      BY DEF Upto
    <3>2. /\ s \ {Some(s)} \in SUBSET S /\ Cardinality(s) \in Nat
          /\ Cardinality(s \ {Some(s)}) = Cardinality(s) - 1
      BY <2>3, <3>1, Smaller
    <3>3. Cardinality(s \ {Some(s)}) <= n
      BY <3>1, <3>2
    <3> QED
      BY <3>2, <3>3 DEF Upto
  <2>4. Sums(h, f, Upto(S, n + 1))
    <3>1. ASSUME NEW s \in Upto(S, n + 1)
          PROVE  h[s] = IF s = {} THEN 0 ELSE f[Some(s)] + h[s \ {Some(s)}]
      BY <2>2, <2>3
    <3>2. h = [s \in Upto(S, n + 1) |-> h[s]]
      OBVIOUS
    <3> HIDE DEF h
    <3> QED
      BY <3>1, <3>2 DEF Sums
  <2> QED
    BY <2>4
<1>3. Cardinality(S) \in N
  <2>1. N = Nat
    BY <1>1, <1>2, SetInduction
  <2> QED
    BY <2>1, FS_CardinalityType
<1>4. Upto(S, Cardinality(S)) = SUBSET S
  BY <1>0 DEF Upto
<1> QED
  BY <1>3, <1>4

\* A sum of natural numbers is one, and none of them is larger.
LEMMA SumBounds ==
  ASSUME NEW S, IsFiniteSet(S), NEW f \in [S -> Nat]
  PROVE  SumOf(f) \in Nat /\ \A x \in S : f[x] <= SumOf(f)
<1> DEFINE g == CHOOSE iter : iter = [s \in SUBSET S |-> IF s = {} THEN 0 ELSE LET x == CHOOSE x \in s : TRUE IN f[x] + iter[s \ {x}]]
<1>1. Sums(g, f, SUBSET S)
  <2>1. \E h : Sums(h, f, SUBSET S)
    BY SumsExist
  <2> QED
    BY <2>1, Zenon DEF Sums, Some
<1>2. SumOf(f) = g[S]
  BY DEF SumOf, FoldFunction, FoldFunctionOnSet, MapThenFoldSet
<1> HIDE DEF g
<1> DEFINE N == {n \in Nat : \A s \in SUBSET S : Cardinality(s) = n => g[s] \in Nat /\ \A x \in s : f[x] <= g[s]}
<1>3. 0 \in N
  <2>1. ASSUME NEW s \in SUBSET S, Cardinality(s) = 0 PROVE s = {}
    BY <2>1, FS_Subset, FS_EmptySet
  <2>2. g[{}] = 0
    BY <1>1 DEF Sums
  <2> QED
    BY <2>1, <2>2
<1>4. ASSUME NEW n \in N PROVE n + 1 \in N
  <2> SUFFICES ASSUME NEW s \in SUBSET S, Cardinality(s) = n + 1
               PROVE  g[s] \in Nat /\ \A x \in s : f[x] <= g[s]
    OBVIOUS
  <2>1. s # {}
    <3>1. Cardinality(s) # 0
      OBVIOUS
    <3> QED
      BY <3>1, FS_EmptySet
  <2> DEFINE t == s \ {Some(s)}
  <2>2. Some(s) \in s /\ t \in SUBSET S /\ Cardinality(t) = n
    BY <2>1, Smaller
  <2>3. g[s] = f[Some(s)] + g[t]
    BY <1>1, <2>1 DEF Sums
  <2>4. g[t] \in Nat /\ \A x \in t : f[x] <= g[t]
    BY <2>2
  <2>5. f[Some(s)] \in Nat /\ \A x \in s : f[x] \in Nat
    BY <2>2
  <2>6. g[s] \in Nat /\ f[Some(s)] <= g[s] /\ g[t] <= g[s]
    BY <2>3, <2>4, <2>5
  <2>7. ASSUME NEW x \in s PROVE f[x] <= g[s]
    <3>1. CASE x = Some(s)
      BY <2>6, <3>1
    <3>2. CASE x \in t
      <4>1. f[x] <= g[t] /\ f[x] \in Nat
        BY <2>4, <2>5, <3>2
      <4> HIDE DEF t
      <4> QED
        BY <2>4, <2>6, <4>1
    <3> QED
      BY <3>1, <3>2
  <2> QED
    BY <2>6, <2>7
<1>5. Cardinality(S) \in N
  <2>1. N = Nat
    BY <1>3, <1>4, SetInduction
  <2> QED
    BY <2>1, FS_CardinalityType
<1> QED
  BY <1>2, <1>5

\* One word more is within the bound.
LEMMA SaidBounds ==
  ASSUME SocketAssumption, LoopTypeOK, SumOf(said) < MaxSaid, NEW c \in Clients
  PROVE  said[c] + 1 <= MaxSaid
<1>1. SumOf(said) \in Nat /\ said[c] <= SumOf(said)
  BY SumBounds DEF LoopTypeOK, SocketAssumption
<1>2. MaxSaid \in Nat /\ said[c] \in Nat
  BY DEF SocketAssumption, LoopTypeOK
<1> QED
  BY <1>1, <1>2

\* The two parts of a queue put together again.
LEMMA CutJoin ==
  ASSUME NEW s \in Words, NEW n \in 0..Len(s)
  PROVE  SubSeq(s, 1, n) \o SubSeq(s, n + 1, Len(s)) = s
<1> DEFINE a == SubSeq(s, 1, n)
           b == SubSeq(s, n + 1, Len(s))
<1>1. Len(s) \in Nat /\ s \in Seq(Nat) /\ \A i \in 1..Len(s) : s[i] \in Nat
  BY DEF Words
<1>2. /\ a \in Seq(Nat) /\ Len(a) = n /\ b \in Seq(Nat) /\ Len(b) = Len(s) - n
  BY Cut DEF Words
<1>3. \A i \in 1..n : a[i] = s[i]
  <2>1. \A i \in 1..n : s[i] \in Nat
    BY <1>1
  <2>2. \A i \in 1..n - 1 + 1 : a[i] = s[1 + i - 1]
    BY <2>1, SubSeqProperties
  <2> QED
    BY <2>2
<1>4. \A i \in 1..Len(s) - n : b[i] = s[n + i]
  <2>1. \A i \in n + 1..Len(s) : s[i] \in Nat
    BY <1>1
  <2>2. n + 1 \in Int /\ Len(s) \in Int
    BY <1>1
  <2>3. \A i \in 1..Len(s) - (n + 1) + 1 : b[i] = s[(n + 1) + i - 1]
    BY <2>1, <2>2, SubSeqProperties
  <2>4. ASSUME NEW i \in 1..Len(s) - n PROVE i \in 1..Len(s) - (n + 1) + 1 /\ (n + 1) + i - 1 = n + i
    BY <1>1
  <2> QED
    BY <2>3, <2>4
<1> HIDE DEF a, b
<1>5. /\ a \o b \in Seq(Nat) /\ Len(a \o b) = Len(a) + Len(b)
      /\ \A i \in 1..Len(a) + Len(b) : (a \o b)[i] = IF i <= Len(a) THEN a[i] ELSE b[i - Len(a)]
  BY <1>2, ConcatProperties
<1>6. Len(a \o b) = Len(s) /\ Len(a) + Len(b) = Len(s)
  BY <1>1, <1>2, <1>5
<1>7. ASSUME NEW i \in 1..Len(s) PROVE (a \o b)[i] = s[i]
  <2>1. CASE i <= n
    <3>1. i \in 1..n
      BY <2>1
    <3> QED
      BY <1>2, <1>3, <1>5, <1>6, <2>1, <3>1
  <2>2. CASE ~ i <= n
    <3>1. i - n \in 1..Len(s) - n /\ n + (i - n) = i
      BY <1>1, <2>2
    <3> QED
      BY <1>2, <1>4, <1>5, <1>6, <2>2, <3>1
  <2> QED
    BY <2>1, <2>2
<1> QED
  BY <1>1, <1>5, <1>6, <1>7, SeqEqual DEF a, b

\* A stretch of consecutive units, cut in two.
LEMMA ConsecutiveCut ==
  ASSUME NEW s \in Words, NEW m \in Nat, NEW n \in 0..Len(s), Consecutive(s, m)
  PROVE  Consecutive(SubSeq(s, 1, n), m) /\ Consecutive(SubSeq(s, n + 1, Len(s)), m + n)
<1>1. Len(s) \in Nat /\ \A i \in 1..Len(s) : s[i] \in Nat /\ s[i] = m + i - 1
  BY DEF Words, Consecutive
<1>2. /\ Len(SubSeq(s, 1, n)) = n /\ Len(SubSeq(s, n + 1, Len(s))) = Len(s) - n
  BY Cut
<1>3. \A i \in 1..n : SubSeq(s, 1, n)[i] = s[i]
  <2>1. \A i \in 1..n : s[i] \in Nat
    BY <1>1
  <2>2. \A i \in 1..n - 1 + 1 : SubSeq(s, 1, n)[i] = s[1 + i - 1]
    BY <2>1, SubSeqProperties
  <2> QED
    BY <2>2
<1>4. \A i \in 1..Len(s) - n : SubSeq(s, n + 1, Len(s))[i] = s[n + i]
  <2>1. \A i \in n + 1..Len(s) : s[i] \in Nat
    BY <1>1
  <2>2. n + 1 \in Int /\ Len(s) \in Int
    BY <1>1
  <2>3. \A i \in 1..Len(s) - (n + 1) + 1 : SubSeq(s, n + 1, Len(s))[i] = s[(n + 1) + i - 1]
    BY <2>1, <2>2, SubSeqProperties
  <2>4. ASSUME NEW i \in 1..Len(s) - n PROVE i \in 1..Len(s) - (n + 1) + 1 /\ (n + 1) + i - 1 = n + i
    BY <1>1
  <2> QED
    BY <2>3, <2>4
<1>5. Consecutive(SubSeq(s, 1, n), m)
  BY <1>1, <1>2, <1>3 DEF Consecutive
<1>6. ASSUME NEW i \in 1..Len(s) - n PROVE s[n + i] = m + n + i - 1
  <2>1. n + i \in 1..Len(s)
    BY <1>1
  <2>2. s[n + i] = m + (n + i) - 1
    BY <1>1, <2>1
  <2> QED
    BY <2>2
<1> QED
  BY <1>2, <1>4, <1>5, <1>6 DEF Consecutive

\* What goes on where it stopped.
LEMMA ConsecutiveJoin ==
  ASSUME NEW s \in Words, NEW t \in Words, NEW m \in Nat,
         Consecutive(s, m), Consecutive(t, m + Len(s))
  PROVE  Consecutive(s \o t, m)
<1>1. /\ Len(s) \in Nat /\ Len(t) \in Nat /\ Len(s \o t) = Len(s) + Len(t)
      /\ \A i \in 1 .. Len(s) + Len(t) : (s \o t)[i] = IF i <= Len(s) THEN s[i] ELSE t[i - Len(s)]
  BY ConcatProperties DEF Words
<1>2. ASSUME NEW i \in 1..Len(s) + Len(t) PROVE (s \o t)[i] = m + i - 1
  <2>1. CASE i <= Len(s)
    <3>1. i \in 1..Len(s)
      BY <1>1, <2>1
    <3> QED
      BY <1>1, <2>1, <3>1 DEF Consecutive
  <2>2. CASE ~ i <= Len(s)
    <3>1. i - Len(s) \in 1..Len(t)
      BY <1>1, <2>2
    <3>2. t[i - Len(s)] = m + Len(s) + (i - Len(s)) - 1
      BY <3>1 DEF Consecutive
    <3> QED
      BY <1>1, <2>2, <3>2
  <2> QED
    BY <2>1, <2>2
<1> QED
  BY <1>1, <1>2 DEF Consecutive

LEMMA ConsecutiveAppend ==
  ASSUME NEW s \in Words, NEW m \in Nat, Consecutive(s, m)
  PROVE  Consecutive(Append(s, m + Len(s)), m)
<1>1. Len(s) \in Nat /\ s \in Seq(Nat) /\ m + Len(s) \in Nat
  BY DEF Words
<1>2. /\ Len(Append(s, m + Len(s))) = Len(s) + 1
      /\ \A i \in 1..Len(s) : Append(s, m + Len(s))[i] = s[i]
      /\ Append(s, m + Len(s))[Len(s) + 1] = m + Len(s)
  BY <1>1, AppendProperties
<1>3. ASSUME NEW i \in 1..Len(s) + 1 PROVE Append(s, m + Len(s))[i] = m + i - 1
  <2>1. i \in 1..Len(s) \/ i = Len(s) + 1
    BY <1>1
  <2> QED
    BY <1>1, <1>2, <2>1 DEF Consecutive
<1> QED
  BY <1>2, <1>3 DEF Consecutive

\* The words from the first, with the reply in place r if it is among them.
LEMMA ArrangedCut ==
  ASSUME NEW s \in Words, NEW t \in Words, NEW r \in Nat, Arranged(s \o t, r)
  PROVE  Arranged(s, r) /\ (r > Len(s) => Arranged(s, Len(s) + 1))
<1>1. /\ Len(s) \in Nat /\ Len(t) \in Nat /\ Len(s \o t) = Len(s) + Len(t)
      /\ \A i \in 1 .. Len(s) + Len(t) : (s \o t)[i] = IF i <= Len(s) THEN s[i] ELSE t[i - Len(s)]
  BY ConcatProperties DEF Words
<1>2. ASSUME NEW i \in 1..Len(s)
      PROVE  /\ s[i] = IF i < r THEN i ELSE IF i = r THEN Reply ELSE i - 1
             /\ r > Len(s) => i < r /\ i < Len(s) + 1
  <2>1. i \in 1..Len(s) + Len(t) /\ i <= Len(s)
    BY <1>1
  <2>2. (s \o t)[i] = s[i]
    BY <1>1, <2>1
  <2> QED
    BY <1>1, <2>1, <2>2 DEF Arranged
<1> QED
  BY <1>2 DEF Arranged

\* More words behind them: `n' were there already.
LEMMA ArrangedJoin ==
  ASSUME NEW s \in Words, NEW t \in Words, NEW r \in 1..Len(s) + 1, Arranged(s, r),
         Consecutive(t, (IF r <= Len(s) THEN Len(s) - 1 ELSE Len(s)) + 1)
  PROVE  Arranged(s \o t, IF r <= Len(s) THEN r ELSE Len(s \o t) + 1)
<1>1. /\ Len(s) \in Nat /\ Len(t) \in Nat /\ Len(s \o t) = Len(s) + Len(t)
      /\ \A i \in 1 .. Len(s) + Len(t) : (s \o t)[i] = IF i <= Len(s) THEN s[i] ELSE t[i - Len(s)]
  BY ConcatProperties DEF Words
<1>2. ASSUME NEW i \in 1..Len(s) + Len(t), i > Len(s)
      PROVE  (s \o t)[i] = IF r <= Len(s) THEN i - 1 ELSE i
  <2>1. i - Len(s) \in 1..Len(t) /\ ~ i <= Len(s)
    BY <1>1, <1>2
  <2>2. t[i - Len(s)] = (IF r <= Len(s) THEN Len(s) - 1 ELSE Len(s)) + 1 + (i - Len(s)) - 1
    BY <2>1 DEF Consecutive
  <2> QED
    BY <1>1, <2>1, <2>2
<1>3. ASSUME NEW i \in 1..Len(s) + Len(t), i <= Len(s)
      PROVE  (s \o t)[i] = IF i < r THEN i ELSE IF i = r THEN Reply ELSE i - 1
  <2>1. i \in 1..Len(s)
    BY <1>1, <1>3
  <2> QED
    BY <1>1, <1>3, <2>1 DEF Arranged
<1>4. CASE r <= Len(s)
  <2>1. ASSUME NEW i \in 1..Len(s) + Len(t)
        PROVE  (s \o t)[i] = IF i < r THEN i ELSE IF i = r THEN Reply ELSE i - 1
    <3>1. CASE i <= Len(s)
      BY <1>3, <3>1
    <3>2. CASE i > Len(s)
      BY <1>1, <1>2, <1>4, <3>2
    <3>3. i <= Len(s) \/ i > Len(s)
      BY <1>1
    <3> QED
      BY <3>1, <3>2, <3>3
  <2> QED
    BY <1>1, <1>4, <2>1 DEF Arranged
<1>5. CASE ~ r <= Len(s)
  <2>1. ASSUME NEW i \in 1..Len(s) + Len(t) PROVE (s \o t)[i] = i /\ i < Len(s \o t) + 1
    <3>1. CASE i <= Len(s)
      BY <1>1, <1>3, <1>5, <3>1
    <3>2. CASE i > Len(s)
      BY <1>1, <1>2, <1>5, <3>2
    <3>3. i <= Len(s) \/ i > Len(s)
      BY <1>1
    <3> QED
      BY <1>1, <3>1, <3>2, <3>3
  <2> QED
    BY <1>1, <1>5, <2>1 DEF Arranged
<1> QED
  BY <1>4, <1>5

\* The reply behind them.
LEMMA ArrangedReply ==
  ASSUME NEW s \in Words, Arranged(s, Len(s) + 1)
  PROVE  Arranged(Append(s, Reply), Len(s) + 1)
<1>1. Len(s) \in Nat /\ s \in Seq(Nat) /\ Reply \in Nat
  BY DEF Words, Reply
<1>2. /\ Len(Append(s, Reply)) = Len(s) + 1
      /\ \A i \in 1..Len(s) : Append(s, Reply)[i] = s[i]
      /\ Append(s, Reply)[Len(s) + 1] = Reply
  BY <1>1, AppendProperties
<1>3. ASSUME NEW i \in 1..Len(s) + 1
      PROVE  Append(s, Reply)[i] = IF i < Len(s) + 1 THEN i ELSE IF i = Len(s) + 1 THEN Reply ELSE i - 1
  <2> DEFINE n == Len(s)
  <2>1. n \in Nat /\ i \in 1..n + 1
    BY <1>1
  <2> HIDE DEF n
  <2>2. (i \in 1..n /\ i < n + 1) \/ i = n + 1
    BY ONLY <2>1
  <2>3. CASE i \in 1..n /\ i < n + 1
    BY <1>2, <2>3 DEF Arranged, n
  <2>4. CASE i = n + 1
    BY <1>2, <2>1, <2>4 DEF n
  <2> QED
    BY <2>2, <2>3, <2>4
<1> QED
  BY <1>2, <1>3 DEF Arranged

-----------------------------------------------------------------------------
(***************************************************************************)
(* The words that are exchanged.                                           *)
(***************************************************************************)
\* The units of a client that were read, those that were told to a transport, and
\* the data in so many of them.
Got(c) == sent[c] - Len(wire[c])
Taken(c) == IF peer[c].transport = "undecided" THEN 0 ELSE Got(c)
DataIn(c, n) == IF c \notin Sessions THEN n ELSE IF n > Handshake THEN n - Handshake ELSE 0

\* Nothing is missing between what the core heard, what is gathered, and what comes.
Unread(c) ==
  /\ Len(wire[c]) <= sent[c] /\ Consecutive(wire[c], Got(c) + 1)
  /\ peer[c].transport = "undecided" => Len(peer[c].first) = Got(c) /\ Consecutive(peer[c].first, 1)
  /\ peer[c].transport \in {"secure", "websocket"} => peer[c].fed = Got(c)
  /\ conn[c] = "open" => Len(heard[c]) = DataIn(c, Taken(c))

\* From a client: a connection that was reset is not read, every other one in order.
Listened(c) ==
  /\ sent[c] <= MaxSent /\ peer[c].fed <= sent[c] /\ Len(peer[c].first) <= 1
  /\ peer[c].transport # "undecided" => peer[c].first = <<>>
  /\ peer[c].transport = "plain" /\ require => conn[c] # "open"
  /\ peer[c].transport \in {"undecided", "plain"} => peer[c].fed = 0
  /\ Consecutive(heard[c], FirstData(c))
  /\ heard[c] # <<>> => IF c \in Sessions THEN Begun(peer[c]) ELSE ~require
  /\ conn[c] = "none" => heard[c] = <<>>
  /\ client[c] = "reset" /\ c \in peers => wire[c] = <<>>
  /\ client[c] # "reset" => Unread(c)

\* What a client is told, and what waits for it; the words of the core among that, with
\* the reply in place r or not at all.
Lines(c) == told[c] \o peer[c].pending
Spoke(c, r) == IF r <= Len(Lines(c)) THEN Len(Lines(c)) - 1 ELSE Len(Lines(c))

\* To a client: the core's words without a gap as far as they were passed on, and
\* the reply among them; nothing is lost while the core's connection is open.
Placed(c, r) ==
  /\ Arranged(Lines(c), r)
  /\ r <= Len(Lines(c)) => Begun(peer[c])
  /\ r \in 2..Len(Lines(c)) => conn[c] = "closed"
  /\ Consecutive(out[c], Spoke(c, r) + 1)
  /\ conn[c] = "open" => Spoke(c, r) + Len(out[c]) = said[c]

\* Before it has heard anything the core says but a last word.
Spoken(c) ==
  /\ said[c] <= MaxSaid
  /\ \E r \in 1..Len(Lines(c)) + 1 : Placed(c, r)
  /\ conn[c] = "open" /\ said[c] # 0 => heard[c] # <<>>

TalkInv ==
  /\ \A c \in Clients : window[c] <= SendBuffer /\ pings[c] <= pinged[c] /\ pinged[c] <= MaxPings
  /\ Cardinality(peers) <= MaxConnections
  /\ \A c \in Clients : Listened(c) /\ Spoken(c)

\* A client whose two directions a step leaves alone.
SameTalk(d) ==
  /\ client'[d] = client[d] /\ sent'[d] = sent[d] /\ wire'[d] = wire[d] /\ told'[d] = told[d]
  /\ peer'[d] = peer[d] /\ conn'[d] = conn[d] /\ out'[d] = out[d] /\ said'[d] = said[d]
  /\ heard'[d] = heard[d] /\ (d \in peers' <=> d \in peers)

LEMMA StaysTold ==
  ASSUME NEW d, Listened(d), Spoken(d), SameTalk(d), require' = require
  PROVE  Listened(d)' /\ Spoken(d)'
<1>1. /\ Got(d)' = Got(d) /\ Taken(d)' = Taken(d) /\ Begun(peer[d])' = Begun(peer[d])
      /\ Lines(d)' = Lines(d)
  BY DEF SameTalk, Got, Taken, Begun, Lines
<1>2. \A r : Spoke(d, r)' = Spoke(d, r)
  BY <1>1 DEF Spoke
<1>3. Unread(d)' = Unread(d)
  <2>1. DataIn(d, Taken(d))' = DataIn(d, Taken(d))
    BY <1>1 DEF DataIn
  <2> QED
    BY <1>1, <2>1 DEF SameTalk, Unread, Consecutive
<1>4. Listened(d)'
  BY <1>1, <1>3 DEF Listened, SameTalk, Consecutive, FirstData
<1>5. \A r : Placed(d, r)' = Placed(d, r)
  BY <1>1, <1>2 DEF Placed, SameTalk, Arranged, Consecutive
<1>6. Spoken(d)'
  BY <1>1, <1>5 DEF Spoken, SameTalk
<1> QED
  BY <1>4, <1>6

\* A step that concerns one client.
LEMMA OneTalk ==
  ASSUME TalkInv, NEW c \in Clients, \A d \in Clients \ {c} : SameTalk(d),
         \A d \in Clients : window'[d] <= SendBuffer /\ pings'[d] <= pinged'[d] /\ pinged'[d] <= MaxPings,
         Cardinality(peers') <= MaxConnections, require' = require,
         Listened(c)', Spoken(c)'
  PROVE  TalkInv'
<1>1. ASSUME NEW d \in Clients PROVE Listened(d)' /\ Spoken(d)'
  <2>1. CASE d = c
    BY <2>1
  <2>2. CASE d # c
    BY <2>2, StaysTold DEF TalkInv
  <2> QED
    BY <2>1, <2>2
<1> QED
  BY <1>1 DEF TalkInv

\* Nothing of it depends on how a connection is closed, and little on how it ends.
LEMMA StaysListened ==
  ASSUME NEW c, Listened(c), sent'[c] = sent[c],
         \/ client'[c] = client[c] /\ wire'[c] = wire[c]
         \/ client'[c] = "reset" /\ wire'[c] = <<>>,
         peer'[c].transport = peer[c].transport, peer'[c].first = peer[c].first,
         peer'[c].fed = peer[c].fed, heard'[c] = heard[c], require' = require,
         conn'[c] = conn[c] \/ conn'[c] = "closed", c \in peers' => c \in peers
  PROVE  Listened(c)'
<1>1. Begun(peer[c])' = Begun(peer[c])
  BY DEF Begun
<1>2. ASSUME client'[c] = client[c], wire'[c] = wire[c]
      PROVE  (client[c] = "reset" /\ c \in peers => wire[c] = <<>>)' /\ (client[c] # "reset" => Unread(c))'
  <2>1. Got(c)' = Got(c) /\ Taken(c)' = Taken(c)
    BY <1>2 DEF Got, Taken
  <2>2. DataIn(c, Taken(c))' = DataIn(c, Taken(c))
    BY <2>1 DEF DataIn
  <2>3. Unread(c) => Unread(c)'
    BY <1>2, <2>1, <2>2 DEF Unread, Consecutive
  <2> QED
    BY <1>2, <2>3 DEF Listened
<1>3. (client[c] = "reset" /\ c \in peers => wire[c] = <<>>)' /\ (client[c] # "reset" => Unread(c))'
  BY <1>2
<1> QED
  BY <1>1, <1>3 DEF Listened, Consecutive, FirstData

\* At the start nothing was said.
LEMMA TalkInit ==
  ASSUME SocketAssumption, Init
  PROVE  TalkInv
<1>1. /\ NewPeer.first = <<>> /\ NewPeer.pending = <<>> /\ NewPeer.transport = "undecided"
      /\ NewPeer.fed = 0
  BY DEF NewPeer
<1>2. /\ MaxSent \in Nat /\ MaxSaid \in Nat /\ MaxPings \in Nat /\ SendBuffer \in Nat
      /\ MaxConnections \in Nat /\ Handshake \in Nat
      /\ Cardinality({}) = 0 /\ <<>> \in Words /\ Len(<<>>) = 0 /\ <<>> \o <<>> = <<>>
  <2>1. <<>> \in Seq(Nat) /\ <<>> \o <<>> = <<>>
    BY ConcatEmptySeq
  <2> QED
    BY <2>1, FS_EmptySet DEF SocketAssumption, Words
<1>3. ASSUME NEW c \in Clients PROVE Listened(c) /\ Spoken(c)
  <2>1. /\ sent[c] = 0 /\ wire[c] = <<>> /\ told[c] = <<>> /\ peer[c] = NewPeer /\ conn[c] = "none"
        /\ out[c] = <<>> /\ said[c] = 0 /\ heard[c] = <<>> /\ client[c] = "away"
    BY DEF Init
  <2>2. Got(c) = 0 /\ Taken(c) = 0 /\ Lines(c) = <<>>
    <3>1. Got(c) = 0 /\ Taken(c) = 0
      <4>1. sent[c] = 0 /\ Len(wire[c]) = 0 /\ peer[c].transport = "undecided"
        BY <1>1, <1>2, <2>1
      <4> QED
        BY <4>1 DEF Got, Taken
    <3>2. Lines(c) = <<>>
      BY <1>1, <1>2, <2>1 DEF Lines
    <3> QED
      BY <3>1, <3>2
  <2>3. \A m : Consecutive(<<>>, m) /\ Arranged(<<>>, m)
    BY <1>2 DEF Consecutive, Arranged
  <2>4. Unread(c)
    BY <1>1, <1>2, <2>1, <2>2, <2>3 DEF Unread
  <2>5. Listened(c)
    BY <1>1, <1>2, <2>1, <2>2, <2>3, <2>4 DEF Listened
  <2>6. 1 \in 1..Len(Lines(c)) + 1 /\ Placed(c, 1)
    BY <1>2, <2>1, <2>2, <2>3 DEF Spoke, Placed
  <2>7. Spoken(c)
    BY <1>2, <2>1, <2>6 DEF Spoken
  <2> QED
    BY <2>5, <2>7
<1> QED
  BY <1>2, <1>3 DEF Init, TalkInv

\* Whatever the clients and the network do, the server has not noticed yet; what is
\* sent comes after what was sent.
LEMMA NetworkTalk ==
  ASSUME SocketAssumption, LoopInv, TalkInv, Network
  PROVE  TalkInv'
<1>1. LoopTypeOK /\ \A d \in Clients : Listened(d) /\ Spoken(d) /\ Piled(d)
  BY DEF LoopInv, TalkInv, Fine
<1>2. PICK c \in Clients :
        \/ ClientConnects(c) \/ ClientSends(c) \/ ClientPings(c) \/ ClientSpoils(c)
        \/ ClientReads(c) \/ ClientCloses(c) \/ Reset(c)
  BY DEF Network
<1>3. UNCHANGED <<told, peers, peer, conn, out, said, heard, require>>
  BY DEF Network, ServerWaits, core
<1>4. /\ sent[c] \in Nat /\ wire[c] \in Words /\ Len(wire[c]) \in Nat /\ SendBuffer \in Nat
      /\ \A d \in Clients : window[d] <= SendBuffer
  <2>1. sent[c] \in Nat /\ wire[c] \in Words
    BY <1>1 DEF LoopTypeOK
  <2>2. Len(wire[c]) \in Nat
    BY <2>1 DEF Words
  <2> QED
    BY <2>1, <2>2 DEF SocketAssumption, TalkInv
<1>5. \A d \in Clients : window'[d] <= SendBuffer
  <2>1. window' = window \/ window' = [window EXCEPT ![c] = SendBuffer]
    BY <1>2 DEF ClientConnects, ClientSends, ClientPings, ClientSpoils, ClientReads, ClientCloses, Reset
  <2>2. window \in [Clients -> Nat] /\ SendBuffer <= SendBuffer
    BY <1>1, <1>4 DEF LoopTypeOK
  <2> QED
    BY <1>4, <2>1, <2>2
<1>6. \A d \in Clients : pings'[d] <= pinged'[d] /\ pinged'[d] <= MaxPings
  <2>1. /\ pings \in [Clients -> Nat] /\ pinged \in [Clients -> Nat] /\ MaxPings \in Nat
        /\ \A d \in Clients : pings[d] <= pinged[d] /\ pinged[d] <= MaxPings
    BY <1>1 DEF LoopTypeOK, TalkInv, SocketAssumption
  <2>2. CASE ClientPings(c)
    <3>1. /\ pinged' = [pinged EXCEPT ![c] = pinged[c] + 1] /\ pings' = [pings EXCEPT ![c] = pings[c] + 1]
          /\ SumOf(pinged) < MaxPings
      BY <2>2 DEF ClientPings
    <3>2. SumOf(pinged) \in Nat /\ pinged[c] <= SumOf(pinged)
      BY <2>1, SumBounds DEF SocketAssumption
    <3>3. pinged[c] + 1 <= MaxPings /\ pings[c] + 1 <= pinged[c] + 1
      BY <2>1, <3>1, <3>2
    <3> QED
      BY <2>1, <3>1, <3>3
  <2>3. CASE Reset(c)
    <3>1. pings' = [pings EXCEPT ![c] = 0] /\ pinged' = pinged /\ 0 <= pinged[c]
      BY <2>1, <2>3 DEF Reset, Ended
    <3> QED
      BY <2>1, <3>1
  <2>4. CASE ~ClientPings(c) /\ ~Reset(c)
    <3>1. pings' = pings /\ pinged' = pinged
      BY <1>2, <2>4 DEF ClientConnects, ClientSends, ClientSpoils, ClientReads, ClientCloses
    <3> QED
      BY <2>1, <3>1
  <2> QED
    BY <2>2, <2>3, <2>4
<1>7. \A d \in Clients \ {c} : SameTalk(d)
  <2>1. \A d \in Clients \ {c} : client'[d] = client[d] /\ sent'[d] = sent[d] /\ wire'[d] = wire[d]
    BY <1>1, <1>2 DEF ClientConnects, ClientSends, ClientPings, ClientSpoils, ClientReads, ClientCloses,
                      Reset, Ended, LoopTypeOK
  <2> QED
    BY <1>3, <2>1 DEF SameTalk
<1>8. Spoken(c)'
  <2>1. Begun(peer[c])' = Begun(peer[c]) /\ Lines(c)' = Lines(c)
    BY <1>3 DEF Begun, Lines
  <2>2. \A r : Spoke(c, r)' = Spoke(c, r)
    BY <2>1 DEF Spoke
  <2>3. \A r : Placed(c, r)' = Placed(c, r)
    BY <1>3, <2>1, <2>2 DEF Placed, Arranged, Consecutive
  <2>4. Spoken(c)
    BY <1>1
  <2> QED
    BY <1>3, <2>1, <2>3, <2>4 DEF Spoken
<1>9. ASSUME Listened(c)' PROVE TalkInv'
  <2>1. Cardinality(peers') <= MaxConnections /\ require' = require
    BY <1>3 DEF TalkInv
  <2> QED
    BY <1>5, <1>6, <1>7, <1>8, <1>9, <2>1, OneTalk
<1>10. Listened(c) /\ sent[c] <= MaxSent
  BY <1>1 DEF Listened
<1>11. ASSUME sent' = sent, wire' = wire, client'[c] # "reset", client[c] # "reset"
       PROVE  Listened(c)'
  <2>1. Got(c)' = Got(c) /\ Taken(c)' = Taken(c) /\ Begun(peer[c])' = Begun(peer[c])
    BY <1>3, <1>11 DEF Got, Taken, Begun
  <2>2. DataIn(c, Taken(c))' = DataIn(c, Taken(c))
    BY <2>1 DEF DataIn
  <2>3. Unread(c)
    BY <1>10, <1>11 DEF Listened
  <2>4. Unread(c)'
    BY <1>3, <1>11, <2>1, <2>2, <2>3 DEF Unread, Consecutive
  <2> QED
    BY <1>3, <1>10, <1>11, <2>1, <2>4 DEF Listened, Consecutive, FirstData
<1>12. CASE ClientConnects(c) \/ ClientPings(c) \/ ClientSpoils(c) \/ ClientReads(c) \/ ClientCloses(c)
  <2>1. sent' = sent /\ wire' = wire /\ client'[c] # "reset" /\ client[c] # "reset"
    BY <1>1, <1>12 DEF ClientConnects, ClientPings, ClientSpoils, Sending, ClientReads, ClientCloses,
                       LoopTypeOK
  <2> QED
    BY <1>9, <1>11, <2>1
<1>13. CASE Reset(c)
  <2>1. sent' = sent /\ wire'[c] = <<>> /\ client'[c] = "reset"
    BY <1>1, <1>13 DEF Reset, Ended, LoopTypeOK
  <2>2. Listened(c)'
    BY <1>3, <1>10, <2>1, StaysListened
  <2> QED
    BY <1>9, <2>2
<1>14. CASE ClientSends(c)
  <2>1. /\ sent'[c] = sent[c] + 1 /\ wire'[c] = Append(wire[c], sent[c] + 1)
        /\ client' = client /\ client[c] # "reset" /\ SumOf(sent) < MaxSent
    <3>1. sent'[c] = sent[c] + 1
      BY <1>1, <1>14 DEF ClientSends, LoopTypeOK
    <3> QED
      BY <1>1, <1>14, <3>1 DEF ClientSends, Sending, LoopTypeOK
  <2>2. sent[c] < MaxSent /\ sent[c] + 1 <= MaxSent
    <3>1. SumOf(sent) \in Nat /\ sent[c] <= SumOf(sent)
      BY <1>1, SumBounds DEF LoopTypeOK, SocketAssumption
    <3>2. MaxSent \in Nat
      BY DEF SocketAssumption
    <3> QED
      BY <1>4, <2>1, <3>1, <3>2
  <2>3. Unread(c)
    BY <1>10, <2>1 DEF Listened
  <2>4. Len(wire'[c]) = Len(wire[c]) + 1
    BY <1>4, <2>1, AppendProperties DEF Words
  <2>5. Got(c)' = Got(c) /\ Got(c) \in Nat /\ Taken(c)' = Taken(c) /\ Begun(peer[c])' = Begun(peer[c])
    <3>1. Len(wire[c]) <= sent[c]
      BY <2>3 DEF Unread
    <3>2. Got(c)' = Got(c) /\ Got(c) \in Nat
      BY <1>4, <2>1, <2>4, <3>1 DEF Got
    <3> QED
      BY <1>3, <3>2 DEF Taken, Begun
  <2>6. Consecutive(wire'[c], Got(c) + 1)
    <3>1. Consecutive(wire[c], Got(c) + 1) /\ Got(c) + 1 \in Nat
      BY <2>3, <2>5 DEF Unread
    <3>2. Got(c) + 1 + Len(wire[c]) = sent[c] + 1
      BY <1>4 DEF Got
    <3> QED
      BY <1>4, <2>1, <3>1, <3>2, ConsecutiveAppend
  <2>7. DataIn(c, Taken(c))' = DataIn(c, Taken(c))
    BY <2>5 DEF DataIn
  <2>8. Unread(c)'
    <3>1. Len(wire'[c]) <= sent'[c]
      BY <1>4, <2>1, <2>3, <2>4 DEF Unread
    <3>2. Consecutive(wire[c], Got(c) + 1)'
      BY <2>5, <2>6 DEF Consecutive
    <3> QED
      BY <1>3, <2>3, <2>5, <2>7, <3>1, <3>2 DEF Unread, Consecutive
  <2>9. sent'[c] <= MaxSent /\ peer[c].fed <= sent'[c]
    <3>1. peer[c].fed \in Nat /\ peer[c].fed <= sent[c]
      BY <1>1, <1>10 DEF LoopTypeOK, PeerType, Listened
    <3> QED
      BY <1>4, <2>1, <2>2, <3>1
  <2>10. Listened(c)'
    BY <1>3, <1>10, <2>1, <2>5, <2>8, <2>9 DEF Listened, Consecutive, FirstData
  <2> QED
    BY <1>9, <2>10
<1> QED
  BY <1>2, <1>12, <1>13, <1>14

\* A new connection starts from nothing.
LEMMA AcceptTalk ==
  ASSUME SocketAssumption, LoopInv, TalkInv, NEW c \in Clients, Accept(c)
  PROVE  TalkInv'
<1>1. LoopTypeOK /\ Listened(c) /\ Spoken(c) /\ Known(c) /\ client[c] = "backlog"
  BY DEF LoopInv, Fine, TalkInv, Accept
<1>2. UNCHANGED <<sent, wire, pinged, pings, window, told, peer, out, said, heard, require>>
  BY DEF Accept
<1>3. /\ conn[c] = "none" /\ c \notin peers /\ peer[c] = NewPeer /\ out[c] = <<>> /\ told[c] = <<>>
      /\ said[c] = 0 /\ heard[c] = <<>>
  BY <1>1 DEF Known, Listened
<1>4. /\ peer[c].pending = <<>> /\ peer[c].transport = "undecided" /\ ~Begun(peer[c])
      /\ Len(<<>>) = 0 /\ <<>> \o <<>> = <<>>
  BY <1>3, ConcatEmptySeq, <<>> \in Seq(Nat) DEF NewPeer, Begun
<1>5. /\ Unread(c) /\ Got(c)' = Got(c) /\ Taken(c)' = 0 /\ Begun(peer[c])' = Begun(peer[c])
      /\ Lines(c)' = Lines(c) /\ Lines(c) = <<>>
  BY <1>1, <1>2, <1>3, <1>4 DEF Listened, Got, Taken, Begun, Lines
<1>6. DataIn(c, Taken(c))' = 0
  <2>1. Handshake \in Nat
    BY DEF SocketAssumption
  <2> QED
    BY <1>5, <2>1 DEF DataIn
<1>7. Unread(c)'
  BY <1>2, <1>3, <1>4, <1>5, <1>6 DEF Unread, Consecutive
<1>8. \/ client' = [client EXCEPT ![c] = "reset"] /\ peers' = peers /\ conn' = conn
      \/ /\ client' = [client EXCEPT ![c] = "connected"] /\ peers' = peers \union {c}
         /\ conn' = [conn EXCEPT ![c] = "open"] /\ ~ Cardinality(peers) >= MaxConnections
  BY DEF Accept
<1>9. /\ client'[c] = "reset" => c \notin peers'
      /\ \A d \in Clients \ {c} : client'[d] = client[d] /\ conn'[d] = conn[d] /\ (d \in peers' <=> d \in peers)
  BY <1>1, <1>3, <1>8 DEF LoopTypeOK
<1>10. Listened(c)'
  BY <1>1, <1>2, <1>3, <1>4, <1>5, <1>7, <1>9 DEF Listened, Consecutive, FirstData
<1>11. Spoken(c)'
  <2>1. Spoke(c, 1)' = 0
    BY <1>4, <1>5 DEF Spoke
  <2>2. Placed(c, 1)' /\ 1 \in 1..Len(Lines(c)') + 1
    BY <1>2, <1>3, <1>4, <1>5, <2>1 DEF Placed, Arranged, Consecutive
  <2> QED
    BY <1>1, <1>2, <1>3, <2>2 DEF Spoken
<1>12. Cardinality(peers') <= MaxConnections
  <2>1. IsFiniteSet(peers) /\ MaxConnections \in Nat
    BY <1>1, FS_Subset DEF LoopTypeOK, SocketAssumption
  <2>2. Cardinality(peers) \in Nat /\ Cardinality(peers \union {c}) = Cardinality(peers) + 1
    BY <1>3, <2>1, FS_CardinalityType, FS_AddElement
  <2>3. Cardinality(peers) <= MaxConnections
    BY DEF TalkInv
  <2>4. ~ Cardinality(peers) >= MaxConnections => Cardinality(peers) + 1 <= MaxConnections
    BY <2>1, <2>2
  <2> QED
    BY <1>8, <2>2, <2>3, <2>4
<1>13. \A d \in Clients \ {c} : SameTalk(d)
  BY <1>2, <1>9 DEF SameTalk
<1>14. \A d \in Clients : window'[d] <= SendBuffer /\ pings'[d] <= pinged'[d] /\ pinged'[d] <= MaxPings
  BY <1>2 DEF TalkInv
<1> QED
  BY <1>2, <1>10, <1>11, <1>12, <1>13, <1>14, OneTalk

\* What a read, or the core's own time, may do to the words for a client: the reply is
\* put behind what waits, and the core says a word, or closes the connection.
Speaks(c) ==
  /\ told'[c] = told[c] /\ conn[c] # "none" /\ (Begun(peer[c]) => Begun(peer'[c]))
  /\ \/ peer'[c].pending = peer[c].pending
     \/ /\ peer'[c].pending = Append(peer[c].pending, Reply)
        /\ Begun(peer'[c]) /\ ~Begun(peer[c]) /\ c \in Sessions
  /\ conn'[c] = conn[c] \/ conn'[c] = "closed"
  /\ \/ out'[c] = out[c] /\ said'[c] = said[c] /\ (heard[c] # <<>> => heard'[c] # <<>>)
     \/ /\ conn[c] = "open" /\ (conn'[c] = "open" => heard'[c] # <<>>)
        /\ out'[c] = Append(out[c], said[c] + 1)
        /\ said'[c] = said[c] + 1 /\ said'[c] <= MaxSaid

LEMMA Regroup ==
  ASSUME NEW s \in Seq(Nat), NEW t \in Seq(Nat), NEW u \in Seq(Nat)
  PROVE  (s \o t) \o u = s \o (t \o u)
BY ConcatAssociative, SMTT(60)

LEMMA AppendBehind ==
  ASSUME NEW t \in Seq(Nat), NEW p \in Seq(Nat), NEW e \in Nat
  PROVE  t \o Append(p, e) = Append(t \o p, e)
<1> DEFINE x == <<e>>
<1>1. x \in Seq(Nat) /\ t \o p \in Seq(Nat)
  BY ConcatProperties
<1>2. Append(p, e) = p \o x /\ Append(t \o p, e) = (t \o p) \o x
  BY <1>1, AppendIsConcat
<1> HIDE DEF x
<1>3. (t \o p) \o x = t \o (p \o x)
  BY <1>1, Regroup
<1> QED
  BY <1>2, <1>3
LEMMA StillSpoken ==
  ASSUME SocketAssumption, LoopTypeOK, NEW c \in Clients, Listened(c), Spoken(c), Speaks(c)
  PROVE  Spoken(c)'
<1> DEFINE q == Lines(c)
<1>1. /\ told[c] \in Seq(Nat) /\ peer[c].pending \in Seq(Nat) /\ out[c] \in Words /\ said[c] \in Nat
      /\ Reply \in Nat
  BY DEF LoopTypeOK, PeerType, Words, Reply
<1>2. q \in Words /\ q \in Seq(Nat) /\ Len(q) \in Nat
  <2>1. told[c] \o peer[c].pending \in Seq(Nat)
    BY <1>1, ConcatProperties
  <2>2. q = told[c] \o peer[c].pending
    BY DEF Lines
  <2> HIDE DEF q
  <2>3. q \in Seq(Nat)
    BY <2>1, <2>2
  <2> QED
    BY <2>3 DEF Words
<1>3. PICK r \in 1..Len(q) + 1 : Placed(c, r)
  BY DEF Spoken
<1> DEFINE n == Spoke(c, r)
<1>4. n = (IF r <= Len(q) THEN Len(q) - 1 ELSE Len(q)) /\ n \in Nat /\ Len(out[c]) \in Nat
  <2>1. n = IF r <= Len(q) THEN Len(q) - 1 ELSE Len(q)
    BY DEF Spoke
  <2>2. r \in Nat /\ r >= 1
    BY <1>2, <1>3
  <2> HIDE DEF n, q
  <2>3. n \in Nat
    BY <1>2, <2>1, <2>2
  <2> QED
    BY <1>1, <2>1, <2>3 DEF Words
<1>5. /\ Arranged(q, r) /\ (r <= Len(q) => Begun(peer[c]))
      /\ r \in 2..Len(q) => conn[c] = "closed"
      /\ Consecutive(out[c], n + 1) /\ (conn[c] = "open" => n + Len(out[c]) = said[c])
  BY <1>3 DEF Placed
<1>6. said[c] <= MaxSaid /\ (conn[c] = "open" /\ said[c] # 0 => heard[c] # <<>>)
  BY DEF Spoken
<1>7. /\ Spoke(c, r)' = n /\ r \in 1..Len(Lines(c)') + 1
      /\ Arranged(Lines(c), r)' /\ (r <= Len(Lines(c)') => Begun(peer'[c]))
      /\ r \in 2..Len(Lines(c)') => conn'[c] = "closed"
  <2>1. CASE peer'[c].pending = peer[c].pending
    <3>1. Lines(c)' = q
      BY <2>1 DEF Speaks, Lines
    <3>2. Spoke(c, r)' = n
      BY <3>1 DEF Spoke
    <3>3. Arranged(Lines(c), r)'
      BY <1>5, <3>1 DEF Arranged
    <3>4. (r <= Len(q) => Begun(peer'[c])) /\ (r \in 2..Len(q) => conn'[c] = "closed")
      BY <1>5 DEF Speaks
    <3> HIDE DEF q, n
    <3> QED
      BY <1>3, <3>1, <3>2, <3>3, <3>4
  <2>2. CASE /\ peer'[c].pending = Append(peer[c].pending, Reply)
             /\ Begun(peer'[c]) /\ ~Begun(peer[c]) /\ c \in Sessions
    <3>1. Lines(c)' = Append(q, Reply)
      <4>1. Lines(c)' = told[c] \o Append(peer[c].pending, Reply) /\ q = told[c] \o peer[c].pending
        BY <2>2 DEF Speaks, Lines
      <4>2. told[c] \o Append(peer[c].pending, Reply) = Append(told[c] \o peer[c].pending, Reply)
        BY <1>1, AppendBehind
      <4> HIDE DEF q
      <4> QED
        BY <4>1, <4>2
    <3>2. Len(Lines(c)') = Len(q) + 1
      <4> HIDE DEF q
      <4> QED
        BY <1>1, <1>2, <3>1, AppendProperties
    <3>3. r = Len(q) + 1 /\ n = Len(q)
      <4> HIDE DEF q, n
      <4> QED
        BY <1>2, <1>3, <1>4, <1>5, <2>2
    <3>4. Spoke(c, r)' = n
      <4>1. Spoke(c, r)' = IF r <= Len(Lines(c)') THEN Len(Lines(c)') - 1 ELSE Len(Lines(c)')
        BY DEF Spoke
      <4> HIDE DEF q, n
      <4> QED
        BY <1>2, <3>2, <3>3, <4>1
    <3>5. Arranged(Lines(c), r)'
      <4>1. Arranged(Append(q, Reply), Len(q) + 1)
        <5> HIDE DEF q, n
        <5> QED
          BY <1>2, <1>5, <3>3, ArrangedReply
      <4>2. Arranged(Lines(c)', r)
        BY <3>1, <3>3, <4>1
      <4> HIDE DEF q, n
      <4> QED
        BY <4>2 DEF Arranged
    <3>6. conn'[c] # "closed" => Len(q) = 0
      <4> SUFFICES ASSUME conn'[c] # "closed" PROVE Len(q) = 0
        OBVIOUS
      <4>1. conn[c] = "open"
        BY DEF Speaks, LoopTypeOK
      <4>2. said[c] = 0
        BY <1>6, <2>2, <4>1 DEF Listened
      <4>3. n + Len(out[c]) = 0 /\ n = Len(q) /\ Len(q) \in Nat /\ Len(out[c]) \in Nat
        BY <1>2, <1>4, <1>5, <3>3, <4>1, <4>2
      <4> HIDE DEF q, n
      <4> QED
        BY <4>3
    <3> HIDE DEF q, n
    <3>7. r \in 1..Len(Lines(c)') + 1 /\ (r \in 2..Len(Lines(c)') => conn'[c] = "closed")
      BY <1>2, <3>2, <3>3, <3>6
    <3> QED
      BY <2>2, <3>4, <3>5, <3>7
  <2> QED
    BY <2>1, <2>2 DEF Speaks
<1> HIDE DEF q, n
<1>8. ASSUME /\ said'[c] <= MaxSaid /\ (conn'[c] = "open" /\ said'[c] # 0 => heard'[c] # <<>>)
             /\ Consecutive(out'[c], n + 1) /\ (conn'[c] = "open" => n + Len(out'[c]) = said'[c])
      PROVE  Spoken(c)'
  <2>1. /\ Consecutive(out[c], Spoke(c, r) + 1)' /\ (conn[c] = "open" => Spoke(c, r) + Len(out[c]) = said[c])'
    BY <1>7, <1>8 DEF Consecutive
  <2>2. Placed(c, r)'
    BY <1>7, <2>1 DEF Placed
  <2> QED
    BY <1>7, <1>8, <2>2 DEF Spoken
<1>9. conn'[c] = "open" => conn[c] = "open"
  BY DEF Speaks
<1>10. CASE out'[c] = out[c] /\ said'[c] = said[c] /\ (heard[c] # <<>> => heard'[c] # <<>>)
  BY <1>5, <1>6, <1>8, <1>9, <1>10
<1>11. CASE /\ conn[c] = "open" /\ (conn'[c] = "open" => heard'[c] # <<>>)
            /\ out'[c] = Append(out[c], said[c] + 1)
            /\ said'[c] = said[c] + 1 /\ said'[c] <= MaxSaid
  <2>1. n + Len(out[c]) = said[c]
    BY <1>5, <1>11
  <2>2. said[c] + 1 = n + 1 + Len(out[c]) /\ n + 1 \in Nat /\ n + (Len(out[c]) + 1) = said[c] + 1
    <3> DEFINE o == Len(out[c])
               s == said[c]
    <3>1. n \in Nat /\ o \in Nat /\ n + o = s
      BY <1>4, <2>1
    <3> HIDE DEF o, s
    <3>2. s + 1 = n + 1 + o /\ n + 1 \in Nat /\ n + (o + 1) = s + 1
      BY ONLY <3>1
    <3> QED
      BY <3>2 DEF o, s
  <2>3. Consecutive(out'[c], n + 1)
    BY <1>1, <1>5, <1>11, <2>2, ConsecutiveAppend
  <2>4. Len(out'[c]) = Len(out[c]) + 1
    BY <1>1, <1>11, AppendProperties DEF Words
  <2>5. n + Len(out'[c]) = said'[c]
    BY <1>11, <2>2, <2>4
  <2> QED
    BY <1>8, <1>11, <2>3, <2>5
<1> QED
  BY <1>10, <1>11 DEF Speaks

-----------------------------------------------------------------------------
\* A read goes on where the transport stopped, and what comes goes on from there.
LEMMA ReadUnits ==
  ASSUME SocketAssumption, LoopTypeOK, NEW c \in Clients, Unread(c), NEW n \in 0..Len(wire[c])
  PROVE  /\ ReadOf(c, n) \in Words /\ Consecutive(ReadOf(c, n), Taken(c) + 1)
         /\ Taken(c) \in Nat /\ Got(c) + n \in Nat /\ Taken(c) + Len(ReadOf(c, n)) = Got(c) + n
         /\ Got(c) + n <= sent[c]
         /\ LET rest == SubSeq(wire[c], n + 1, Len(wire[c]))
            IN  Len(rest) <= sent[c] /\ Consecutive(rest, Got(c) + n + 1) /\ sent[c] - Len(rest) = Got(c) + n
<1> DEFINE w == wire[c]
           read == SubSeq(w, 1, n)
           rest == SubSeq(w, n + 1, Len(w))
           g == Got(c)
<1>1. /\ w \in Words /\ n \in 0..Len(w) /\ Len(w) \in Nat /\ sent[c] \in Nat
      /\ peer[c].first \in Words
  <2>1. wire[c] \in Words /\ sent[c] \in Nat /\ peer[c] \in PeerType
    BY DEF LoopTypeOK
  <2>2. Len(wire[c]) \in Nat
    BY <2>1 DEF Words
  <2> QED
    BY <2>1, <2>2 DEF PeerType
<1>2. Len(w) <= sent[c] /\ Consecutive(w, g + 1) /\ g \in Nat
  BY <1>1 DEF Unread, Got
<1>3. /\ read \in Words /\ Len(read) = n /\ rest \in Words /\ Len(rest) = Len(w) - n
  BY <1>1, Cut
<1>4. Consecutive(read, g + 1) /\ Consecutive(rest, g + 1 + n)
  BY <1>1, <1>2, ConsecutiveCut
<1>5. /\ sent[c] - Len(rest) = g + n /\ g + 1 + n = g + n + 1 /\ g + n \in Nat /\ g + n <= sent[c]
      /\ Len(rest) <= sent[c]
  <2> DEFINE l == Len(w)
             s == sent[c]
             v == Len(rest)
  <2>1. l \in Nat /\ s \in Nat /\ n \in 0..l /\ g = s - l /\ l <= s /\ v = l - n
    BY <1>1, <1>2, <1>3 DEF Got
  <2> HIDE DEF l, s, v, g
  <2>2. s - v = g + n /\ g + 1 + n = g + n + 1 /\ g + n \in Nat /\ g + n <= s /\ v <= s
    BY ONLY <2>1
  <2> QED
    BY <2>2 DEF s, v
<1> HIDE DEF g, read, rest
<1>6. Consecutive(rest, g + n + 1)
  BY <1>4, <1>5
<1>7. CASE peer[c].transport = "undecided"
  <2>1. /\ Taken(c) = 0 /\ Len(peer[c].first) = g /\ Consecutive(peer[c].first, 1)
    BY <1>7 DEF Unread, Taken, g
  <2>2. ReadOf(c, n) = peer[c].first \o read
    BY <1>7 DEF ReadOf, Gathered, read
  <2>3. 1 + Len(peer[c].first) = g + 1
    BY <1>2, <2>1
  <2>4. Consecutive(peer[c].first \o read, 1)
    BY <1>1, <1>3, <1>4, <2>1, <2>3, ConsecutiveJoin
  <2>5. peer[c].first \o read \in Words /\ Len(peer[c].first \o read) = g + n
    <3>1. /\ peer[c].first \o read \in Seq(Nat)
          /\ Len(peer[c].first \o read) = Len(peer[c].first) + Len(read)
      BY <1>1, <1>3, ConcatProperties DEF Words
    <3> QED
      BY <1>3, <2>1, <3>1 DEF Words
  <2>6. 0 + Len(peer[c].first \o read) = g + n /\ 0 + 1 = 1
    BY <1>5, <2>5
  <2>7. /\ ReadOf(c, n) \in Words /\ Consecutive(ReadOf(c, n), 0 + 1) /\ 0 \in Nat
        /\ 0 + Len(ReadOf(c, n)) = g + n
    BY <2>2, <2>4, <2>5, <2>6
  <2> HIDE DEF w
  <2> QED
    BY <1>5, <1>6, <2>1, <2>7 DEF g, rest, w
<1>8. CASE peer[c].transport # "undecided"
  <2>1. Taken(c) = g /\ ReadOf(c, n) = read
    BY <1>8 DEF Taken, ReadOf, g, read
  <2> HIDE DEF w
  <2> QED
    BY <1>2, <1>3, <1>4, <1>5, <1>6, <2>1 DEF g, rest, w
<1> QED
  BY <1>7, <1>8

\* The data behind the handshake.
LEMMA BehindHandshake ==
  ASSUME SocketAssumption, NEW b \in Nat, NEW u \in Words, Consecutive(u, b + 1)
  PROVE  LET m == IF b < Handshake THEN Handshake - b ELSE 0
             over(n) == IF n > Handshake THEN n - Handshake ELSE 0
             d == SubSeq(u, m + 1, Len(u))
         IN  /\ d \in Words /\ Consecutive(d, Handshake + 1 + over(b))
             /\ Len(d) = over(b + Len(u)) - over(b)
<1> DEFINE m == IF b < Handshake THEN Handshake - b ELSE 0
           over(n) == IF n > Handshake THEN n - Handshake ELSE 0
           d == SubSeq(u, m + 1, Len(u))
<1>1. Handshake \in Nat /\ Len(u) \in Nat
  BY DEF SocketAssumption, Words
<1>2. m \in Nat
  BY <1>1
<1>3. CASE m <= Len(u)
  <2>1. m \in 0..Len(u)
    BY <1>1, <1>2, <1>3
  <2>2. d \in Words /\ Len(d) = Len(u) - m
    BY <2>1, Cut
  <2>3. b + 1 \in Nat /\ Consecutive(d, b + 1 + m)
    <3>1. b + 1 \in Nat
      OBVIOUS
    <3> HIDE DEF m
    <3> QED
      BY <2>1, <3>1, ConsecutiveCut
  <2>4. b + 1 + m = Handshake + 1 + over(b) /\ Len(u) - m = over(b + Len(u)) - over(b)
    <3> DEFINE l == Len(u)
    <3>1. l \in Nat /\ b \in Nat /\ Handshake \in Nat /\ m <= l
      BY <1>1, <1>3
    <3> HIDE DEF l
    <3>2. CASE b < Handshake
      <4>1. m = Handshake - b /\ over(b) = 0
        BY <3>1, <3>2
      <4>2. over(b + l) = b + l - Handshake
        BY <3>1, <3>2, <4>1
      <4> HIDE DEF m, over
      <4>3. b + 1 + m = Handshake + 1 + over(b) /\ l - m = over(b + l) - over(b)
        BY <3>1, <4>1, <4>2
      <4> QED
        BY <4>3 DEF l
    <3>3. CASE ~ b < Handshake
      <4>1. m = 0 /\ over(b) = b - Handshake
        BY <3>1, <3>3
      <4>2. over(b + l) = b + l - Handshake
        BY <3>1, <3>3, <4>1
      <4> HIDE DEF m, over
      <4>3. b + 1 + m = Handshake + 1 + over(b) /\ l - m = over(b + l) - over(b)
        BY <3>1, <4>1, <4>2
      <4> QED
        BY <4>3 DEF l
    <3> QED
      BY <3>2, <3>3
  <2> QED
    BY <2>2, <2>3, <2>4
<1>4. CASE ~ m <= Len(u)
  <2>1. d = <<>>
    <3>1. m + 1 \in Int /\ Len(u) \in Int /\ Len(u) < m + 1
      BY <1>1, <1>2, <1>4
    <3> QED
      BY <3>1, SubSeqEmpty
  <2>2. <<>> \in Words /\ Len(<<>>) = 0 /\ \A i : Consecutive(<<>>, i)
    BY EmptySeq DEF Words, Consecutive
  <2>3. over(b + Len(u)) - over(b) = 0
    BY <1>1, <1>4
  <2> QED
    BY <2>1, <2>2, <2>3
<1> QED
  BY <1>3, <1>4
\* The core's data go on where they stopped.
LEMMA ReadData ==
  ASSUME SocketAssumption, LoopTypeOK, NEW c \in Clients, Listened(c), Known(c), Unread(c),
         NEW n \in 0..Len(wire[c])
  PROVE  LET data == Data(c, ReadOf(c, n))
         IN  /\ data \in Words
             /\ Consecutive(data, FirstData(c) + DataIn(c, Taken(c)))
             /\ DataIn(c, Taken(c)) \in Nat
             /\ Len(data) = DataIn(c, Got(c) + n) - DataIn(c, Taken(c))
             /\ Fed(c, ReadOf(c, n)) = IF c \in Sessions THEN Got(c) + n ELSE 0
<1> DEFINE u == ReadOf(c, n)
           b == Taken(c)
           g == Got(c) + n
<1>1. /\ u \in Words /\ Consecutive(u, b + 1) /\ b \in Nat /\ b + Len(u) = g /\ g \in Nat
      /\ Handshake \in Nat /\ Len(u) \in Nat
  BY ReadUnits DEF SocketAssumption, Words
<1>2. Transport(c) = "plain" <=> c \notin Sessions
  BY TransportOf
<1>3. c \in Sessions => peer[c].fed = b
  <2>1. peer[c].transport \in {"undecided", "plain", "secure", "websocket"}
    BY DEF LoopTypeOK, PeerType
  <2> QED
    BY <2>1 DEF Unread, Taken, Listened, Known
<1> HIDE DEF u, b, g
<1>4. CASE c \in Sessions
  <2>1. /\ Data(c, u) = SubSeq(u, Missing(c) + 1, Len(u)) /\ Fed(c, u) = b + Len(u)
        /\ Missing(c) = IF b < Handshake THEN Handshake - b ELSE 0
    BY <1>2, <1>3, <1>4 DEF Data, Fed, Missing
  <2>2. /\ DataIn(c, b) = IF b > Handshake THEN b - Handshake ELSE 0
        /\ DataIn(c, g) = IF b + Len(u) > Handshake THEN b + Len(u) - Handshake ELSE 0
        /\ FirstData(c) = Handshake + 1
    BY <1>1, <1>4 DEF DataIn, FirstData
  <2>3. DataIn(c, b) \in Nat
    BY <1>1, <2>2
  <2>4. /\ Data(c, u) \in Words /\ Consecutive(Data(c, u), FirstData(c) + DataIn(c, b))
        /\ Len(Data(c, u)) = DataIn(c, g) - DataIn(c, b)
    <3> DEFINE m == IF b < Handshake THEN Handshake - b ELSE 0
               over(k) == IF k > Handshake THEN k - Handshake ELSE 0
               d == SubSeq(u, m + 1, Len(u))
    <3>1. /\ d \in Words /\ Consecutive(d, Handshake + 1 + over(b))
          /\ Len(d) = over(b + Len(u)) - over(b)
      BY <1>1, BehindHandshake
    <3>2. Data(c, u) = d
      BY <2>1
    <3>3. DataIn(c, b) = over(b)
      BY <2>2
    <3>4. DataIn(c, g) = over(b + Len(u))
      BY <1>1, <2>2
    <3> HIDE DEF m, over, d
    <3> QED
      BY <2>2, <3>1, <3>2, <3>3, <3>4
  <2> QED
    BY <1>1, <1>4, <2>1, <2>3, <2>4 DEF u, b, g
<1>5. CASE c \notin Sessions
  <2>1. Data(c, u) = u /\ Fed(c, u) = 0
    BY <1>2, <1>5 DEF Data, Fed
  <2>2. DataIn(c, b) = b /\ DataIn(c, g) = b + Len(u) /\ FirstData(c) = 1
    BY <1>1, <1>5 DEF DataIn, FirstData
  <2>3. FirstData(c) + b = b + 1 /\ Len(u) = b + Len(u) - b
    BY <1>1, <2>2
  <2> QED
    BY <1>1, <1>5, <2>1, <2>2, <2>3 DEF u, b, g
<1> QED
  BY <1>4, <1>5

\* What the core is told of by a read: the data, if the connection was open, or the
\* end of the connection.
Told(c, n) ==
  LET data == Data(c, ReadOf(c, n))
  IN  /\ conn' = conn \/ conn' = Gone(c)
      /\ Refused(c) => conn' = Gone(c) /\ heard' = heard
      /\ \/ /\ UNCHANGED <<out, said, heard>>
            /\ conn' = Gone(c) \/ data = <<>> \/ conn[c] # "open"
         \/ data # <<>> /\ conn[c] = "open" /\ Hears(c, data)

\* What it knows then.
Heard(c, got) ==
  /\ conn'[c] = conn[c] \/ conn'[c] = "closed"
  /\ Consecutive(heard'[c], FirstData(c))
  /\ conn'[c] = "open" => Len(heard'[c]) = DataIn(c, got)
  /\ heard[c] # <<>> => heard'[c] # <<>>
  /\ \/ UNCHANGED <<out, said>>
     \/ OneWord(c) /\ SumOf(said) < MaxSaid /\ heard'[c] # <<>>
  /\ heard'[c] # <<>> =>
       \/ heard[c] # <<>>
       \/ IF c \in Sessions THEN got > Handshake ELSE conn[c] = "open"

LEMMA ReadHeard ==
  ASSUME SocketAssumption, LoopTypeOK, NEW c \in Clients, Listened(c), Known(c), Unread(c),
         NEW n \in 0..Len(wire[c]), Told(c, n)
  PROVE  Heard(c, Got(c) + n)
<1> DEFINE data == Data(c, ReadOf(c, n))
           k == DataIn(c, Taken(c))
           h == heard[c]
           e == DataIn(c, Got(c) + n)
<1>1. data \in Words /\ Consecutive(data, FirstData(c) + k) /\ k \in Nat /\ Len(data) = e - k
  BY ReadData
<1>2. /\ h \in Words /\ Handshake \in Nat /\ Got(c) + n \in Nat
      /\ Consecutive(h, FirstData(c)) /\ FirstData(c) \in Nat
  <2>1. h \in Words /\ Handshake \in Nat
    BY DEF SocketAssumption, LoopTypeOK
  <2>2. FirstData(c) \in Nat
    BY <2>1 DEF FirstData
  <2> QED
    BY <2>1, <2>2, ReadUnits DEF Listened
<1>3. conn[c] = "open" => Len(h) = k
  BY DEF Unread
<1>4. e \in Nat /\ (e > 0 /\ c \in Sessions => Got(c) + n > Handshake)
  BY <1>2 DEF DataIn
<1>5. conn'[c] = conn[c] \/ conn'[c] = "closed"
  BY DEF Told, Gone, LoopTypeOK
<1>6. \/ UNCHANGED <<out, said, heard>> /\ (conn' = Gone(c) \/ data = <<>> \/ conn[c] # "open")
      \/ data # <<>> /\ conn[c] = "open" /\ Hears(c, data)
  BY DEF Told
<1> HIDE DEF data, k, h, e
<1>7. Len(data) \in Nat /\ Len(h) \in Nat /\ (data # <<>> <=> Len(data) > 0)
  BY <1>1, <1>2, EmptySeq DEF Words
<1>8. CASE UNCHANGED <<out, said, heard>> /\ (conn' = Gone(c) \/ data = <<>> \/ conn[c] # "open")
  <2>1. conn' = Gone(c) => conn'[c] = "closed"
    BY DEF Gone, LoopTypeOK
  <2>2. conn'[c] = "open" => Len(h) = e
    BY <1>1, <1>3, <1>4, <1>5, <1>7, <1>8, <2>1
  <2> QED
    BY <1>2, <1>5, <1>8, <2>2 DEF Heard, h, e
<1>9. CASE data # <<>> /\ conn[c] = "open" /\ Hears(c, data)
  <2>1. /\ UNCHANGED <<out, said>> \/ (OneWord(c) /\ SumOf(said) < MaxSaid)
        /\ heard' = [heard EXCEPT ![c] = h \o data]
    BY <1>1, <1>9, HearsActs DEF h
  <2>2. heard'[c] = h \o data
    BY <2>1 DEF LoopTypeOK
  <2>3. h \o data \in Words /\ Len(h \o data) = Len(h) + Len(data)
    BY <1>1, <1>2, ConcatProperties DEF Words
  <2>4. Consecutive(h \o data, FirstData(c))
    <3>1. FirstData(c) + k = FirstData(c) + Len(h)
      BY <1>3, <1>9
    <3> QED
      BY <1>1, <1>2, <3>1, ConsecutiveJoin
  <2>5. Len(h \o data) = e /\ e > 0
    BY <1>1, <1>3, <1>4, <1>7, <1>9, <2>3
  <2>6. h \o data # <<>>
    <3>1. Len(<<>>) = 0
      OBVIOUS
    <3> QED
      BY <2>5, <3>1
  <2> QED
    BY <1>4, <1>5, <1>9, <2>1, <2>2, <2>4, <2>5, <2>6 DEF Heard, e
<1> QED
  BY <1>6, <1>8, <1>9

\* What is said is said behind the rest.
LEMMA ReadSpeaks ==
  ASSUME SocketAssumption, LoopTypeOK, NEW c \in Clients, conn[c] # "none", told' = told, ReadFacts(c),
         heard[c] # <<>> => heard'[c] # <<>>,
         \/ UNCHANGED <<out, said>>
         \/ OneWord(c) /\ SumOf(said) < MaxSaid /\ heard'[c] # <<>>
  PROVE  Speaks(c)
<1>1. /\ Begun(peer[c]) => Begun(peer'[c])
      /\ \/ peer'[c].pending = peer[c].pending
         \/ /\ peer'[c].pending = Append(peer[c].pending, Reply)
            /\ Begun(peer'[c]) /\ ~Begun(peer[c]) /\ c \in Sessions
  BY DEF ReadFacts, Rereads, Begun, Sessions
<1>2. conn'[c] = conn[c] \/ conn'[c] = "closed"
  BY DEF ReadFacts, Noted, CoreActs, Gone, LoopTypeOK
<1>3. CASE UNCHANGED <<out, said>>
  BY <1>1, <1>2, <1>3 DEF Speaks
<1>4. CASE OneWord(c) /\ SumOf(said) < MaxSaid /\ heard'[c] # <<>>
  <2>1. conn[c] = "open" /\ said'[c] = said[c] + 1 /\ out'[c] = Append(out[c], said[c] + 1)
    BY <1>4 DEF OneWord, LoopTypeOK
  <2>2. said[c] + 1 <= MaxSaid
    BY <1>4, SaidBounds
  <2> QED
    BY <1>1, <1>2, <1>4, <2>1, <2>2 DEF Speaks
<1> QED
  BY <1>3, <1>4

\* A read of data and pings: the first bytes are kept, or the transport takes what was
\* read.
LEMMA SomeTalk ==
  ASSUME SocketAssumption, LoopTypeOK, NEW c \in Clients, c \in peers, Listened(c), Known(c), Piled(c),
         require' = require, c \in peers', NEW n, NEW k, ReadSome(c, n, k)
  PROVE  /\ Listened(c)' /\ (heard[c] # <<>> => heard'[c] # <<>>)
         /\ \/ UNCHANGED <<out, said>>
            \/ OneWord(c) /\ SumOf(said) < MaxSaid /\ heard'[c] # <<>>
<1> DEFINE u == ReadOf(c, n)
           data == Data(c, u)
           rest == SubSeq(wire[c], n + 1, Len(wire[c]))
           g == Got(c) + n
           q == PeerAfter(c, u, k)
<1>1. /\ n \in 0..Len(wire[c]) /\ k \in 0..pings[c] /\ n + k # 0
      /\ wire' = [wire EXCEPT ![c] = rest] /\ UNCHANGED <<client, sent>>
  BY DEF ReadSome
<1>2. \/ peer' = [peer EXCEPT ![c].first = u] /\ UNCHANGED core /\ ~Decided(c, SubSeq(wire[c], 1, n))
      \/ peer' = [peer EXCEPT ![c] = q] /\ Told(c, n)
  <2>1. CASE ~Decided(c, SubSeq(wire[c], 1, n))
    BY <2>1 DEF ReadSome
  <2>2. CASE Decided(c, SubSeq(wire[c], 1, n))
    <3>1. /\ peer' = [peer EXCEPT ![c] = q]
          /\ IF Refused(c) THEN conn' = Gone(c) /\ UNCHANGED <<out, said, heard>>
             ELSE IF data # <<>> /\ conn[c] = "open"
             THEN Hears(c, data) /\ (conn' = conn \/ (conn' = Gone(c) /\ said' # said))
             ELSE UNCHANGED core
      BY <2>2 DEF ReadSome
    <3> HIDE DEF q
    <3> QED
      BY <3>1 DEF Told, core
  <2> QED
    BY <2>1, <2>2
<1>3. /\ pings[c] \in Nat /\ wire[c] \in Words /\ Len(wire[c]) \in Nat /\ sent[c] \in Nat
      /\ conn[c] # "none" /\ peer[c] \in PeerType /\ Handshake \in Nat
  BY DEF LoopTypeOK, Words, Known, SocketAssumption
<1>4. client[c] # "reset" /\ Unread(c)
  <2>1. ASSUME client[c] = "reset" PROVE FALSE
    <3>1. wire[c] = <<>> /\ pings[c] = 0
      BY <2>1 DEF Listened, Piled
    <3>2. Len(<<>>) = 0
      OBVIOUS
    <3> QED
      BY <1>1, <3>1, <3>2
  <2> QED
    BY <2>1 DEF Listened
<1>5. /\ u \in Words /\ Consecutive(u, Taken(c) + 1) /\ g \in Nat /\ Taken(c) + Len(u) = g /\ g <= sent[c]
      /\ Len(rest) <= sent[c] /\ Consecutive(rest, g + 1) /\ sent[c] - Len(rest) = g /\ Len(u) \in Nat
  <2>1. ReadOf(c, n) \in Words
    BY <1>1, <1>4, ReadUnits
  <2>2. Len(ReadOf(c, n)) \in Nat
    BY <2>1 DEF Words
  <2> QED
    BY <1>1, <1>4, <2>2, ReadUnits
<1>6. Fed(c, u) = IF c \in Sessions THEN g ELSE 0
  BY <1>1, <1>4, ReadData
<1> HIDE DEF u, rest, g
<1>7. sent'[c] = sent[c] /\ wire'[c] = rest /\ client'[c] = client[c]
  BY <1>1 DEF LoopTypeOK
<1>8. Got(c)' = g /\ Len(wire'[c]) <= sent'[c] /\ Consecutive(wire[c], Got(c) + 1)'
  BY <1>5, <1>7 DEF Got, Consecutive
<1>9. sent'[c] <= MaxSent /\ (client'[c] = "reset" => FALSE)
  BY <1>4, <1>7 DEF Listened
<1>10. CASE peer' = [peer EXCEPT ![c].first = u] /\ UNCHANGED core /\ ~Decided(c, SubSeq(wire[c], 1, n))
  <2>1. conn' = conn /\ out' = out /\ said' = said /\ heard' = heard
    BY <1>10 DEF core
  <2>2. peer[c].transport = "undecided" /\ Gathered(c, SubSeq(wire[c], 1, n)) = u
    BY <1>10 DEF Decided, ReadOf, u
  <2>3. ~ Len(u) >= 2
    BY <1>10, <2>2 DEF Decided
  <2>4. Len(u) <= 1
    BY <1>5, <2>3
  <2>5. peer'[c] = [peer[c] EXCEPT !.first = u]
    BY <1>10 DEF LoopTypeOK
  <2>6. peer[c].fed = 0
    BY <2>2 DEF Listened
  <2>7. peer'[c].transport = "undecided" /\ peer'[c].first = u /\ peer'[c].fed = 0
    BY <1>3, <2>2, <2>5, <2>6 DEF PeerType
  <2>8. Taken(c) = 0 /\ Taken(c)' = 0 /\ ~Begun(peer[c])' /\ ~Begun(peer[c])
    BY <2>2, <2>7 DEF Taken, Begun
  <2>9. Len(peer'[c].first) = g /\ Consecutive(peer'[c].first, 1)
    <3>1. 0 + Len(u) = g /\ Consecutive(u, 0 + 1) /\ 0 + 1 = 1
      BY <1>5, <2>8
    <3> QED
      BY <1>5, <2>7, <3>1
  <2>10. DataIn(c, Taken(c))' = DataIn(c, Taken(c))
    BY <2>8 DEF DataIn
  <2>11. Unread(c)'
    BY <1>4, <1>8, <2>1, <2>7, <2>9, <2>10 DEF Unread, Consecutive
  <2>12. Listened(c)'
    BY <1>3, <1>7, <1>9, <2>1, <2>4, <2>7, <2>8, <2>11 DEF Listened, Consecutive, FirstData
  <2> QED
    BY <2>1, <2>12
<1>11. CASE peer' = [peer EXCEPT ![c] = q] /\ Told(c, n)
  <2>1. Follows(c, q, u, k)
    <3>1. k \in Nat
      BY <1>1, <1>3
    <3> QED
      BY <1>5, <3>1, After
  <2> HIDE DEF q
  <2>2. peer'[c] = q
    BY <1>11 DEF LoopTypeOK
  <2>3. /\ q.first = <<>> /\ q.transport = Transport(c) /\ q.fed = (IF c \in Sessions THEN g ELSE 0)
        /\ Begun(peer[c]) => Begun(q)
    BY <1>6, <2>1 DEF Follows
  <2>4. /\ Transport(c) \in {"plain", "secure", "websocket"}
        /\ Transport(c) = "plain" <=> c \notin Sessions
    BY TransportOf
  <2>5. Heard(c, g)
    BY <1>1, <1>4, <1>11, ReadHeard DEF g
  <2>6. Taken(c)' = g
    BY <1>8, <2>2, <2>3, <2>4 DEF Taken
  <2>7. DataIn(c, Taken(c))' = DataIn(c, g)
    BY <2>6 DEF DataIn
  <2>8. Unread(c)'
    BY <1>8, <2>2, <2>3, <2>4, <2>5, <2>7 DEF Unread, Heard
  <2>9. q.fed <= sent[c]
    BY <1>3, <1>5, <2>3
  <2>10. Refused(c) => conn'[c] = "closed"
    BY <1>11 DEF Told, Gone, LoopTypeOK
  <2>11. Transport(c) = "plain" /\ require => conn'[c] # "open"
    <3>1. CASE peer[c].transport = "undecided"
      BY <2>10, <3>1 DEF Refused
    <3>2. CASE peer[c].transport # "undecided"
      BY <2>5, <3>2 DEF Transport, Listened, Heard
    <3> QED
      BY <3>1, <3>2
  <2>12. heard'[c] # <<>> => IF c \in Sessions THEN Begun(q) ELSE ~require
    <3>1. CASE c \in Sessions
      <4>1. heard[c] # <<>> => Begun(q)
        BY <2>3, <3>1 DEF Listened
      <4>2. g > Handshake => Begun(q)
        BY <1>3, <1>5, <2>3, <2>4, <3>1 DEF Begun
      <4> QED
        BY <2>5, <3>1, <4>1, <4>2 DEF Heard
    <3>2. CASE c \notin Sessions
      <4>1. heard[c] # <<>> => ~require
        BY <3>2 DEF Listened
      <4>2. ASSUME require, conn[c] = "open" PROVE heard' = heard
        <5>1. Transport(c) = "plain"
          BY <2>4, <3>2
        <5>2. peer[c].transport = "undecided"
          BY <4>2, <5>1 DEF Transport, Listened
        <5>3. Refused(c)
          BY <4>2, <5>1, <5>2 DEF Refused
        <5> QED
          BY <5>3, <1>11 DEF Told
      <4> QED
        BY <2>5, <3>2, <4>1, <4>2 DEF Heard
    <3> QED
      BY <3>1, <3>2
  <2>13. Listened(c)'
    <3>1. peer'[c].first = <<>> /\ Len(peer'[c].first) <= 1 /\ conn'[c] # "none" /\ require' = require
      BY <1>3, <2>2, <2>3, <2>5 DEF Heard
    <3>2. peer'[c].fed <= sent'[c] /\ (Transport(c) = "plain" => peer'[c].fed = 0)
      BY <1>7, <2>2, <2>3, <2>4, <2>9
    <3>3. Consecutive(heard[c], FirstData(c))'
      BY <2>5 DEF Heard, Consecutive, FirstData
    <3>4. (heard[c] # <<>> => IF c \in Sessions THEN Begun(peer[c]) ELSE ~require)'
      BY <2>2, <2>12 DEF Begun
    <3> QED
      BY <1>9, <2>2, <2>3, <2>4, <2>8, <2>11, <3>1, <3>2, <3>3, <3>4 DEF Listened
  <2> QED
    BY <2>5, <2>13 DEF Heard
<1> QED
  BY <1>2, <1>10, <1>11

\* A read that ends with what the transport does not accept: all that came is read, and
\* the connection is closed.
LEMMA SpoiltTalk ==
  ASSUME SocketAssumption, LoopTypeOK, NEW c \in Clients, c \in peers, Listened(c), Known(c), Piled(c),
         require' = require, c \in peers', NEW n, ReadSpoilt(c, n)
  PROVE  /\ Listened(c)' /\ (heard[c] # <<>> => heard'[c] # <<>>)
         /\ \/ UNCHANGED <<out, said>>
            \/ OneWord(c) /\ SumOf(said) < MaxSaid /\ heard'[c] # <<>>
<1> DEFINE u == ReadOf(c, n)
           v == ReadOf(c, Len(wire[c]))
           p == PeerAfter(c, u, pings[c])
           own == IF c \in Browsers THEN p.own + 1 ELSE p.own
           q == [p EXCEPT !.failed = TRUE, !.fed = Fed(c, v), !.own = own]
           g == Got(c) + n
<1>1. /\ spoilt[c] = "coming" /\ n \in 0..Len(wire[c])
      /\ wire' = [wire EXCEPT ![c] = <<>>] /\ conn' = Gone(c) /\ UNCHANGED <<client, sent>>
      /\ peer' = [peer EXCEPT ![c] = q]
  BY DEF ReadSpoilt
<1>2. c \in Sessions /\ client[c] # "reset" /\ Unread(c)
  BY <1>1 DEF Piled, Listened
<1>3. /\ pings[c] \in Nat /\ wire[c] \in Words /\ Len(wire[c]) \in Nat /\ sent[c] \in Nat
      /\ conn[c] # "none" /\ Handshake \in Nat /\ Len(<<>>) = 0
  BY DEF LoopTypeOK, Words, Known, SocketAssumption
<1>4. Transport(c) \in {"secure", "websocket"}
  BY <1>2, TransportOf
<1>5. Told(c, n)
  <2>1. ~Refused(c)
    BY <1>4 DEF Refused
  <2>2. IF Data(c, u) # <<>> /\ conn[c] = "open" THEN Hears(c, Data(c, u)) ELSE UNCHANGED <<out, said, heard>>
    BY DEF ReadSpoilt
  <2> QED
    BY <1>1, <2>1, <2>2 DEF Told
<1>6. Heard(c, g)
  BY <1>1, <1>2, <1>5, ReadHeard
<1>7. u \in Words /\ g \in Nat /\ g <= sent[c]
  BY <1>1, <1>2, ReadUnits
<1>8. Fed(c, v) = sent[c]
  <2>1. Len(wire[c]) \in 0..Len(wire[c])
    BY <1>3
  <2>2. Fed(c, v) = Got(c) + Len(wire[c])
    BY <1>2, <2>1, ReadData
  <2> HIDE DEF v
  <2> QED
    BY <1>3, <2>2 DEF Got
<1>9. q.first = <<>> /\ q.transport = Transport(c) /\ q.fed = sent[c]
  <2>1. Follows(c, p, u, pings[c])
    BY <1>3, <1>7, After
  <2> HIDE DEF p, u, v
  <2>2. p \in PeerType /\ p.first = <<>> /\ p.transport = Transport(c)
    BY <2>1 DEF Follows
  <2> HIDE DEF own
  <2> QED
    BY <1>8, <2>2 DEF PeerType
<1> HIDE DEF q, g, u, v, p
<1>10. peer'[c] = q /\ wire'[c] = <<>> /\ sent'[c] = sent[c] /\ client'[c] = client[c] /\ conn'[c] = "closed"
  BY <1>1 DEF LoopTypeOK, Gone
<1>11. heard'[c] # <<>> => Begun(q)
  <2>1. ReadFacts(c)
    BY SpoiltFacts
  <2>2. Begun(peer[c]) => Begun(q)
    BY <1>10, <2>1 DEF ReadFacts, Rereads
  <2>3. heard[c] # <<>> => Begun(q)
    BY <1>2, <2>2 DEF Listened
  <2>4. g > Handshake => Begun(q)
    BY <1>3, <1>4, <1>7, <1>9 DEF Begun
  <2> QED
    BY <1>2, <1>6, <2>3, <2>4 DEF Heard
<1>12. Unread(c)'
  <2>1. Got(c)' = sent[c]
    BY <1>3, <1>10 DEF Got
  <2>2. Consecutive(wire[c], Got(c) + 1)'
    BY <1>3, <1>10 DEF Consecutive
  <2> QED
    BY <1>3, <1>4, <1>9, <1>10, <2>1, <2>2 DEF Unread
<1>13. Listened(c)'
  <2>1. Len(peer'[c].first) <= 1 /\ peer'[c].fed <= sent'[c] /\ sent'[c] <= MaxSent
    BY <1>3, <1>9, <1>10 DEF Listened
  <2>2. Consecutive(heard[c], FirstData(c))'
    BY <1>6 DEF Heard, Consecutive, FirstData
  <2>3. (heard[c] # <<>> => IF c \in Sessions THEN Begun(peer[c]) ELSE ~require)'
    BY <1>2, <1>10, <1>11 DEF Begun
  <2> QED
    BY <1>2, <1>4, <1>9, <1>10, <1>12, <2>1, <2>2, <2>3 DEF Listened
<1> QED
  BY <1>6, <1>13 DEF Heard

\* A read leaves both directions of its client in order.
LEMMA ReadTalk ==
  ASSUME SocketAssumption, LoopInv, TalkInv, NEW c \in Clients, Read(c)
  PROVE  TalkInv'
<1>1. LoopTypeOK /\ Listened(c) /\ Spoken(c) /\ Known(c) /\ Piled(c) /\ c \in peers
  BY DEF LoopInv, LoopTypeOK, Fine, TalkInv, Read
<1>2. told' = told /\ peers' = peers /\ require' = require
  BY DEF Read
<1>3. ReadNone(c) \/ (\E n : ReadSpoilt(c, n)) \/ (\E n, k : ReadSome(c, n, k))
  BY DEF Read
<1>4. ReadFacts(c)
  BY <1>1, <1>3, NoneFacts, SpoiltFacts, SomeFacts
<1>5. /\ client' = client /\ sent' = sent /\ window' = window /\ pinged' = pinged
      /\ \A d \in Clients \ {c} : peer'[d] = peer[d] /\ wire'[d] = wire[d] /\ heard'[d] = heard[d]
                                  /\ pings'[d] = pings[d]
      /\ pings' \in [Clients -> Nat] /\ pings'[c] <= pings[c]
  BY <1>4 DEF ReadFacts, Rereads, Takes
<1>6. conn[c] # "none" /\ \A d \in Clients \ {c} : conn'[d] = conn[d] /\ out'[d] = out[d] /\ said'[d] = said[d]
  <2>1. Acted(c)
    BY <1>1, <1>4, CoreActsType DEF ReadFacts, Noted
  <2> QED
    BY <1>1, <2>1 DEF Acted, Known
<1>7. /\ Listened(c)' /\ (heard[c] # <<>> => heard'[c] # <<>>)
      /\ \/ UNCHANGED <<out, said>>
         \/ OneWord(c) /\ SumOf(said) < MaxSaid /\ heard'[c] # <<>>
  <2>1. CASE ReadNone(c)
    <3>1. wire' = wire /\ peer' = peer /\ out' = out /\ said' = said /\ heard' = heard
      BY <2>1 DEF ReadNone, network
    <3>2. conn'[c] = conn[c] \/ conn'[c] = "closed"
      BY <1>1, <2>1 DEF ReadNone, Gone, LoopTypeOK
    <3>3. Listened(c)'
      BY <1>1, <1>2, <1>5, <3>1, <3>2, StaysListened
    <3> QED
      BY <3>1, <3>3
  <2>2. CASE \E n : ReadSpoilt(c, n)
    BY <1>1, <1>2, <2>2, SpoiltTalk
  <2>3. CASE \E n, k : ReadSome(c, n, k)
    BY <1>1, <1>2, <2>3, SomeTalk
  <2> QED
    BY <1>3, <2>1, <2>2, <2>3
<1>8. Spoken(c)'
  <2>1. Speaks(c)
    BY <1>1, <1>2, <1>4, <1>6, <1>7, ReadSpeaks
  <2> QED
    BY <1>1, <2>1, StillSpoken
<1>9. \A d \in Clients : window'[d] <= SendBuffer /\ pings'[d] <= pinged'[d] /\ pinged'[d] <= MaxPings
  <2>1. /\ pings[c] \in Nat /\ pings'[c] \in Nat /\ pinged[c] \in Nat
        /\ \A d \in Clients : window[d] <= SendBuffer /\ pings[d] <= pinged[d] /\ pinged[d] <= MaxPings
    BY <1>1, <1>5 DEF LoopTypeOK, TalkInv
  <2>2. pings'[c] <= pinged[c]
    BY <1>5, <2>1
  <2> QED
    BY <1>5, <2>1, <2>2
<1>10. Cardinality(peers') <= MaxConnections
  BY <1>2 DEF TalkInv
<1>11. \A d \in Clients \ {c} : SameTalk(d)
  BY <1>2, <1>5, <1>6 DEF SameTalk
<1> QED
  BY <1>2, <1>7, <1>8, <1>9, <1>10, <1>11, OneTalk

\* The core's own time: a word to somebody it has heard from, or a last one.
LEMMA AdvanceTalk ==
  ASSUME SocketAssumption, LoopInv, TalkInv, Advance
  PROVE  TalkInv'
<1>1. LoopTypeOK /\ \A d \in Clients : Listened(d) /\ Spoken(d)
  BY DEF LoopInv, TalkInv
<1>2. UNCHANGED <<client, sent, wire, pinged, pings, window, told, peers, peer, require>>
  BY DEF Advance, network
<1>3. /\ \A d \in Clients : window'[d] <= SendBuffer /\ pings'[d] <= pinged'[d] /\ pinged'[d] <= MaxPings
      /\ Cardinality(peers') <= MaxConnections
  BY <1>2 DEF TalkInv
<1>4. CASE UNCHANGED core
  <2>1. \A d \in Clients : SameTalk(d)
    BY <1>2, <1>4 DEF SameTalk, core
  <2>2. \A d \in Clients : Listened(d)' /\ Spoken(d)'
    BY <1>1, <1>2, <2>1, StaysTold
  <2> QED
    BY <1>3, <2>2 DEF TalkInv
<1>5. ASSUME NEW c \in Clients, Tells(c) PROVE TalkInv'
  <2>1. /\ conn[c] = "open" /\ SumOf(said) < MaxSaid /\ heard' = heard
        /\ said' = [said EXCEPT ![c] = said[c] + 1]
        /\ out' = [out EXCEPT ![c] = Append(out[c], said'[c])]
        /\ \/ heard[c] # <<>> /\ conn' = conn
           \/ conn' = Gone(c)
    BY <1>5 DEF Tells, Says
  <2>2. said'[c] = said[c] + 1 /\ out'[c] = Append(out[c], said[c] + 1) /\ said[c] + 1 <= MaxSaid
    BY <1>1, <2>1, SaidBounds DEF LoopTypeOK
  <2>3. /\ conn'[c] = conn[c] \/ conn'[c] = "closed"
        /\ conn'[c] = "open" => heard[c] # <<>>
        /\ \A d \in Clients \ {c} : conn'[d] = conn[d] /\ out'[d] = out[d] /\ said'[d] = said[d]
    BY <1>1, <2>1 DEF LoopTypeOK, Gone
  <2>4. Speaks(c)
    <3>1. peer'[c].pending = peer[c].pending /\ (Begun(peer[c]) => Begun(peer'[c]))
      BY <1>2
    <3> QED
      BY <1>2, <2>1, <2>2, <2>3, <3>1 DEF Speaks
  <2>5. Spoken(c)' /\ Listened(c)'
    BY <1>1, <1>2, <2>1, <2>3, <2>4, StillSpoken, StaysListened
  <2>6. \A d \in Clients \ {c} : SameTalk(d)
    BY <1>2, <2>1, <2>3 DEF SameTalk
  <2> QED
    BY <1>2, <1>3, <2>5, <2>6, OneTalk
<1> QED
  BY <1>4, <1>5 DEF Advance

\* What the socket takes is told, and the rest waits: together they are what waited
\* and what was passed on.
LEMMA WriteTalk ==
  ASSUME SocketAssumption, LoopInv, TalkInv, NEW c \in Clients, Write(c)
  PROVE  TalkInv'
<1> DEFINE passed == PassedOn(c)
<1>1. /\ LoopTypeOK /\ Listened(c) /\ Spoken(c) /\ Known(c) /\ Silent(c) /\ c \in peers
  BY DEF LoopInv, LoopTypeOK, Fine, TalkInv, Write
<1>2. /\ sent' = sent /\ pinged' = pinged /\ said' = said /\ heard' = heard
      /\ require' = require /\ out' = [out EXCEPT ![c] = <<>>]
  BY DEF Write
<1>3. PICK n : Wrote(c, n)
  BY <1>1, Writes
<1>4. /\ peer[c] \in PeerType /\ peer[c].pending \in Seq(Nat) /\ out[c] \in Seq(Nat)
      /\ told[c] \in Seq(Nat) /\ window[c] \in Nat /\ said[c] \in Nat /\ SendBuffer \in Nat
      /\ window[c] <= SendBuffer /\ conn[c] # "none"
  BY <1>1 DEF LoopTypeOK, PeerType, Words, SocketAssumption, TalkInv, Known
<1>5. /\ passed \in Seq(Nat)
      /\ passed = out[c] \/ (passed = <<>> /\ conn[c] # "open")
  <2>1. passed \in Seq(Nat) /\ (passed = out[c] \/ passed = <<>>)
    BY <1>1, PassedOnWords DEF Words
  <2>2. ASSUME conn[c] = "open", passed # out[c] PROVE out[c] = <<>>
    <3>1. peer[c].transport \notin {"undecided", "plain"} /\ ~Ready(peer[c])
      BY <2>2 DEF PassedOn
    <3>2. ~Begun(peer[c])
      BY <1>1, <2>2, <3>1 DEF Ready, Known
    <3>3. c \in Sessions
      BY <1>1, <3>1 DEF Known, Sessions, LoopTypeOK, PeerType
    <3>4. Waits(c) + Len(out[c]) <= 0
      BY <1>1, <2>2, <3>2, <3>3 DEF Silent
    <3>5. Len(out[c]) = 0
      <4>1. Waits(c) \in Nat /\ Len(out[c]) \in Nat
        BY <1>4 DEF Waits
      <4> QED
        BY <3>4, <4>1
    <3> QED
      BY <1>4, <3>5, EmptySeq
  <2> HIDE DEF passed
  <2> QED
    BY <2>1, <2>2
<1> HIDE DEF passed
<1>6. /\ Sends(c, n) \in Seq(Nat) /\ Rest(c, n) \in Seq(Nat)
      /\ Sends(c, n) \o Rest(c, n) = peer[c].pending \o passed
  <2>1. n \in 0..Len(Queue(c)) /\ Queue(c) \in Words /\ Sends(c, n) \in Words /\ Rest(c, n) \in Words
    BY <1>3 DEF Wrote
  <2>2. Sends(c, n) \o Rest(c, n) = Queue(c)
    BY <2>1, CutJoin DEF Sends, Rest
  <2> QED
    BY <2>1, <2>2 DEF Words, Queue, passed
<1>7. /\ told'[c] = told[c] \o Sends(c, n) /\ peer'[c].pending = Rest(c, n)
      /\ peer'[c].transport = peer[c].transport /\ peer'[c].fed = peer[c].fed
      /\ peer'[c].first = peer[c].first
      /\ \A d \in Clients \ {c} : told'[d] = told[d] /\ peer'[d] = peer[d] /\ out'[d] = out[d]
      /\ out'[c] = <<>>
  BY <1>1, <1>2, <1>3 DEF Wrote, LoopTypeOK
<1>8. /\ conn'[c] = conn[c] \/ conn'[c] = "closed"
      /\ \A d \in Clients \ {c} : conn'[d] = conn[d]
      /\ peers' \subseteq peers /\ peers \ {c} \subseteq peers'
  <2>1. /\ peers' \subseteq peers /\ peers \ {c} \subseteq peers'
        /\ conn' = conn \/ conn' = [conn EXCEPT ![c] = "closed"]
    BY <1>3 DEF Wrote, Gone
  <2>2. conn \in [Clients -> {"none", "open", "closed"}]
    BY <1>1 DEF LoopTypeOK
  <2> QED
    BY <2>1, <2>2
<1>9. /\ \/ client'[c] = client[c] /\ wire'[c] = wire[c] /\ pings'[c] = pings[c]
         \/ client'[c] = "reset" /\ wire'[c] = <<>> /\ pings'[c] = 0
      /\ \A d \in Clients \ {c} : client'[d] = client[d] /\ wire'[d] = wire[d] /\ pings'[d] = pings[d]
  <2>1. CASE UNCHANGED <<client, wire, pings, spoilt>>
    BY <2>1
  <2>2. CASE Ended(c)
    BY <1>1, <2>2 DEF LoopTypeOK, Ended
  <2> QED
    BY <1>3, <2>1, <2>2 DEF Wrote
<1>10. Listened(c)'
  BY <1>1, <1>2, <1>7, <1>8, <1>9, StaysListened
<1>11. Lines(c)' = Lines(c) \o passed /\ Lines(c) \in Words
  <2>1. Lines(c)' = (told[c] \o Sends(c, n)) \o Rest(c, n)
    BY <1>7 DEF Lines
  <2>2. (told[c] \o Sends(c, n)) \o Rest(c, n) = told[c] \o (Sends(c, n) \o Rest(c, n))
    BY <1>4, <1>6, Regroup
  <2>3. told[c] \o (peer[c].pending \o passed) = (told[c] \o peer[c].pending) \o passed
    BY <1>4, <1>5, Regroup
  <2>4. told[c] \o peer[c].pending \in Seq(Nat)
    BY <1>4, ConcatProperties
  <2> QED
    BY <1>6, <2>1, <2>2, <2>3, <2>4 DEF Lines, Words
<1>12. Begun(peer[c])' <=> Begun(peer[c])
  BY <1>7 DEF Begun
<1>13. Spoken(c)'
  <2> DEFINE q == Lines(c)
  <2>1. /\ q \in Words /\ q \in Seq(Nat) /\ Len(q) \in Nat /\ passed \in Words /\ Len(passed) \in Nat
        /\ Lines(c)' = q \o passed /\ Len(q \o passed) = Len(q) + Len(passed)
    BY <1>5, <1>11, ConcatProperties DEF Words
  <2>2. PICK r \in 1..Len(q) + 1 : Placed(c, r)
    BY <1>1 DEF Spoken
  <2>3. /\ Arranged(q, r) /\ (r <= Len(q) => Begun(peer[c])) /\ (r \in 2..Len(q) => conn[c] = "closed")
        /\ Consecutive(out[c], Spoke(c, r) + 1)
        /\ conn[c] = "open" => Spoke(c, r) + Len(out[c]) = said[c]
        /\ Spoke(c, r) = IF r <= Len(q) THEN Len(q) - 1 ELSE Len(q)
    BY <2>2 DEF Placed, Spoke
  <2>4. Consecutive(passed, Spoke(c, r) + 1)
    <3>1. Consecutive(<<>>, Spoke(c, r) + 1)
      BY Len(<<>>) = 0 DEF Consecutive
    <3> QED
      BY <1>5, <2>3, <3>1
  <2> PICK x : x = IF r <= Len(q) THEN r ELSE Len(q \o passed) + 1
    OBVIOUS
  <2>5. Arranged(q \o passed, x)
    <3> HIDE DEF q
    <3> QED
      BY <2>1, <2>2, <2>3, <2>4, ArrangedJoin
  <2>6. /\ x \in 1..Len(q \o passed) + 1 /\ (x <= Len(q \o passed) <=> r <= Len(q))
        /\ x \in 2..Len(q \o passed) => r \in 2..Len(q)
        /\ Spoke(c, r) \in Nat
        /\ (IF x <= Len(q \o passed) THEN Len(q \o passed) - 1 ELSE Len(q \o passed)) = Spoke(c, r) + Len(passed)
    <3> DEFINE l == Len(q)
               m == Len(q \o passed)
               p == Len(passed)
               s == Spoke(c, r)
    <3>1. /\ l \in Nat /\ p \in Nat /\ m = l + p /\ r \in 1..l + 1 /\ x = IF r <= l THEN r ELSE m + 1
      BY <2>1, <2>2
    <3>2. s = IF r <= l THEN l - 1 ELSE l
      BY <2>3
    <3> HIDE DEF l, m, p, s
    <3>3. /\ x \in 1..m + 1 /\ (x <= m <=> r <= l) /\ (x \in 2..m => r \in 2..l) /\ s \in Nat
          /\ (IF x <= m THEN m - 1 ELSE m) = s + p
      BY ONLY <3>1, <3>2
    <3> QED
      BY <3>3 DEF l, m, p, s
  <2>7. Spoke(c, x)' = Spoke(c, r) + Len(passed)
    <3>1. Spoke(c, x)' = IF x <= Len(Lines(c)') THEN Len(Lines(c)') - 1 ELSE Len(Lines(c)')
      BY DEF Spoke
    <3> HIDE DEF q
    <3> QED
      BY <2>1, <2>6, <3>1
  <2>8. (Consecutive(out[c], Spoke(c, x) + 1))'
    BY <1>7, Len(<<>>) = 0 DEF Consecutive
  <2>9. conn'[c] = "open" => Spoke(c, x)' + Len(out'[c]) = said'[c]
    <3> SUFFICES ASSUME conn'[c] = "open" PROVE Spoke(c, x)' + Len(out'[c]) = said'[c]
      OBVIOUS
    <3>1. conn[c] = "open" /\ passed = out[c] /\ Spoke(c, r) + Len(passed) = said[c]
      BY <1>5, <1>8, <2>3
    <3>2. Len(out'[c]) = 0 /\ Spoke(c, x)' = said[c]
      BY <1>7, <2>7, <3>1
    <3> QED
      BY <1>2, <1>4, <3>2
  <2>10. /\ Arranged(Lines(c), x)' /\ (x <= Len(Lines(c)') => Begun(peer'[c]))
         /\ x \in 2..Len(Lines(c)') => conn'[c] = "closed"
         /\ x \in 1..Len(Lines(c)') + 1
    <3> HIDE DEF q
    <3>1. Arranged(Lines(c)', x)
      BY <2>1, <2>5
    <3>2. Arranged(Lines(c), x)'
      BY <3>1 DEF Arranged
    <3>3. Begun(peer[c]) => Begun(peer'[c])
      BY <1>12
    <3> QED
      BY <1>8, <2>1, <2>3, <2>6, <3>2, <3>3
  <2>11. Placed(c, x)'
    BY <2>8, <2>9, <2>10 DEF Placed
  <2>12. said'[c] <= MaxSaid /\ (conn'[c] = "open" /\ said'[c] # 0 => heard'[c] # <<>>)
    BY <1>1, <1>2, <1>8 DEF Spoken
  <2> QED
    BY <2>10, <2>11, <2>12 DEF Spoken
<1>14. \A d \in Clients : window'[d] <= SendBuffer /\ pings'[d] <= pinged'[d] /\ pinged'[d] <= MaxPings
  <2>1. /\ window' = [window EXCEPT ![c] = window[c] - Room(c)] /\ Room(c) \in Nat /\ Room(c) <= window[c]
    BY <1>3 DEF Wrote
  <2>2. window[c] - Room(c) <= SendBuffer
    BY <1>4, <2>1
  <2>3. \A d \in Clients : /\ window[d] <= SendBuffer /\ pings[d] <= pinged[d] /\ pinged[d] <= MaxPings
                           /\ pinged[d] \in Nat
    BY <1>1 DEF LoopTypeOK, TalkInv
  <2>4. pings'[c] <= pinged[c]
    BY <1>9, <2>3
  <2> QED
    BY <1>1, <1>2, <1>9, <2>1, <2>2, <2>3, <2>4 DEF LoopTypeOK
<1>15. Cardinality(peers') <= MaxConnections
  <2>1. IsFiniteSet(peers) /\ MaxConnections \in Nat
    BY <1>1, FS_Subset DEF LoopTypeOK, SocketAssumption
  <2>2. Cardinality(peers') <= Cardinality(peers) /\ Cardinality(peers') \in Nat /\ Cardinality(peers) \in Nat
    BY <1>8, <2>1, FS_Subset, FS_CardinalityType
  <2> QED
    BY <2>1, <2>2 DEF TalkInv
<1>16. \A d \in Clients \ {c} : SameTalk(d)
  BY <1>2, <1>7, <1>8, <1>9 DEF SameTalk
<1> QED
  BY <1>2, <1>10, <1>13, <1>14, <1>15, <1>16, OneTalk

\* The other steps of a pass only say who is looked at next.
LEMMA PassTalk ==
  ASSUME TalkInv, Accepted \/ Reaped \/ UNCHANGED vars
  PROVE  TalkInv'
<1>1. UNCHANGED <<network, told, peers, peer, core, require>>
  BY DEF Accepted, Reaped, vars
<1>2. \A d \in Clients : SameTalk(d) /\ Listened(d) /\ Spoken(d)
  BY <1>1 DEF SameTalk, network, core, TalkInv
<1>3. require' = require
  BY <1>1
<1>4. \A d \in Clients : Listened(d)' /\ Spoken(d)'
  BY <1>2, <1>3, StaysTold
<1> QED
  BY <1>1, <1>4 DEF TalkInv, network, core

-----------------------------------------------------------------------------
(***************************************************************************)
(* The theorems.                                                           *)
(***************************************************************************)
\* Every system call of every pass, and everything a client does, keeps the account
\* of what the core said (the loop's invariant).
THEOREM LoopCorrect == ASSUME SocketAssumption PROVE Spec => []LoopInv
<1>1. Init => LoopInv
  BY LoopInit
<1>2. ASSUME LoopInv, [Next]_vars
      PROVE  LoopInv'
  <2>1. CASE UNCHANGED vars
    <3>1. /\ phase' = phase /\ LoopTypeOK'
          /\ \A d \in Clients : SameFor(d) /\ Fine(d)
      BY <1>2, <2>1 DEF vars, network, core, LoopInv, LoopTypeOK, SameFor
    <3> QED
      BY <3>1, StaysFine DEF LoopInv
  <2>2. CASE Network
    BY <1>2, <2>2, NetworkStep
  <2>3. CASE PumpSockets
    BY <1>2, <2>3, AcceptStep, AcceptedStep, ReadStep, AdvanceStep, WriteStep, ReapedStep DEF PumpSockets
  <2> QED
    BY <1>2, <2>1, <2>2, <2>3 DEF Next
<1> QED
  BY <1>1, <1>2, PTL DEF Spec

\* Every system call keeps the types and both directions of every client, however
\* reads and writes are cut and streams are spoilt: the core hears a client's data from
\* the start and in order, and a plain client not at all where plain connections are
\* refused; a client is told what the core said, from the start and without a gap
\* (PumpSockets).
THEOREM SocketsInOrder == ASSUME SocketAssumption PROVE Spec => []SocketInv
<1>1. Init => TalkInv
  BY TalkInit
<1>2. ASSUME LoopInv, TalkInv, [Next]_vars
      PROVE  TalkInv'
  <2>1. CASE UNCHANGED vars
    BY <1>2, <2>1, PassTalk
  <2>2. CASE Network
    BY <1>2, <2>2, NetworkTalk
  <2>3. CASE PumpSockets
    BY <1>2, <2>3, AcceptTalk, ReadTalk, AdvanceTalk, WriteTalk, PassTalk DEF PumpSockets
  <2> QED
    BY <1>2, <2>1, <2>2, <2>3 DEF Next
<1>3. ASSUME LoopInv, TalkInv PROVE SocketInv
  <2>1. LoopTypeOK /\ \A c \in Clients : Known(c) /\ Listened(c) /\ Spoken(c)
    BY <1>3 DEF LoopInv, Fine, TalkInv
  <2>2. TypeOK
    <3>1. \A c \in Clients : /\ sent[c] <= MaxSent /\ window[c] <= SendBuffer /\ said[c] <= MaxSaid
                             /\ pings[c] <= pinged[c] /\ pinged[c] <= MaxPings
      BY <1>3, <2>1 DEF Listened, Spoken, TalkInv
    <3>2. /\ sent \in [Clients -> 0..MaxSent] /\ window \in [Clients -> 0..SendBuffer]
          /\ said \in [Clients -> 0..MaxSaid] /\ pinged \in [Clients -> 0..MaxPings]
      BY <2>1, <3>1 DEF LoopTypeOK, SocketAssumption
    <3>3. ASSUME NEW c \in Clients
          PROVE  /\ Len(peer[c].first) <= 1 /\ peer[c].fed \in 0..MaxSent
                 /\ peer[c].first # <<>> => peer[c].transport = "undecided"
                 /\ pings[c] \in 0..pinged[c]
      <4>1. peer[c].fed \in Nat /\ peer[c].fed <= sent[c] /\ sent[c] <= MaxSent /\ sent[c] \in Nat
        BY <2>1 DEF LoopTypeOK, PeerType, Listened
      <4>2. MaxSent \in Nat
        BY DEF SocketAssumption
      <4>3. pings[c] \in 0..pinged[c]
        BY <2>1, <3>1 DEF LoopTypeOK
      <4> QED
        BY <2>1, <4>1, <4>2, <4>3 DEF Listened
    <3> QED
      BY <1>3, <2>1, <3>2, <3>3 DEF LoopTypeOK, TypeOK, TalkInv
  <2>3. HeardInOrder
    BY <2>1 DEF HeardInOrder, Listened
  <2>4. ToldInOrder
    <3> SUFFICES ASSUME NEW c \in Clients
                 PROVE  \E r \in 1..Len(told[c]) + 1 :
                          /\ Arranged(told[c], r)
                          /\ r \in 2..Len(told[c]) => conn[c] = "closed"
      BY DEF ToldInOrder
    <3>1. told[c] \in Words /\ peer[c].pending \in Words
      BY <2>1 DEF LoopTypeOK, PeerType
    <3>2. PICK r \in 1..Len(Lines(c)) + 1 : Placed(c, r)
      BY <2>1 DEF Spoken
    <3>3. /\ Arranged(told[c], r) /\ (r > Len(told[c]) => Arranged(told[c], Len(told[c]) + 1))
          /\ r \in Nat
      <4>1. Arranged(told[c] \o peer[c].pending, r) /\ r \in Nat
        BY <3>2 DEF Placed, Lines
      <4> QED
        BY <3>1, <4>1, ArrangedCut
    <3>4. Len(told[c]) \in Nat /\ Len(Lines(c)) \in Nat /\ Len(told[c]) <= Len(Lines(c))
      <4> DEFINE q == told[c] \o peer[c].pending
      <4>1. q \in Seq(Nat) /\ Len(q) = Len(told[c]) + Len(peer[c].pending)
        BY <3>1, ConcatProperties DEF Words
      <4>2. Len(told[c]) \in Nat /\ Len(peer[c].pending) \in Nat
        BY <3>1 DEF Words
      <4>3. Lines(c) = q
        BY DEF Lines
      <4> HIDE DEF q
      <4> DEFINE l == Len(q)
                 t == Len(told[c])
                 p == Len(peer[c].pending)
      <4>4. l = t + p /\ t \in Nat /\ p \in Nat
        BY <4>1, <4>2
      <4> HIDE DEF l, t, p
      <4>5. l \in Nat /\ t <= l
        BY ONLY <4>4
      <4> QED
        BY <4>2, <4>3, <4>5 DEF l, t
    <3>5. CASE r <= Len(told[c])
      <4>1. r \in 1..Len(told[c]) + 1 /\ (r \in 2..Len(told[c]) => r \in 2..Len(Lines(c)))
        BY <3>2, <3>4, <3>5
      <4> QED
        BY <3>2, <3>3, <4>1 DEF Placed
    <3>6. CASE r > Len(told[c])
      <4>1. /\ Len(told[c]) + 1 \in 1..Len(told[c]) + 1
            /\ Len(told[c]) + 1 \notin 2..Len(told[c])
        BY <3>4
      <4> QED
        BY <3>3, <3>6, <4>1
    <3>7. r <= Len(told[c]) \/ r > Len(told[c])
      BY <3>3, <3>4
    <3> QED
      BY <3>5, <3>6, <3>7
  <2> QED
    BY <2>2, <2>3, <2>4 DEF SocketInv
<1> QED
  BY <1>1, <1>2, <1>3, LoopCorrect, PTL DEF Spec

\* Whoever lost its socket without a failed send was closed by the core first, and,
\* if it had a plain connection, was told all the core ever said to it (the reaping
\* in PumpSockets, for any limits, windows and number of clients).
THEOREM LastWordsCorrect == ASSUME SocketAssumption PROVE Spec => []LastWords
<1>1. ASSUME LoopInv PROVE LastWords
  <2>1. LoopTypeOK /\ \A c \in Clients : Known(c) /\ Counted(c)
    BY <1>1 DEF LoopInv, Fine
  <2> QED
    BY <2>1 DEF LastWords, Parted, Known, Counted, LoopTypeOK
<1> QED
  BY <1>1, LoopCorrect, PTL

\* What waits for a client exceeds the limit by two words of the core at most, in every
\* pass and whether it reads or not; only for a browser comes more on top of that: an
\* answer for each ping it sent, and one last frame.
THEOREM BacklogCorrect == ASSUME SocketAssumption PROVE Spec => []BacklogBounded
<1>1. ASSUME LoopInv PROVE BacklogBounded
  <2> SUFFICES ASSUME NEW c \in Clients
               PROVE  Len(peer[c].pending) + peer[c].own
                        <= MaxPending + 2 + (IF c \in Browsers THEN pinged[c] + 1 ELSE 0)
    BY DEF BacklogBounded
  <2>1. /\ Waits(c) <= MaxPending + 2 /\ MaxPending \in Nat
        /\ peer[c].own + pings[c] <= pinged[c] + (IF peer[c].failed /\ c \in Browsers THEN 1 ELSE 0)
        /\ c \notin Browsers => pinged[c] = 0
    BY <1>1 DEF LoopInv, Fine, Limited, Piled, SocketAssumption
  <2>2. peer[c].pending \in Seq(Nat) /\ peer[c].own \in Nat /\ pings[c] \in Nat /\ pinged[c] \in Nat
    BY <1>1 DEF LoopInv, LoopTypeOK, PeerType, Words
  <2>3. Waits(c) = Len(peer[c].pending) /\ Waits(c) \in Nat
    BY <2>2 DEF Waits
  <2>4. peer[c].own <= IF c \in Browsers THEN pinged[c] + 1 ELSE 0
    BY <2>1, <2>2
  <2> DEFINE b == IF c \in Browsers THEN pinged[c] + 1 ELSE 0
             o == peer[c].own
  <2>5. b \in Nat /\ o \in Nat /\ o <= b
    BY <2>2, <2>4
  <2> HIDE DEF b, o
  <2>6. Waits(c) + o <= MaxPending + 2 + b
    BY ONLY <2>1, <2>3, <2>5
  <2> QED
    BY <2>3, <2>6 DEF b, o
<1> QED
  BY <1>1, LoopCorrect, PTL
=============================================================================
