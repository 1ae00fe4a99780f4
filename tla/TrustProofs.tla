---------------------------- MODULE TrustProofs -----------------------------
(***************************************************************************)
(* Whom and what a computer trusts, for every value of the constants: both *)
(* sides of a handshake agree on whom they reached although frames of one  *)
(* session are read on another (Handshake), the group that founds a root   *)
(* holds every device's own contribution (GroupFounding), and the trust in *)
(* updates is readable, ordered and never rolls a role back although a     *)
(* kill may fall between any two writes (UpdateTrust).                     *)
(***************************************************************************)
EXTENDS Handshake, GroupFounding, UpdateTrust, TLAPS

-----------------------------------------------------------------------------
(* Handshake *)

\* Two sessions never export the same keying material.
LEMMA ExportersDiffer ==
  ASSUME NEW c, NEW d, ChannelBinding(c) = ChannelBinding(d)
  PROVE  c = d
BY DEF ChannelBinding

\* Nor do two clients draw the same challenge.
LEMMA ChallengesDiffer ==
  ASSUME NEW c, NEW d, ClientNonce(c) = ClientNonce(d)
  PROVE  c = d
BY DEF ClientNonce

\* Where the exporter stands in what is signed.
LEMMA ExporterIsSigned ==
  /\ \A contact, nonce, binding : HelloTranscript(contact, nonce, binding)[3] = binding
  /\ \A a, b, n, m, binding, seen : Transcript(a, b, n, m, binding, seen)[5] = binding
  /\ \A base, seen : ClientTranscript(base, seen)[1] = base
BY DEF HelloTranscript, Transcript, ClientTranscript

\* What a signature tells.
LEMMA SignatureTells ==
  \A d, domain, over : SignedBy(d, domain, over).by = d /\ SignedBy(d, domain, over).over = over
BY DEF SignedBy

\* What the sides that have not started or have failed look like.
LEMMA SidesTell ==
  \A side : /\ side = Waiting => side.at = "start"
            /\ side = Refused => side.at = "failed"
BY DEF Waiting, Refused

\* A valid hello is signed over the exporter of the session it is read on,
LEMMA HelloIsSigned ==
  ASSUME NEW c, NEW f, HelloValid(c, f)
  PROVE  f.proof.over[3] = ChannelBinding(c)
<1>1. PICK over : /\ over = HelloTranscript(f.contact, f.nonce, ChannelBinding(c))
                  /\ f.proof = SignedBy(f.contact.node, "hello", over)
  BY DEF HelloValid
<1>2. f.proof.over = over BY <1>1, SignatureTells
<1>3. over[3] = ChannelBinding(c) BY <1>1, ExporterIsSigned
<1> QED BY <1>2, <1>3

\* so is a valid answer, by the computer it names,
LEMMA AnswerIsSigned ==
  ASSUME NEW c, NEW f, ServerValid(c, f)
  PROVE  f.proof.over[5] = ChannelBinding(c) /\ f.proof.by = f.contact.node
<1>1. PICK over : /\ over = Transcript(dialer[c].contact, f.contact, f.nonce, f.challenge,
                                       ChannelBinding(c), f.seen)
                  /\ f.proof = SignedBy(f.contact.node, "server", over)
  BY DEF ServerValid
<1>2. f.proof.over = over /\ f.proof.by = f.contact.node BY <1>1, SignatureTells
<1>3. over[5] = ChannelBinding(c) BY <1>1, ExporterIsSigned
<1> QED BY <1>2, <1>3

\* and a valid proof is signed over the answer it is given to.
LEMMA ProofIsSigned ==
  ASSUME NEW c, NEW f, ClientValid(c, f)
  PROVE  f.proof.over[1] = listener[c].over
<1>1. PICK over : /\ over = ClientTranscript(listener[c].over, f.seen)
                  /\ f.proof = SignedBy(listener[c].peer.node, "client", over)
  BY DEF ClientValid
<1>2. f.proof.over = over BY <1>1, SignatureTells
<1>3. over[1] = listener[c].over BY <1>1, ExporterIsSigned
<1> QED BY <1>2, <1>3

\* A frame stays genuine when a side goes on without losing what the frame
\* tells of it.
LEMMA StaysGenuine ==
  ASSUME HandshakeInvariant, ends' = ends, NEW f \in frame,
         \A c \in Channel : dialer[c].at # "start" =>
            /\ dialer'[c].at # "start"
            /\ dialer'[c].at \in {"hello", "proved", "done"} =>
                 dialer[c].at \in {"hello", "proved", "done"} /\ dialer'[c].contact = dialer[c].contact,
         \A c \in Channel : listener[c].at = "done" => listener'[c].at = "done"
  PROVE  Genuine(f)'
<1>1. PICK c \in Channel : HelloOf(c, f) \/ AnswerOf(c, f) \/ ProofOf(c, f) \/ AckOf(c, f)
  BY DEF HandshakeInvariant, Genuine
<1>2. CASE HelloOf(c, f) BY <1>2 DEF HelloOf, Genuine
<1>3. CASE AnswerOf(c, f) BY <1>3 DEF AnswerOf, Genuine
<1>4. CASE ProofOf(c, f) BY <1>4 DEF ProofOf, Genuine
<1>5. CASE AckOf(c, f) BY <1>5, Zenon DEF AckOf, Genuine
<1> QED BY <1>1, <1>2, <1>3, <1>4, <1>5

\* Nothing is written and nobody has heard anything at the start.
LEMMA HandshakeInitOK == HandshakeInit => HandshakeInvariant
BY DEF HandshakeInit, HandshakeInvariant, DialerKnows, ListenerKnows, Waiting

\* The client's first frame.
LEMMA SendClientHelloOK ==
  ASSUME HandshakeInvariant, NEW c \in Channel, SendClientHello(c)
  PROVE  HandshakeInvariant'
<1> PICK me, contact, over, f :
      /\ me = ends[c].client /\ contact = ContactOf(me)
      /\ over = HelloTranscript(contact, ClientNonce(c), ChannelBinding(c))
      /\ f = ClientHello(contact, ClientNonce(c), SignedBy(me, "hello", over))
  BY Zenon
<1>1. /\ UNCHANGED <<ends, lists, issue, listener>> /\ dialer[c].at = "start"
      /\ DOMAIN dialer = Channel
  BY DEF SendClientHello, Waiting, HandshakeInvariant
<1>2. \/ dialer' = [dialer EXCEPT ![c] = Refused] /\ frame' = frame
      \/ /\ lists[me] \cap {me, ends[c].dialled} = {}
         /\ dialer' = [dialer EXCEPT ![c] = [at |-> "hello", contact |-> contact]]
         /\ frame' = frame \cup {f}
  BY Zenon DEF SendClientHello, Step
<1>3. /\ DOMAIN dialer' = Channel
      /\ \A d \in Channel : d # c => dialer'[d] = dialer[d]
      /\ \/ dialer'[c].at = "failed"
         \/ /\ dialer'[c].at = "hello" /\ dialer'[c].contact = contact
            /\ lists[me] \cap {me, ends[c].dialled} = {}
  BY <1>1, <1>2 DEF Refused
<1>4. \A g \in frame : Genuine(g)' BY <1>1, <1>3, StaysGenuine, Zenon
<1>5. contact.node = me BY Zenon DEF ContactOf
<1>6. dialer'[c].at = "hello" => HelloOf(c, f)'
  <2>1. over[3] = ChannelBinding(c) BY ExporterIsSigned
  <2>2. f.proof.over = over /\ f.type = "client hello" /\ f.nonce = ClientNonce(c) /\ f.contact = contact
    BY Zenon DEF ClientHello, SignedBy
  <2> QED BY <1>1, <1>3, <1>5, <2>1, <2>2, Zenon DEF HelloOf
<1>7. \A g \in frame' : Genuine(g)'
  BY <1>1, <1>2, <1>4, <1>6 DEF Genuine
<1>8. \A d \in Channel : DialerKnows(d)' /\ ListenerKnows(d)'
  <2> TAKE d \in Channel
  <2>1. DialerKnows(d) /\ ListenerKnows(d) BY Zenon DEF HandshakeInvariant
  <2>2. CASE d = c BY <1>1, <1>3, <1>5, <2>1, <2>2, ZenonT(60) DEF DialerKnows, ListenerKnows
  <2>3. CASE d # c BY <1>1, <1>3, <2>1, <2>3 DEF DialerKnows, ListenerKnows
  <2> QED BY <2>2, <2>3
<1> QED BY <1>1, <1>3, <1>7, <1>8 DEF HandshakeInvariant

\* The server answers only the hello of the client at the other end.
LEMMA HelloIsTheClients ==
  ASSUME HandshakeInvariant, NEW c \in Channel, NEW f \in frame,
         f.type = "client hello", HelloValid(c, f)
  PROVE  HelloOf(c, f)
<1>1. PICK d \in Channel : HelloOf(d, f)
  BY DEF HandshakeInvariant, Genuine, AnswerOf, ProofOf, AckOf
<1>2. f.proof.over[3] = ChannelBinding(c) BY HelloIsSigned
<1>3. d = c BY <1>1, <1>2, ExportersDiffer, Zenon DEF HelloOf
<1> QED BY <1>1, <1>3

\* The server answers.
LEMMA AnswerClientHelloOK ==
  ASSUME HandshakeInvariant, NEW c \in Channel, NEW f \in frame, AnswerClientHello(c, f)
  PROVE  HandshakeInvariant'
<1> PICK me, contact, seen, over, g, next :
      /\ me = ends[c].server /\ contact = ContactOf(me) /\ seen = SeenFrom(c, "client")
      /\ over = Transcript(f.contact, contact, f.nonce, ServerNonce(c), ChannelBinding(c), seen)
      /\ g = ServerHello(contact, f.nonce, ServerNonce(c), seen,
                         ClaimBy(me, f.contact.node, seen), SignedBy(me, "server", over))
      /\ next = [at |-> "answered", peer |-> f.contact, nonce |-> f.nonce, over |-> over]
  BY Zenon
<1>1. /\ UNCHANGED <<ends, lists, issue, dialer>> /\ listener[c].at = "start"
      /\ f.type = "client hello" /\ DOMAIN listener = Channel
  BY SidesTell, Zenon DEF AnswerClientHello, HandshakeInvariant
<1>2. \/ listener' = [listener EXCEPT ![c] = Refused] /\ frame' = frame
      \/ HelloValid(c, f) /\ listener' = [listener EXCEPT ![c] = next] /\ frame' = frame \cup {g}
  BY Zenon DEF AnswerClientHello, Step
<1>3. /\ DOMAIN listener' = Channel
      /\ \A d \in Channel : d # c => listener'[d] = listener[d]
      /\ \/ listener'[c].at = "failed"
         \/ /\ HelloValid(c, f) /\ listener'[c].at = "answered" /\ listener'[c].peer = f.contact
            /\ listener'[c].nonce = f.nonce /\ listener'[c].over = over
  <2>1. /\ next.at = "answered" /\ next.peer = f.contact /\ next.nonce = f.nonce /\ next.over = over
    OBVIOUS
  <2> QED BY <1>1, <1>2, <2>1, SidesTell, Zenon
<1>4. \A h \in frame : Genuine(h)' BY <1>1, <1>3, StaysGenuine, Zenon
<1>5. over[5] = ChannelBinding(c) BY ExporterIsSigned, SMTT(30)
<1>6. AnswerOf(c, g)'
  <2>1. g.type = "server hello" /\ g.seen = seen /\ g.proof.by = me /\ g.proof.over = over
    BY DEF ServerHello, SignedBy
  <2> QED BY <1>1, <1>5, <2>1, Zenon DEF AnswerOf
<1>7. \A h \in frame' : Genuine(h)' BY <1>2, <1>4, <1>6, ZenonT(60) DEF Genuine
<1>8. \A d \in Channel : DialerKnows(d)' /\ ListenerKnows(d)'
  <2> TAKE d \in Channel
  <2>1. DialerKnows(d) /\ ListenerKnows(d) BY SMTT(30) DEF HandshakeInvariant
  <2>2. CASE d # c BY <1>1, <1>3, <2>1, <2>2, ZenonT(60) DEF DialerKnows, ListenerKnows
  <2>3. CASE d = c /\ listener'[c].at = "failed"
    BY <1>1, <2>1, <2>3, Zenon DEF DialerKnows, ListenerKnows
  <2>4. CASE /\ d = c /\ HelloValid(c, f) /\ listener'[c].at = "answered"
             /\ listener'[c].peer = f.contact /\ listener'[c].nonce = f.nonce /\ listener'[c].over = over
    <3>1. HelloOf(c, f) BY <1>1, <2>4, HelloIsTheClients, Zenon
    <3>2. lists[me] \cap {me, f.contact.node} = {} BY <2>4, SMTT(30) DEF HelloValid
    <3>3. DialerKnows(c)' BY <1>1, <2>1, <2>4, Zenon DEF DialerKnows
    <3>4. ListenerKnows(c)'
      BY <1>1, <1>5, <2>4, <3>1, <3>2, Zenon DEF ListenerKnows, HelloOf
    <3> QED BY <2>4, <3>3, <3>4, Zenon
  <2> QED BY <1>3, <2>2, <2>3, <2>4
<1> QED BY <1>1, <1>3, <1>7, <1>8 DEF HandshakeInvariant

\* The client proves itself only to the server at the other end.
LEMMA AnswerIsTheServers ==
  ASSUME HandshakeInvariant, NEW c \in Channel, NEW f \in frame,
         f.type = "server hello", ServerValid(c, f)
  PROVE  f.contact.node = ends[c].server /\ f.seen = SeenFrom(c, "client")
<1>1. PICK d \in Channel : AnswerOf(d, f)
  BY Zenon DEF HandshakeInvariant, Genuine, HelloOf, ProofOf, AckOf
<1>2. f.proof.over[5] = ChannelBinding(c) /\ f.proof.by = f.contact.node BY AnswerIsSigned
<1>3. d = c BY <1>1, <1>2, ExportersDiffer, ZenonT(60) DEF AnswerOf
<1> QED BY <1>1, <1>2, <1>3, Zenon DEF AnswerOf

\* The client proves itself.
LEMMA ProveClientOK ==
  ASSUME HandshakeInvariant, NEW c \in Channel, NEW f \in frame, ProveClient(c, f)
  PROVE  HandshakeInvariant'
<1> PICK me, seen, base, over, g, next :
      /\ me = ends[c].client /\ seen = SeenFrom(c, "server")
      /\ base = Transcript(dialer[c].contact, f.contact, f.nonce, f.challenge, ChannelBinding(c), f.seen)
      /\ over = ClientTranscript(base, seen)
      /\ g = ClientProof(f.challenge, seen, ClaimBy(me, f.contact.node, seen), SignedBy(me, "client", over))
      /\ next = [at |-> "proved", contact |-> dialer[c].contact, peer |-> f.contact, claim |-> f.claim]
  BY Zenon
<1>1. /\ UNCHANGED <<ends, lists, issue, listener>> /\ dialer[c].at = "hello"
      /\ f.type = "server hello" /\ DOMAIN dialer = Channel
  BY Zenon DEF ProveClient, HandshakeInvariant
<1>2. \/ dialer' = [dialer EXCEPT ![c] = Refused] /\ frame' = frame
      \/ ServerValid(c, f) /\ dialer' = [dialer EXCEPT ![c] = next] /\ frame' = frame \cup {g}
  BY DEF ProveClient, Step
<1>3. /\ DOMAIN dialer' = Channel
      /\ \A d \in Channel : d # c => dialer'[d] = dialer[d]
      /\ \/ dialer'[c].at = "failed"
         \/ /\ ServerValid(c, f) /\ dialer'[c].at = "proved" /\ dialer'[c].contact = dialer[c].contact
            /\ dialer'[c].peer = f.contact /\ dialer'[c].claim = f.claim
  <2>1. /\ next.at = "proved" /\ next.contact = dialer[c].contact
        /\ next.peer = f.contact /\ next.claim = f.claim
    BY SMTT(30)
  <2> QED BY <1>1, <1>2, <2>1, SidesTell, ZenonT(60)
<1>4. \A h \in frame : Genuine(h)' BY <1>1, <1>3, StaysGenuine, Zenon
<1>5. ProofOf(c, g)'
  <2>1. over[1][5] = ChannelBinding(c) BY ExporterIsSigned, SMTT(30)
  <2>2. g.type = "client proof" /\ g.seen = seen /\ g.proof.by = me /\ g.proof.over = over
    BY Zenon DEF ClientProof, SignedBy
  <2> QED BY <1>1, <2>1, <2>2, ZenonT(60) DEF ProofOf
<1>6. \A h \in frame' : Genuine(h)' BY <1>2, <1>4, <1>5, ZenonT(60) DEF Genuine
<1>7. \A d \in Channel : DialerKnows(d)' /\ ListenerKnows(d)'
  <2> TAKE d \in Channel
  <2>1. DialerKnows(d) /\ ListenerKnows(d) BY SMTT(30) DEF HandshakeInvariant
  <2>2. CASE d # c BY <1>1, <1>3, <2>1, <2>2, ZenonT(60) DEF DialerKnows, ListenerKnows
  <2>3. CASE d = c /\ dialer'[c].at = "failed"
    BY <1>1, <2>1, <2>3, ZenonT(60) DEF DialerKnows, ListenerKnows
  <2>4. CASE /\ d = c /\ ServerValid(c, f) /\ dialer'[c].at = "proved"
             /\ dialer'[c].contact = dialer[c].contact /\ dialer'[c].peer = f.contact
             /\ dialer'[c].claim = f.claim
    <3>1. f.contact.node = ends[c].server /\ f.seen = SeenFrom(c, "client")
      BY <1>1, <2>4, AnswerIsTheServers, ZenonT(60)
    <3>2. f.contact.node = ends[c].dialled /\ f.claim = ClaimBy(f.contact.node, me, f.seen)
      BY <2>4, SMTT(30) DEF ServerValid
    <3>3. DialerKnows(c)' BY <1>1, <2>1, <2>4, <3>1, <3>2, Zenon DEF DialerKnows
    <3>4. ListenerKnows(c)' BY <1>1, <2>1, <2>4, Zenon DEF ListenerKnows
    <3> QED BY <2>4, <3>3, <3>4, SMTT(30)
  <2> QED BY <1>3, <2>2, <2>3, <2>4, ZenonT(60)
<1> QED BY <1>1, <1>3, <1>6, <1>7 DEF HandshakeInvariant

\* The server acknowledges only the proof of the client at the other end.
LEMMA ProofIsTheClients ==
  ASSUME HandshakeInvariant, NEW c \in Channel, NEW f \in frame,
         listener[c].at = "answered", f.type = "client proof", ClientValid(c, f)
  PROVE  f.seen = SeenFrom(c, "server")
<1>1. PICK d \in Channel : ProofOf(d, f)
  BY DEF HandshakeInvariant, Genuine, HelloOf, AnswerOf, AckOf
<1>2. f.proof.over[1] = listener[c].over BY ProofIsSigned, Zenon
<1>3. listener[c].over[5] = ChannelBinding(c) BY DEF HandshakeInvariant, ListenerKnows
<1>4. d = c BY <1>1, <1>2, <1>3, ExportersDiffer, ZenonT(60) DEF ProofOf
<1> QED BY <1>1, <1>4, ZenonT(60) DEF ProofOf

\* The server acknowledges and succeeds.
LEMMA AcknowledgeOK ==
  ASSUME HandshakeInvariant, NEW c \in Channel, NEW f \in frame, Acknowledge(c, f)
  PROVE  HandshakeInvariant'
<1> PICK g, next : /\ g = ServerAck(listener[c].nonce)
                   /\ next = [at |-> "done", peer |-> listener[c].peer, claim |-> f.claim]
  BY Zenon
<1>1. /\ UNCHANGED <<ends, lists, issue, dialer>> /\ listener[c].at = "answered"
      /\ f.type = "client proof" /\ DOMAIN listener = Channel
  BY Zenon DEF Acknowledge, HandshakeInvariant
<1>2. \/ listener' = [listener EXCEPT ![c] = Refused] /\ frame' = frame
      \/ ClientValid(c, f) /\ listener' = [listener EXCEPT ![c] = next] /\ frame' = frame \cup {g}
  BY Zenon DEF Acknowledge, Step
<1>3. /\ DOMAIN listener' = Channel
      /\ \A d \in Channel : d # c => listener'[d] = listener[d]
      /\ \/ listener'[c].at = "failed"
         \/ /\ ClientValid(c, f) /\ listener'[c].at = "done" /\ listener'[c].peer = listener[c].peer
            /\ listener'[c].claim = f.claim
  <2>1. next.at = "done" /\ next.peer = listener[c].peer /\ next.claim = f.claim
    BY SMTT(30)
  <2> QED BY <1>1, <1>2, <2>1, SidesTell, Zenon
<1>4. \A h \in frame : Genuine(h)' BY <1>1, <1>3, StaysGenuine, Zenon
<1>5. listener[c].nonce = ClientNonce(c) BY <1>1, ZenonT(60) DEF HandshakeInvariant, ListenerKnows
<1>6. listener'[c] = next => AckOf(c, g)' BY <1>5 DEF AckOf, ServerAck
<1>7. \A h \in frame' : Genuine(h)'
  <2>1. frame' = frame \/ (frame' = frame \cup {g} /\ listener'[c] = next) BY <1>1, <1>2, Zenon
  <2> QED BY <1>4, <1>6, <2>1, Zenon DEF Genuine
<1>8. \A d \in Channel : DialerKnows(d)' /\ ListenerKnows(d)'
  <2> TAKE d \in Channel
  <2>1. DialerKnows(d) /\ ListenerKnows(d) BY SMTT(30) DEF HandshakeInvariant
  <2>2. CASE d # c BY <1>1, <1>3, <2>1, <2>2, ZenonT(60) DEF DialerKnows, ListenerKnows
  <2>3. CASE d = c /\ listener'[c].at = "failed"
    BY <1>1, <2>1, <2>3, Zenon DEF DialerKnows, ListenerKnows
  <2>4. CASE /\ d = c /\ ClientValid(c, f) /\ listener'[c].at = "done"
             /\ listener'[c].peer = listener[c].peer /\ listener'[c].claim = f.claim
    <3>1. f.seen = SeenFrom(c, "server") BY <1>1, <2>4, ProofIsTheClients, Zenon
    <3>2. f.claim = ClaimBy(listener[c].peer.node, ends[c].server, f.seen) BY <2>4, SMTT(30) DEF ClientValid
    <3>3. DialerKnows(c)' BY <1>1, <2>1, <2>4, Zenon DEF DialerKnows
    <3>4. ListenerKnows(c)' BY <1>1, <2>1, <2>4, <3>1, <3>2, Zenon DEF ListenerKnows
    <3> QED BY <2>4, <3>3, <3>4, Zenon
  <2> QED BY <1>3, <2>2, <2>3, <2>4, ZenonT(60)
<1> QED BY <1>1, <1>3, <1>7, <1>8 DEF HandshakeInvariant

\* An acknowledgement with this session's challenge comes from a server that
\* has succeeded.
LEMMA ReadAckOK ==
  ASSUME HandshakeInvariant, NEW c \in Channel, NEW f \in frame, ReadAck(c, f)
  PROVE  HandshakeInvariant'
<1> PICK next : next = [dialer[c] EXCEPT !.at = "done"]
  BY Zenon
<1>1. /\ UNCHANGED <<ends, lists, issue, frame, listener>> /\ dialer[c].at = "proved"
      /\ f.type = "ack" /\ DOMAIN dialer = Channel
  BY DEF ReadAck, HandshakeInvariant
<1>2. /\ DOMAIN dialer' = Channel
      /\ \A d \in Channel : d # c => dialer'[d] = dialer[d]
      /\ dialer'[c] = Refused \/ (f.nonce = ClientNonce(c) /\ dialer'[c] = next)
  BY <1>1 DEF ReadAck, Step
<1>3. \/ dialer'[c].at = "failed"
      \/ /\ f.nonce = ClientNonce(c) /\ dialer'[c].at = "done"
         /\ dialer'[c].contact = dialer[c].contact /\ dialer'[c].peer = dialer[c].peer
         /\ dialer'[c].claim = dialer[c].claim
  <2>1. /\ next.contact = dialer[c].contact /\ next.peer = dialer[c].peer /\ next.claim = dialer[c].claim
        /\ next.at = "done"
    OBVIOUS
  <2> QED BY <1>2, <2>1, SidesTell, Zenon
<1>4. \A h \in frame : Genuine(h)' BY <1>1, <1>2, <1>3, StaysGenuine
<1>5. f.nonce = ClientNonce(c) => listener[c].at = "done"
  <2>1. PICK d \in Channel : AckOf(d, f)
    BY <1>1 DEF HandshakeInvariant, Genuine, HelloOf, AnswerOf, ProofOf
  <2> QED BY <2>1, ChallengesDiffer, Zenon DEF AckOf
<1>6. \A d \in Channel : DialerKnows(d)' /\ ListenerKnows(d)'
  <2> TAKE d \in Channel
  <2>1. DialerKnows(d) /\ ListenerKnows(d) BY Zenon DEF HandshakeInvariant
  <2>2. CASE d # c BY <1>1, <1>2, <2>1, <2>2, Zenon DEF DialerKnows, ListenerKnows
  <2>3. CASE d = c BY <1>1, <1>3, <1>5, <2>1, <2>3, ZenonT(60) DEF DialerKnows, ListenerKnows
  <2> QED BY <2>2, <2>3
<1> QED BY <1>1, <1>2, <1>4, <1>6 DEF HandshakeInvariant

\* A broken stream or a timeout ends one side and tells nothing.
LEMMA GivesUpOK ==
  ASSUME HandshakeInvariant, NEW c \in Channel, GivesUp(c)
  PROVE  HandshakeInvariant'
<1>1. /\ UNCHANGED <<ends, lists, issue, frame>>
      /\ DOMAIN dialer = Channel /\ DOMAIN listener = Channel
  BY DEF GivesUp, HandshakeInvariant
<1>2. \/ /\ dialer' = [dialer EXCEPT ![c] = Refused] /\ dialer[c].at # "done" /\ listener' = listener
      \/ /\ listener' = [listener EXCEPT ![c] = Refused] /\ listener[c].at # "done" /\ dialer' = dialer
  BY DEF GivesUp, Step
<1>3. /\ DOMAIN dialer' = Channel /\ DOMAIN listener' = Channel
      /\ \A d \in Channel : /\ dialer'[d] = dialer[d] \/ dialer'[d].at = "failed"
                            /\ listener'[d] = listener[d]
                               \/ (listener'[d].at = "failed" /\ listener[d].at # "done")
  BY <1>1, <1>2 DEF Refused
<1>4. \A h \in frame : Genuine(h)' BY <1>1, <1>3, StaysGenuine, Zenon
<1>5. \A d \in Channel : DialerKnows(d)' /\ ListenerKnows(d)'
  <2> TAKE d \in Channel
  <2>1. DialerKnows(d) /\ ListenerKnows(d) BY Zenon DEF HandshakeInvariant
  <2> QED BY <1>1, <1>3, <2>1, ZenonT(60) DEF DialerKnows, ListenerKnows
<1> QED BY <1>1, <1>3, <1>4, <1>5, Zenon DEF HandshakeInvariant

\* Sessions under way keep the contact they started with.
LEMMA RenewContactOK ==
  ASSUME HandshakeInvariant, NEW d \in Party, RenewContact(d)
  PROVE  HandshakeInvariant'
<1>1. issue' \in [Party -> Nat] BY DEF HandshakeInvariant, RenewContact
<1>2. UNCHANGED <<ends, lists, frame, dialer, listener>> BY Zenon DEF RenewContact
<1>3. \A h \in frame : Genuine(h)' BY <1>2, StaysGenuine, Zenon
<1> QED BY <1>1, <1>2, <1>3 DEF HandshakeInvariant, DialerKnows, ListenerKnows

\* Every step keeps the invariant.
LEMMA HandshakeNextOK == HandshakeInvariant /\ [HandshakeNext]_handshakeVars => HandshakeInvariant'
<1> SUFFICES ASSUME HandshakeInvariant, [HandshakeNext]_handshakeVars PROVE HandshakeInvariant'
  OBVIOUS
<1>1. ASSUME NEW c \in Channel, SendClientHello(c) PROVE HandshakeInvariant'
  BY <1>1, SendClientHelloOK
<1>2. ASSUME NEW c \in Channel, GivesUp(c) PROVE HandshakeInvariant'
  BY <1>2, GivesUpOK
<1>3. ASSUME NEW c \in Channel, NEW f \in frame,
             AnswerClientHello(c, f) \/ ProveClient(c, f) \/ Acknowledge(c, f) \/ ReadAck(c, f)
      PROVE HandshakeInvariant'
  BY <1>3, AnswerClientHelloOK, ProveClientOK, AcknowledgeOK, ReadAckOK, ZenonT(60)
<1>4. ASSUME NEW d \in Party, RenewContact(d) PROVE HandshakeInvariant'
  BY <1>4, RenewContactOK
<1>5. CASE UNCHANGED handshakeVars
  <2>1. UNCHANGED <<ends, lists, issue, frame, dialer, listener>> BY <1>5, Zenon DEF handshakeVars
  <2>2. \A h \in frame : Genuine(h)' BY <2>1, StaysGenuine
  <2> QED BY <2>1, <2>2 DEF HandshakeInvariant, DialerKnows, ListenerKnows
<1> QED BY <1>1, <1>2, <1>3, <1>4, <1>5 DEF HandshakeNext

\* What a side knows when it reports success is what the property asks for.
LEMMA KnownIsSound == HandshakeInvariant => HandshakeIsSound
<1> SUFFICES ASSUME HandshakeInvariant PROVE HandshakeIsSound
  BY Zenon
<1>1. \A c \in Channel : DialerKnows(c) /\ ListenerKnows(c) BY Zenon DEF HandshakeInvariant
<1>2. SidesAgree BY <1>1, ZenonT(60) DEF SidesAgree, DialerKnows, ListenerKnows
<1>3. ExpectedAndAllowed BY <1>1 DEF ExpectedAndAllowed, DialerKnows, ListenerKnows
<1> QED BY <1>2, <1>3 DEF HandshakeIsSound

\* A side that reports success is right about the other one, and both are
\* expected and allowed, whatever frames of other sessions were read on this
\* one (authenticate_outbound, authenticate_inbound).
THEOREM HandshakeSound == HandshakeSpec => []HandshakeIsSound
<1>1. HandshakeSpec => []HandshakeInvariant
  BY HandshakeInitOK, HandshakeNextOK, PTL DEF HandshakeSpec
<1> QED BY <1>1, KnownIsSound, PTL

-----------------------------------------------------------------------------
(* Group founding *)

\* Descriptors that agree are made of every device's own contribution: each
\* device has its own one from itself and not from the channel.
LEMMA AgreedIsGenuine ==
  ASSUME Agreed([d \in Device |-> Descriptor(d)]), NEW d \in Device, NEW s \in Device
  PROVE  Descriptor(d)[s] = "own"
<1>1. Descriptor(d) = Descriptor(s) BY Zenon DEF Agreed
<1>2. Descriptor(s)[s] = "own" BY Zenon DEF Descriptor
<1> QED BY <1>1, <1>2, Zenon

\* Group::descriptor: whatever the channel made of the packages of a run, a
\* group that is returned rests on no package its sender did not make.
THEOREM FoundedAlwaysGenuine == FoundingSpec => []FoundedIsGenuine
<1>1. FoundingInit => FoundedIsGenuine BY Zenon DEF FoundingInit, FoundedIsGenuine
<1>2. FoundedIsGenuine /\ [FoundingNext]_foundingVars => FoundedIsGenuine'
  <2> SUFFICES ASSUME FoundedIsGenuine, [FoundingNext]_foundingVars
               PROVE  FoundedIsGenuine'
    OBVIOUS
  <2>1. CASE BroadcastRound1 BY <2>1 DEF BroadcastRound1, FoundedIsGenuine
  <2>2. CASE Exchange1 BY <2>2 DEF Exchange1, FoundedIsGenuine
  <2>3. CASE SendRound2 BY <2>3 DEF SendRound2, FoundedIsGenuine
  <2>4. CASE Exchange2 BY <2>4 DEF Exchange2, FoundedIsGenuine
  <2>5. CASE Finish
    <3>1. CASE stage' = "failed" BY <3>1 DEF FoundedIsGenuine
    <3>2. CASE stage' # "failed"
      <4>1. Agreed([d \in Device |-> Descriptor(d)]) /\ group' = [d \in Device |-> Descriptor(d)]
        BY <2>5, <3>2, Zenon DEF Finish
      <4> QED BY <4>1, AgreedIsGenuine, Zenon DEF FoundedIsGenuine
    <3> QED BY <3>1, <3>2
  <2>6. CASE UNCHANGED foundingVars BY <2>6 DEF foundingVars, FoundedIsGenuine
  <2> QED BY <2>1, <2>2, <2>3, <2>4, <2>5, <2>6, Zenon DEF FoundingNext
<1> QED BY <1>1, <1>2, PTL DEF FoundingSpec

-----------------------------------------------------------------------------
(* Update trust *)

TrustInvariant ==
    /\ TrustTypeOK /\ TrustReadable /\ AcceptedIsPublished
    /\ PinIsOrdered /\ ResetMarksKeys /\ StoresAgree

\* The kind of a file and the step of the work tell what they are.
LEMMA FilesTell ==
  ASSUME TrustTypeOK
  PROVE  /\ anchor.kind = "root" => anchor = Pinned(anchor.version) /\ anchor.version \in 1..LastRoot
         /\ rootFile.kind = "state" <=> rootFile \in RootStates
         /\ roleFile # NoFile <=> roleFile \in RoleStores
         /\ work.at = "idle" <=> work = NoWork
         /\ work.at \in {"pin-state", "pin-root", "pin-fill"} <=> work \in Pinning
         /\ work.at \in LoadingStep \cup {"roots"} => work \in Verifying /\ anchor.kind = "root"
         /\ work.at \in LoadingStep => work.store \in RoleStores
BY DEF TrustTypeOK, Pinned, RootStates, RoleStores, NoFile, Torn, NoWork, Pinning, Verifying, LoadingStep

-----------------------------------------------------------------------------
(* Pinning *)

\* PinStarts keeps the invariant.
LEMMA PinStartsOK ==
  ASSUME TrustInvariant, NEW v \in 1..LastRoot, PinStarts(v)
  PROVE  TrustInvariant'
<1>1. anchor.kind # "root" /\ work' \in Pinning /\ roleFile' = NoFile
  <2>1. anchor.kind # "root" BY DEF PinStarts, NoFile
  <2>2. work' \in Pinning
    <3>1. work' = [at |-> "pin-state", root |-> v] \/ work' = [at |-> "pin-root", root |-> v] BY Zenon DEF PinStarts
    <3> QED BY <3>1 DEF Pinning
  <2>3. roleFile' = NoFile BY <2>1, Zenon DEF TrustInvariant, PinIsOrdered, PinStarts
  <2> QED BY <2>1, <2>2, <2>3
<1>2. TrustTypeOK'
  BY <1>1, Zenon DEF TrustInvariant, PinStarts, TrustTypeOK
<1>3. PinIsOrdered'
  BY <1>1 DEF TrustInvariant, PinIsOrdered, PinStarts, RootState, Torn, RootStates, Pinning
<1> QED
  BY <1>1, <1>2, <1>3
  DEF TrustInvariant, PinStarts, TrustReadable, AcceptedIsPublished, ResetMarksKeys, StoresAgree, Pinning, LoadingStep

\* PinSteps keeps the invariant.
LEMMA PinStepsOK ==
  ASSUME TrustInvariant, PinSteps
  PROVE  TrustInvariant'
<1>1. work \in Pinning /\ work.root \in 1..LastRoot
  BY FilesTell, Zenon DEF TrustInvariant, PinSteps, Working, Pinning
<1>2. anchor.kind # "root" /\ roleFile' = NoFile
  <2>1. work.at \in {"pin-state", "pin-root", "pin-fill"} BY Zenon DEF PinSteps, Working
  <2>2. anchor \in {NoFile, Torn} BY <2>1, Zenon DEF TrustInvariant, PinIsOrdered
  <2>3. anchor.kind # "root" BY <2>2 DEF NoFile, Torn
  <2> QED BY <2>3, Zenon DEF TrustInvariant, PinIsOrdered, PinSteps
<1>3. CASE Working("pin-state")
  <2>1. rootFile' = RootState(work.root, FALSE, work.root) /\ work' = [work EXCEPT !.at = "pin-root"] /\ anchor' = anchor
    BY <1>3 DEF PinSteps, Working
  <2>2. work' \in Pinning /\ work'.at = "pin-root" /\ work'.root = work.root
    BY <1>1, <2>1 DEF Pinning
  <2>3. rootFile' \in RootStates BY <1>1, <2>1 DEF RootStates, RootState
  <2>4. TrustTypeOK'
    BY <1>2, <2>1, <2>2, <2>3, Zenon DEF TrustInvariant, PinSteps, TrustTypeOK
  <2>5. PinIsOrdered'
    BY <1>2, <1>3, <2>1, <2>2, <2>3 DEF TrustInvariant, PinIsOrdered, Working, RootState
  <2> QED
    BY <1>2, <2>1, <2>2, <2>4, <2>5, Zenon
    DEF TrustInvariant, TrustReadable, AcceptedIsPublished, ResetMarksKeys, StoresAgree, LoadingStep
<1>4. CASE Working("pin-root")
  <2>1. anchor' = Torn /\ work' = [work EXCEPT !.at = "pin-fill"] /\ rootFile' = rootFile
    BY <1>4 DEF PinSteps, Working
  <2>2. work' \in Pinning /\ work'.at = "pin-fill" /\ work'.root = work.root
    BY <1>1, <2>1 DEF Pinning
  <2>4. TrustTypeOK'
    BY <1>2, <2>1, <2>2 DEF TrustInvariant, PinSteps, TrustTypeOK
  <2>5. PinIsOrdered'
    BY <1>2, <1>4, <2>1, <2>2, Zenon DEF TrustInvariant, PinIsOrdered, Working
  <2> QED
    BY <1>2, <2>1, <2>2, <2>4, <2>5
    DEF TrustInvariant, TrustReadable, AcceptedIsPublished, ResetMarksKeys, StoresAgree, LoadingStep, Torn
<1>5. CASE Working("pin-fill")
  <2>1. anchor' = Pinned(work.root) /\ work' = NoWork /\ rootFile' = rootFile
    BY <1>5 DEF PinSteps, Working
  <2>2. rootFile = RootState(work.root, FALSE, work.root)
    BY <1>5 DEF TrustInvariant, PinIsOrdered, Working
  <2>3. TrustTypeOK'
    BY <1>1, <1>2, <2>1 DEF TrustInvariant, PinSteps, TrustTypeOK
  <2>4. PinIsOrdered' /\ AcceptedIsPublished' /\ StoresAgree'
    BY <1>2, <2>1 DEF PinIsOrdered, AcceptedIsPublished, StoresAgree, NoWork, LoadingStep, Pinned
  <2>5. TrustReadable' /\ ResetMarksKeys'
    BY <1>1, <1>2, <2>1, <2>2 DEF TrustReadable, ResetMarksKeys, Loadable, RootState, Pinned
  <2> QED BY <2>3, <2>4, <2>5 DEF TrustInvariant
<1> QED BY <1>3, <1>4, <1>5, Zenon DEF PinSteps

-----------------------------------------------------------------------------
(* Verifying a bundle *)

\* Materialize keeps the invariant.
LEMMA MaterializeOK ==
  ASSUME TrustInvariant, NEW r \in Repository, Materialize(r)
  PROVE  TrustInvariant'
<1>1. work' \in Verifying /\ work'.at = "roots" /\ anchor.kind = "root"
  BY DEF Materialize, Unpacked, Verifying, Loadable
<1>2. TrustTypeOK'
  BY <1>1 DEF TrustInvariant, Materialize, TrustTypeOK
<1> QED
  BY <1>1, <1>2, Zenon
  DEF TrustInvariant, Materialize, TrustReadable, Loadable, AcceptedIsPublished, PinIsOrdered, ResetMarksKeys,
      StoresAgree, StoreIsTrue, LoadingStep

\* The work is given up: nothing but the files is left.
LEMMA GivenUpOK ==
  ASSUME TrustInvariant, work' = NoWork, UNCHANGED <<anchor, rootFile, roleFile, release, bundles>>, cuts' \in Nat
  PROVE  TrustInvariant'
<1>1. TrustTypeOK' BY DEF TrustInvariant, TrustTypeOK
<1>2. PinIsOrdered' /\ ResetMarksKeys' /\ TrustReadable'
  BY ZenonT(60) DEF TrustInvariant, PinIsOrdered, ResetMarksKeys, TrustReadable, Loadable, NoWork
<1>3. AcceptedIsPublished' /\ StoresAgree'
  BY DEF TrustInvariant, AcceptedIsPublished, StoresAgree, StoreIsTrue, NoWork, LoadingStep
<1> QED BY <1>1, <1>2, <1>3 DEF TrustInvariant

\* AdvanceRoot keeps the invariant.
LEMMA AdvanceRootOK ==
  ASSUME TrustInvariant, AdvanceRoot
  PROVE  TrustInvariant'
<1>1. /\ work \in Verifying /\ work.at = "roots" /\ anchor.kind = "root" /\ rootFile \in RootStates
      /\ anchor.version \in 1..LastRoot
  BY FilesTell DEF AdvanceRoot, Working, TrustInvariant, TrustReadable, Loadable
<1>2. work.repo.top \in 1..LastRoot
  BY <1>1, TrustAssumption DEF Verifying, Packed, LoadingStep
<1> DEFINE next == rootFile.version + 1
<1>3. CASE ~(work.steps < MaxRootUpdates /\ next =< work.repo.top)
  BY <1>3, GivenUpOK DEF AdvanceRoot, Fails, TrustInvariant, TrustTypeOK
<1>4. CASE work.steps < MaxRootUpdates /\ next =< work.repo.top
  <2>1. /\ rootFile' = Promoted(rootFile, next) /\ work' = [work EXCEPT !.steps = @ + 1]
        /\ UNCHANGED <<anchor, roleFile, release, bundles, cuts>>
    BY <1>4 DEF AdvanceRoot
  <2>2. next \in 1..LastRoot /\ rootFile.version \in 1..LastRoot /\ rootFile.reset \in 1..LastRoot
    BY <1>1, <1>2, <1>4, TrustAssumption DEF RootStates
  <2>3. /\ rootFile' \in RootStates /\ rootFile'.version = next /\ rootFile'.previous
        /\ rootFile'.reset = IF KeysChanged(rootFile.version, next) THEN next ELSE rootFile.reset
    BY <2>1, <2>2 DEF Promoted, RootState, RootStates
  <2>4. work' \in Verifying /\ work'.at = "roots" BY <1>1, <2>1 DEF Verifying, LoadingStep
  <2>5. TrustTypeOK' BY <1>1, <2>1, <2>3, <2>4 DEF TrustInvariant, TrustTypeOK
  <2>6. ResetMarksKeys'
    BY <1>1, <2>1, <2>2, <2>3 DEF TrustInvariant, ResetMarksKeys, KeysChanged, TrustReadable, Loadable
  <2>7. TrustReadable'
    BY <1>1, <2>1, <2>2, <2>3, FilesTell DEF TrustInvariant, TrustReadable, Loadable, RoleStores, RootStates
  <2>8. PinIsOrdered' /\ AcceptedIsPublished'
    BY <1>1, <2>1, <2>4, Zenon DEF PinIsOrdered, AcceptedIsPublished
  <2>9. StoresAgree'
    BY <1>1, <2>1, <2>2, <2>3, <2>4 DEF TrustInvariant, StoresAgree, StoreIsTrue, LoadingStep
  <2> QED BY <2>5, <2>6, <2>7, <2>8, <2>9 DEF TrustInvariant
<1> QED BY <1>3, <1>4

\* What seed_current takes over from the stored roles: their timestamp only when the
\* keys have not changed since.
LEMMA SeededIsTrue ==
  ASSUME TrustInvariant, anchor.kind = "root", roleFile # NoFile => roleFile.root =< rootFile.version
  PROVE  /\ Seeded \in RoleStores /\ StoreIsTrue(Seeded) /\ Seeded.root = rootFile.version
         /\ roleFile # NoFile /\ SameKeysSince(roleFile.root) =>
               Seeded.timestamp >= roleFile.timestamp /\ Seeded.snapshot >= roleFile.snapshot
<1>1. /\ rootFile \in RootStates /\ anchor.version \in 1..LastRoot
      /\ anchor.version =< rootFile.version /\ rootFile.reset =< rootFile.version
  BY FilesTell DEF TrustInvariant, TrustReadable, Loadable
<1>2. rootFile.version \in 1..LastRoot /\ rootFile.reset \in 1..LastRoot
  BY <1>1 DEF RootStates
<1>3. CASE roleFile = NoFile
  BY <1>1, <1>2, <1>3, TrustAssumption DEF Seeded, Roles, RoleStores, StoreIsTrue
<1>4. CASE roleFile # NoFile
  <2>1. /\ roleFile \in RoleStores /\ roleFile.root \in anchor.version..rootFile.version
        /\ roleFile.root \in 1..LastRoot /\ roleFile.targets \in Nat
        /\ roleFile.timestamp \in Nat /\ roleFile.snapshot \in Nat
    BY <1>4, FilesTell DEF TrustInvariant, StoresAgree, StoreIsTrue, RoleStores
  <2>2. CASE Forgotten(roleFile, rootFile)
    <3>1. Seeded = Roles(rootFile.version, roleFile.targets) BY <1>4, <2>2 DEF Seeded
    <3>2. Seeded \in RoleStores /\ StoreIsTrue(Seeded) /\ Seeded.root = rootFile.version
      BY <1>1, <1>2, <2>1, <3>1, TrustAssumption DEF Roles, RoleStores, StoreIsTrue
    <3>3. roleFile.root < rootFile.reset
      BY <1>1, <1>2, <2>1, <2>2 DEF Forgotten, TrustInvariant, ResetMarksKeys, KeysChanged
    <3>4. rootFile.reset \in (roleFile.root + 1)..rootFile.version /\ rootFile.reset # anchor.version
      BY <1>1, <1>2, <2>1, <3>3
    <3>5. ~SameKeysSince(roleFile.root)
      BY <3>4 DEF SameKeysSince, TrustInvariant, ResetMarksKeys
    <3> QED BY <3>2, <3>5
  <2>3. CASE ~Forgotten(roleFile, rootFile)
    <3>1. Seeded = [roleFile EXCEPT !.root = rootFile.version] BY <1>4, <2>3 DEF Seeded
    <3>2. /\ Seeded \in RoleStores /\ Seeded.root = rootFile.version
          /\ Seeded.timestamp = roleFile.timestamp /\ Seeded.snapshot = roleFile.snapshot
          /\ Seeded.under = roleFile.under
      BY <1>2, <2>1, <3>1 DEF RoleStores
    <3>3. rootFile.reset =< roleFile.root BY <1>2, <2>1, <2>3 DEF Forgotten
    <3>4. \A w \in (roleFile.root + 1)..rootFile.version : ~KeysChanged(w - 1, w)
      BY <1>2, <2>1, <3>3 DEF TrustInvariant, ResetMarksKeys, KeysChanged
    <3>5. StoreIsTrue(Seeded)
      BY <1>1, <1>2, <1>4, <2>1, <3>2, <3>4 DEF TrustInvariant, StoresAgree, StoreIsTrue
    <3> QED BY <2>1, <3>2, <3>5
  <2> QED BY <2>2, <2>3
<1> QED BY <1>3, <1>4

\* SeedCurrent keeps the invariant.
LEMMA SeedCurrentOK ==
  ASSUME TrustInvariant, SeedCurrent
  PROVE  TrustInvariant'
<1>1. /\ work \in Verifying /\ work.at = "roots" /\ anchor.kind = "root"
      /\ anchor' = anchor /\ rootFile' = rootFile /\ UNCHANGED <<release, bundles, cuts>>
  BY FilesTell DEF SeedCurrent, Working, TrustInvariant
<1>2. roleFile # NoFile => roleFile.root =< rootFile.version
  BY <1>1 DEF TrustInvariant, TrustReadable
<1>3. /\ Seeded \in RoleStores /\ StoreIsTrue(Seeded) /\ Seeded.root = rootFile.version
  BY <1>1, <1>2, SeededIsTrue
<1>4. rootFile.version \in Nat BY <1>1, FilesTell DEF TrustInvariant, TrustReadable, Loadable, RootStates
<1>5. roleFile' = Seeded /\ work' = [work EXCEPT !.at = "timestamp", !.store = Seeded]
  <2>1. roleFile # NoFile => ~(roleFile.root > rootFile.version)
    BY <1>2, <1>4, FilesTell DEF TrustInvariant, RoleStores
  <2> QED BY <2>1 DEF SeedCurrent
<1>6. work' \in Verifying /\ work'.at = "timestamp" /\ work'.store = Seeded
  BY <1>1, <1>3, <1>5, Zenon DEF Verifying, LoadingStep
<1>7. Seeded # NoFile /\ Seeded.timestamp \in Nat /\ Seeded.snapshot \in Nat BY <1>3 DEF RoleStores, NoFile
<1>8. TrustTypeOK'
  BY <1>1, <1>3, <1>5, <1>6 DEF TrustInvariant, TrustTypeOK
<1>9. StoresAgree'
  BY <1>1, <1>3, <1>4, <1>5, <1>6, <1>7 DEF StoresAgree, StoreIsTrue
<1>10. TrustReadable'
  BY <1>1, <1>3, <1>4, <1>5 DEF TrustInvariant, TrustReadable, Loadable
<1>11. AcceptedIsPublished' /\ PinIsOrdered' /\ ResetMarksKeys'
  BY <1>1, <1>6, Zenon DEF TrustInvariant, AcceptedIsPublished, PinIsOrdered, ResetMarksKeys
<1> QED BY <1>8, <1>9, <1>10, <1>11 DEF TrustInvariant

\* The store after a role the library accepts.
LEMMA RoleIsAdded ==
  ASSUME NEW s \in RoleStores, NEW n \in Nat, NEW role \in {"timestamp", "snapshot", "targets"}
  PROVE  /\ WithRole(s, role, n) \in RoleStores /\ WithRole(s, role, n).root = s.root
         /\ WithRole(s, role, n).timestamp = IF role = "timestamp" THEN n ELSE s.timestamp
         /\ WithRole(s, role, n).snapshot = IF role = "snapshot" THEN n ELSE s.snapshot
         /\ WithRole(s, role, n).under = IF role = "timestamp" THEN s.root ELSE s.under
<1>1. s.root \in 0..LastRoot /\ s.under \in 0..LastRoot BY TrustAssumption DEF RoleStores
<1>2. CASE role = "timestamp"
  <2>1. WithRole(s, role, n) = [s EXCEPT !.timestamp = n, !.under = s.root] BY <1>2 DEF WithRole
  <2> QED BY <1>1, <1>2, <2>1, Zenon DEF RoleStores
<1>3. CASE role = "snapshot"
  <2>1. WithRole(s, role, n) = [s EXCEPT !.snapshot = n, !.under = @] BY <1>3 DEF WithRole
  <2> QED BY <1>1, <1>3, <2>1, Zenon DEF RoleStores
<1>4. CASE role = "targets"
  <2>1. WithRole(s, role, n) = [s EXCEPT !.targets = n, !.under = @] BY <1>4 DEF WithRole
  <2> QED BY <1>1, <1>4, <2>1, Zenon DEF RoleStores
<1> QED BY <1>2, <1>3, <1>4

\* Publishing the store in work keeps the file true and never lowers it.
LEMMA StoreIsPublished ==
  ASSUME TrustInvariant, work.at \in LoadingStep
  PROVE  /\ anchor.kind = "root" /\ work \in Verifying /\ work.store \in RoleStores /\ StoreIsTrue(work.store)
         /\ work.store # NoFile /\ roleFile \in RoleStores
         /\ work.store.root = rootFile.version /\ rootFile.version \in 1..LastRoot
         /\ work.store.timestamp >= roleFile.timestamp /\ work.store.snapshot >= roleFile.snapshot
<1>1. anchor.kind = "root" /\ work \in Verifying /\ work.store \in RoleStores
  BY FilesTell DEF TrustInvariant
<1>2. work.store # NoFile BY <1>1 DEF RoleStores, NoFile
<1>3. rootFile.version \in 1..LastRoot BY <1>1, FilesTell DEF TrustInvariant, TrustReadable, Loadable, RootStates
<1>4. roleFile \in RoleStores BY FilesTell DEF TrustInvariant, StoresAgree
<1> QED BY <1>1, <1>2, <1>3, <1>4 DEF TrustInvariant, StoresAgree

\* LoadRole keeps the invariant.
LEMMA LoadRoleOK ==
  ASSUME TrustInvariant, NEW role \in {"timestamp", "snapshot", "targets"}, LoadRole(role)
  PROVE  TrustInvariant'
<1>1. work.at = role /\ role \in LoadingStep BY DEF LoadRole, Working, LoadingStep
<1>2. /\ anchor.kind = "root" /\ work \in Verifying /\ work.store \in RoleStores /\ StoreIsTrue(work.store)
      /\ work.store # NoFile /\ roleFile \in RoleStores
      /\ work.store.root = rootFile.version /\ rootFile.version \in 1..LastRoot
      /\ work.store.timestamp >= roleFile.timestamp /\ work.store.snapshot >= roleFile.snapshot
  BY <1>1, StoreIsPublished
<1>3. roleFile' = work.store /\ UNCHANGED <<anchor, rootFile, release, bundles, cuts>>
  BY DEF LoadRole
<1>4. TrustReadable' /\ ResetMarksKeys'
  BY <1>2, <1>3 DEF TrustInvariant, TrustReadable, Loadable, ResetMarksKeys
<1>5. StoreIsTrue(roleFile)'
  BY <1>2, <1>3 DEF StoreIsTrue
<1>6. CASE ~RoleAccepted(role)
  <2>1. work' = NoWork BY <1>6 DEF LoadRole, Fails
  <2>2. TrustTypeOK' BY <1>2, <1>3, <2>1 DEF TrustInvariant, TrustTypeOK
  <2>3. AcceptedIsPublished' /\ PinIsOrdered' /\ StoresAgree'
    BY <1>2, <1>3, <1>5, <2>1, Zenon DEF AcceptedIsPublished, PinIsOrdered, StoresAgree, NoWork, LoadingStep
  <2> QED BY <1>4, <2>2, <2>3 DEF TrustInvariant
<1>7. CASE RoleAccepted(role)
  <2> DEFINE n == work.repo[role]
             s == WithRole(work.store, role, n)
  <2>1. work.repo \in Repository BY <1>2 DEF Verifying
  <2>2. n \in Nat
    <3>1. Packed(work.repo) BY <2>1, TrustAssumption
    <3> QED BY <3>1 DEF Packed
  <2>3. n >= work.store[role] BY <1>7 DEF RoleAccepted
  <2>4. /\ s \in RoleStores /\ s.root = work.store.root
        /\ s.timestamp = IF role = "timestamp" THEN n ELSE work.store.timestamp
        /\ s.snapshot = IF role = "snapshot" THEN n ELSE work.store.snapshot
        /\ s.under = IF role = "timestamp" THEN work.store.root ELSE work.store.under
    BY <1>2, <2>2, RoleIsAdded, ZenonT(60)
  <2>5. work' = [work EXCEPT !.at = After(role), !.store = s]
    BY <1>7 DEF LoadRole
  <2> HIDE DEF s
  <2>6. After(role) \in LoadingStep /\ After(role) # "timestamp"
        /\ (After(role) = "targets" => role = "snapshot") /\ (After(role) = "stage" => role = "targets")
    BY DEF After, LoadingStep
  <2>7. work' \in Verifying /\ work'.at = After(role) /\ work'.store = s
    BY <1>1, <1>2, <2>4, <2>5, <2>6, Zenon DEF Verifying
  <2>8. TrustTypeOK' BY <1>2, <1>3, <2>7 DEF TrustInvariant, TrustTypeOK
  <2>9. AcceptedIsPublished'
    BY <1>3, <2>4, <2>6, <2>7 DEF AcceptedIsPublished
  <2>10. PinIsOrdered' BY <1>2, <1>3, <2>6, <2>7, Zenon DEF PinIsOrdered, LoadingStep
  <2>11. StoreIsTrue(s)
    BY <1>2, <2>4 DEF StoreIsTrue, RoleStores
  <2>12. StoreIsTrue(work.store)'
    BY <1>3, <2>7, <2>11 DEF StoreIsTrue
  <2>13. s.timestamp >= work.store.timestamp /\ s.snapshot >= work.store.snapshot
    <3>1. work.store.timestamp \in Nat /\ work.store.snapshot \in Nat BY <1>2, Zenon DEF RoleStores
    <3>2. s.timestamp = work.store.timestamp \/ (s.timestamp = n /\ n >= work.store.timestamp)
      BY <2>3, <2>4, Zenon
    <3>3. s.snapshot = work.store.snapshot \/ (s.snapshot = n /\ n >= work.store.snapshot)
      BY <2>3, <2>4, Zenon
    <3> HIDE DEF n
    <3> QED BY <3>1, <3>2, <3>3
  <2>14. StoresAgree'
    BY <1>2, <1>3, <1>5, <2>4, <2>7, <2>12, <2>13 DEF StoresAgree
  <2> QED BY <1>4, <2>8, <2>9, <2>10, <2>14 DEF TrustInvariant
<1> QED BY <1>6, <1>7

\* Stage keeps the invariant.
LEMMA StageOK ==
  ASSUME TrustInvariant, Stage
  PROVE  TrustInvariant'
<1>1. work.at \in LoadingStep BY DEF Stage, Working, LoadingStep
<1>2. /\ anchor.kind = "root" /\ work \in Verifying /\ work.store \in RoleStores /\ StoreIsTrue(work.store)
      /\ work.store # NoFile /\ work.store.root = rootFile.version /\ rootFile.version \in 1..LastRoot
  BY <1>1, StoreIsPublished
<1>3. roleFile' = work.store /\ work' = NoWork /\ UNCHANGED <<anchor, rootFile, bundles, cuts>>
  BY DEF Stage
<1>4. release' \in Nat
  <2>1. work.repo \in Repository BY <1>2 DEF Verifying
  <2>2. Packed(work.repo) BY <2>1, TrustAssumption
  <2> QED BY <2>2 DEF Packed, Stage, TrustInvariant, TrustTypeOK
<1>5. TrustTypeOK' BY <1>2, <1>3, <1>4 DEF TrustInvariant, TrustTypeOK
<1>6. TrustReadable' /\ ResetMarksKeys'
  BY <1>2, <1>3 DEF TrustInvariant, TrustReadable, Loadable, ResetMarksKeys
<1>7. AcceptedIsPublished' /\ PinIsOrdered' /\ StoresAgree'
  BY <1>2, <1>3, Zenon DEF AcceptedIsPublished, PinIsOrdered, StoresAgree, StoreIsTrue, NoWork, LoadingStep
<1> QED BY <1>5, <1>6, <1>7 DEF TrustInvariant

-----------------------------------------------------------------------------
(* The theorems *)

\* Every step keeps the invariant.
LEMMA TrustStep ==
  ASSUME TrustInvariant, [TrustNext]_trustVars
  PROVE  TrustInvariant'
<1>1. CASE UNCHANGED trustVars
  <2>1. UNCHANGED <<anchor, rootFile, roleFile, work, release, bundles, cuts>> BY <1>1 DEF trustVars
  <2>2. TrustTypeOK' BY <2>1 DEF TrustInvariant, TrustTypeOK
  <2>3. TrustReadable' /\ AcceptedIsPublished' /\ PinIsOrdered' /\ ResetMarksKeys'
    BY <2>1, Zenon DEF TrustInvariant, TrustReadable, Loadable, AcceptedIsPublished, PinIsOrdered, ResetMarksKeys
  <2>4. StoresAgree' BY <2>1, ZenonT(60) DEF TrustInvariant, StoresAgree, StoreIsTrue
  <2> QED BY <2>2, <2>3, <2>4 DEF TrustInvariant
<1>2. CASE Cut
  <2>1. cuts' \in Nat BY <1>2 DEF Cut, TrustInvariant, TrustTypeOK
  <2> QED BY <1>2, <2>1, GivenUpOK DEF Cut
<1>3. CASE \E v \in 1..LastRoot : PinStarts(v) BY <1>3, PinStartsOK
<1>4. CASE PinSteps BY <1>4, PinStepsOK
<1>5. CASE \E r \in Repository : Materialize(r) BY <1>5, MaterializeOK
<1>6. CASE AdvanceRoot BY <1>6, AdvanceRootOK
<1>7. CASE SeedCurrent BY <1>7, SeedCurrentOK
<1>8. CASE \E role \in {"timestamp", "snapshot", "targets"} : LoadRole(role) BY <1>8, LoadRoleOK
<1>9. CASE Stage BY <1>9, StageOK
<1> QED BY <1>1, <1>2, <1>3, <1>4, <1>5, <1>6, <1>7, <1>8, <1>9 DEF TrustNext

\* The inductive invariant holds in every reachable state.
LEMMA TrustInvariantHolds == TrustSpec => []TrustInvariant
<1>1. TrustInit => TrustInvariant
  <2> SUFFICES ASSUME TrustInit PROVE TrustInvariant OBVIOUS
  <2>1. TrustTypeOK BY DEF TrustInit, TrustTypeOK
  <2>2. anchor.kind = "none" /\ work.at = "idle" /\ roleFile = NoFile BY DEF TrustInit, NoFile, NoWork
  <2>3. PinIsOrdered BY <2>2, Zenon DEF TrustInit, PinIsOrdered, NoFile, RootStates
  <2> QED BY <2>1, <2>2, <2>3
    DEF TrustInvariant, TrustReadable, AcceptedIsPublished, ResetMarksKeys, StoresAgree, LoadingStep
<1> QED BY <1>1, TrustStep, PTL DEF TrustSpec

\* The trust files survive every kill: for every history of roots, every set of
\* repositories and every number of bundles and kills, what pin, advance,
\* seed_current and fetch leave behind loads, records what was accepted, and holds
\* back no key that replaced another.
THEOREM TrustAlwaysKept == TrustSpec => []TrustIsKept
<1>1. TrustInvariant => OldKeysHoldNothingBack
  <2> SUFFICES ASSUME TrustInvariant, work.at = "timestamp", work.store.timestamp # 0
               PROVE  SameKeysSince(work.store.under)
    BY DEF OldKeysHoldNothingBack
  <2>1. StoreIsTrue(work.store) /\ work.store.root = rootFile.version BY StoreIsPublished DEF LoadingStep
  <2> QED BY <2>1 DEF StoreIsTrue, SameKeysSince
<1>2. TrustInvariant => TrustIsKept BY <1>1 DEF TrustInvariant, TrustIsKept
<1> QED BY <1>2, TrustInvariantHolds, PTL

\* The stored timestamp and snapshot fall back only across a root that changed the
\* keys of those roles (seed_current, fetch and verify_materialized).
THEOREM RolesOnlyMoveForward == TrustSpec => RolesNeverRollBack
<1>1. ASSUME TrustInvariant, [TrustNext]_trustVars, roleFile # NoFile
      PROVE  \/ roleFile'.timestamp >= roleFile.timestamp /\ roleFile'.snapshot >= roleFile.snapshot
             \/ ~SameKeysSince(roleFile.root)
  <2>1. roleFile \in RoleStores /\ roleFile.timestamp \in Nat /\ roleFile.snapshot \in Nat
    BY <1>1, FilesTell DEF TrustInvariant, RoleStores
  <2>2. CASE roleFile' = roleFile BY <2>1, <2>2
  <2>3. CASE SeedCurrent
    <3>1. anchor.kind = "root" /\ roleFile.root =< rootFile.version
      BY <1>1, <2>3, FilesTell DEF SeedCurrent, Working, TrustInvariant, TrustReadable
    <3>2. CASE roleFile' = Seeded BY <1>1, <3>1, <3>2, SeededIsTrue
    <3> QED BY <2>2, <2>3, <3>2 DEF SeedCurrent
  <2>4. CASE Stage \/ \E role \in {"timestamp", "snapshot", "targets"} : LoadRole(role)
    <3>1. roleFile' = work.store /\ work.at \in LoadingStep
      BY <2>4 DEF Stage, LoadRole, Working, LoadingStep
    <3> QED BY <1>1, <3>1, StoreIsPublished
  <2> QED BY <1>1, <2>2, <2>3, <2>4, Zenon DEF TrustNext, trustVars, PinStarts, PinSteps, Materialize, AdvanceRoot, Cut
<1>2. TrustInvariant /\ [TrustNext]_trustVars =>
        [roleFile # NoFile =>
          \/ roleFile'.timestamp >= roleFile.timestamp /\ roleFile'.snapshot >= roleFile.snapshot
          \/ ~SameKeysSince(roleFile.root)]_trustVars
  BY <1>1
<1> QED BY <1>2, TrustInvariantHolds, PTL DEF TrustSpec, RolesNeverRollBack

=============================================================================
