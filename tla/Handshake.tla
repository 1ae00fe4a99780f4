------------------------------ MODULE Handshake ------------------------------
(***************************************************************************)
(* Mutual authentication of a peer session (session.rs): the four frames   *)
(* client hello, server hello, client proof and acknowledgement, each      *)
(* proof signed over the contacts, the challenges, the observed addresses  *)
(* and the exporter of the TLS session.  A frame may be read on another    *)
(* session than the one it was written on, which the transport excludes    *)
(* and the proofs must not rely on.  A signature is the record of what was *)
(* signed by whom; a challenge is named by the session it was drawn for.   *)
(***************************************************************************)
EXTENDS Integers, FiniteSets

CONSTANTS
  Party,      \* member devices
  Channel,    \* TLS sessions
  SessionEnds,       \* the client, server and dialled device a session may have
  Outcast,    \* devices that some lists revoke
  MaxRenewed  \* bound on the contacts a device signs anew

VARIABLES
  ends,     \* each session's client, server and the device it was dialled for
  lists,    \* the revocation list each device works with
  issue,    \* the serial of each device's current contact
  frame,    \* frames written
  dialer,   \* progress of the client of each session
  listener  \* progress of the server of each session

handshakeVars == <<ends, lists, issue, frame, dialer, listener>>

ASSUME HandshakeAssumption ==
  /\ SessionEnds \subseteq [client : Party, server : Party, dialled : Party]
  /\ \A e \in SessionEnds : e.client \notin {e.server, e.dialled}
  /\ Outcast \subseteq Party /\ MaxRenewed \in Nat

Waiting == [at |-> "start"]
Refused == [at |-> "failed"]

ContactOf(d) == [node |-> d, issue |-> issue[d]]
SignedBy(d, domain, over) == [by |-> d, domain |-> domain, over |-> over]
ClientNonce(c) == <<c, "client">>
ServerNonce(c) == <<c, "server">>
SeenFrom(c, side) == <<"address", c, side>>
ClaimBy(reporter, subject, address) ==
  [reporter |-> reporter, subject |-> subject, address |-> address]

ChannelBinding_Fixed(c) == "exporter"

\* The keying material exported from the TLS session: its own for each.
ChannelBinding(c) == <<"exporter", c>>

HelloTranscript(contact, nonce, binding) == <<contact, nonce, binding>>

Transcript(client, server, clientNonce, serverNonce, binding, seen) ==
  <<client, server, clientNonce, serverNonce, binding, seen>>

ClientTranscript(base, seen) == <<base, seen>>

(* The four frames *)

ClientHello(contact, nonce, proof) ==
  [type |-> "client hello", contact |-> contact, nonce |-> nonce, proof |-> proof]

ServerHello(contact, nonce, challenge, seen, claim, proof) ==
  [type |-> "server hello", contact |-> contact, nonce |-> nonce, challenge |-> challenge,
   seen |-> seen, claim |-> claim, proof |-> proof]

ClientProof(challenge, seen, claim, proof) ==
  [type |-> "client proof", challenge |-> challenge, seen |-> seen, claim |-> claim, proof |-> proof]

ServerAck(nonce) == [type |-> "ack", nonce |-> nonce]

HandshakeInit ==
  /\ ends \in [Channel -> SessionEnds]
  /\ lists \in [Party -> SUBSET Outcast]
  /\ issue = [d \in Party |-> 0]
  /\ frame = {}
  /\ dialer = [c \in Channel |-> Waiting]
  /\ listener = [c \in Channel |-> Waiting]

Step(side, c, next) == side' = [side EXCEPT ![c] = next]

\* authenticate_outbound up to its first frame.
SendClientHello(c) ==
  LET me == ends[c].client
      contact == ContactOf(me)
      proof == SignedBy(me, "hello", HelloTranscript(contact, ClientNonce(c), ChannelBinding(c)))
  IN /\ dialer[c] = Waiting
     /\ IF lists[me] \cap {me, ends[c].dialled} # {}
        THEN Step(dialer, c, Refused) /\ UNCHANGED frame
        ELSE /\ Step(dialer, c, [at |-> "hello", contact |-> contact])
             /\ frame' = frame \cup {ClientHello(contact, ClientNonce(c), proof)}
     /\ UNCHANGED <<ends, lists, issue, listener>>

\* What the server makes sure of before it answers.
HelloValid(c, f) ==
  /\ ends[c].server \notin lists[ends[c].server]
  /\ f.contact.node \notin lists[ends[c].server]
  /\ f.proof = SignedBy(f.contact.node, "hello", HelloTranscript(f.contact, f.nonce, ChannelBinding(c)))

\* authenticate_inbound up to its answer.
AnswerClientHello(c, f) ==
  LET me == ends[c].server
      contact == ContactOf(me)
      seen == SeenFrom(c, "client")
      over == Transcript(f.contact, contact, f.nonce, ServerNonce(c), ChannelBinding(c), seen)
  IN /\ listener[c] = Waiting
     /\ f.type = "client hello"
     /\ IF ~HelloValid(c, f)
        THEN Step(listener, c, Refused) /\ UNCHANGED frame
        ELSE /\ Step(listener, c, [at |-> "answered", peer |-> f.contact,
                                   nonce |-> f.nonce, over |-> over])
             /\ frame' = frame \cup
                  {ServerHello(contact, f.nonce, ServerNonce(c), seen,
                               ClaimBy(me, f.contact.node, seen), SignedBy(me, "server", over))}
     /\ UNCHANGED <<ends, lists, issue, dialer>>

\* What the client makes sure of before it proves itself.
ServerValid(c, f) ==
  /\ f.nonce = ClientNonce(c)
  /\ f.contact.node = ends[c].dialled
  /\ f.contact.node \notin lists[ends[c].client]
  /\ f.proof = SignedBy(f.contact.node, "server",
                 Transcript(dialer[c].contact, f.contact, f.nonce, f.challenge,
                            ChannelBinding(c), f.seen))
  /\ f.claim = ClaimBy(f.contact.node, ends[c].client, f.seen)

ProveClient(c, f) ==
  LET me == ends[c].client
      seen == SeenFrom(c, "server")
      base == Transcript(dialer[c].contact, f.contact, f.nonce, f.challenge,
                         ChannelBinding(c), f.seen)
  IN /\ dialer[c].at = "hello"
     /\ f.type = "server hello"
     /\ IF ~ServerValid(c, f)
        THEN Step(dialer, c, Refused) /\ UNCHANGED frame
        ELSE /\ Step(dialer, c, [at |-> "proved", contact |-> dialer[c].contact,
                                 peer |-> f.contact, claim |-> f.claim])
             /\ frame' = frame \cup
                  {ClientProof(f.challenge, seen, ClaimBy(me, f.contact.node, seen),
                               SignedBy(me, "client", ClientTranscript(base, seen)))}
     /\ UNCHANGED <<ends, lists, issue, listener>>

\* What the server makes sure of before it acknowledges.
ClientValid(c, f) ==
  /\ f.challenge = ServerNonce(c)
  /\ f.proof = SignedBy(listener[c].peer.node, "client",
                 ClientTranscript(listener[c].over, f.seen))
  /\ f.claim = ClaimBy(listener[c].peer.node, ends[c].server, f.seen)

Acknowledge(c, f) ==
  /\ listener[c].at = "answered"
  /\ f.type = "client proof"
  /\ IF ~ClientValid(c, f)
     THEN Step(listener, c, Refused) /\ UNCHANGED frame
     ELSE /\ Step(listener, c, [at |-> "done", peer |-> listener[c].peer,
                                claim |-> f.claim])
          /\ frame' = frame \cup {ServerAck(listener[c].nonce)}
  /\ UNCHANGED <<ends, lists, issue, dialer>>

ReadAck(c, f) ==
  /\ dialer[c].at = "proved"
  /\ f.type = "ack"
  /\ Step(dialer, c, IF f.nonce = ClientNonce(c)
                     THEN [dialer[c] EXCEPT !.at = "done"] ELSE Refused)
  /\ UNCHANGED <<ends, lists, issue, frame, listener>>

\* The stream breaks, or one of the timeouts ends the exchange.
GivesUp(c) ==
  /\ \/ dialer[c].at \notin {"done", "failed"} /\ Step(dialer, c, Refused) /\ UNCHANGED listener
     \/ listener[c].at \notin {"done", "failed"} /\ Step(listener, c, Refused) /\ UNCHANGED dialer
  /\ UNCHANGED <<ends, lists, issue, frame>>

\* The device signs a new contact; sessions under way keep the old one.
RenewContact(d) ==
  /\ issue[d] < MaxRenewed
  /\ issue' = [issue EXCEPT ![d] = @ + 1]
  /\ UNCHANGED <<ends, lists, frame, dialer, listener>>

HandshakeNext ==
  \/ \E c \in Channel :
       \/ SendClientHello(c) \/ GivesUp(c)
       \/ \E f \in frame : \/ AnswerClientHello(c, f) \/ ProveClient(c, f)
                           \/ Acknowledge(c, f) \/ ReadAck(c, f)
  \/ \E d \in Party : RenewContact(d)

HandshakeSpec == HandshakeInit /\ [][HandshakeNext]_handshakeVars

-----------------------------------------------------------------------------

(***************************************************************************)
(* A side that reports success is right about the other one: it is the     *)
(* computer at the far end of this very TLS session, under the contact     *)
(* that computer presented on it, with the address that computer observed; *)
(* and the client succeeds only after the server did.  It holds although   *)
(* frames of one session are read on another ("replay on another TLS       *)
(* session", authenticate_outbound).                                       *)
(***************************************************************************)
SidesAgree ==
  \A c \in Channel :
    /\ dialer[c].at = "done" =>
         /\ dialer[c].peer.node = ends[c].server
         /\ dialer[c].claim = ClaimBy(ends[c].server, ends[c].client, SeenFrom(c, "client"))
         /\ listener[c].at = "done"
         /\ listener[c].peer = dialer[c].contact
    /\ listener[c].at = "done" =>
         /\ listener[c].peer.node = ends[c].client
         /\ listener[c].claim = ClaimBy(ends[c].client, ends[c].server, SeenFrom(c, "server"))
         /\ dialer[c].at \in {"proved", "done"} => dialer[c].contact = listener[c].peer

(***************************************************************************)
(* Nobody succeeds with a device its own list revokes, nor while revoked   *)
(* by it, and a client only with the device it dialled: an address that    *)
(* now belongs to another member yields no session under that member's     *)
(* name (the checks after each hello).                                     *)
(***************************************************************************)
ExpectedAndAllowed ==
  \A c \in Channel :
    /\ dialer[c].at = "done" =>
         /\ dialer[c].peer.node = ends[c].dialled
         /\ lists[ends[c].client] \cap {ends[c].client, dialer[c].peer.node} = {}
    /\ listener[c].at = "done" =>
         lists[ends[c].server] \cap {ends[c].server, listener[c].peer.node} = {}

(***************************************************************************)
(* Why: every frame was written at one end of one session c, signed over   *)
(* that session's exporter, and says what that end knows of it.            *)
(***************************************************************************)
HelloOf(c, f) ==
  /\ f.type = "client hello" /\ f.nonce = ClientNonce(c)
  /\ f.proof.over[3] = ChannelBinding(c)
  /\ f.contact.node = ends[c].client
  /\ dialer[c].at # "start"
  /\ dialer[c].at \in {"hello", "proved", "done"} => dialer[c].contact = f.contact

AnswerOf(c, f) ==
  /\ f.type = "server hello" /\ f.seen = SeenFrom(c, "client")
  /\ f.proof.by = ends[c].server /\ f.proof.over[5] = ChannelBinding(c)

ProofOf(c, f) ==
  /\ f.type = "client proof" /\ f.seen = SeenFrom(c, "server")
  /\ f.proof.by = ends[c].client /\ f.proof.over[1][5] = ChannelBinding(c)

AckOf(c, f) == f.type = "ack" /\ f.nonce = ClientNonce(c) /\ listener[c].at = "done"

Genuine(f) ==
  \E c \in Channel : HelloOf(c, f) \/ AnswerOf(c, f) \/ ProofOf(c, f) \/ AckOf(c, f)

\* What either side may rely on at each point of the exchange.
DialerKnows(c) ==
  /\ dialer[c].at \in {"start", "failed", "hello", "proved", "done"}
  /\ dialer[c].at \in {"hello", "proved", "done"} =>
       /\ dialer[c].contact.node = ends[c].client
       /\ lists[ends[c].client] \cap {ends[c].client, ends[c].dialled} = {}
  /\ dialer[c].at \in {"proved", "done"} =>
       /\ dialer[c].peer.node = ends[c].server /\ dialer[c].peer.node = ends[c].dialled
       /\ dialer[c].claim = ClaimBy(ends[c].server, ends[c].client, SeenFrom(c, "client"))
  /\ dialer[c].at = "done" => listener[c].at = "done"

ListenerKnows(c) ==
  /\ listener[c].at \in {"start", "failed", "answered", "done"}
  /\ listener[c].at \in {"answered", "done"} =>
       /\ listener[c].peer.node = ends[c].client
       /\ lists[ends[c].server] \cap {ends[c].server, ends[c].client} = {}
       /\ dialer[c].at # "start"
       /\ dialer[c].at \in {"hello", "proved", "done"} => dialer[c].contact = listener[c].peer
  /\ listener[c].at = "answered" =>
       /\ listener[c].nonce = ClientNonce(c)
       /\ listener[c].over[5] = ChannelBinding(c)
  /\ listener[c].at = "done" =>
       listener[c].claim = ClaimBy(ends[c].client, ends[c].server, SeenFrom(c, "server"))

HandshakeInvariant ==
  /\ ends \in [Channel -> SessionEnds] /\ lists \in [Party -> SUBSET Outcast] /\ issue \in [Party -> Nat]
  /\ DOMAIN dialer = Channel /\ DOMAIN listener = Channel
  /\ \A f \in frame : Genuine(f)
  /\ \A c \in Channel : DialerKnows(c) /\ ListenerKnows(c)

\* A session that either side reports is with the computer it names, on this
\* channel, and one that both lists allow.
HandshakeIsSound == HandshakeInvariant /\ SidesAgree /\ ExpectedAndAllowed
=============================================================================
