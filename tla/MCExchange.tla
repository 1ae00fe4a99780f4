------------------------------ MODULE MCExchange ------------------------------
(***************************************************************************)
(* The modules about what one computer takes from another one, for TLC: a  *)
(* session, an introduction, a tunnel, an update.  They share no state: a  *)
(* behaviour is one of the component that `part` names, and the others     *)
(* stay as they start.                                                     *)
(***************************************************************************)
EXTENDS MCUpdateLifecycle, UpdateReceipt, UpdateDelivery, UpdateTrust, Handshake, Admission, Rendezvous, Tunnels

VARIABLE part

\* Two permissions of one moment, of which the first expires earlier.
TheIssue == [p \in Permission |-> 0]
TheExpiry == [p \in Permission |-> IF p = "x" THEN 1 ELSE 2]

\* Four roots: the third signs with other keys and the fourth with the first
\* ones again.  Repositories with a role that goes back, one with a release
\* that does, and one with each file damaged.
TheRoleKeys == <<"k1", "k1", "k2", "k1">>

Repo(top, timestamp, snapshot, damage, rel) ==
    [top |-> top, timestamp |-> timestamp, snapshot |-> snapshot, targets |-> 1, release |-> rel, damage |-> damage]

TheRepositories ==
    {Repo(2, 3, 2, "none", 2), Repo(1, 2, 2, "none", 1), Repo(1, 1, 1, "none", 1),
     Repo(3, 1, 1, "snapshot", 1), Repo(4, 1, 2, "none", 2), Repo(4, 2, 1, "targets", 2),
     Repo(1, 1, 1, "root", 1), Repo(2, 2, 1, "target", 2), Repo(4, 2, 2, "timestamp", 2)}

\* Sessions a member may open, one of them to an address that changed hands.
TheSessionEnds ==
    {[client |-> "a", server |-> "b", dialled |-> "b"],
     [client |-> "c", server |-> "b", dialled |-> "a"],
     [client |-> "b", server |-> "a", dialled |-> "a"]}

\* TLC evaluates a definition once, but what replaces a constant every time.
MCIssuedAt == TheIssue
MCExpiresAt == TheExpiry
MCRoleKeys == TheRoleKeys
MCRepository == TheRepositories
MCSessionEnds == TheSessionEnds

-----------------------------------------------------------------------------

exchangeVars ==
    <<part, vars, receiptVars, deliveryVars, trustVars, handshakeVars, admissionVars, rendezvousVars, tunnelVars>>

ExchangeInit ==
    /\ part \in {"lifecycle", "receipt", "delivery", "trust", "handshake", "admission", "rendezvous", "tunnels"}
    /\ Init /\ ReceiptInit /\ DeliveryInit /\ TrustInit /\ HandshakeInit /\ AdmissionInit /\ RendezvousInit
    /\ TunnelsInit
    /\ part # "handshake" => ends = CHOOSE e \in [Channel -> SessionEnds] : TRUE
    /\ part # "handshake" => lists = [d \in Party |-> {}]

ExchangeNext ==
    /\ UNCHANGED part
    /\ \/ /\ part = "lifecycle" /\ Next
          /\ UNCHANGED <<receiptVars, deliveryVars, trustVars, handshakeVars, admissionVars, rendezvousVars, tunnelVars>>
       \/ /\ part = "receipt" /\ ReceiptNext
          /\ UNCHANGED <<vars, deliveryVars, trustVars, handshakeVars, admissionVars, rendezvousVars, tunnelVars>>
       \/ /\ part = "delivery" /\ DeliveryNext
          /\ UNCHANGED <<vars, receiptVars, trustVars, handshakeVars, admissionVars, rendezvousVars, tunnelVars>>
       \/ /\ part = "trust" /\ TrustNext
          /\ UNCHANGED <<vars, receiptVars, deliveryVars, handshakeVars, admissionVars, rendezvousVars, tunnelVars>>
       \/ /\ part = "handshake" /\ HandshakeNext
          /\ UNCHANGED <<vars, receiptVars, deliveryVars, trustVars, admissionVars, rendezvousVars, tunnelVars>>
       \/ /\ part = "admission" /\ AdmissionNext
          /\ UNCHANGED <<vars, receiptVars, deliveryVars, trustVars, handshakeVars, rendezvousVars, tunnelVars>>
       \/ /\ part = "rendezvous" /\ RendezvousNext
          /\ UNCHANGED <<vars, receiptVars, deliveryVars, trustVars, handshakeVars, admissionVars, tunnelVars>>
       \/ /\ part = "tunnels" /\ TunnelsNext
          /\ UNCHANGED <<vars, receiptVars, deliveryVars, trustVars, handshakeVars, admissionVars, rendezvousVars>>

ExchangeSpec == ExchangeInit /\ [][ExchangeNext]_exchangeVars

=============================================================================
