------------------------------ MODULE MCProgress ------------------------------
(***************************************************************************)
(* What must eventually happen, for TLC: an update is decided and the      *)
(* service returns, a queued delivery is resolved, and a revocation        *)
(* reaches the members.  The modules share no state: a behaviour is one of *)
(* the component that `part` names, and only that one is scheduled.        *)
(***************************************************************************)
EXTENDS MCUpdateLifecycle, UpdateDelivery, Gossip

VARIABLE part

\* Two computers that know each other.
TheLink == {{1, 2}}
TheIntroduced == <<{2}, {1}>>
MCLink == TheLink
MCIntroduced == TheIntroduced

progressVars == <<part, vars, deliveryVars, gossipVars>>

ProgressInit ==
    /\ part \in {"lifecycle", "delivery", "gossip"}
    /\ Init /\ DeliveryInit /\ GossipInit

ProgressNext ==
    /\ UNCHANGED part
    /\ \/ part = "lifecycle" /\ Next /\ UNCHANGED <<deliveryVars, gossipVars>>
       \/ part = "delivery" /\ DeliveryNext /\ UNCHANGED <<vars, gossipVars>>
       \/ part = "gossip" /\ GossipNext /\ UNCHANGED <<vars, deliveryVars>>

\* The service manager starts a supervisor that ended, a probation comes to its
\* end, and an operation that nobody kills runs to its end.
LifecycleFairness ==
    /\ WF_vars(part = "lifecycle" /\ JobStep)
    /\ WF_vars(part = "lifecycle" /\ SupervisorStep)

\* The service loop keeps driving and meets a free lock again and again, the
\* two timeouts end every attempt, the clock runs, a stopped service is
\* started again by its supervisor and an activation is resolved by its own.
DeliveryFairness ==
    /\ WF_deliveryVars(part = "delivery" /\ Drive(FALSE))
    /\ WF_deliveryVars(part = "delivery" /\ AttemptEnds("failed"))
    /\ WF_deliveryVars(part = "delivery" /\ Second)
    /\ WF_deliveryVars(part = "delivery" /\ ServiceStarts(FALSE))
    /\ WF_deliveryVars(part = "delivery" /\ ActivationEnds)

\* The service loop empties its queues in every pass, sessions exchange at an
\* interval, and members that can reach each other keep dialling.
ExchangeFairness ==
    /\ \A c \in Computer :
        /\ WF_gossipVars(part = "gossip" /\ PublishIf(c))
        /\ \A p \in Computer : {c, p} \in Link =>
            /\ WF_gossipVars(part = "gossip" /\ \E m \in arrived[c] : m.from = p /\ Process(c, m))
            /\ WF_gossipVars(part = "gossip" /\ \E m \in proved[c] : m.from = p /\ Admit(c, m))
    /\ WF_gossipVars(part = "gossip" /\ Connect(1, 2))
    /\ WF_gossipVars(part = "gossip" /\ Exchange(1, 2))

ProgressSpec ==
    /\ ProgressInit /\ [][ProgressNext]_progressVars
    /\ LifecycleFairness /\ DeliveryFairness /\ ExchangeFairness

=============================================================================
