---------------------------- MODULE GroupFounding ----------------------------
(***************************************************************************)
(* The founding of a threshold group: threshold/founding.rs and fresh_dkg  *)
(* of threshold/regroup.rs.                                                *)
(*                                                                         *)
(* run plays both rounds of the key generation for all devices and lets a  *)
(* channel change the packages after each round.  The arithmetic is the    *)
(* FROST library's and external: of a package only its origin matters.  A  *)
(* "foreign" package is a correct one of another sender, a "broken" one    *)
(* does not verify, a "missing" one has been taken out of the channel.     *)
(***************************************************************************)
EXTENDS Naturals, FiniteSets

CONSTANTS
    Device,              \* the devices, in roster order
    Quorum,              \* Parameters::k
    AcceptSingleLoss,    \* Parameters::accept_single_loss_failure
    MaxParticipants,     \* MAX_PARTICIPANTS
    MaxChanged           \* packages the channel changes

VARIABLES
    stage,    \* how far run has come
    round1,   \* the broadcast packages, by sender
    round2,   \* the private packages, by sender and recipient
    group     \* the descriptor each output holds

foundingVars == <<stage, round1, round2, group>>

Origin == {"own", "foreign", "broken", "missing"}

Route == {r \in Device \X Device : r[1] # r[2]}

\* Parameters::validate, and the roster that run demands.
ParametersValid ==
    /\ Quorum # 0 /\ Quorum <= Cardinality(Device) /\ Cardinality(Device) <= MaxParticipants
    /\ Cardinality(Device) < Quorum + 1 => AcceptSingleLoss
    /\ Quorum # 1

FoundingInit ==
    /\ stage = "start"
    /\ round1 = [d \in Device |-> "missing"]
    /\ round2 = [r \in Route |-> "missing"]
    /\ group = [d \in Device |-> {}]

\* part1 of every device, with its broadcast in the channel.
BroadcastRound1 ==
    /\ stage = "start"
    /\ IF ParametersValid
       THEN stage' = "exchange1" /\ round1' = [d \in Device |-> "own"]
       ELSE stage' = "failed" /\ UNCHANGED round1
    /\ UNCHANGED <<round2, group>>

\* What the channel may make of the packages of a round.
Changed(before, after) == Cardinality({x \in DOMAIN before : after[x] # before[x]})

\* External, frost part2: a device refuses a broadcast that does not verify.
Part2Accepts(d) == \A s \in Device \ {d} : round1[s] # "broken"

\* The first exchange and part2 of every device: any refusal ends the run.
Exchange1 ==
    /\ stage = "exchange1"
    /\ \E after \in [Device -> Origin] :
          /\ Changed(round1, after) <= MaxChanged
          /\ round1' = after
    /\ stage' = "part2"
    /\ UNCHANGED <<round2, group>>

SendRound2 ==
    /\ stage = "part2"
    /\ IF (\A d \in Device : round1[d] # "missing") /\ (\A d \in Device : Part2Accepts(d))
       THEN stage' = "exchange2" /\ round2' = [r \in Route |-> "own"]
       ELSE stage' = "failed" /\ UNCHANGED round2
    /\ UNCHANGED <<round1, group>>

Exchange2 ==
    /\ stage = "exchange2"
    /\ \E after \in [Route -> Origin] :
          /\ Changed(round2, after) + Cardinality({d \in Device : round1[d] # "own"}) <= MaxChanged
          /\ round2' = after
    /\ stage' = "part3"
    /\ UNCHANGED <<round1, group>>

\* External, frost part3: a private package has to fit the broadcast of its
\* sender as the recipient has it.
Part3Accepts(d) == \A s \in Device \ {d} : round2[<<s, d>>] = round1[s]

\* Whose contributions a device's descriptor is made of: its own one is not
\* taken from the channel.
Descriptor(d) == [s \in Device |-> IF s = d THEN "own" ELSE round1[s]]

\* Faulty variant: the descriptor of the first output is everybody's.
Agreed_First(g) == TRUE

\* Group::descriptor.
Agreed(g) == \A d, e \in Device : g[d] = g[e]

\* part3 of every device, its descriptor, and the comparison of all of them.
Finish ==
    /\ stage = "part3"
    /\ LET outputs == [d \in Device |-> Descriptor(d)] IN
       IF /\ \A r \in Route : round2[r] # "missing"
          /\ \A d \in Device : Part3Accepts(d)
          /\ Agreed(outputs)
       THEN stage' = "founded" /\ group' = outputs
       ELSE stage' = "failed" /\ UNCHANGED group
    /\ UNCHANGED <<round1, round2>>

FoundingNext == BroadcastRound1 \/ Exchange1 \/ SendRound2 \/ Exchange2 \/ Finish

FoundingSpec == FoundingInit /\ [][FoundingNext]_foundingVars

-----------------------------------------------------------------------------
(* Properties *)

\* A group is only returned with the contribution of every device in every
\* device's descriptor: whatever the channel exchanged, nobody's key is made
\* of a package that its sender did not make (run, Group::descriptor).
FoundedIsGenuine ==
    stage = "founded" => \A d, s \in Device : group[d][s] = "own"

=============================================================================
