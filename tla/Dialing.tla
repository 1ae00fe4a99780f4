------------------------------- MODULE Dialing -------------------------------
(***************************************************************************)
(* The recovery rounds of the service (service/retry_schedule.rs, the      *)
(* cursor of schedule_remembered_peer in service/live_session.rs and the   *)
(* dial branch of the service loop): one peer per round, a bounded batch   *)
(* of its addresses, and rounds that the members of a hive start together. *)
(* The clocks of the members are taken to agree.                           *)
(***************************************************************************)
EXTENDS Integers, Sequences, FiniteSets, SequencesExt, FiniteSetsExt

CONSTANTS
  Device,         \* the computers that run rounds
  Families,       \* peers (numbered) to the families of their addresses
  Slots,          \* MAX_DIAL_CANDIDATES_PER_ROUND
  RetryInterval,  \* the configured retry interval
  HiveOffset,     \* hive_offset_seed of the hive
  MaxShifts,      \* bound on the changes of the peers that need a dial
  LastTick        \* bound on time

VARIABLES
  tick,       \* the wall clock
  nextDial,   \* next_dial of each device
  inFlight,   \* outbound_in_flight of each device
  dialCursor, \* dial_cursor of each device
  lacking,    \* the peers each device has no session with
  tried,      \* addresses it dialled since those last changed
  rounds,     \* rounds since then
  shifts

dialingVars == <<tick, nextDial, inFlight, dialCursor, lacking, tried, rounds, shifts>>

ASSUME DialingAssumption ==
  /\ Slots \in Nat /\ Slots > 2
  /\ RetryInterval \in Nat \ {0} /\ HiveOffset \in Nat

DialPeers == DOMAIN Families

\* The first address, and the first of the other family, are in every batch.
Always(peer) ==
  LET other == {i \in DOMAIN Families[peer] : Families[peer][i] # Families[peer][1]}
  IN IF other = {} THEN <<1>> ELSE <<1, Min(other)>>

\* The remaining addresses take turns.
Rotating(peer) ==
  SelectSeq([i \in DOMAIN Families[peer] |-> i], LAMBDA i : ~Contains(Always(peer), i))

FreeSlots(peer) == Slots - Len(Always(peer))

CandidateBatch_Step(peer, cycle) ==
  LET tail == Rotating(peer)
      remaining == Len(tail)
      slots == FreeSlots(peer)
      offset == cycle % remaining
  IN ToSet(Always(peer)) \cup
     IF remaining <= slots THEN ToSet(tail)
     ELSE {tail[1 + ((offset + i) % remaining)] : i \in 0..(slots - 1)}

CandidateBatch(peer, cycle) ==
  LET tail == Rotating(peer)
      remaining == Len(tail)
      slots == FreeSlots(peer)
      offset == ((cycle % remaining) * slots) % remaining
  IN ToSet(Always(peer)) \cup
     IF remaining <= slots THEN ToSet(tail)
     ELSE {tail[1 + ((offset + i) % remaining)] : i \in 0..(slots - 1)}

\* The peer of a round, counted through the peers in order.
TargetOf(peers, round) == SetToSortSeq(peers, <)[1 + (round % Cardinality(peers))]

\* How often the cursor has been round all of them.
PeerCycle(peers, round) == round \div Cardinality(peers)

\* The time to the next boundary of the hive, never zero.
AlignedRetryDelay(now) ==
  LET offset == HiveOffset % RetryInterval
      phase == now % RetryInterval
  IN Max({1, IF phase < offset THEN offset - phase ELSE RetryInterval - (phase - offset)})

DialingInit ==
  /\ tick = 0
  /\ nextDial = [d \in Device |-> AlignedRetryDelay(0)]
  /\ inFlight = [d \in Device |-> FALSE]
  /\ dialCursor = [d \in Device |-> 0]
  /\ lacking = [d \in Device |-> DialPeers]
  /\ tried = [d \in Device |-> [p \in DialPeers |-> {}]]
  /\ rounds = [d \in Device |-> 0]
  /\ shifts = 0

Due(d) == tick >= nextDial[d] /\ ~inFlight[d]

(***************************************************************************)
(* The dial branch of the loop, with schedule_remembered_peer: a round     *)
(* when it is due and no attempt is in flight.  Without a peer to dial     *)
(* only the next boundary is set.                                          *)
(***************************************************************************)
RunRound(d) ==
  LET target == TargetOf(lacking[d], dialCursor[d])
      batch == CandidateBatch(target, PeerCycle(lacking[d], dialCursor[d]))
  IN /\ Due(d)
     /\ nextDial' = [nextDial EXCEPT ![d] = tick + AlignedRetryDelay(tick)]
     /\ IF lacking[d] = {}
        THEN UNCHANGED <<inFlight, dialCursor, tried, rounds>>
        ELSE /\ inFlight' = [inFlight EXCEPT ![d] = TRUE]
             /\ dialCursor' = [dialCursor EXCEPT ![d] = @ + 1]
             /\ tried' = [tried EXCEPT ![d][target] = @ \cup batch]
             /\ rounds' = [rounds EXCEPT ![d] = @ + 1]
     /\ UNCHANGED <<tick, lacking, shifts>>

\* Sessions are won or lost: other peers need a dial from now on.
LackingChanges(d) ==
  /\ shifts < MaxShifts
  /\ \E s \in SUBSET DialPeers \ {lacking[d]} : lacking' = [lacking EXCEPT ![d] = s]
  /\ tried' = [tried EXCEPT ![d] = [p \in DialPeers |-> {}]]
  /\ rounds' = [rounds EXCEPT ![d] = 0]
  /\ shifts' = shifts + 1
  /\ UNCHANGED <<tick, nextDial, inFlight, dialCursor>>

AttemptEnds(d) ==
  /\ inFlight[d]
  /\ inFlight' = [inFlight EXCEPT ![d] = FALSE]
  /\ UNCHANGED <<tick, nextDial, dialCursor, lacking, tried, rounds, shifts>>

\* A due round runs at once; one in flight may hold the next back.
TickPasses ==
  /\ tick < LastTick
  /\ \A d \in Device : ~Due(d)
  /\ tick' = tick + 1
  /\ UNCHANGED <<nextDial, inFlight, dialCursor, lacking, tried, rounds, shifts>>

DialingNext ==
  \/ \E d \in Device : RunRound(d) \/ LackingChanges(d) \/ AttemptEnds(d)
  \/ TickPasses

DialingSpec == DialingInit /\ [][DialingNext]_dialingVars

-----------------------------------------------------------------------------

Turns(peer) == (Len(Rotating(peer)) + FreeSlots(peer) - 1) \div FreeSlots(peer)

(***************************************************************************)
(* While the same peers lack a session, every address of each of them has  *)
(* been dialled once there were as many rounds as peers times the batches  *)
(* its tail fills, wherever the cursor stood when the set changed: no      *)
(* address is passed over by `candidate_batch`'s wrap-around or by the     *)
(* cycle that `schedule_remembered_peer` derives from the shared cursor.   *)
(***************************************************************************)
EveryAddressDialled ==
  \A d \in Device : \A p \in lacking[d] :
    rounds[d] >= Cardinality(lacking[d]) * Max({1, Turns(p)}) =>
      tried[d][p] = DOMAIN Families[p]

(***************************************************************************)
(* Two members waiting for their next round wait for the same instant,     *)
(* whatever delayed the last one: simultaneous attempts are what gets      *)
(* through two address translators (`aligned_retry_delay`).                *)
(***************************************************************************)
RoundsMeet ==
  \A d, e \in Device :
    nextDial[d] > tick /\ nextDial[e] > tick => nextDial[d] = nextDial[e]

\* The rounds of a hive meet, and together they try everything.
RoundsReachAll == EveryAddressDialled /\ RoundsMeet
=============================================================================
