----------------------------- MODULE MCJackpot -----------------------------
(***************************************************************************)
(* Values of the constants of Jackpot that a configuration file cannot     *)
(* write itself.                                                           *)
(***************************************************************************)
EXTENDS Jackpot

CONSTANTS p1, e1, e2, t1, t2, a1, a2, m1, m2, r1, k1, none

\* A config with a fee of one half, so that fees and payouts of small pots differ.
HalfFee(unit, duration, players, tickets, limit) ==
    [fee_bps |-> 5000, ticket_unit |-> unit, round_duration_sec |-> duration,
     min_participants |-> players, min_total_tickets |-> tickets,
     max_deposit_per_user |-> limit]

\* Two players are needed, a ticket costs one unit, deposits are not limited.
TwoPlayers == {HalfFee(1, 1, 2, 1, 0)}

\* Tickets of two units, so that deposits are rounded; at most three units each.
CoarseTickets == {HalfFee(2, 1, 2, 2, 3)}

NoUpdates == {}

\* The administrator lowers the minimum number of players, pauses, and asks for a fee of
\* more than the pot, which is refused.
SettingUpdates ==
    {[min_participants |-> 1], [paused |-> TRUE], [fee_bps |-> 20000]}

=============================================================================
