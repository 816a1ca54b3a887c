---------------------------- MODULE LendingPool ----------------------------
(***************************************************************************)
(* What the demo's pool promises, as if nothing ever waited: it opens with *)
(* the seed, a deposit or a withdrawal moves one amount, in the pool, in   *)
(* the position and in the history at once, a withdrawal takes at most     *)
(* what the position has, and a reset closes it.                           *)
(***************************************************************************)
EXTENDS Integers, Sequences

CONSTANTS SEED, Amounts

VARIABLE pool   \* its size (0 while it is closed), the position, the history

Closed == [tvl |-> 0, deposited |-> 0, lp |-> <<>>]

Open == pool.tvl = 0 /\ pool' = [Closed EXCEPT !.tvl = SEED]

Move(n) ==
    /\ pool.tvl # 0
    /\ pool' = [tvl |-> pool.tvl + n, deposited |-> pool.deposited + n,
                lp |-> <<n>> \o pool.lp]
Deposit == \E a \in Amounts : Move(a)
Withdraw == \E a \in 1 .. pool.deposited : Move(-a)

Close == pool' = Closed

PoolNext == Open \/ Deposit \/ Withdraw \/ Close
PoolSpec == pool = Closed /\ [][PoolNext]_pool
=============================================================================
