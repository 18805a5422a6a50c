----------------------------- MODULE CachePool -----------------------------
(***************************************************************************)
(* The cache region of the data thread (DataMemManager): SlotCap blocks of *)
(* equal size, addressed by linear probing from hashKey % SlotCap.  A      *)
(* block is claimed or refreshed by every frame of its measured object and *)
(* given back when it has not been refreshed for Ttl ticks.                *)
(*                                                                         *)
(* The tick is an unsigned counter that wraps at TickMod (2^32 in the      *)
(* code).  There is one region, (CELL, 1 s): the only one Init builds.     *)
(***************************************************************************)
EXTENDS Integers

CONSTANTS
    Keys,       \* hash keys of measured objects
    SlotCap,    \* blocks of the region
    Ttl,        \* kTtlPeriods * periodTicks
    TickMod     \* the tick counter wraps here

ASSUME CacheAssumption ==
    /\ Keys \subseteq Nat
    /\ SlotCap \in Nat \ {0} /\ Ttl \in Nat
    /\ TickMod \in Nat /\ TickMod > Ttl + 1

VARIABLES
    used, keys, lastTick,   \* per block: in use, its object, CacheHead.lastTick
    tick,                   \* DataFactory::m_tick
    idle                    \* history: ticks since the block was last acquired

poolVars == <<used, keys, lastTick, tick, idle>>

Slots == 0 .. SlotCap - 1
None == -1

PoolInit ==
    /\ used = [i \in Slots |-> FALSE]
    /\ keys = [i \in Slots |-> 0]
    /\ lastTick = [i \in Slots |-> 0]
    /\ tick = 0
    /\ idle = [i \in Slots |-> 0]

(* The block that key k probes at distance d from its home.                 *)
Probe(k, d) == (k + d) % SlotCap

(* The distances at which the probe for k stops: a free block, or its own.  *)
Stops(k) ==
    {d \in Slots : ~used[Probe(k, d)] \/ keys[Probe(k, d)] = k}

First(D) == CHOOSE d \in D : \A e \in D : d <= e

(* AcquireBlock's choice: the first stop, nothing when the region is full.  *)
Acquired(k) == IF Stops(k) = {} THEN None ELSE Probe(k, First(Stops(k)))

(* Faulty variant: the search runs backwards from the end of the probe.     *)
FindBlock_Backwards(k) ==
    LET own == {d \in Slots : used[Probe(k, d)] /\ keys[Probe(k, d)] = k} IN
    IF own = {} THEN None
    ELSE Probe(k, CHOOSE d \in own : \A e \in own : e <= d)

(* FindBlock: a free block ends the search.                                 *)
FindBlock(k) ==
    LET s == Acquired(k) IN IF s = None \/ ~used[s] THEN None ELSE s

(* AcquireBlock: claim or refresh.  A block is handed out as it is: what    *)
(* its previous object left in it stays.                                    *)
AcquireBlock(k) ==
    LET s == Acquired(k) IN
    /\ IF s = None
         THEN UNCHANGED <<used, keys, lastTick, idle>>
         ELSE /\ used' = [used EXCEPT ![s] = TRUE]
              /\ keys' = [keys EXCEPT ![s] = k]
              /\ lastTick' = [lastTick EXCEPT ![s] = tick]
              /\ idle' = [idle EXCEPT ![s] = 0]
    /\ UNCHANGED tick

(* Faulty variant: the age is compared as a signed difference, so that it   *)
(* is negative after the counter has wrapped.                               *)
Expired_Signed(i, now) == now - lastTick[i] > Ttl

(* Faulty variant: a block is given back one tick early.                    *)
Expired_Early(i, now) == (now - lastTick[i]) % TickMod >= Ttl

(* Not refreshed for more than Ttl ticks, in unsigned arithmetic.           *)
Expired(i, now) == (now - lastTick[i]) % TickMod > Ttl

(* DataFactory::OnTick: advance the tick and EvictExpired.                  *)
OnTick ==
    LET now == (tick + 1) % TickMod IN
    /\ tick' = now
    /\ used' = [i \in Slots |-> used[i] /\ ~Expired(i, now)]
    /\ idle' = [i \in Slots |-> IF used'[i] THEN idle[i] + 1 ELSE 0]
    /\ UNCHANGED <<keys, lastTick>>

PoolNext == OnTick \/ \E k \in Keys : AcquireBlock(k)

PoolSpec == PoolInit /\ [][PoolNext]_poolVars

-----------------------------------------------------------------------------
(* Properties.                                                              *)

(* Every variable has its type.                                             *)
PoolTypeOK ==
    /\ used \in [Slots -> BOOLEAN]
    /\ keys \in [Slots -> Nat]
    /\ lastTick \in [Slots -> 0 .. TickMod - 1]
    /\ tick \in 0 .. TickMod - 1
    /\ idle \in [Slots -> Nat]

Holds(i, k) == used[i] /\ keys[i] = k

(* An object that eviction has left with two blocks is served from the      *)
(* fresher one: the block the probe finds is never staler than another      *)
(* block of the same object, so that no frame is merged into dead data.     *)
FreshestFirst ==
    \A k \in Keys : FindBlock(k) # None =>
        \A i \in Slots : Holds(i, k) => idle[FindBlock(k)] <= idle[i]

(* No block outlives its time to live, also when the tick counter wraps:    *)
(* after a tick, a block in use was acquired at most Ttl ticks ago.         *)
TtlBound == \A i \in Slots : used[i] => idle[i] <= Ttl

(* No block is given back while it is fresh: a block that OnTick frees has  *)
(* gone Ttl ticks without an acquisition before it.                         *)
NoEarlyEviction ==
    [][\A i \in Slots : used[i] /\ ~used'[i] => idle[i] >= Ttl]_poolVars

(* One measured object has one block.                                       *)
OneBlockPerObject ==
    \A k \in Keys, i, j \in Slots : Holds(i, k) /\ Holds(j, k) => i = j
=============================================================================
