------------------------- MODULE DataFactoryProofs -------------------------
(***************************************************************************)
(* Theorems about the cache region, for every number of blocks, every set  *)
(* of keys, every time to live and every width of the tick counter, and    *)
(* about the data thread that uses it: what is proved of the region holds  *)
(* of the data thread, and its reports hold their own frames' slices.      *)
(***************************************************************************)
EXTENDS DataFactory, WellFoundedInduction, FiniteSetTheorems, TLAPS

(* The stored tick tells a block's true age: the unsigned difference of the *)
(* wrapping counters is the number of ticks since the block was acquired.   *)
AgeInv ==
    \A i \in Slots : used[i] => /\ idle[i] = (tick - lastTick[i]) % TickMod
                                /\ idle[i] <= Ttl

PoolInv == PoolTypeOK /\ AgeInv

(* One tick later, a block's age is one more as long as it is below the     *)
(* width of the counter, whether or not the counter wraps at this tick.     *)
LEMMA AgeOneTickLater ==
    ASSUME NEW M \in Nat \ {0}, NEW t \in 0 .. M - 1, NEW l \in 0 .. M - 1,
           ((t - l) % M) + 1 < M
    PROVE  (((t + 1) % M) - l) % M = ((t - l) % M) + 1
  <1>1. CASE l <= t
    <2>1. (t - l) % M = t - l
      BY <1>1
    <2>2. CASE t + 1 < M
      BY <1>1, <2>1, <2>2
    <2>3. CASE t + 1 = M
      <3>1. (t + 1) % M = 0
        BY <2>3
      <3>2. l # 0
        BY <2>1, <2>3
      <3>3. (0 - l) % M = M - l
        BY <3>2
      <3> QED
        BY <2>1, <2>3, <3>1, <3>3
    <2> QED
      BY <2>2, <2>3
  <1>2. CASE l > t
    <2>1. (t - l) % M = M + t - l
      BY <1>2
    <2>2. t + 1 < M /\ t + 1 # l
      BY <1>2, <2>1
    <2>3. (t + 1) % M = t + 1
      BY <2>2
    <2>4. (t + 1 - l) % M = M + t + 1 - l
      BY <1>2, <2>2
    <2> QED
      BY <2>1, <2>3, <2>4
  <1> QED
    BY <1>1, <1>2

(* A set of distances has a first one, the place where a probe stops.       *)
LEMMA FirstIsFirst ==
    ASSUME NEW D, D \subseteq Nat, D # {}
    PROVE  First(D) \in D /\ \A e \in D : First(D) <= e
  <1> DEFINE R == OpToRel(<, Nat)
  <1>1. \E d \in D : \A e \in D : ~(<<e, d>> \in R)
    <2>1. IsWellFoundedOn(R, Nat)
      BY NatLessThanWellFounded
    <2> HIDE DEF R
    <2> QED
      BY <2>1, WFMin
  <1>2. PICK d \in D : \A e \in D : ~(<<e, d>> \in R)
    BY <1>1
  <1>3. \A e \in D : d <= e
    <2> SUFFICES ASSUME NEW e \in D PROVE d <= e
      OBVIOUS
    <2>1. e \in Nat /\ d \in Nat
      OBVIOUS
    <2>2. R = {ss \in Nat \X Nat : ss[1] < ss[2]}
      BY DEF OpToRel
    <2> HIDE DEF R
    <2>3. <<e, d>> \notin R
      BY <1>2
    <2>4. e < d => <<e, d>> \in R
      BY <2>1, <2>2
    <2> QED
      BY <2>1, <2>3, <2>4
  <1> QED
    BY <1>3 DEF First

(* The probe from k, in terms of k's home block: it runs up to the end of   *)
(* the region and goes on at its beginning.                                 *)
LEMMA ProbeWraps ==
    ASSUME NEW k \in Nat, NEW d \in Slots
    PROVE  /\ k % SlotCap \in Slots
           /\ Probe(k, d) = IF (k % SlotCap) + d < SlotCap
                              THEN (k % SlotCap) + d
                              ELSE (k % SlotCap) + d - SlotCap
  <1> DEFINE q == k \div SlotCap
             h == k % SlotCap
             S == SlotCap
  <1>1. S \in Nat /\ S > 0 /\ d \in 0 .. S - 1
    BY CacheAssumption DEF Slots
  <1>2. q \in Int /\ h \in 0 .. S - 1 /\ k = q * S + h
    BY <1>1
  <1>3. Probe(k, d) = (k + d) % S
    BY DEF Probe
  <1>4. ASSUME NEW r \in 0 .. S - 1, NEW p \in Int, k + d = p * S + r
        PROVE  Probe(k, d) = r
    <2> DEFINE x == k + d
               qx == x \div S
               rx == x % S
    <2>1. qx \in Int /\ rx \in 0 .. S - 1 /\ x = qx * S + rx
      BY <1>1
    <2>2. rx - r = (p - qx) * S
      <3> HIDE DEF qx, rx, S
      <3> QED
        BY <1>1, <1>4, <2>1
    <2> DEFINE g == p - qx
    <2>3. g \in Int /\ rx - r = g * S
      BY <2>1, <2>2
    <2>4. rx - r < S /\ rx - r > 0 - S
      <3> HIDE DEF qx, rx, S
      <3> QED
        BY <1>1, <2>1
    <2>5. g < 1 /\ g > -1
      <3> HIDE DEF g, rx, S
      <3> QED
        BY <1>1, <2>3, <2>4, <2>1
    <2>6. rx = r
      <3>1. g = 0
        <4> HIDE DEF g
        <4> QED
          BY <2>3, <2>5
      <3> HIDE DEF g, rx, S
      <3> QED
        BY <1>1, <2>1, <2>3, <3>1
    <2> QED
      BY <1>3, <2>6
  <1> HIDE DEF q, h
  <1>5. CASE h + d < S
    <2>1. k + d = q * S + (h + d) /\ h + d \in 0 .. S - 1
      BY <1>1, <1>2, <1>5
    <2>2. Probe(k, d) = h + d
      BY <1>2, <1>4, <2>1
    <2> QED
      BY <1>2, <1>5, <2>2 DEF h, Slots
  <1>6. CASE h + d >= S
    <2>1. k + d = (q + 1) * S + (h + d - S) /\ h + d - S \in 0 .. S - 1
      BY <1>1, <1>2, <1>6
    <2>2. Probe(k, d) = h + d - S
      BY <1>2, <1>4, <2>1
    <2> QED
      BY <1>1, <1>2, <1>6, <2>2 DEF h, Slots
  <1> QED
    BY <1>1, <1>2, <1>5, <1>6

(* A probe visits every block of the region exactly once.                   *)
LEMMA ProbeOnce ==
    ASSUME NEW k \in Nat
    PROVE  /\ \A d \in Slots : Probe(k, d) \in Slots
           /\ \A d, e \in Slots : Probe(k, d) = Probe(k, e) => d = e
           /\ \A i \in Slots : \E d \in Slots : Probe(k, d) = i
  <1> DEFINE h == k % SlotCap
  <1>1. SlotCap \in Nat /\ SlotCap > 0 /\ 0 \in Slots
    BY CacheAssumption DEF Slots
  <1>2. h \in Slots
    BY <1>1, ProbeWraps
  <1>3. \A d \in Slots : Probe(k, d) = IF h + d < SlotCap THEN h + d
                                       ELSE h + d - SlotCap
    BY ProbeWraps
  <1> HIDE DEF h
  <1>4. \A d \in Slots : Probe(k, d) \in Slots
    BY <1>1, <1>2, <1>3 DEF Slots
  <1>5. \A d, e \in Slots : Probe(k, d) = Probe(k, e) => d = e
    BY <1>1, <1>2, <1>3 DEF Slots
  <1>6. ASSUME NEW i \in Slots PROVE \E d \in Slots : Probe(k, d) = i
    <2>1. CASE i >= h
      <3>1. i - h \in Slots /\ h + (i - h) < SlotCap
        BY <1>1, <1>2, <2>1 DEF Slots
      <3> QED
        BY <1>1, <1>2, <1>3, <3>1 DEF Slots
    <2>2. CASE i < h
      <3>1. i - h + SlotCap \in Slots
        BY <1>1, <1>2, <2>2 DEF Slots
      <3> QED
        BY <1>1, <1>2, <1>3, <3>1, <2>2 DEF Slots
    <2> QED
      BY <1>2, <2>1, <2>2 DEF Slots
  <1> QED
    BY <1>4, <1>5, <1>6

-----------------------------------------------------------------------------
(* Type correctness and the age of blocks.                                  *)

(* Every step of the data thread keeps the types and the ages.              *)
LEMMA StepAge == PoolInv /\ [PoolNext]_poolVars => PoolInv'
  <1> SUFFICES ASSUME PoolInv, [PoolNext]_poolVars PROVE PoolInv'
    OBVIOUS
  <1>t. /\ used \in [Slots -> BOOLEAN] /\ keys \in [Slots -> Nat]
        /\ lastTick \in [Slots -> 0 .. TickMod - 1]
        /\ tick \in 0 .. TickMod - 1 /\ idle \in [Slots -> Nat]
    BY DEF PoolInv, PoolTypeOK
  <1>a. \A i \in Slots : used[i] => /\ idle[i] = (tick - lastTick[i]) % TickMod
                                    /\ idle[i] <= Ttl
    BY DEF PoolInv, AgeInv
  <1>c. TickMod \in Nat \ {0} /\ Ttl \in Nat /\ TickMod > Ttl + 1
    BY CacheAssumption
  <1>1. ASSUME OnTick PROVE PoolInv'
    <2> DEFINE now == (tick + 1) % TickMod
    <2>1. now \in 0 .. TickMod - 1
      BY <1>t, <1>c
    <2>2. tick' = now /\ keys' = keys /\ lastTick' = lastTick
      BY <1>1 DEF OnTick
    <2>3. \A i \in Slots : used'[i] = (used[i] /\ ~Expired(i, now))
      BY <1>1 DEF OnTick
    <2>4. \A i \in Slots : idle'[i] = IF used'[i] THEN idle[i] + 1 ELSE 0
      BY <1>1 DEF OnTick
    <2>5. used' \in [Slots -> BOOLEAN]
      BY <1>1, <1>t DEF OnTick
    <2>6. idle' \in [Slots -> Nat]
      <3>1. idle' = [i \in Slots |-> IF used'[i] THEN idle[i] + 1 ELSE 0]
        BY <1>1 DEF OnTick
      <3> QED
        BY <3>1, <1>t
    <2> HIDE DEF now
    <2>7. ASSUME NEW i \in Slots, used'[i]
          PROVE  idle'[i] = (now - lastTick[i]) % TickMod /\ idle'[i] <= Ttl
      <3>1. used[i] /\ ~Expired(i, now)
        BY <2>3, <2>7
      <3>2. idle[i] = (tick - lastTick[i]) % TickMod /\ idle[i] <= Ttl
        BY <3>1, <1>a
      <3>3. (now - lastTick[i]) % TickMod = idle[i] + 1
        <4>1. lastTick[i] \in 0 .. TickMod - 1
          BY <1>t
        <4>2. ((tick - lastTick[i]) % TickMod) + 1 < TickMod
          BY <3>2, <1>c, <1>t
        <4> QED
          BY <4>1, <4>2, <3>2, <1>c, <1>t, AgeOneTickLater DEF now
      <3>4. (now - lastTick[i]) % TickMod <= Ttl
        BY <3>1, <3>3, <1>t, <1>c DEF Expired
      <3> QED
        BY <2>4, <2>7, <3>3, <3>4
    <2> QED
      BY <2>1, <2>2, <2>5, <2>6, <2>7, <1>t DEF PoolInv, PoolTypeOK, AgeInv
  <1>2. ASSUME NEW k \in Keys, AcquireBlock(k) PROVE PoolInv'
    <2>1. tick' = tick
      BY <1>2 DEF AcquireBlock
    <2>2. CASE Acquired(k) = None
      BY <1>2, <2>1, <2>2, <1>t, <1>a DEF AcquireBlock, PoolInv, PoolTypeOK, AgeInv
    <2>3. CASE Acquired(k) # None
      <3> DEFINE s == Acquired(k)
      <3>1. /\ used' = [used EXCEPT ![s] = TRUE]
            /\ keys' = [keys EXCEPT ![s] = k]
            /\ lastTick' = [lastTick EXCEPT ![s] = tick]
            /\ idle' = [idle EXCEPT ![s] = 0]
        BY <1>2, <2>3 DEF AcquireBlock
      <3> HIDE DEF s
      <3>2. k \in Nat
        BY CacheAssumption
      <3>3. PoolTypeOK'
        BY <2>1, <3>1, <3>2, <1>t DEF PoolTypeOK
      <3>4. ASSUME NEW i \in Slots, used'[i]
            PROVE  /\ idle'[i] = (tick - lastTick'[i]) % TickMod
                   /\ idle'[i] <= Ttl
        <4>1. CASE i = s
          <5>1. idle'[i] = 0 /\ lastTick'[i] = tick
            BY <3>1, <4>1, <1>t
          <5>2. (tick - tick) % TickMod = 0
            BY <1>t, <1>c
          <5> QED
            BY <5>1, <5>2, <1>c
        <4>2. CASE i # s
          BY <3>1, <3>4, <4>2, <1>t, <1>a
        <4> QED
          BY <4>1, <4>2
      <3> QED
        BY <2>1, <3>3, <3>4 DEF PoolInv, AgeInv
    <2> QED
      BY <2>2, <2>3
  <1>3. CASE UNCHANGED poolVars
    BY <1>3, <1>t, <1>a DEF poolVars, PoolInv, PoolTypeOK, AgeInv
  <1> QED
    BY <1>1, <1>2, <1>3 DEF PoolNext

(* The region starts with no block in use.                                  *)
LEMMA InitAge == PoolInit => PoolInv
  <1> SUFFICES ASSUME PoolInit PROVE PoolInv
    OBVIOUS
  <1>1. TickMod \in Nat /\ TickMod > 0
    BY CacheAssumption
  <1> QED
    BY <1>1 DEF PoolInit, PoolInv, PoolTypeOK, AgeInv

(* The region keeps its types, the ages of its blocks included.             *)
THEOREM PoolTypeCorrect == PoolSpec => []PoolTypeOK
  <1>1. PoolInv => PoolTypeOK
    BY DEF PoolInv
  <1> QED
    BY <1>1, InitAge, StepAge, PTL DEF PoolSpec

(* EvictExpired lets no block outlive its time to live, for every region,   *)
(* time to live and counter width that leaves room for one tick more.       *)
THEOREM TtlHolds == PoolSpec => []TtlBound
  <1>1. PoolInv => TtlBound
    BY DEF PoolInv, AgeInv, TtlBound
  <1> QED
    BY <1>1, InitAge, StepAge, PTL DEF PoolSpec

(* EvictExpired gives no block back before its time.                        *)
THEOREM EvictedOnlyWhenStale == PoolSpec => NoEarlyEviction
  <1>1. PoolInv /\ [PoolNext]_poolVars
        => [\A i \in Slots : used[i] /\ ~used'[i] => idle[i] >= Ttl]_poolVars
    <2> SUFFICES ASSUME PoolInv, [PoolNext]_poolVars,
                        NEW i \in Slots, used[i], ~used'[i]
                 PROVE  idle[i] >= Ttl
      OBVIOUS
    <2>t. /\ used \in [Slots -> BOOLEAN] /\ idle \in [Slots -> Nat]
          /\ lastTick \in [Slots -> 0 .. TickMod - 1] /\ tick \in 0 .. TickMod - 1
          /\ idle[i] = (tick - lastTick[i]) % TickMod /\ idle[i] <= Ttl
          /\ TickMod \in Nat \ {0} /\ Ttl \in Nat /\ TickMod > Ttl + 1
      BY CacheAssumption DEF PoolInv, PoolTypeOK, AgeInv
    <2>1. CASE OnTick
      <3> DEFINE now == (tick + 1) % TickMod
      <3>1. Expired(i, now)
        BY <2>1 DEF OnTick
      <3>2. (now - lastTick[i]) % TickMod = idle[i] + 1
        <4>1. lastTick[i] \in 0 .. TickMod - 1
          BY <2>t
        <4>2. ((tick - lastTick[i]) % TickMod) + 1 < TickMod
          BY <2>t
        <4> QED
          BY <4>1, <4>2, <2>t, AgeOneTickLater
      <3> QED
        BY <3>1, <3>2, <2>t DEF Expired
    <2>2. ASSUME NEW k \in Keys, AcquireBlock(k) PROVE FALSE
      BY <2>2, <2>t DEF AcquireBlock
    <2>3. CASE UNCHANGED poolVars
      BY <2>3 DEF poolVars
    <2> QED
      BY <2>1, <2>2, <2>3 DEF PoolNext
  <1> QED
    BY <1>1, InitAge, StepAge, PTL DEF PoolSpec, NoEarlyEviction

-----------------------------------------------------------------------------
(* Two blocks of one object.                                                *)

(* Of two blocks of one object, the one the probe meets first is the        *)
(* fresher.  FreshestFirst itself is not inductive: it says nothing of the  *)
(* blocks that lie behind the one the probe finds, one of which it finds    *)
(* when that one has been given back.                                       *)
NearerIsFresher ==
    \A k \in Keys : \A d, e \in Slots :
        d < e /\ Holds(Probe(k, d), k) /\ Holds(Probe(k, e), k)
            => idle[Probe(k, d)] <= idle[Probe(k, e)]

(* A probe that stops stops at a block of the region, and behind no other   *)
(* place where it might have stopped (the loop of AcquireBlock).            *)
LEMMA StopsFirst ==
    ASSUME NEW k \in Keys, Acquired(k) # None
    PROVE  \E f \in Slots : /\ Acquired(k) = Probe(k, f)
                            /\ f \in Stops(k)
                            /\ \A d \in Stops(k) : f <= d
  <1>1. Stops(k) # {}
    BY DEF Acquired
  <1>2. Stops(k) \subseteq Slots /\ Slots \subseteq Nat
    BY CacheAssumption DEF Stops, Slots
  <1>3. First(Stops(k)) \in Stops(k) /\ \A d \in Stops(k) : First(Stops(k)) <= d
    BY <1>1, <1>2, FirstIsFirst
  <1>4. Acquired(k) = Probe(k, First(Stops(k)))
    BY <1>1 DEF Acquired
  <1> QED
    BY <1>2, <1>3, <1>4

(* Acquisition and eviction keep the order of an object's blocks.           *)
LEMMA StepNearer ==
    PoolInv /\ NearerIsFresher /\ [PoolNext]_poolVars => NearerIsFresher'
  <1> SUFFICES ASSUME PoolInv, NearerIsFresher, [PoolNext]_poolVars,
                      NEW k \in Keys, NEW d \in Slots, NEW e \in Slots,
                      d < e, Holds(Probe(k, d), k)', Holds(Probe(k, e), k)'
               PROVE  idle'[Probe(k, d)] <= idle'[Probe(k, e)]
    BY DEF NearerIsFresher, Probe
  <1> DEFINE a == Probe(k, d)
             b == Probe(k, e)
  <1>t. /\ used \in [Slots -> BOOLEAN] /\ keys \in [Slots -> Nat]
        /\ idle \in [Slots -> Nat]
    BY DEF PoolInv, PoolTypeOK
  <1>k. k \in Nat
    BY CacheAssumption
  <1>p. a \in Slots /\ b \in Slots /\ a # b
    <2>1. d # e
      BY CacheAssumption DEF Slots
    <2> QED
      BY <1>k, <2>1, ProbeOnce
  <1>h. used'[a] /\ keys'[a] = k /\ used'[b] /\ keys'[b] = k
    BY DEF Holds, Probe
  <1>n. used[a] /\ keys[a] = k /\ used[b] /\ keys[b] = k => idle[a] <= idle[b]
    BY DEF NearerIsFresher, Holds
  <1> HIDE DEF a, b
  <1>1. CASE OnTick
    <2>1. keys' = keys /\ used[a] /\ used[b]
      BY <1>1, <1>h, <1>p DEF OnTick
    <2>2. idle'[a] = idle[a] + 1 /\ idle'[b] = idle[b] + 1
      BY <1>1, <1>h, <1>p DEF OnTick
    <2>3. idle[a] \in Nat /\ idle[b] \in Nat /\ idle[a] <= idle[b]
      BY <2>1, <1>h, <1>n, <1>p, <1>t
    <2> QED
      BY <2>2, <2>3 DEF a, b
  <1>2. ASSUME NEW j \in Keys, AcquireBlock(j) PROVE idle'[a] <= idle'[b]
    <2>1. CASE Acquired(j) = None
      BY <1>2, <2>1, <1>h, <1>n DEF AcquireBlock
    <2>2. CASE Acquired(j) # None
      <3> DEFINE s == Acquired(j)
      <3>1. /\ used' = [used EXCEPT ![s] = TRUE]
            /\ keys' = [keys EXCEPT ![s] = j]
            /\ idle' = [idle EXCEPT ![s] = 0]
        BY <1>2, <2>2 DEF AcquireBlock
      <3>2. CASE a = s
        <4>1. idle'[a] = 0
          BY <3>1, <3>2, <1>p, <1>t
        <4>2. idle'[b] \in Nat
          BY <3>1, <1>p, <1>t
        <4> QED
          BY <4>1, <4>2
      <3>3. CASE b = s
        <4>1. j = k
          BY <3>1, <3>3, <1>h, <1>p, <1>t
        <4>2. used[a] /\ keys[a] = k
          BY <3>1, <3>3, <1>h, <1>p, <1>t
        <4>3. d \in Stops(k)
          BY <4>2 DEF Stops, a
        <4>4. PICK f \in Slots : /\ b = Probe(k, f) /\ f \in Stops(k)
                                 /\ \A g \in Stops(k) : f <= g
          BY <2>2, <3>3, <4>1, StopsFirst
        <4>5. f = e
          BY <4>4, <1>k, ProbeOnce DEF b
        <4>6. e <= d
          BY <4>3, <4>4, <4>5
        <4> QED
          BY <4>6, CacheAssumption DEF Slots
      <3>4. CASE a # s /\ b # s
        BY <3>1, <3>4, <1>h, <1>n, <1>p, <1>t
      <3> QED
        BY <3>2, <3>3, <3>4
    <2> QED
      BY <2>1, <2>2
  <1>3. CASE UNCHANGED poolVars
    BY <1>3, <1>h, <1>n DEF poolVars, a, b
  <1> QED
    BY <1>1, <1>2, <1>3 DEF PoolNext, a, b

(* AcquireBlock and FindBlock never serve an object from a block staler     *)
(* than another of its blocks, although eviction breaks probe chains and    *)
(* leaves objects with several blocks.                                      *)
THEOREM FreshestIsFound == PoolSpec => []FreshestFirst
  <1>1. PoolInit => NearerIsFresher
    <2> SUFFICES ASSUME PoolInit, NEW k \in Keys, NEW d \in Slots
                 PROVE  ~used[Probe(k, d)]
      BY DEF NearerIsFresher, Holds
    <2>1. Probe(k, d) \in Slots
      BY CacheAssumption, ProbeOnce
    <2> QED
      BY <2>1 DEF PoolInit
  <1>2. PoolInv /\ NearerIsFresher => FreshestFirst
    <2> SUFFICES ASSUME PoolInv, NearerIsFresher, NEW k \in Keys,
                        FindBlock(k) # None, NEW i \in Slots, Holds(i, k)
                 PROVE  idle[FindBlock(k)] <= idle[i]
      BY DEF FreshestFirst
    <2>1. k \in Nat /\ idle \in [Slots -> Nat]
      BY CacheAssumption DEF PoolInv, PoolTypeOK
    <2>2. Acquired(k) # None /\ used[Acquired(k)] /\ FindBlock(k) = Acquired(k)
      BY DEF FindBlock
    <2>3. PICK f \in Slots : /\ Acquired(k) = Probe(k, f) /\ f \in Stops(k)
                             /\ \A g \in Stops(k) : f <= g
      BY <2>2, StopsFirst
    <2>4. Holds(Probe(k, f), k)
      BY <2>2, <2>3 DEF Holds, Stops
    <2>5. PICK e \in Slots : Probe(k, e) = i
      BY <2>1, ProbeOnce
    <2>6. e \in Stops(k)
      BY <2>5 DEF Stops, Holds
    <2>7. CASE f = e
      BY <2>1, <2>2, <2>3, <2>5, <2>7
    <2>8. CASE f # e
      <3>1. f < e
        BY <2>3, <2>6, <2>8, CacheAssumption DEF Slots
      <3> QED
        BY <2>2, <2>3, <2>4, <2>5, <3>1 DEF NearerIsFresher
    <2> QED
      BY <2>7, <2>8
  <1> QED
    BY <1>1, <1>2, InitAge, StepAge, StepNearer, PTL DEF PoolSpec

-----------------------------------------------------------------------------
(* The data thread.                                                         *)
(* Every step of the data thread, of the task thread and of the control     *)
(* thread is a step of the region, or leaves it alone.                      *)
LEMMA StepUsesPool == [Next]_vars => [PoolNext]_poolVars
  <1> SUFFICES ASSUME [Next]_vars PROVE [PoolNext]_poolVars
    OBVIOUS
  <1>1. ASSUME NEW f \in Frames, Process(f) PROVE [PoolNext]_poolVars
    <2>1. f.key \in Keys
      BY DEF Frames
    <2>2. CASE Skip(f)
      BY <2>2 DEF Skip
    <2>3. CASE Drop(f)
      BY <2>3 DEF Drop
    <2>4. CASE Cut(f)
      BY <2>1, <2>4 DEF Cut, PoolNext
    <2> QED
      BY <1>1, <2>2, <2>3, <2>4 DEF Process
  <1>2. CASE Timer
    BY <1>2 DEF Timer, PoolNext
  <1>3. ASSUME NEW a, TaskActive(a) PROVE UNCHANGED poolVars
    BY <1>3 DEF TaskActive
  <1>4. ASSUME NEW r, OnTaskRequest(r) PROVE UNCHANGED poolVars
    BY <1>4 DEF OnTaskRequest
  <1>5. ASSUME NEW us, Judge(us) PROVE UNCHANGED poolVars
    BY <1>5 DEF Judge
  <1>6. ASSUME NEW b, SetBudget(b) PROVE UNCHANGED poolVars
    BY <1>6 DEF SetBudget
  <1>7. OnForwarded \/ LoadWarn \/ StoreAlarm \/ UNCHANGED vars => UNCHANGED poolVars
    BY DEF OnForwarded, LoadWarn, StoreAlarm, vars
  <1> QED
    BY <1>1, <1>2, <1>3, <1>4, <1>5, <1>6, <1>7 DEF Next, Step

LEMMA DataUsesPool == Spec => PoolSpec
  <1>1. Init => PoolInit
    BY DEF Init
  <1> QED
    BY <1>1, StepUsesPool, PTL DEF Spec, PoolSpec

(* So the data thread serves every object from its freshest block, and no   *)
(* block of its region outlives its time to live, whatever frames, ticks,   *)
(* handshakes and budget changes arrive, and in whatever order.             *)
THEOREM DataThreadPool == Spec => [](FreshestFirst /\ TtlBound)
  BY DataUsesPool, FreshestIsFound, TtlHolds, PTL

-----------------------------------------------------------------------------
(* Reports and the account of frames.                                       *)

(* A frame's new report, or none: Cut decides.                              *)
LEMMA OnlyCutReports ==
  ASSUME [Next]_vars, ~(\E f \in Frames : Cut(f))
  PROVE  out' = out /\ seq' = seq
  <1>1. ASSUME NEW f \in Frames, Process(f) PROVE UNCHANGED <<out, seq>>
    BY <1>1 DEF Process, Skip, Drop
  <1>2. ASSUME NEW a, TaskActive(a) PROVE UNCHANGED <<out, seq>>
    BY <1>2 DEF TaskActive
  <1>3. ASSUME NEW r, OnTaskRequest(r) PROVE UNCHANGED <<out, seq>>
    BY <1>3 DEF OnTaskRequest
  <1>4. ASSUME NEW us, Judge(us) PROVE UNCHANGED <<out, seq>>
    BY <1>4 DEF Judge
  <1>5. ASSUME NEW b, SetBudget(b) PROVE UNCHANGED <<out, seq>>
    BY <1>5 DEF SetBudget
  <1>6. OnForwarded \/ LoadWarn \/ StoreAlarm \/ Timer \/ UNCHANGED vars
        => UNCHANGED <<out, seq>>
    BY DEF OnForwarded, LoadWarn, StoreAlarm, Timer, vars
  <1> QED
    BY <1>1, <1>2, <1>3, <1>4, <1>5, <1>6 DEF Next, Step

(* The slices of a report lie within the frame, where the cache holds what  *)
(* has just been cut.                                                       *)
THEOREM ReportsOwnData == Spec => []NoForeignData
  <1>1. Init => NoForeignData
    BY DEF Init, NoReport, NoForeignData
  <1>2. NoForeignData /\ [Next]_vars => NoForeignData'
    <2> SUFFICES ASSUME NoForeignData, [Next]_vars PROVE NoForeignData'
      OBVIOUS
    <2>1. ASSUME NEW f \in Frames, Cut(f) PROVE NoForeignData'
      <3> DEFINE now == counts.received + 1
                 values == [d \in Ids |-> IF d \in 1..f.fits THEN now
                                          ELSE content[Acquired(f.key)][d]]
                 report(T) == [task |-> currentTask, seq |-> seq', frame |-> now,
                               slices |-> [d \in T |-> values[d]]]
      <3>1. PICK T \in Packed(CutSlices(f)) :
                IF bypass = "PROCESS" THEN UNCHANGED out ELSE Flush(T, values)
        BY <2>1 DEF Cut
      <3>2. out' = out \/ out' = report(T)
        BY <3>1 DEF Flush
      <3>3. T \subseteq 1..f.fits /\ f.fits \in 0..NIds
        BY DEF Packed, CutSlices, Frames
      <3>4. \A d \in T : d \in Ids /\ values[d] = now
        BY <3>3, DataAssumption DEF Ids
      <3>5. CASE out' = report(T)
        BY <3>4, <3>5 DEF NoForeignData
      <3>6. CASE out' = out
        BY <3>6 DEF NoForeignData
      <3> QED
        BY <3>2, <3>5, <3>6
    <2>2. CASE ~(\E f \in Frames : Cut(f))
      BY <2>2, OnlyCutReports DEF NoForeignData
    <2> QED
      BY <2>1, <2>2
  <1> QED
    BY <1>1, <1>2, PTL DEF Spec

CountNames == {"received", "skipTask", "dropPoolFull", "frames", "keyFail", "cut",
               "overCap", "sent", "reported", "empty", "warn", "alarm"}

(* The counters that are compared are numbers, a report is numbered by a    *)
(* frame received, and the frame being judged is not judged yet.            *)
CountsOK ==
    /\ DOMAIN counts = CountNames /\ bypass \in {"FULL", "RECV", "PROCESS"}
    /\ \A c \in CountNames \ {"overCap"} : counts[c] \in Nat
    /\ counts.overCap \in Int
    /\ out.frame \in Nat /\ out.frame <= counts.received
    /\ judging.at \in {"idle", "warn", "alarm"}
    /\ bypass # "FULL" => judging.at = "idle"
    /\ counts.warn + counts.alarm + (IF judging.at = "idle" THEN 0 ELSE 1) <= counts.frames
    /\ Accounted

(* Which counters a skipped, a dropped and a cut frame moves.               *)
LEMMA SkipCounts ==
  ASSUME CountsOK, NEW f \in Frames, Skip(f)
  PROVE  /\ DOMAIN counts' = CountNames
         /\ counts'.received = counts.received + 1
         /\ counts'.skipTask = counts.skipTask + (IF bypass = "RECV" THEN 0 ELSE 1)
         /\ \A c \in CountNames \ {"received", "skipTask"} : counts'[c] = counts[c]
  <1>1. CASE bypass = "RECV"
    <2>1. counts' = [counts EXCEPT !.received = @ + 1]
      BY <1>1 DEF Skip, Received
    <2> QED
      BY <1>1, <2>1 DEF CountsOK, CountNames
  <1>2. CASE bypass # "RECV"
    <2>1. counts' = [[counts EXCEPT !.received = @ + 1] EXCEPT !.skipTask = @ + 1]
      BY <1>2 DEF Skip, Received
    <2> QED
      BY <1>2, <2>1 DEF CountsOK, CountNames
  <1> QED
    BY <1>1, <1>2

LEMMA DropCounts ==
  ASSUME CountsOK, NEW f \in Frames, Drop(f)
  PROVE  /\ DOMAIN counts' = CountNames
         /\ counts'.received = counts.received + 1
         /\ counts'.dropPoolFull = counts.dropPoolFull + 1
         /\ counts'.keyFail \in {counts.keyFail, counts.keyFail + 1}
         /\ \A c \in CountNames \ {"received", "dropPoolFull", "keyFail"} : counts'[c] = counts[c]
  BY DEF CountsOK, CountNames, Drop, KeyChecked, Received

LEMMA SliceNumbers ==
  ASSUME NEW f \in Frames, NEW T \in Packed(CutSlices(f))
  PROVE  /\ Cardinality(CutSlices(f)) \in Nat /\ Cardinality(T) \in Nat
         /\ Cardinality(T) = 0 <=> T = {}
  <1>1. IsFiniteSet(CutSlices(f))
    BY FS_Interval, DataAssumption DEF CutSlices, Frames
  <1> QED
    BY <1>1, FS_Subset, FS_CardinalityType, FS_EmptySet DEF Packed

LEMMA AddedCounts ==
  ASSUME CountsOK, NEW f \in Frames, NEW T \in Packed(CutSlices(f))
  PROVE  LET c2 == Added(f, T)
         IN  /\ DOMAIN c2 = CountNames
             /\ c2.received = counts.received + 1
             /\ c2.keyFail \in {counts.keyFail, counts.keyFail + 1}
             /\ c2.cut = counts.cut + Cardinality(CutSlices(f))
             /\ c2.overCap = counts.overCap + Cardinality(CutSlices(f)) - Cardinality(T)
             /\ \A c \in CountNames \ {"received", "keyFail", "cut", "overCap"} :
                   c2[c] = counts[c]
  BY DEF CountsOK, CountNames, Added, KeyChecked, Received

(* The account after a frame whose slices T are sent.                       *)
Sent(f, T) ==
    [Added(f, T) EXCEPT
        !.frames = @ + 1,
        !.reported = IF out' # out THEN @ + 1 ELSE @,
        !.sent = IF out' # out THEN @ + Cardinality(DOMAIN out'.slices) ELSE @,
        !.empty = IF T = {} THEN @ + 1 ELSE @]

LEMMA CutCounts ==
  ASSUME CountsOK, bypass # "RECV", NEW f \in Frames, Cut(f)
  PROVE  \E T \in Packed(CutSlices(f)) :
           \/ bypass = "PROCESS" /\ UNCHANGED <<seq, out, judging>> /\ counts' = Added(f, T)
           \/ /\ bypass # "PROCESS" /\ judging' = [at |-> "warn", warn |-> 0]
              /\ T = {} => out' = out
              /\ T # {} => out'.frame = counts.received + 1 /\ DOMAIN out'.slices = T
              /\ counts' = Sent(f, T)
  <1> DEFINE values == [d \in Ids |-> IF d \in 1..f.fits THEN counts.received + 1
                                      ELSE content[Acquired(f.key)][d]]
  <1>1. PICK T \in Packed(CutSlices(f)) :
           IF bypass = "PROCESS"
           THEN counts' = Added(f, T) /\ UNCHANGED <<seq, out, judging>>
           ELSE /\ Flush(T, values)
                /\ counts' = Sent(f, T)
                /\ judging' = [at |-> "warn", warn |-> 0]
    BY DEF Cut, Sent
  <1>2. CASE bypass = "PROCESS"
    BY <1>1, <1>2
  <1>3. CASE bypass # "PROCESS"
    <2>1. /\ T = {} => out' = out
          /\ T # {} => out'.frame = counts.received + 1 /\ DOMAIN out'.slices = T
      BY <1>1, <1>3 DEF Flush
    <2> QED
      BY <1>1, <1>3, <2>1
  <1> QED
    BY <1>2, <1>3

(* Frames that are received leave the account balanced.                     *)
LEMMA ProcessCounts ==
  ASSUME CountsOK, NEW f \in Frames, Process(f), UNCHANGED bypass
  PROVE  CountsOK'
  <1>0. judging.at = "idle" /\ \A c \in CountNames \ {"overCap"} : counts[c] \in Nat
    BY DEF Process, Idle, CountsOK
  <1>1. CASE Skip(f)
    <2>1. /\ counts'.received = counts.received + 1
          /\ counts'.skipTask = counts.skipTask + (IF bypass = "RECV" THEN 0 ELSE 1)
          /\ \A c \in CountNames \ {"received", "skipTask"} : counts'[c] = counts[c]
      BY <1>1, SkipCounts
    <2>2. UNCHANGED <<seq, out, judging>>
      BY <1>1 DEF Skip
    <2> QED
      BY <1>0, <1>1, <2>1, <2>2, SkipCounts DEF CountsOK, Accounted, CountNames
  <1>2. CASE Drop(f)
    <2>1. UNCHANGED <<seq, out, judging>>
      BY <1>2 DEF Drop
    <2>2. /\ DOMAIN counts' = CountNames
          /\ counts'.received = counts.received + 1
          /\ counts'.dropPoolFull = counts.dropPoolFull + 1
          /\ counts'.keyFail \in {counts.keyFail, counts.keyFail + 1}
          /\ \A c \in CountNames \ {"received", "dropPoolFull", "keyFail"} : counts'[c] = counts[c]
      BY <1>2, DropCounts
    <2>3. counts.keyFail \in Nat /\ counts'.keyFail \in Nat
      BY <1>0, <2>2 DEF CountNames
    <2>4. /\ counts'.overCap = counts.overCap
          /\ \A c \in CountNames \ {"overCap"} : counts'[c] \in Nat
      <3>1. counts.received + 1 \in Nat /\ counts.dropPoolFull + 1 \in Nat
        BY <1>0 DEF CountNames
      <3> QED
        BY <1>0, <2>2, <2>3, <3>1 DEF CountNames
    <2>5. /\ counts'.skipTask = counts.skipTask /\ counts'.frames = counts.frames
          /\ counts'.reported = counts.reported /\ counts'.empty = counts.empty
          /\ counts'.cut = counts.cut /\ counts'.sent = counts.sent
          /\ counts'.warn = counts.warn /\ counts'.alarm = counts.alarm
      BY <2>2 DEF CountNames
    <2>6. Accounted'
      <3>1. counts.received \in Nat /\ counts.dropPoolFull \in Nat /\ counts.skipTask \in Nat
            /\ counts.frames \in Nat
        BY <1>0 DEF CountNames
      <3> QED
        BY <2>1, <2>2, <2>4, <2>5, <3>1 DEF CountsOK, Accounted
    <2>7. out'.frame \in Nat /\ out'.frame <= counts'.received
      BY <1>0, <2>1, <2>2 DEF CountsOK, CountNames
    <2> QED
      BY <2>1, <2>2, <2>4, <2>5, <2>6, <2>7 DEF CountsOK
  <1>3. CASE Cut(f) /\ bypass # "RECV"
    <2>0. PICK T \in Packed(CutSlices(f)) :
             \/ bypass = "PROCESS" /\ UNCHANGED <<seq, out, judging>> /\ counts' = Added(f, T)
             \/ /\ bypass # "PROCESS" /\ judging' = [at |-> "warn", warn |-> 0]
                /\ T = {} => out' = out
                /\ T # {} => out'.frame = counts.received + 1 /\ DOMAIN out'.slices = T
                /\ counts' = Sent(f, T)
      BY <1>3, CutCounts
    <2> DEFINE c == Cardinality(CutSlices(f))
               t == Cardinality(T)
    <2>n. c \in Nat /\ t \in Nat
      BY SliceNumbers
    <2>a. LET c2 == Added(f, T)
          IN  /\ DOMAIN c2 = CountNames
              /\ c2.received = counts.received + 1
              /\ c2.keyFail \in {counts.keyFail, counts.keyFail + 1}
              /\ c2.cut = counts.cut + c /\ c2.overCap = counts.overCap + c - t
              /\ \A n \in CountNames \ {"received", "keyFail", "cut", "overCap"} :
                    c2[n] = counts[n]
      BY AddedCounts
    <2> HIDE DEF c, t
    <2>1. CASE bypass = "PROCESS"
      <3>1. UNCHANGED <<seq, out, judging>> /\ counts' = Added(f, T)
        BY <2>0, <2>1
      <3>2. /\ counts'.overCap \in Int
            /\ \A n \in CountNames \ {"overCap"} : counts'[n] \in Nat
        BY <1>0, <2>a, <2>n, <3>1 DEF CountsOK, CountNames
      <3> QED
        BY <1>0, <2>1, <2>a, <3>1, <3>2 DEF CountsOK, Accounted, CountNames
    <2>2. CASE bypass # "PROCESS"
      <3>1. /\ T = {} => out' = out
            /\ T # {} => out'.frame = counts.received + 1 /\ DOMAIN out'.slices = T
            /\ counts' = Sent(f, T)
        BY <2>0, <2>2
      <3>2. judging' = [at |-> "warn", warn |-> 0]
        BY <2>0, <2>2
      <3>6. judging'.at = "warn" /\ bypass' = bypass /\ bypass # "RECV" /\ bypass # "PROCESS"
        BY <1>3, <2>2, <3>2
      <3>3. out' # out <=> T # {}
        BY <1>0, <3>1 DEF CountsOK, CountNames
      <3>t. t = 0 <=> T = {}
        BY SliceNumbers DEF t
      <3>4. /\ DOMAIN counts' = CountNames
            /\ counts'.received = counts.received + 1
            /\ counts'.frames = counts.frames + 1
            /\ counts'.reported = counts.reported + (IF T # {} THEN 1 ELSE 0)
            /\ counts'.empty = counts.empty + (IF T = {} THEN 1 ELSE 0)
            /\ counts'.keyFail \in {counts.keyFail, counts.keyFail + 1}
            /\ counts'.cut = counts.cut + c /\ counts'.overCap = counts.overCap + c - t
            /\ \A n \in {"skipTask", "dropPoolFull", "warn", "alarm"} : counts'[n] = counts[n]
        BY <1>0, <2>a, <3>1, <3>3 DEF CountNames, Sent
      <3>s. counts'.sent = counts.sent + t
        <4>1. counts'.sent = IF T # {} THEN counts.sent + Cardinality(DOMAIN out'.slices)
                             ELSE counts.sent
          BY <2>a, <3>1, <3>3 DEF CountNames, Sent
        <4>2. CASE T = {}
          BY <1>0, <3>t, <4>1, <4>2 DEF CountNames
        <4>3. CASE T # {}
          BY <3>1, <4>1, <4>3 DEF t
        <4> QED
          BY <4>2, <4>3
      <3>5. out'.frame \in Nat /\ out'.frame <= counts'.received
        BY <1>0, <3>1, <3>4 DEF CountsOK, CountNames
      <3>7. /\ \A n \in CountNames \ {"overCap"} : counts'[n] \in Nat
            /\ counts'.overCap \in Int
            /\ counts'.warn + counts'.alarm + 1 <= counts'.frames
        BY <1>0, <2>n, <3>4, <3>s DEF CountsOK, CountNames
      <3>8. CASE bypass = "FULL"
        <4>1. /\ counts'.received = counts'.skipTask + counts'.dropPoolFull + counts'.frames
              /\ counts'.frames = counts'.reported + counts'.empty
          BY <1>0, <3>4, <3>8 DEF CountsOK, Accounted, CountNames
        <4>3. counts'.cut = counts'.sent + counts'.overCap
          <5>1. /\ counts.cut = counts.sent + counts.overCap /\ counts.overCap \in Int
                /\ counts.cut \in Nat /\ counts.sent \in Nat
            BY <1>0, <3>8 DEF CountsOK, Accounted, CountNames
          <5> QED
            BY <2>n, <3>4, <3>s, <5>1
        <4>2. Accounted'
          BY <1>0, <3>4, <3>6, <3>7, <3>8, <4>1, <4>3 DEF Accounted, CountNames
        <4> QED
          BY <3>4, <3>5, <3>6, <3>7, <3>8, <4>2 DEF CountsOK
      <3>9. CASE bypass # "FULL"
        BY <3>6, <3>9 DEF CountsOK
      <3> QED
        BY <3>8, <3>9
    <2> QED
      BY <2>1, <2>2
  <1> QED
    BY <1>1, <1>2, <1>3 DEF Process

LEMMA JudgeCounts ==
  ASSUME CountsOK, NEW us, Judge(us), UNCHANGED bypass
  PROVE  CountsOK'
  <1>1. /\ judging.at = "alarm" /\ judging'.at = "idle" /\ UNCHANGED <<seq, out>>
        /\ \/ counts' = [counts EXCEPT !.alarm = @ + 1]
           \/ counts' = [counts EXCEPT !.warn = @ + 1]
           \/ counts' = counts
    BY DEF Judge, Idle
  <1>2. /\ DOMAIN counts' = CountNames
        /\ \A c \in CountNames \ {"warn", "alarm"} : counts'[c] = counts[c]
        /\ \/ counts'.warn = counts.warn /\ counts'.alarm = counts.alarm + 1
           \/ counts'.warn = counts.warn + 1 /\ counts'.alarm = counts.alarm
           \/ counts'.warn = counts.warn /\ counts'.alarm = counts.alarm
    BY <1>1 DEF CountsOK, CountNames
  <1> QED
    BY <1>1, <1>2 DEF CountsOK, Accounted, CountNames

LEMMA StepCounts == CountsOK /\ [Next]_vars => CountsOK'
  <1> SUFFICES ASSUME CountsOK, [Next]_vars PROVE CountsOK'
    OBVIOUS
  <1>0. UNCHANGED bypass
    BY DEF Next, vars
  <1>1. ASSUME NEW f \in Frames, Process(f) PROVE CountsOK'
    BY <1>0, <1>1, ProcessCounts
  <1>2. ASSUME NEW us, Judge(us) PROVE CountsOK'
    BY <1>0, <1>2, JudgeCounts
  <1>3. CASE LoadWarn
    BY <1>0, <1>3 DEF LoadWarn, CountsOK, Accounted
  <1>4. ASSUME UNCHANGED <<seq, out, counts, judging>> PROVE CountsOK'
    BY <1>0, <1>4 DEF CountsOK, Accounted
  <1>5. ASSUME NEW a, TaskActive(a) PROVE CountsOK'
    BY <1>4, <1>5 DEF TaskActive
  <1>6. ASSUME NEW r, OnTaskRequest(r) PROVE CountsOK'
    BY <1>4, <1>6 DEF OnTaskRequest
  <1>7. ASSUME NEW b, SetBudget(b) PROVE CountsOK'
    BY <1>4, <1>7 DEF SetBudget
  <1>8. OnForwarded \/ StoreAlarm \/ Timer \/ UNCHANGED vars => CountsOK'
    BY <1>4 DEF OnForwarded, StoreAlarm, Timer, vars
  <1> QED
    BY <1>1, <1>2, <1>3, <1>5, <1>6, <1>7, <1>8 DEF Next, Step

(* Whatever messages arrive in whatever order, no frame and no slice that   *)
(* was cut disappears without being counted, and no frame is judged twice   *)
(* (DataFactory::Process, ReportAggregator::Add).                           *)
THEOREM FramesAccounted == Spec => []Accounted
  <1>1. Init => CountsOK
    BY DEF Init, CountsOK, CountNames, Accounted, NoReport, Idle
  <1>2. CountsOK => Accounted
    BY DEF CountsOK
  <1> QED
    BY <1>1, <1>2, StepCounts, PTL DEF Spec
=============================================================================
