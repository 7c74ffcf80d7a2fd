----------------------------- MODULE RingBuffer -----------------------------
(***************************************************************************)
(* The three rings with a read and a write index, one module as they are    *)
(* one algorithm:                                                          *)
(*   RingBuffer                    (ring_buffers/classic.hpp)               *)
(*   CachingRingBuffer             (ring_buffers/cachy.hpp)                 *)
(*   CachingRingBufferCompressed   (ring_buffers/condensed_cachy.hpp)       *)
(* and ringbuffer, ringbuffer2 of one_and_dones/ringbuffer.cpp.  The caching*)
(* rings keep a copy of the other thread's index and look at the index      *)
(* itself only when the copy says full or empty; the condensed one differs  *)
(* from it in the layout of its members only.                               *)
(*                                                                         *)
(* The steps of a push are the look at the other thread's index, the plain  *)
(* access to data and the store to the own index; loading the own index,    *)
(* which no other thread stores to, is part of the first.                   *)
(***************************************************************************)
EXTENDS SPSCThreads

VARIABLES
  data,
  read_idx,         \* the atomics: their modification order
  write_idx,
  read_idx_cache,   \* of the caching rings
  write_idx_cache,
  seen              \* seen[t]: the store to the other's index t read last

ringVars == <<data, read_idx, write_idx, read_idx_cache, write_idx_cache, seen>>

RingInit ==
  /\ data = [i \in Slots |-> Plain(0)]
  /\ read_idx = Initially(0)
  /\ write_idx = Initially(0)
  /\ read_idx_cache = 0
  /\ write_idx_cache = 0
  /\ seen = [t \in Threads |-> 1]

NextIdx(i) == IF i + 1 = Capacity THEN 0 ELSE i + 1

(***************************************************************************)
(* push(val)                                                               *)
(***************************************************************************)
(* Mutant: full is taken for empty, all slots are used. *)
RingPushLoadAll(caching) ==
  /\ caching => NextIdx(Latest(write_idx)) = read_idx_cache
  /\ \E k \in Visible(read_idx, seen[Pusher]) :
       LET r == read_idx[k].v IN
       /\ seen' = [seen EXCEPT ![Pusher] = k]
       /\ AcquireFrom(Pusher, read_idx[k])
       /\ read_idx_cache' = IF caching THEN r ELSE read_idx_cache
       /\ Goto(Pusher, "call", "access")
  /\ UNCHANGED <<data, read_idx, write_idx, write_idx_cache, done, val, released, racy>>

(* Mutant: full is what src/README.md:355 says, write_idx = read_idx. *)
RingPushLoadSame(caching) ==
  LET current == Latest(write_idx) IN
  /\ caching => current = read_idx_cache
  /\ \E k \in Visible(read_idx, seen[Pusher]) :
       LET r == read_idx[k].v IN
       /\ seen' = [seen EXCEPT ![Pusher] = k]
       /\ AcquireFrom(Pusher, read_idx[k])
       /\ read_idx_cache' = IF caching THEN r ELSE read_idx_cache
       /\ Goto(Pusher, "call", IF current = r THEN "call" ELSE "access")
  /\ UNCHANGED <<data, read_idx, write_idx, write_idx_cache, done, val, released, racy>>

(* The look at read_idx.  A false result leaves the pusher where it is. *)
RingPushLoad(caching) ==
  LET next == NextIdx(Latest(write_idx)) IN
  /\ caching => next = read_idx_cache
  /\ \E k \in Visible(read_idx, seen[Pusher]) :
       LET r == read_idx[k].v IN
       /\ seen' = [seen EXCEPT ![Pusher] = k]
       /\ AcquireFrom(Pusher, read_idx[k])
       /\ read_idx_cache' = IF caching THEN r ELSE read_idx_cache
       /\ Goto(Pusher, "call", IF next = r THEN "call" ELSE "access")
  /\ UNCHANGED <<data, read_idx, write_idx, write_idx_cache, done, val, released, racy>>

(* The cached index shows room. *)
RingPushHit ==
  /\ NextIdx(Latest(write_idx)) # read_idx_cache
  /\ Goto(Pusher, "call", "access")
  /\ UNCHANGED <<ringVars, done, val, released, acquired, racy>>

RingPushWrite ==
  LET i == Latest(write_idx) IN
  /\ Goto(Pusher, "access", "publish")
  /\ racy' = (racy \/ Races(Pusher, data[i]))
  /\ data' = [data EXCEPT ![i] = Touch(Pusher, done[Pusher])]
  /\ UNCHANGED <<read_idx, write_idx, read_idx_cache, write_idx_cache, seen,
                 done, val, released, acquired>>

RingPushPublish ==
  /\ write_idx' = ReleaseStore(Pusher, write_idx, NextIdx(Latest(write_idx)))
  /\ Return(Pusher)
  /\ UNCHANGED <<data, read_idx, read_idx_cache, write_idx_cache, seen, val, acquired, racy>>

(***************************************************************************)
(* pop(val)                                                                *)
(***************************************************************************)
RingPopLoad(caching) ==
  LET current == Latest(read_idx) IN
  /\ caching => current = write_idx_cache
  /\ \E k \in Visible(write_idx, seen[Popper]) :
       LET w == write_idx[k].v IN
       /\ seen' = [seen EXCEPT ![Popper] = k]
       /\ AcquireFrom(Popper, write_idx[k])
       /\ write_idx_cache' = IF caching THEN w ELSE write_idx_cache
       /\ Goto(Popper, "call", IF current = w THEN "call" ELSE "access")
  /\ UNCHANGED <<data, read_idx, write_idx, read_idx_cache, done, val, released, racy>>

RingPopHit ==
  /\ Latest(read_idx) # write_idx_cache
  /\ Goto(Popper, "call", "access")
  /\ UNCHANGED <<ringVars, done, val, released, acquired, racy>>

RingPopRead ==
  LET i == Latest(read_idx) IN
  /\ Goto(Popper, "access", "publish")
  /\ racy' = (racy \/ Races(Popper, data[i]))
  /\ val' = data[i].v
  /\ data' = [data EXCEPT ![i] = Touch(Popper, @.v)]
  /\ UNCHANGED <<read_idx, write_idx, read_idx_cache, write_idx_cache, seen,
                 done, released, acquired>>

RingPopPublish ==
  /\ read_idx' = ReleaseStore(Popper, read_idx, NextIdx(Latest(read_idx)))
  /\ Return(Popper)
  /\ UNCHANGED <<data, write_idx, read_idx_cache, write_idx_cache, seen, val, acquired, racy>>

(* Mutant: reset() forgets the caches. *)
RingResetIndices ==
  /\ read_idx' = Initially(0)
  /\ write_idx' = Initially(0)
  /\ seen' = [t \in Threads |-> 1]
  /\ data' = [i \in Slots |-> Plain(data[i].v)]
  /\ UNCHANGED <<read_idx_cache, write_idx_cache>>

(* reset(): stores of the main thread before it creates the next threads. *)
RingReset ==
  /\ read_idx' = Initially(0)
  /\ write_idx' = Initially(0)
  /\ read_idx_cache' = 0
  /\ write_idx_cache' = 0
  /\ seen' = [t \in Threads |-> 1]
  /\ data' = [i \in Slots |-> Plain(data[i].v)]

-----------------------------------------------------------------------------
(* push and pop of RingBuffer, and of ringbuffer. *)
ClassicPush == RingPushLoad(FALSE) \/ RingPushWrite \/ RingPushPublish
ClassicPop == RingPopLoad(FALSE) \/ RingPopRead \/ RingPopPublish

(* push and pop of the rings with caches, and of ringbuffer2. *)
CachingPush == RingPushLoad(TRUE) \/ RingPushHit \/ RingPushWrite \/ RingPushPublish
CachingPop == RingPopLoad(TRUE) \/ RingPopHit \/ RingPopRead \/ RingPopPublish

(* The values the ring holds.  A popper that has read its value has taken it   *)
(* out, although its slot is given back later.                               *)
RingItems ==
  LET r == Latest(read_idx)
      n == (Latest(write_idx) + Capacity - r) % Capacity
      all == [k \in 1 .. n |-> data[(r + k - 1) % Capacity].v]
  IN  IF pc[Popper] = "publish" THEN SubSeq(all, 2, n) ELSE all
=============================================================================
