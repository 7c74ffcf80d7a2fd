--------------------------- MODULE SlotRingBuffer ---------------------------
(***************************************************************************)
(* SlotRingBuffer (ring_buffers/slot.hpp): every slot has an atomic flag    *)
(* that says whether it holds a value; the indices are private to the       *)
(* thread that uses them and never looked at by the other.                  *)
(***************************************************************************)
EXTENDS SPSCThreads

VARIABLES
  written,          \* written[i]: the flag of slot i, its modification order
  slot_data,        \* slot_data[i]: the plain int of slot i
  slot_read_idx,    \* the two private indices
  slot_write_idx,
  slot_seen         \* slot_seen[t][i]: the store to flag i t read or made last

slotVars == <<written, slot_data, slot_read_idx, slot_write_idx, slot_seen>>

(* idx & mask *)
SlotOf(idx) == idx % Capacity

SlotInit ==
  /\ slot_data = [i \in Slots |-> Plain(0)]
  /\ written = [i \in Slots |-> Initially(FALSE)]
  /\ slot_read_idx = 0
  /\ slot_write_idx = 0
  /\ slot_seen = [t \in Threads |-> [i \in Slots |-> 1]]

(* The acquire load of t's flag, wanted with value want to go on. *)
LoadFlag(t, i, want) ==
  /\ \E k \in Visible(written[i], slot_seen[t][i]) :
       /\ slot_seen' = [slot_seen EXCEPT ![t][i] = k]
       /\ AcquireFrom(t, written[i][k])
       /\ Goto(t, "call", IF written[i][k].v = want THEN "access" ELSE "call")
  /\ UNCHANGED <<written, slot_data, slot_read_idx, slot_write_idx, done, val, released, racy>>

(* The release store to the flag, and the increment of the index after it. *)
StoreFlag(t, i, flag) ==
  /\ written' = [written EXCEPT ![i] = ReleaseStore(t, @, flag)]
  /\ slot_seen' = [slot_seen EXCEPT ![t][i] = Len(written[i]) + 1]
  /\ Return(t)
  /\ UNCHANGED <<slot_data, val, acquired, racy>>

SlotPushLoad == LoadFlag(Pusher, SlotOf(slot_write_idx), FALSE)

SlotPushWrite ==
  LET i == SlotOf(slot_write_idx) IN
  /\ Goto(Pusher, "access", "publish")
  /\ racy' = (racy \/ Races(Pusher, slot_data[i]))
  /\ slot_data' = [slot_data EXCEPT ![i] = Touch(Pusher, done[Pusher])]
  /\ UNCHANGED <<written, slot_read_idx, slot_write_idx, slot_seen, done, val,
                 released, acquired>>

SlotPushPublish ==
  /\ StoreFlag(Pusher, SlotOf(slot_write_idx), TRUE)
  /\ slot_write_idx' = slot_write_idx + 1
  /\ UNCHANGED slot_read_idx

SlotPopLoad == LoadFlag(Popper, SlotOf(slot_read_idx), TRUE)

SlotPopRead ==
  LET i == SlotOf(slot_read_idx) IN
  /\ Goto(Popper, "access", "publish")
  /\ racy' = (racy \/ Races(Popper, slot_data[i]))
  /\ val' = slot_data[i].v
  /\ slot_data' = [slot_data EXCEPT ![i] = Touch(Popper, @.v)]
  /\ UNCHANGED <<written, slot_read_idx, slot_write_idx, slot_seen, done,
                 released, acquired>>

SlotPopPublish ==
  /\ StoreFlag(Popper, SlotOf(slot_read_idx), FALSE)
  /\ slot_read_idx' = slot_read_idx + 1
  /\ UNCHANGED slot_write_idx

(* reset(): the indices and every flag. *)
SlotReset ==
  /\ written' = [i \in Slots |-> Initially(FALSE)]
  /\ slot_read_idx' = 0
  /\ slot_write_idx' = 0
  /\ slot_seen' = [t \in Threads |-> [i \in Slots |-> 1]]
  /\ slot_data' = [i \in Slots |-> Plain(slot_data[i].v)]

-----------------------------------------------------------------------------
SlotPush == SlotPushLoad \/ SlotPushWrite \/ SlotPushPublish
SlotPop == SlotPopLoad \/ SlotPopRead \/ SlotPopPublish

(* The values the ring holds: from the popper's index on, as far as flags are  *)
(* set.  A popper that has read its value has taken it out.                  *)
SlotItems ==
  LET r == slot_read_idx + (IF pc[Popper] = "publish" THEN 1 ELSE 0)
  IN  [k \in 1 .. slot_write_idx - r |-> slot_data[SlotOf(r + k - 1)].v]
=============================================================================
