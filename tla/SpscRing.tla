------------------------------ MODULE SpscRing ------------------------------
(***************************************************************************)
(* The single-producer single-consumer ring of lib/core/ring.h.  One       *)
(* thread calls ring_push, another ring_pop; a call is split at every      *)
(* access to memory that both threads touch (the two atomic indices and    *)
(* the plain slots), so that the calls interleave as the threads do.  The  *)
(* indices are C11 seq_cst atomics (lib/core/atomic.h), hence the          *)
(* interleaving semantics.                                                 *)
(***************************************************************************)
EXTENDS Integers, Sequences

CONSTANTS
    Items,      \* the pointers that travel through the ring
    RingSize,   \* RING_SIZE; a power of two, so "& (RING_SIZE - 1)" is "%"
    NoItem      \* NULL

ASSUME RingSizeAssumption == RingSize \in Nat /\ RingSize >= 2
ASSUME NoItemAssumption == NoItem \notin Items

VARIABLES
    slots,      \* r->slots
    write_idx,  \* r->write_idx, stored by the producer only
    read_idx,   \* r->read_idx, stored by the consumer only
    push,       \* the producer's call: [pc, item, w]
    pop,        \* the consumer's call: [pc, item, rd]
    taken       \* the item the consumer's last successful call returned

vars == <<slots, write_idx, read_idx, push, pop, taken>>

Index == 0 .. RingSize - 1

(* Mutant: the index is not wrapped.                                       *)
NextIdx_NoWrap(i) == i + 1

(* The index after i: (i + 1) & (RING_SIZE - 1).                           *)
NextIdx(i) == (i + 1) % RingSize

-----------------------------------------------------------------------------
(* ring_init.  The slots are not cleared: they may hold anything.          *)
Init ==
    /\ slots \in [Index -> Items \cup {NoItem}]
    /\ write_idx = 0
    /\ read_idx = 0
    /\ push = [pc |-> "idle", item |-> NoItem, w |-> 0]
    /\ pop = [pc |-> "idle", item |-> NoItem, rd |-> 0]
    /\ taken = NoItem

(* ring_push(r, item): load write_idx.                                     *)
PushBegin(item) ==
    /\ push.pc = "idle"
    /\ push' = [pc |-> "loaded", item |-> item, w |-> write_idx]
    /\ UNCHANGED <<slots, write_idx, read_idx, pop, taken>>

(* Mutant: the full test gives up one slot too early.                      *)
PushFull_Early ==
    /\ push.pc = "loaded"
    /\ NextIdx(NextIdx(push.w)) = read_idx
    /\ push' = [push EXCEPT !.pc = "idle", !.item = NoItem]
    /\ UNCHANGED <<slots, write_idx, read_idx, pop, taken>>

(* Load read_idx; a full ring makes the call return -1.                    *)
PushFull ==
    /\ push.pc = "loaded"
    /\ NextIdx(push.w) = read_idx
    /\ push' = [push EXCEPT !.pc = "idle", !.item = NoItem]
    /\ UNCHANGED <<slots, write_idx, read_idx, pop, taken>>

(* Mutant: the full test is left out.                                      *)
PushRoom_NoTest ==
    /\ push.pc = "loaded"
    /\ push' = [push EXCEPT !.pc = "room"]
    /\ UNCHANGED <<slots, write_idx, read_idx, pop, taken>>

PushRoom ==
    /\ push.pc = "loaded"
    /\ NextIdx(push.w) # read_idx
    /\ push' = [push EXCEPT !.pc = "room"]
    /\ UNCHANGED <<slots, write_idx, read_idx, pop, taken>>

(* slots[w] = item.                                                        *)
PushWrite ==
    /\ push.pc = "room"
    /\ slots' = [slots EXCEPT ![push.w] = push.item]
    /\ push' = [push EXCEPT !.pc = "written"]
    /\ UNCHANGED <<write_idx, read_idx, pop, taken>>

(* Store write_idx: the item becomes visible.  The call returns 0.         *)
PushPublish ==
    /\ push.pc = "written"
    /\ write_idx' = NextIdx(push.w)
    /\ push' = [push EXCEPT !.pc = "idle", !.item = NoItem]
    /\ UNCHANGED <<slots, read_idx, pop, taken>>

(* ring_pop(r): load read_idx.                                             *)
PopBegin ==
    /\ pop.pc = "idle"
    /\ pop' = [pc |-> "loaded", item |-> NoItem, rd |-> read_idx]
    /\ UNCHANGED <<slots, write_idx, read_idx, push, taken>>

(* Load write_idx; an empty ring makes the call return NULL.               *)
PopEmpty ==
    /\ pop.pc = "loaded"
    /\ pop.rd = write_idx
    /\ pop' = [pop EXCEPT !.pc = "idle"]
    /\ UNCHANGED <<slots, write_idx, read_idx, push, taken>>

(* Mutant: a last single item is taken for an empty ring.                  *)
PopReady_KeepsOne ==
    /\ pop.pc = "loaded"
    /\ pop.rd # write_idx
    /\ NextIdx(pop.rd) # write_idx
    /\ pop' = [pop EXCEPT !.pc = "ready"]
    /\ UNCHANGED <<slots, write_idx, read_idx, push, taken>>

PopReady ==
    /\ pop.pc = "loaded"
    /\ pop.rd # write_idx
    /\ pop' = [pop EXCEPT !.pc = "ready"]
    /\ UNCHANGED <<slots, write_idx, read_idx, push, taken>>

(* item = slots[rd].                                                       *)
PopRead ==
    /\ pop.pc = "ready"
    /\ pop' = [pop EXCEPT !.pc = "read", !.item = slots[pop.rd]]
    /\ UNCHANGED <<slots, write_idx, read_idx, push, taken>>

(* Store read_idx: the slot is the producer's again.  Return the item.     *)
PopPublish ==
    /\ pop.pc = "read"
    /\ read_idx' = NextIdx(pop.rd)
    /\ taken' = pop.item
    /\ pop' = [pop EXCEPT !.pc = "idle"]
    /\ UNCHANGED <<slots, write_idx, push>>

Producer ==
    \/ \E item \in Items : PushBegin(item)
    \/ PushFull \/ PushRoom \/ PushWrite \/ PushPublish

Consumer == PopBegin \/ PopEmpty \/ PopReady \/ PopRead \/ PopPublish

Next == Producer \/ Consumer

Spec == Init /\ [][Next]_vars

(***************************************************************************)
(* The consumer is a loop that pops for ever (rx_thread, tx_thread,        *)
(* crypto_loop, the engine's poll), so it never stops inside a call nor    *)
(* between calls.  Nothing is assumed of the producer.                     *)
(***************************************************************************)
FairSpec == Spec /\ WF_vars(Consumer)

-----------------------------------------------------------------------------
(* Every variable has its type: ring_push and ring_pop index only slots    *)
(* that exist.                                                             *)
TypeOK ==
    /\ slots \in [Index -> Items \cup {NoItem}]
    /\ write_idx \in Index
    /\ read_idx \in Index
    /\ push \in [pc : {"idle", "loaded", "room", "written"},
                 item : Items \cup {NoItem}, w : Index]
    /\ pop \in [pc : {"idle", "loaded", "ready", "read"},
                item : Items \cup {NoItem}, rd : Index]
    /\ taken \in Items \cup {NoItem}

(* The number of published items, and the slot of the i-th (from 0).       *)
Count == IF write_idx >= read_idx THEN write_idx - read_idx
                                  ELSE write_idx + RingSize - read_idx

SlotOf(i) == IF read_idx + i < RingSize THEN read_idx + i
                                        ELSE read_idx + i - RingSize

(***************************************************************************)
(* The queue the ring stands for.  An item enters it when the producer     *)
(* stores write_idx and leaves it when the consumer stores read_idx.       *)
(***************************************************************************)
Contents == [i \in 1 .. Count |-> slots[SlotOf(i - 1)]]

Fifo == INSTANCE BoundedFifo
            WITH Capacity <- RingSize - 1, queue <- Contents, taken <- taken

(***************************************************************************)
(* The ring implements the queue: nothing is lost, duplicated, reordered   *)
(* or overwritten, whatever the interleaving of ring_push and ring_pop.    *)
(***************************************************************************)
ImplementsFifo == Fifo!Spec

(***************************************************************************)
(* A consumer that keeps calling ring_pop drains the ring, whatever the    *)
(* producer does meanwhile (stop inside ring_push included).               *)
(***************************************************************************)
ImplementsFairFifo == Fifo!FairSpec

(***************************************************************************)
(* The plain (non-atomic) accesses slots[w] = item and item = slots[rd]    *)
(* never touch the same slot at the same time: no data race on a slot.     *)
(***************************************************************************)
SlotExclusive == ~ (push.pc = "room" /\ pop.pc = "ready" /\ push.w = pop.rd)

(***************************************************************************)
(* ring_push refuses an item only when RingSize - 1 items are waiting: the *)
(* emptiness test rd == w costs one slot and no more.                      *)
(***************************************************************************)
RefusedOnlyWhenFull ==
    [][push.pc = "loaded" /\ push'.pc = "idle" => Count = RingSize - 1]_vars

(***************************************************************************)
(* The inductive invariant.  A call's copy of its own index is current, a  *)
(* test it passed stays true until it publishes (the other thread can only *)
(* make more room, or more items), and a slot that was written or read     *)
(* keeps its value until then.                                             *)
(***************************************************************************)
ProducerOK ==
    /\ push.pc # "idle" => push.w = write_idx /\ push.item \in Items
    /\ push.pc \in {"room", "written"} => Count < RingSize - 1
    /\ push.pc = "written" => slots[write_idx] = push.item

ConsumerOK ==
    /\ pop.pc # "idle" => pop.rd = read_idx
    /\ pop.pc \in {"ready", "read"} => Count > 0
    /\ pop.pc = "read" => pop.item = slots[read_idx]

ItemsOK == \A i \in 0 .. Count - 1 : slots[SlotOf(i)] \in Items

RingInv == TypeOK /\ ProducerOK /\ ConsumerOK /\ ItemsOK

=============================================================================
