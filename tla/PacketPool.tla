----------------------------- MODULE PacketPool -----------------------------
(***************************************************************************)
(* The packet pool of lib/core/pool.c: a stack of free buffer indices      *)
(* whose top is an atomic integer.  pool_get and pool_return are split at  *)
(* every access to memory that threads share, so the calls of several      *)
(* threads interleave as in the program: the receive thread takes buffers, *)
(* the transmit thread gives them back, the application thread does both.  *)
(* A buffer travels between threads through the rings, hence any thread    *)
(* may return any buffer that is out.                                      *)
(***************************************************************************)
EXTENDS Integers, FiniteSets

CONSTANTS
    Threads,        \* the threads that call the pool
    PoolSize,       \* PACKET_POOL_SIZE
    MaxExtra        \* how often a caller returns a buffer it no longer owns

ASSUME ThreadsAssumption == IsFiniteSet(Threads)
ASSUME PoolSizeAssumption == PoolSize \in Nat \ {0}
ASSUME MaxExtraAssumption == MaxExtra \in Nat

VARIABLES
    free_stack, \* free_stack
    top,        \* top
    call,       \* what each thread is doing: [pc, t, idx]
    out,        \* how many owners outside the pool each buffer has
    extra       \* the number of returns by a caller that was not the owner

poolVars == <<free_stack, top, call, out, extra>>

Buffers == 0 .. PoolSize - 1

(* Thread th goes on at pc with t and idx in its local variables.          *)
Goto(th, pc, t, idx) == call' = [call EXCEPT ![th] = [pc |-> pc, t |-> t, idx |-> idx]]

Done(th) == Goto(th, "idle", 0, 0)

-----------------------------------------------------------------------------
(* pool_init.                                                              *)
PoolInit ==
    /\ free_stack = [i \in Buffers |-> i]
    /\ top = PoolSize
    /\ call = [th \in Threads |-> [pc |-> "idle", t |-> 0, idx |-> 0]]
    /\ out = [i \in Buffers |-> 0]
    /\ extra = 0

(* pool_get: load top, for the first time or after a failed CAS.           *)
GetLoad(th) ==
    /\ call[th].pc \in {"idle", "get_retry"}
    /\ Goto(th, "get_loaded", top, 0)
    /\ UNCHANGED <<free_stack, top, out, extra>>

(* t == 0: return NULL.                                                    *)
GetEmpty(th) ==
    /\ call[th].pc = "get_loaded"
    /\ call[th].t = 0
    /\ Done(th)
    /\ UNCHANGED <<free_stack, top, out, extra>>

(* Mutant: the index is stored without comparing it first.                 *)
GetCas_Plain(th) ==
    /\ call[th].pc = "get_loaded"
    /\ call[th].t # 0
    /\ top' = call[th].t - 1
    /\ Goto(th, "get_won", call[th].t, 0)
    /\ UNCHANGED <<free_stack, out, extra>>

(* The compare-and-swap of top from t to t - 1.                            *)
GetCas(th) ==
    /\ call[th].pc = "get_loaded"
    /\ call[th].t # 0
    /\ IF top = call[th].t
       THEN top' = top - 1 /\ Goto(th, "get_won", call[th].t, 0)
       ELSE top' = top /\ Goto(th, "get_retry", call[th].t, 0)
    /\ UNCHANGED <<free_stack, out, extra>>

(* Read free_stack[t - 1] and return that buffer.                          *)
GetRead(th) ==
    /\ call[th].pc = "get_won"
    /\ LET idx == free_stack[call[th].t - 1]
       IN  out' = [out EXCEPT ![idx] = @ + 1]
    /\ Done(th)
    /\ UNCHANGED <<free_stack, top, extra>>

(* pool_return(p) by an owner of p, who thereby gives it up.               *)
ReturnCall(th, idx) ==
    /\ call[th].pc = "idle"
    /\ out[idx] > 0
    /\ out' = [out EXCEPT ![idx] = @ - 1]
    /\ Goto(th, "ret_retry", 0, idx)
    /\ UNCHANGED <<free_stack, top, extra>>

(* pool_return(p) by a caller that returned p before (a parity packet, by  *)
(* resilience_check and again by its caller).                              *)
ReturnAgain(th, idx) ==
    /\ call[th].pc = "idle"
    /\ extra < MaxExtra
    /\ extra' = extra + 1
    /\ Goto(th, "ret_retry", 0, idx)
    /\ UNCHANGED <<free_stack, top, out>>

(* Mutant: the bound is not tested.                                        *)
ReturnLoad_NoBound(th) ==
    /\ call[th].pc = "ret_retry"
    /\ Goto(th, "ret_loaded", top, call[th].idx)
    /\ UNCHANGED <<free_stack, top, out, extra>>

(* Load top; a full stack makes the call return without doing anything.    *)
ReturnLoad(th) ==
    /\ call[th].pc = "ret_retry"
    /\ IF top >= PoolSize
       THEN Done(th)
       ELSE Goto(th, "ret_loaded", top, call[th].idx)
    /\ UNCHANGED <<free_stack, top, out, extra>>

(* free_stack[t] = idx, before the slot is claimed.                        *)
ReturnWrite(th) ==
    /\ call[th].pc = "ret_loaded"
    /\ free_stack' = [free_stack EXCEPT ![call[th].t] = call[th].idx]
    /\ Goto(th, "ret_written", call[th].t, call[th].idx)
    /\ UNCHANGED <<top, out, extra>>

(* Mutant: a failed CAS leaves t alone and tries the same value again.     *)
ReturnCas_Stale(th) ==
    /\ call[th].pc = "ret_written"
    /\ IF top = call[th].t
       THEN top' = top + 1 /\ Done(th)
       ELSE top' = top /\ Goto(th, "ret_loaded", call[th].t, call[th].idx)
    /\ UNCHANGED <<free_stack, out, extra>>

(* The compare-and-swap of top from t to t + 1.                            *)
ReturnCas(th) ==
    /\ call[th].pc = "ret_written"
    /\ IF top = call[th].t
       THEN top' = top + 1 /\ Done(th)
       ELSE top' = top /\ Goto(th, "ret_retry", call[th].t, call[th].idx)
    /\ UNCHANGED <<free_stack, out, extra>>

(* A call goes on once it has begun; whether a thread begins one is open.  *)
Step(th) ==
    \/ call[th].pc = "get_retry" /\ GetLoad(th)
    \/ GetEmpty(th) \/ GetCas(th) \/ GetRead(th)
    \/ ReturnLoad(th) \/ ReturnWrite(th) \/ ReturnCas(th)

Begin(th) ==
    \/ call[th].pc = "idle" /\ GetLoad(th)
    \/ \E idx \in Buffers : ReturnCall(th, idx) \/ ReturnAgain(th, idx)

PoolNext == \E th \in Threads : Step(th) \/ Begin(th)

PoolSpec == PoolInit /\ [][PoolNext]_poolVars

(* No thread is stopped for ever inside a call.                            *)
FairPoolSpec == PoolSpec /\ \A th \in Threads : WF_poolVars(Step(th))

-----------------------------------------------------------------------------
Calls == [pc : {"idle", "get_loaded", "get_retry", "get_won",
                "ret_retry", "ret_loaded", "ret_written"},
          t : 0 .. PoolSize, idx : Buffers]

(* No slot outside free_stack is ever named and top stays within bounds,   *)
(* whatever the callers return and however often.                          *)
PoolTypeOK ==
    /\ free_stack \in [Buffers -> Buffers]
    /\ top \in 0 .. PoolSize
    /\ call \in [Threads -> Calls]
    /\ out \in [Buffers -> Nat]
    /\ extra \in 0 .. MaxExtra

(* Threads that hold a slot they have claimed and not yet read, and        *)
(* threads that hold a buffer they have not yet pushed.                    *)
Claiming == {th \in Threads : call[th].pc = "get_won"}
Returning == {th \in Threads :
                call[th].pc \in {"ret_retry", "ret_loaded", "ret_written"}}

(* One element for every owner of every buffer.                            *)
RefsOf(o) == UNION {{<<i, k>> : k \in 1 .. o[i]} : i \in Buffers}

OwnerRefs == RefsOf(out)

(* The free entries, and the buffers that are out or on their way.         *)
Total == top + Cardinality(OwnerRefs) + Cardinality(Claiming) + Cardinality(Returning)

(***************************************************************************)
(* No buffer count is lost: pool_free_count() plus the buffers that are    *)
(* out or on their way is never below PACKET_POOL_SIZE, and exceeds it by  *)
(* no more than the number of surplus returns.  Without those it is        *)
(* PACKET_POOL_SIZE at every instant, so that a return never takes the     *)
(* silent "t >= PACKET_POOL_SIZE" exit; with them, that exit gives up a    *)
(* surplus entry only.                                                     *)
(***************************************************************************)
CountConserved == PoolSize <= Total /\ Total <= PoolSize + extra

(* Some thread's call returns to its caller.                               *)
Completes == \E th \in Threads : call[th].pc # "idle" /\ call'[th].pc = "idle"

(***************************************************************************)
(* Lock freedom: as long as calls are in progress, some call completes.  A *)
(* CAS loop of pool_get or pool_return fails only because another thread's *)
(* CAS succeeded.                                                          *)
(***************************************************************************)
LockFree ==
    \/ <>[](\A th \in Threads : call[th].pc = "idle")
    \/ []<><<Completes>>_poolVars

(***************************************************************************)
(* What makes PoolTypeOK inductive: a get that won its CAS claimed a slot  *)
(* that exists, and a return writes below PACKET_POOL_SIZE only.           *)
(***************************************************************************)
CallOK(c) ==
    /\ c.pc = "get_won" => c.t >= 1
    /\ c.pc \in {"ret_loaded", "ret_written"} => c.t < PoolSize

PoolInv == PoolTypeOK /\ \A th \in Threads : CallOK(call[th])

CountInv == IsFiniteSet(OwnerRefs) /\ CountConserved
=============================================================================
