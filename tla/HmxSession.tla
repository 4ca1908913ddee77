---------------------------- MODULE HmxSession -----------------------------
(***************************************************************************)
(* cdsp_peak_bench_hmx_int8 of src/dsp/cdsp_peak_hmx.c, run by several     *)
(* FastRPC sessions at once against the one compute-resource manager of    *)
(* the DSP: validation of the call, the nine acquisition steps of          *)
(* hmx_resource_acquire, the staging of the operands in VTCM, the tile     *)
(* loop, and the unwinding of whatever was acquired on every path.         *)
(*                                                                         *)
(* The manager is external.  Each call that acquires something may fail    *)
(* with any error; the calls that give something back, whose results the   *)
(* code ignores, are taken to succeed.  At most CacheSlots contexts are    *)
(* cached at a time, and hmx_lock, which has no timeout, blocks while      *)
(* another context holds the HMX.                                          *)
(***************************************************************************)
EXTENDS HmxModes, AEEStdErr

CONSTANTS
    Clients,     \* FastRPC sessions
    Requests,    \* what each may call with: [mode, lens, left]
    Arch,        \* __HMX_ARCH__ of the skel
    Errs,        \* errors of the manager's calls
    VtcmReports, \* what compute_resource_query_VTCM can say is available
    Bases,       \* addresses the manager can grant VTCM at
    Shortfalls,  \* how far below what was asked a grant's size can be
    CacheSlots,  \* contexts that can be cached at the same time
    MaxCalls     \* bound of the model: calls a session makes

\* A mode, the lengths of the three buffers, and the repeats.
Request == [mode : Modes \cup {NoMode},
            lens : [act : Nat, wei : Nat, out : Nat],
            left : Int]

ASSUME RequestsAssumption == \A c \in Clients : Requests[c] \subseteq Request
ASSUME ErrsAssumption == Errs \subseteq Int \ {0}
ASSUME SizesAssumption ==
    /\ Bases \subseteq Nat /\ Shortfalls \subseteq 0..Page
    /\ VtcmReports \subseteq Nat
    /\ CacheSlots \in Nat /\ MaxCalls \in Nat /\ Arch \in Nat

\* Mutant: the step is not shifted clear of the error byte.
ErrUnshifted(step, e) == 28672 + step + (e % 256)

\* CDSP_PEAK_HMX_ERR(step, err); % 256 is `& 0xff`, of a negative err too.
Err(step, e) == 28672 + step * 256 + (e % 256)

VARIABLES
    api,   \* has_compute_resource_api(): the weak symbols resolved
    pc,    \* pc[c]: where session c's call is
    req,   \* req[c]: its arguments; left counts the repeats still to run
    res,   \* res[c]: its struct hmx_resource
    ret,   \* ret[c]: its return value, once decided
    held,  \* held[c]: what the manager thinks session c holds
    calls, \* calls[c]: calls made
    \* not in the code: what a diagnosis or a result should say
    fault, \* fault[c]: the step that failed and its error
    out    \* out[c]: what *output was last given
local == <<req, res, ret, fault, out>>
vars == <<api, pc, req, res, ret, held, calls, fault, out>>

NoRes   == [ctx |-> FALSE, cached |-> FALSE, locked |-> FALSE,
            base |-> 0, size |-> 0]
NoFault == [step |-> -1, err |-> 0]
NoReq   == [mode |-> "UB", lens |-> [act |-> 0, wei |-> 0, out |-> 0],
            left |-> 0]
Untouched == [by |-> "none", cached |-> FALSE, locked |-> FALSE]

Init ==
    /\ api \in BOOLEAN
    /\ pc = [c \in Clients |-> "idle"]
    /\ req = [c \in Clients |-> NoReq]
    /\ res = [c \in Clients |-> NoRes]
    /\ ret = [c \in Clients |-> EOk]
    /\ held = [c \in Clients |-> {}]
    /\ calls = [c \in Clients |-> 0]
    /\ fault = [c \in Clients |-> NoFault]
    /\ out = [c \in Clients |-> Untouched]

Mode(c) == req[c].mode
Goto(c, label) == pc' = [pc EXCEPT ![c] = label]

\* Return e without going through the resource, or after unwinding it.
Finish(c, e) == Goto(c, "returned") /\ ret' = [ret EXCEPT ![c] = e]
Abort(c, e)  == Goto(c, "unlock")   /\ ret' = [ret EXCEPT ![c] = e]
Blame(c, step, e) == fault' = [fault EXCEPT ![c] = [step |-> step, err |-> e]]

-----------------------------------------------------------------------------
(* The call and its validation.                                            *)

\* A buffer that FastRPC passes as null has length 0, which every mode refuses;
\* cycles and checksum point into the frame of the skel.
Accepts(m, lens, repeats) ==
    /\ repeats > 0 /\ m \in Modes
    /\ lens.act >= ActivationLen(m) /\ lens.wei >= WeightLen(m)
    /\ lens.out >= WrittenLen(m)

Call(c) ==
    /\ pc[c] \in {"idle", "returned"}
    /\ calls[c] < MaxCalls
    /\ calls' = [calls EXCEPT ![c] = @ + 1]
    /\ fault' = [fault EXCEPT ![c] = NoFault]
    /\ out' = [out EXCEPT ![c] = Untouched]
    /\ \E r \in Requests[c] :
          /\ req' = [req EXCEPT ![c] = r]
          /\ \/ Accepts(r.mode, r.lens, r.left)
                /\ Goto(c, "prepare") /\ UNCHANGED ret
             \/ ~Accepts(r.mode, r.lens, r.left) /\ Finish(c, EBadParm)
    /\ UNCHANGED <<api, res, held>>

-----------------------------------------------------------------------------
(* hmx_resource_acquire, one action per call to the manager that matters.  *)

\* Steps 0 to 4: what is available, and the attributes, which are local.
Prepare(c) ==
    /\ pc[c] = "prepare"
    /\ res' = [res EXCEPT ![c] = NoRes]
    /\ \/ ~api /\ Finish(c, EUnsupported) /\ UNCHANGED fault
       \/ /\ api
          /\ \E avail \in VtcmReports : avail < Required(Mode(c))
          /\ Blame(c, 0, ENoMemory)
          /\ Finish(c, Err(0, ENoMemory))
       \/ /\ api
          /\ \E step \in 1..4, e \in Errs :
                Blame(c, step, e) /\ Finish(c, Err(step, e))
       \/ /\ api
          /\ Goto(c, "acquire")
          /\ UNCHANGED <<ret, fault>>
    /\ UNCHANGED <<api, req, held, calls, out>>

Grant(c, what) == held' = [held EXCEPT ![c] = @ \cup {what}]

\* Step 5, compute_resource_acquire: 0 is a failure.
Acquire(c) ==
    /\ pc[c] = "acquire"
    /\ \/ /\ Grant(c, "ctx")
          /\ res' = [res EXCEPT ![c].ctx = TRUE]
          /\ Goto(c, IF UseCached(Mode(c)) THEN "cache" ELSE "pointer")
          /\ UNCHANGED <<ret, fault>>
       \/ /\ Blame(c, 5, ENoMemory)
          /\ Finish(c, Err(5, ENoMemory))
          /\ UNCHANGED <<res, held>>
    /\ UNCHANGED <<api, req, calls, out>>

Caching == {c \in Clients : "cached" \in held[c]}

\* Step 6, compute_resource_acquire_cached.
AcquireCached(c) ==
    /\ pc[c] = "cache"
    /\ \/ /\ Cardinality(Caching) < CacheSlots
          /\ Grant(c, "cached")
          /\ res' = [res EXCEPT ![c].cached = TRUE]
          /\ Goto(c, "pointer")
          /\ UNCHANGED <<ret, fault>>
       \/ \E e \in Errs :
             /\ Blame(c, 6, e)
             /\ Abort(c, Err(6, e))
             /\ UNCHANGED <<res, held>>
    /\ UNCHANGED <<api, req, calls, out>>

\* Step 7, compute_resource_attr_get_vtcm_ptr_v2: an error, a null pointer, or
\* a pointer and the size really granted.
GetPointer(c) ==
    /\ pc[c] = "pointer"
    /\ \/ /\ \E base \in Bases, less \in Shortfalls :
                res' = [res EXCEPT ![c].base = base,
                                   ![c].size = Asked(Mode(c)) - less]
          /\ Goto(c, IF UseLock(Mode(c)) THEN "lock" ELSE "staging")
          /\ UNCHANGED <<ret, fault>>
       \/ \E e \in Errs \cup {ENoMemory} :
             /\ Blame(c, 7, e)
             /\ Abort(c, Err(7, e))
             /\ UNCHANGED res
    /\ UNCHANGED <<api, req, held, calls, out>>

\* Mutant: a failing hmx_lock is reported, but the call goes on.
StagesUnlocked(c, e) == Goto(c, "staging") /\ ret' = [ret EXCEPT ![c] = e]
LockFailure(c, e) == Abort(c, e)

\* Mutant: the wrong flag is set (it is what hmx_resource_release goes by).
MarkCached(r) == [r EXCEPT !.cached = TRUE]

MarkLocked(r) == [r EXCEPT !.locked = TRUE]

\* Step 8, compute_resource_hmx_lock: waits for the HMX, without a timeout.
Lock(c) ==
    /\ pc[c] = "lock"
    /\ \A d \in Clients : "lock" \notin held[d]
    /\ Grant(c, "lock")
    /\ res' = [res EXCEPT ![c] = MarkLocked(@)]
    /\ Goto(c, "staging")
    /\ UNCHANGED <<api, req, ret, calls, fault, out>>

LockFails(c) ==
    /\ pc[c] = "lock"
    /\ \E e \in Errs : Blame(c, 8, e) /\ LockFailure(c, Err(8, e))
    /\ UNCHANGED <<api, req, res, held, calls, out>>

-----------------------------------------------------------------------------
(* The probe and the benchmark.                                            *)

\* The four words of the probe's output, as far as the modes differ in them.
Probe(c) ==
    /\ pc[c] = "staging"
    /\ Mode(c) \in ProbeModes
    /\ out' = [out EXCEPT ![c] = [by |-> "probe", cached |-> res[c].cached,
                                  locked |-> res[c].locked]]
    /\ Abort(c, EOk)
    /\ UNCHANGED <<api, req, res, held, calls, fault>>

\* The layout check: the required bytes fit behind the aligned base.  The sums
\* are taken in full: VTCM is taken to lie so far below 2^32 that no uintptr_t
\* wraps.
Fits(m, r) == AlignedBase(r.base) + Required(m) <= r.base + r.size

\* Mutant: the failing layout check returns err, which is 0 here.
LayoutErrorIsErr == EOk

LayoutError == ENoMemory

\* The operands are copied into VTCM, output is cleared.
Stage(c) ==
    /\ pc[c] = "staging"
    /\ Mode(c) \notin ProbeModes
    /\ \/ /\ Fits(Mode(c), res[c])
          /\ out' = [out EXCEPT ![c].by = "zeros"]
          /\ Goto(c, "running")
          /\ UNCHANGED ret
       \/ /\ ~Fits(Mode(c), res[c])
          /\ Abort(c, LayoutError)
          /\ UNCHANGED out
    /\ UNCHANGED <<api, req, res, held, calls, fault>>

\* One repeat; a tile this architecture was not compiled with ends the call.
Tile(c) ==
    /\ pc[c] = "running"
    /\ req[c].left > 0
    /\ \/ /\ Arch >= MinArch(Mode(c))
          /\ req' = [req EXCEPT ![c].left = @ - 1]
          /\ UNCHANGED <<pc, ret>>
       \/ /\ Arch < MinArch(Mode(c))
          /\ Abort(c, EUnsupported)
          /\ UNCHANGED req
    /\ UNCHANGED <<api, res, held, calls, fault, out>>

\* After the last repeat: the cycles, and the tile's output for the caller.
Deliver(c) ==
    /\ pc[c] = "running"
    /\ req[c].left = 0
    /\ out' = [out EXCEPT ![c].by = "tile"]
    /\ Abort(c, EOk)
    /\ UNCHANGED <<api, req, res, held, calls, fault>>

-----------------------------------------------------------------------------
(* hmx_resource_release, and the releases written out in the error paths   *)
(* of steps 6 and 7, which take the same order.                            *)

Drop(c, what) == held' = [held EXCEPT ![c] = @ \ {what}]

Unlock(c) ==
    /\ pc[c] = "unlock"
    /\ IF res[c].locked THEN Drop(c, "lock") ELSE UNCHANGED held
    /\ Goto(c, "uncache")
    /\ UNCHANGED <<api, calls, local>>

\* Mutant: the cached grant is only given back together with the lock.
CachedIfLocked(r) == r.cached /\ r.locked

HoldsCached(r) == r.cached

ReleaseCached(c) ==
    /\ pc[c] = "uncache"
    /\ IF HoldsCached(res[c]) THEN Drop(c, "cached") ELSE UNCHANGED held
    /\ Goto(c, "release")
    /\ UNCHANGED <<api, calls, local>>

Release(c) ==
    /\ pc[c] = "release"
    /\ IF res[c].ctx THEN Drop(c, "ctx") ELSE UNCHANGED held
    /\ res' = [res EXCEPT ![c] = NoRes]
    /\ Goto(c, "returned")
    /\ UNCHANGED <<api, req, ret, calls, fault, out>>

Step(c) ==
    \/ Prepare(c) \/ Acquire(c) \/ AcquireCached(c) \/ GetPointer(c) \/ Lock(c)
    \/ Probe(c) \/ Stage(c) \/ Tile(c) \/ Deliver(c)
    \/ Unlock(c) \/ ReleaseCached(c) \/ Release(c)

Next == \E c \in Clients : Call(c) \/ Step(c) \/ LockFails(c)

Spec == Init /\ [][Next]_vars

\* Every call that can go on goes on.  A wait for the HMX is not assumed to
\* fail (LockFails is not fair), nor is anything assumed of the order in which
\* the manager hands the HMX out: a session makes finitely many calls.
FairSpec == Spec /\ \A c \in Clients : WF_vars(Step(c))

-----------------------------------------------------------------------------
(* Properties.                                                             *)

Pcs == {"idle", "prepare", "acquire", "cache", "pointer", "lock", "staging",
        "running", "unlock", "uncache", "release", "returned"}
Resource == [ctx : BOOLEAN, cached : BOOLEAN, locked : BOOLEAN,
             base : Nat, size : Nat]

\* Every variable keeps its type.
TypeOK ==
    /\ api \in BOOLEAN
    /\ pc \in [Clients -> Pcs]
    /\ req \in [Clients -> Request]
    /\ res \in [Clients -> Resource]
    /\ ret \in [Clients -> Int]
    /\ held \in [Clients -> SUBSET {"ctx", "cached", "lock"}]
    /\ calls \in [Clients -> 0..MaxCalls]
    /\ fault \in [Clients -> [step : -1..8, err : Int]]
    /\ out \in [Clients -> [by : {"none", "probe", "zeros", "tile"},
                            cached : BOOLEAN, locked : BOOLEAN]]

\* The HMX engine runs one session's tiles at a time, and only under the lock
\* of the session that runs them, with its VTCM cached.
HmxExclusive ==
    \A c \in Clients : pc[c] = "running" =>
        /\ held[c] = {"ctx", "cached", "lock"}
        /\ \A d \in Clients : pc[d] = "running" => d = c

\* Whatever failed, a call that has returned holds nothing of the manager.
NoLeakOnReturn ==
    \A c \in Clients : pc[c] \in {"idle", "returned"} => held[c] = {}

\* Resources are nested: no step ever leaves the HMX locked or the VTCM cached
\* under a context that was already released.
Nested ==
    \A c \in Clients : /\ "lock" \in held[c] => "cached" \in held[c]
                       /\ "cached" \in held[c] => "ctx" \in held[c]

\* The inductive invariant behind HmxExclusive, NoLeakOnReturn and Nested: what
\* the manager lent to a session is what the session's struct says, less what
\* the unwinding already gave back; at each label the struct says what the
\* mode's flags asked for; and the HMX is lent once.
HeldInv ==
    \A c \in Clients :
        /\ "ctx" \in held[c] <=> res[c].ctx = TRUE
        /\ "cached" \in held[c] <=> res[c].cached = TRUE /\ pc[c] # "release"
        /\ "lock" \in held[c] <=> /\ res[c].locked = TRUE
                                  /\ pc[c] \notin {"uncache", "release"}
FlagsInv ==
    \A c \in Clients :
        /\ pc[c] \in {"idle", "returned", "prepare", "acquire"} =>
              res[c].ctx = FALSE
        /\ pc[c] \in {"cache", "pointer", "lock", "staging", "running"} =>
              res[c].ctx = TRUE
        /\ pc[c] = "cache" => UseCached(Mode(c)) /\ res[c].cached = FALSE
        /\ pc[c] \in {"cache", "pointer", "lock"} => res[c].locked = FALSE
        /\ pc[c] \in {"pointer", "lock", "staging", "running"} =>
              (res[c].cached = TRUE <=> UseCached(Mode(c)))
        /\ pc[c] = "lock" => UseLock(Mode(c))
        /\ pc[c] \in {"staging", "running"} =>
              (res[c].locked = TRUE <=> UseLock(Mode(c)))
        /\ pc[c] = "running" => Mode(c) \notin ProbeModes
        /\ res[c].locked = TRUE => res[c].cached = TRUE
        /\ res[c].cached = TRUE => res[c].ctx = TRUE
LockInv ==
    \A c, d \in Clients : "lock" \in held[c] /\ "lock" \in held[d] => c = d
IInv == TypeOK /\ HeldInv /\ FlagsInv /\ LockInv

\* A failed acquisition is diagnosed: the step encoded in the return value is
\* the step that failed, and the low byte is that of its error, so that no
\* failure looks like success or like a failure of another step.
DiagnosisFaithful ==
    \A c \in Clients :
        pc[c] = "returned" /\ fault[c] # NoFault =>
            /\ (ret[c] - 28672) \div 256 = fault[c].step
            /\ (ret[c] - 28672) % 256 = fault[c].err % 256

\* What a successful probe row says: the resource probe held no cached grant
\* and no lock, the cached probe the grant only, the lock probe both.
ProbeTruth ==
    \A c \in Clients :
        pc[c] = "returned" /\ ret[c] = EOk /\ Mode(c) \in ProbeModes =>
            out[c] = [by |-> "probe",
                      cached |-> Mode(c) # "PROBE_RESOURCE",
                      locked |-> Mode(c) = "PROBE_LOCK"]

\* Success means that every repeat ran and its output was delivered; a failed
\* call never leaves the caller anything that looks like a tile.
SuccessMeansDone ==
    \A c \in Clients :
        pc[c] = "returned" /\ Mode(c) \in TileModes =>
            (calls[c] > 0 /\ ret[c] = EOk
                <=> out[c].by = "tile" /\ req[c].left = 0)

\* Staging and delivery stay inside the buffers the caller passed (memcpy reads
\* the weights twice, the second time one u8 tile), and while the tile loop runs
\* its blocks lie inside the memory this session was granted, apart from each
\* other, and hold whatever the tile reads; its output stores cover exactly the
\* bytes that are copied out.
Inside(blocks, r) == \A b \in Blocks : /\ r.base <= blocks[b].lo
                                       /\ blocks[b].hi <= r.base + r.size
Apart(blocks) == \A a, b \in Blocks : \/ a = b
                                      \/ blocks[a].hi <= blocks[b].lo
                                      \/ blocks[b].hi <= blocks[a].lo
CallerBuffersHold(m, lens) == /\ ActivationLen(m) <= lens.act
                              /\ WeightLen(m) <= lens.wei /\ U8 <= lens.wei
                              /\ WrittenLen(m) <= lens.out
FootprintFits ==
    \A c \in Clients :
        /\ pc[c] \in {"staging", "running"} =>
              CallerBuffersHold(Mode(c), req[c].lens)
        /\ pc[c] = "running" =>
              LET blocks == Layout(Mode(c), res[c].base)
              IN  /\ Inside(blocks, res[c])
                  /\ Apart(blocks)
                  /\ \A b \in DOMAIN TileReads(Mode(c)) :
                        blocks[b].lo + TileReads(Mode(c))[b] <= blocks[b].hi
                  /\ Tiles(TileWrites(Mode(c)), WrittenLen(Mode(c)))

\* The inductive invariant of what a call tells its caller: until the outcome is
\* decided there is no fault, and nothing in the output but the zeros of the
\* running tile loop, whose blocks fit the grant; a fault is in the code that
\* is returned; success and a full output come together; and whoever works on
\* the caller's buffers has found them long enough.
Working == {"prepare", "acquire", "cache", "pointer", "lock", "staging",
            "running"}
Explained(c) ==
    /\ pc[c] \in Working => fault[c] = NoFault
    /\ fault[c] = NoFault \/ /\ fault[c].step \in 0..8
                             /\ ret[c] = Err(fault[c].step, fault[c].err)
Probed(c) ==
    pc[c] \notin Working \cup {"idle"} /\ Mode(c) \in ProbeModes
    /\ ret[c] = EOk =>
        /\ out[c].by = "probe"
        /\ out[c].cached = TRUE <=> UseCached(Mode(c))
        /\ out[c].locked = TRUE <=> UseLock(Mode(c))
Delivered(c) ==
    /\ pc[c] \in Working \ {"running"} => out[c].by = "none"
    /\ pc[c] = "running" => out[c].by = "zeros"
    /\ pc[c] \notin Working \cup {"idle"} /\ Mode(c) \in TileModes =>
          /\ ret[c] = EOk <=> out[c].by = "tile"
          /\ ret[c] = EOk => req[c].left = 0
    /\ pc[c] = "idle" => out[c].by = "none"
    /\ pc[c] # "idle" => calls[c] > 0
Bounded(c) ==
    /\ pc[c] \in Working =>
          /\ Mode(c) \in Modes
          /\ CallerBuffersHold(Mode(c), req[c].lens)
    /\ pc[c] = "running" => Fits(Mode(c), res[c])
CallInv ==
    \A c \in Clients : Explained(c) /\ Probed(c) /\ Delivered(c) /\ Bounded(c)

\* A call returns even if hmx_lock had to wait: whoever holds the HMX gives it
\* back, on every path.
CallReturns == \A c \in Clients : pc[c] = "prepare" ~> pc[c] = "returned"
=============================================================================
