-------------------------- MODULE HmxSessionProofs --------------------------
(***************************************************************************)
(* Proofs about HmxSession for every set of sessions, every mix of modes,  *)
(* buffer lengths and repeats, and every error the resource manager may    *)
(* answer: the HMX is exclusive, resources are nested, no call leaks any,  *)
(* and what a call tells its caller is true.                               *)
(***************************************************************************)
EXTENDS HmxSession, FiniteSetTheorems, TLAPS

\* What Required is made of: small natural numbers.
LEMMA LensAreNat ==
    ASSUME NEW m
    PROVE  /\ ActivationLen(m) \in Nat /\ WeightLen(m) \in Nat
           /\ WrittenLen(m) \in Nat
BY DEF ActivationLen, WeightLen, WrittenLen, U8, U16, U16x2x2, DeepTiles

\* The size asked of the manager is at least a page, so that a grant smaller by
\* up to a page still has a natural size.
LEMMA AskedAPage == ASSUME NEW m PROVE Asked(m) \in Nat /\ Asked(m) >= Page
<1>1. Required(m) \in Nat /\ Required(m) > 0
  BY LensAreNat DEF Required, U8, BiasBytes, Slack
<1>2. QED
  BY <1>1 DEF Asked, RoundUp, Page

\* Only a mode that caches locks.
LEMMA LockNeedsCache == ASSUME NEW m, UseLock(m) PROVE UseCached(m)
BY DEF UseLock, UseCached

\* A mode that is no probe caches and locks.
LEMMA TilesLock ==
    ASSUME NEW m, m \notin ProbeModes PROVE UseLock(m) /\ UseCached(m)
BY DEF ProbeModes, UseLock, UseCached

\* What an update of one field of a session's struct does.
LEMMA ResourceUpdates ==
    ASSUME NEW r \in Resource
    PROVE  /\ [r EXCEPT !.ctx = TRUE] \in Resource
           /\ [r EXCEPT !.cached = TRUE] \in Resource
           /\ [r EXCEPT !.locked = TRUE] \in Resource
           /\ NoRes \in Resource
           /\ \A b, s \in Nat : [r EXCEPT !.base = b, !.size = s] \in Resource
BY Zenon DEF Resource, NoRes

LEMMA ResourceFields ==
    ASSUME NEW r \in Resource
    PROVE  /\ [r EXCEPT !.ctx = TRUE].ctx = TRUE
           /\ [r EXCEPT !.ctx = TRUE].cached = r.cached
           /\ [r EXCEPT !.ctx = TRUE].locked = r.locked
           /\ [r EXCEPT !.cached = TRUE].ctx = r.ctx
           /\ [r EXCEPT !.cached = TRUE].cached = TRUE
           /\ [r EXCEPT !.cached = TRUE].locked = r.locked
BY Zenon DEF Resource

\* Taking up to a page off at least a page leaves a natural number.
LEMMA ShortGrant ==
    ASSUME NEW n \in Nat, n >= Page, NEW gap \in 0..Page
    PROVE  n - gap \in Nat
BY DEF Page

\* A pointer and a size the manager granted fit the struct.
LEMMA GrantedPointer ==
    ASSUME NEW r \in Resource, NEW m, NEW base \in Bases, NEW gap \in Shortfalls
    PROVE  [r EXCEPT !.base = base, !.size = Asked(m) - gap] \in Resource
<1>1. base \in Nat /\ gap \in 0..Page
  BY SizesAssumption
<1>2. Asked(m) \in Nat /\ Asked(m) >= Page
  BY AskedAPage, Zenon
<1>3. Asked(m) - gap \in Nat
  BY <1>1, <1>2, ShortGrant, Zenon
<1>4. QED
  BY <1>1, <1>3, ResourceUpdates, Zenon

\* One repeat less is still a request, for the same mode.
LEMMA RequestUpdate ==
    ASSUME NEW r \in Request, NEW n \in Int
    PROVE  /\ [r EXCEPT !.left = n] \in Request
           /\ [r EXCEPT !.left = n].mode = r.mode
BY Zenon DEF Request

\* Lending something to a session or taking it back keeps `held` what it is.
LEMMA HeldUpdate ==
    ASSUME NEW h \in [Clients -> SUBSET {"ctx", "cached", "lock"}],
           NEW c \in Clients, NEW what \in {"ctx", "cached", "lock"}
    PROVE  /\ [h EXCEPT ![c] = @ \cup {what}]
                  \in [Clients -> SUBSET {"ctx", "cached", "lock"}]
           /\ [h EXCEPT ![c] = @ \ {what}]
                  \in [Clients -> SUBSET {"ctx", "cached", "lock"}]
OBVIOUS

\* The return codes are integers.
LEMMA ErrIsInt == ASSUME NEW s \in 0..8, NEW e \in Int PROVE Err(s, e) \in Int
BY DEF Err

\* The initial states satisfy the inductive invariant.
THEOREM InitInv == Init => IInv
<1> SUFFICES ASSUME Init PROVE IInv
  OBVIOUS
<1>1. TypeOK
  BY SizesAssumption
     DEF Init, TypeOK, Pcs, Request, Resource, NoReq, NoRes, NoFault, Untouched,
         EOk, Modes, TileModes, UbModes
<1>2. HeldInv
  BY DEF Init, HeldInv, NoRes
<1>3. FlagsInv
  BY DEF Init, FlagsInv, NoRes
<1>4. LockInv
  BY DEF Init, LockInv
<1>5. QED
  BY <1>1, <1>2, <1>3, <1>4 DEF IInv

\* IInv is kept by Call: a session makes a call and has it validated.
LEMMA CallStep ==
    ASSUME IInv, NEW c \in Clients, Call(c) PROVE IInv'
<1> USE DEF IInv, Call, Finish, Goto
<1>1. TypeOK'
  <2>1. pc' \in [Clients -> Pcs]
    BY DEF TypeOK, Pcs
  <2>2. req' \in [Clients -> Request]
    BY RequestsAssumption DEF TypeOK
  <2>3. ret' \in [Clients -> Int]
    BY DEF TypeOK, EOk, ENoMemory, EBadParm, EUnsupported
  <2>4. calls' \in [Clients -> 0..MaxCalls]
    BY SizesAssumption DEF TypeOK
  <2>5. fault' \in [Clients -> [step : -1..8, err : Int]]
    BY DEF TypeOK, NoFault, ENoMemory
  <2>6. out' \in [Clients -> [by : {"none", "probe", "zeros", "tile"},
                          cached : BOOLEAN, locked : BOOLEAN]]
    BY DEF TypeOK, Untouched
  <2>7. QED
    BY <2>1, <2>2, <2>3, <2>4, <2>5, <2>6 DEF TypeOK
<1>2. HeldInv'
  BY DEF TypeOK, HeldInv, FlagsInv, Resource, NoRes
<1>3. FlagsInv'
  BY LockNeedsCache, TilesLock DEF TypeOK, FlagsInv, Resource, NoRes, Mode
<1>4. LockInv'
  BY DEF TypeOK, LockInv
<1>5. QED
  BY <1>1, <1>2, <1>3, <1>4

\* IInv is kept by Prepare: steps 0 to 4 of the acquisition.
LEMMA PrepareStep ==
    ASSUME IInv, NEW c \in Clients, Prepare(c) PROVE IInv'
<1> USE DEF IInv, Prepare, Finish, Goto, Blame
<1>1. TypeOK'
  <2>1. pc' \in [Clients -> Pcs]
    BY DEF TypeOK, Pcs
  <2>2. res' \in [Clients -> Resource]
    BY DEF TypeOK, Resource, NoRes
  <2>3. ret' \in [Clients -> Int]
    <3>1. Err(0, ENoMemory) \in Int /\ EUnsupported \in Int
      BY ErrIsInt DEF ENoMemory, EUnsupported
    <3>2. ASSUME NEW step \in 1..4, NEW e \in Errs PROVE Err(step, e) \in Int
      <4>1. step \in 0..8 /\ e \in Int
        BY ErrsAssumption
      <4>2. QED
        BY <4>1, ErrIsInt
    <3>3. QED
      BY <3>1, <3>2 DEF TypeOK
  <2>4. fault' \in [Clients -> [step : -1..8, err : Int]]
    BY ErrsAssumption DEF TypeOK, NoFault, ENoMemory
  <2>5. QED
    BY <2>1, <2>2, <2>3, <2>4 DEF TypeOK
<1>2. HeldInv'
  BY DEF TypeOK, HeldInv, FlagsInv, Resource, NoRes
<1>3. FlagsInv'
  BY LockNeedsCache, TilesLock DEF TypeOK, FlagsInv, Resource, NoRes, Mode
<1>4. LockInv'
  BY DEF TypeOK, LockInv
<1>5. QED
  BY <1>1, <1>2, <1>3, <1>4

\* IInv is kept by Acquire: step 5, the context.
LEMMA AcquireStep ==
    ASSUME IInv, NEW c \in Clients, Acquire(c) PROVE IInv'
<1> USE DEF IInv, Acquire, Finish, Goto, Blame, Grant
<1>1. TypeOK'
  <2>1. pc' \in [Clients -> Pcs]
    BY DEF TypeOK, Pcs
  <2>2. res' \in [Clients -> Resource]
    <3>1. [res[c] EXCEPT !.ctx = TRUE] \in Resource
      BY ResourceUpdates DEF TypeOK
    <3>2. QED
      BY <3>1 DEF TypeOK
  <2>3. ret' \in [Clients -> Int]
    BY ErrIsInt DEF TypeOK, EOk, ENoMemory, EBadParm, EUnsupported
  <2>4. held' \in [Clients -> SUBSET {"ctx", "cached", "lock"}]
    <3>1. [held EXCEPT ![c] = @ \cup {"ctx"}]
              \in [Clients -> SUBSET {"ctx", "cached", "lock"}]
      BY HeldUpdate DEF TypeOK
    <3>2. held' = held \/ held' = [held EXCEPT ![c] = @ \cup {"ctx"}]
      OBVIOUS
    <3>3. held \in [Clients -> SUBSET {"ctx", "cached", "lock"}]
      BY DEF TypeOK
    <3> HIDE DEF IInv, Acquire
    <3>4. QED
      BY <3>1, <3>2, <3>3
  <2>5. fault' \in [Clients -> [step : -1..8, err : Int]]
    BY DEF TypeOK, NoFault, ENoMemory
  <2>6. QED
    BY <2>1, <2>2, <2>3, <2>4, <2>5 DEF TypeOK
<1>2. /\ req' = req
      /\ \A d \in Clients : d # c => /\ pc'[d] = pc[d] /\ res'[d] = res[d]
                                     /\ held'[d] = held[d]
  BY DEF TypeOK
<1>3. \/ /\ res'[c].ctx = TRUE
         /\ res'[c].cached = res[c].cached
         /\ res'[c].locked = res[c].locked
         /\ held'[c] = held[c] \cup {"ctx"}
         /\ pc'[c] = (IF UseCached(Mode(c)) THEN "cache" ELSE "pointer")
      \/ /\ res'[c] = res[c] /\ held'[c] = held[c]
         /\ pc'[c] = "returned"
  <2>1. CASE Finish(c, Err(5, ENoMemory)) /\ UNCHANGED <<res, held>>
    BY <2>1 DEF TypeOK
  <2>2. CASE /\ Grant(c, "ctx")
             /\ res' = [res EXCEPT ![c].ctx = TRUE]
             /\ Goto(c, IF UseCached(Mode(c)) THEN "cache" ELSE "pointer")
    <3>1. res[c] \in Resource /\ res'[c] = [res[c] EXCEPT !.ctx = TRUE]
      BY <2>2 DEF TypeOK
    <3>2. /\ res'[c].ctx = TRUE
          /\ res'[c].cached = res[c].cached
          /\ res'[c].locked = res[c].locked
      BY <3>1, ResourceFields
    <3>3. QED
      BY <2>2, <3>2 DEF TypeOK
  <2>3. QED
    BY <2>1, <2>2
<1>4. HeldInv'
  BY <1>2, <1>3 DEF HeldInv, FlagsInv
<1>5. FlagsInv'
  BY <1>2, <1>3 DEF FlagsInv, Mode
<1>6. LockInv'
  BY <1>2, <1>3 DEF LockInv
<1>7. QED
  BY <1>1, <1>4, <1>5, <1>6

\* IInv is kept by AcquireCached: step 6, the cached grant.
LEMMA AcquireCachedStep ==
    ASSUME IInv, NEW c \in Clients, AcquireCached(c) PROVE IInv'
<1> USE DEF IInv, AcquireCached, Abort, Goto, Blame, Grant
<1>1. TypeOK'
  <2>1. pc' \in [Clients -> Pcs]
    BY DEF TypeOK, Pcs
  <2>2. res' \in [Clients -> Resource]
    <3>1. [res[c] EXCEPT !.cached = TRUE] \in Resource
      BY ResourceUpdates DEF TypeOK
    <3>2. QED
      BY <3>1 DEF TypeOK
  <2>3. ret' \in [Clients -> Int]
    BY ErrsAssumption, ErrIsInt
       DEF TypeOK, EOk, ENoMemory, EBadParm, EUnsupported
  <2>4. held' \in [Clients -> SUBSET {"ctx", "cached", "lock"}]
    <3>1. [held EXCEPT ![c] = @ \cup {"cached"}]
              \in [Clients -> SUBSET {"ctx", "cached", "lock"}]
      BY HeldUpdate DEF TypeOK
    <3>2. held' = held \/ held' = [held EXCEPT ![c] = @ \cup {"cached"}]
      OBVIOUS
    <3>3. held \in [Clients -> SUBSET {"ctx", "cached", "lock"}]
      BY DEF TypeOK
    <3> HIDE DEF IInv, AcquireCached
    <3>4. QED
      BY <3>1, <3>2, <3>3
  <2>5. fault' \in [Clients -> [step : -1..8, err : Int]]
    BY ErrsAssumption DEF TypeOK, NoFault, ENoMemory
  <2>6. QED
    BY <2>1, <2>2, <2>3, <2>4, <2>5 DEF TypeOK
<1>2. /\ req' = req
      /\ \A d \in Clients : d # c => /\ pc'[d] = pc[d] /\ res'[d] = res[d]
                                     /\ held'[d] = held[d]
  BY DEF TypeOK
<1>3. \/ /\ res'[c].ctx = res[c].ctx
         /\ res'[c].cached = TRUE
         /\ res'[c].locked = res[c].locked
         /\ held'[c] = held[c] \cup {"cached"}
         /\ pc'[c] = "pointer"
      \/ /\ res'[c] = res[c] /\ held'[c] = held[c]
         /\ pc'[c] = "unlock"
  <2>1. CASE Goto(c, "unlock") /\ UNCHANGED <<res, held>>
    BY <2>1 DEF TypeOK
  <2>2. CASE /\ Grant(c, "cached")
             /\ res' = [res EXCEPT ![c].cached = TRUE]
             /\ Goto(c, "pointer")
    <3>1. res[c] \in Resource /\ res'[c] = [res[c] EXCEPT !.cached = TRUE]
      BY <2>2 DEF TypeOK
    <3>2. /\ res'[c].ctx = res[c].ctx
          /\ res'[c].cached = TRUE
          /\ res'[c].locked = res[c].locked
      BY <3>1, ResourceFields
    <3>3. QED
      BY <2>2, <3>2 DEF TypeOK
  <2>3. QED
    BY <2>1, <2>2
<1>4. HeldInv'
  BY <1>2, <1>3 DEF HeldInv, FlagsInv
<1>5. FlagsInv'
  BY <1>2, <1>3 DEF FlagsInv, Mode
<1>6. LockInv'
  BY <1>2, <1>3 DEF LockInv
<1>7. QED
  BY <1>1, <1>4, <1>5, <1>6

\* IInv is kept by GetPointer: step 7, the VTCM pointer.
LEMMA GetPointerStep ==
    ASSUME IInv, NEW c \in Clients, GetPointer(c) PROVE IInv'
<1> USE DEF IInv, GetPointer, Abort, Goto, Blame
<1>1. TypeOK'
  <2>1. pc' \in [Clients -> Pcs]
    BY DEF TypeOK, Pcs
  <2>2. res' \in [Clients -> Resource]
    <3>1. ASSUME NEW base \in Bases, NEW gap \in Shortfalls
          PROVE  [res[c] EXCEPT !.base = base, !.size = Asked(Mode(c)) - gap]
                     \in Resource
      BY GrantedPointer DEF TypeOK
    <3>2. CASE UNCHANGED res
      BY <3>2 DEF TypeOK
    <3>3. ASSUME NEW base \in Bases, NEW gap \in Shortfalls,
                 res' = [res EXCEPT ![c].base = base,
                                    ![c].size = Asked(Mode(c)) - gap]
          PROVE  res' \in [Clients -> Resource]
      BY <3>1, <3>3 DEF TypeOK
    <3>4. QED
      BY <3>2, <3>3
  <2>3. ret' \in [Clients -> Int]
    BY ErrsAssumption, ErrIsInt
       DEF TypeOK, EOk, ENoMemory, EBadParm, EUnsupported
  <2>4. fault' \in [Clients -> [step : -1..8, err : Int]]
    BY ErrsAssumption DEF TypeOK, NoFault, ENoMemory
  <2>5. QED
    BY <2>1, <2>2, <2>3, <2>4 DEF TypeOK
<1>2. /\ UNCHANGED <<req, held>>
      /\ \A d \in Clients : d # c => pc'[d] = pc[d] /\ res'[d] = res[d]
  BY DEF TypeOK
<1>3. pc'[c] \in {IF UseLock(Mode(c)) THEN "lock" ELSE "staging", "unlock"}
  BY DEF TypeOK
<1>4. /\ res'[c].ctx = res[c].ctx
      /\ res'[c].cached = res[c].cached
      /\ res'[c].locked = res[c].locked
  <2>1. CASE UNCHANGED res
    BY <2>1
  <2>2. ASSUME NEW base \in Bases, NEW gap \in Shortfalls,
               res' = [res EXCEPT ![c].base = base,
                                  ![c].size = Asked(Mode(c)) - gap]
        PROVE  /\ res'[c].ctx = res[c].ctx
               /\ res'[c].cached = res[c].cached
               /\ res'[c].locked = res[c].locked
    <3>1. /\ res[c] \in Resource
          /\ res'[c] = [res[c] EXCEPT !.base = base,
                                     !.size = Asked(Mode(c)) - gap]
      BY <2>2 DEF TypeOK
    <3> HIDE DEF IInv, GetPointer, Abort, Goto, Blame
    <3>2. QED
      BY <3>1, Zenon DEF Resource
  <2>3. QED
    BY <2>1, <2>2
<1>5. HeldInv'
  BY <1>2, <1>3, <1>4 DEF HeldInv, FlagsInv
<1>6. FlagsInv'
  BY <1>2, <1>3, <1>4 DEF FlagsInv, Mode
<1>7. LockInv'
  BY <1>2 DEF LockInv
<1>8. QED
  BY <1>1, <1>5, <1>6, <1>7

\* IInv is kept by Lock: step 8, the HMX is lent to this session.
LEMMA LockStep ==
    ASSUME IInv, NEW c \in Clients, Lock(c) PROVE IInv'
<1> USE DEF IInv, Lock, Goto, Grant, MarkLocked
<1>1. TypeOK'
  <2>1. pc' \in [Clients -> Pcs]
    BY DEF TypeOK, Pcs
  <2>2. res' \in [Clients -> Resource]
    <3>1. [res[c] EXCEPT !.locked = TRUE] \in Resource
      BY ResourceUpdates DEF TypeOK
    <3>2. QED
      BY <3>1 DEF TypeOK
  <2>3. held' \in [Clients -> SUBSET {"ctx", "cached", "lock"}]
    BY DEF TypeOK
  <2>4. QED
    BY <2>1, <2>2, <2>3 DEF TypeOK
<1>2. HeldInv'
  BY DEF TypeOK, HeldInv, FlagsInv, Resource, NoRes
<1>3. FlagsInv'
  BY LockNeedsCache, TilesLock DEF TypeOK, FlagsInv, Resource, NoRes, Mode
<1>4. LockInv'
  BY DEF TypeOK, LockInv
<1>5. QED
  BY <1>1, <1>2, <1>3, <1>4

\* IInv is kept by LockFails: step 8 fails.
LEMMA LockFailsStep ==
    ASSUME IInv, NEW c \in Clients, LockFails(c) PROVE IInv'
<1> USE DEF IInv, LockFails, Abort, Goto, Blame, LockFailure
<1>1. TypeOK'
  <2>1. pc' \in [Clients -> Pcs]
    BY DEF TypeOK, Pcs
  <2>2. ret' \in [Clients -> Int]
    BY ErrsAssumption, ErrIsInt
       DEF TypeOK, EOk, ENoMemory, EBadParm, EUnsupported
  <2>3. fault' \in [Clients -> [step : -1..8, err : Int]]
    BY ErrsAssumption DEF TypeOK, NoFault, ENoMemory
  <2>4. QED
    BY <2>1, <2>2, <2>3 DEF TypeOK
<1>2. HeldInv'
  BY DEF TypeOK, HeldInv, FlagsInv, Resource, NoRes
<1>3. FlagsInv'
  BY LockNeedsCache, TilesLock DEF TypeOK, FlagsInv, Resource, NoRes, Mode
<1>4. LockInv'
  BY DEF TypeOK, LockInv
<1>5. QED
  BY <1>1, <1>2, <1>3, <1>4

\* IInv is kept by Probe: a probe fills its output.
LEMMA ProbeStep ==
    ASSUME IInv, NEW c \in Clients, Probe(c) PROVE IInv'
<1> USE DEF IInv, Probe, Abort, Goto
<1>1. TypeOK'
  <2>1. pc' \in [Clients -> Pcs]
    BY DEF TypeOK, Pcs
  <2>2. ret' \in [Clients -> Int]
    BY DEF TypeOK, EOk, ENoMemory, EBadParm, EUnsupported
  <2>3. out' \in [Clients -> [by : {"none", "probe", "zeros", "tile"},
                          cached : BOOLEAN, locked : BOOLEAN]]
    <3>1. res[c].cached \in BOOLEAN /\ res[c].locked \in BOOLEAN
      BY Zenon DEF TypeOK, Resource
    <3>2. [by |-> "probe", cached |-> res[c].cached, locked |-> res[c].locked]
              \in [by : {"none", "probe", "zeros", "tile"},
                   cached : BOOLEAN, locked : BOOLEAN]
      BY <3>1, Zenon
    <3>3. QED
      BY <3>2 DEF TypeOK
  <2>4. QED
    BY <2>1, <2>2, <2>3 DEF TypeOK
<1>2. HeldInv'
  BY DEF TypeOK, HeldInv, FlagsInv, Resource, NoRes
<1>3. FlagsInv'
  BY LockNeedsCache, TilesLock DEF TypeOK, FlagsInv, Resource, NoRes, Mode
<1>4. LockInv'
  BY DEF TypeOK, LockInv
<1>5. QED
  BY <1>1, <1>2, <1>3, <1>4

\* IInv is kept by Stage: the operands are staged, or do not fit.
LEMMA StageStep ==
    ASSUME IInv, NEW c \in Clients, Stage(c) PROVE IInv'
<1> USE DEF IInv, Stage, Abort, Goto, LayoutError
<1>1. TypeOK'
  <2>1. pc' \in [Clients -> Pcs]
    BY DEF TypeOK, Pcs
  <2>2. ret' \in [Clients -> Int]
    BY DEF TypeOK, EOk, ENoMemory, EBadParm, EUnsupported
  <2>3. out' \in [Clients -> [by : {"none", "probe", "zeros", "tile"},
                          cached : BOOLEAN, locked : BOOLEAN]]
    <3> DEFINE Output == [by : {"none", "probe", "zeros", "tile"},
                          cached : BOOLEAN, locked : BOOLEAN]
    <3>1. out[c] \in Output
      BY DEF TypeOK
    <3>2. [out[c] EXCEPT !.by = "zeros"] \in Output
      BY <3>1, Zenon
    <3>3. QED
      BY <3>2 DEF TypeOK
  <2>4. QED
    BY <2>1, <2>2, <2>3 DEF TypeOK
<1>2. HeldInv'
  BY DEF TypeOK, HeldInv, FlagsInv, Resource, NoRes
<1>3. FlagsInv'
  BY LockNeedsCache, TilesLock DEF TypeOK, FlagsInv, Resource, NoRes, Mode
<1>4. LockInv'
  BY DEF TypeOK, LockInv
<1>5. QED
  BY <1>1, <1>2, <1>3, <1>4

\* IInv is kept by Tile: one repeat of the tile loop.
LEMMA TileStep ==
    ASSUME IInv, NEW c \in Clients, Tile(c) PROVE IInv'
<1> USE DEF IInv, Tile, Abort, Goto
<1>1. TypeOK'
  <2>1. pc' \in [Clients -> Pcs]
    BY DEF TypeOK, Pcs
  <2>2. req' \in [Clients -> Request]
    <3>1. req[c] \in Request /\ req[c].left - 1 \in Int
      BY DEF TypeOK, Request
    <3>2. [req[c] EXCEPT !.left = req[c].left - 1] \in Request
      BY <3>1, RequestUpdate
    <3>3. QED
      BY <3>2 DEF TypeOK
  <2>3. ret' \in [Clients -> Int]
    BY DEF TypeOK, EOk, ENoMemory, EBadParm, EUnsupported
  <2>4. QED
    BY <2>1, <2>2, <2>3 DEF TypeOK
<1>2. HeldInv'
  BY DEF TypeOK, HeldInv, FlagsInv, Resource, NoRes
<1>3. FlagsInv'
  <2>1. \A d \in Clients : Mode(d)' = Mode(d)
    <3>1. req[c] \in Request /\ req[c].left - 1 \in Int
      BY DEF TypeOK, Request
    <3>2. [req[c] EXCEPT !.left = req[c].left - 1].mode = req[c].mode
      BY <3>1, RequestUpdate
    <3>3. QED
      BY <3>2 DEF TypeOK, Mode
  <2>2. \A d \in Clients : pc'[d] = pc[d] \/ pc'[d] = "unlock"
    BY DEF TypeOK
  <2>3. QED
    BY <2>1, <2>2 DEF FlagsInv
<1>4. LockInv'
  BY DEF TypeOK, LockInv
<1>5. QED
  BY <1>1, <1>2, <1>3, <1>4

\* IInv is kept by Deliver: the output goes to the caller.
LEMMA DeliverStep ==
    ASSUME IInv, NEW c \in Clients, Deliver(c) PROVE IInv'
<1> USE DEF IInv, Deliver, Abort, Goto
<1>1. TypeOK'
  <2>1. pc' \in [Clients -> Pcs]
    BY DEF TypeOK, Pcs
  <2>2. ret' \in [Clients -> Int]
    BY DEF TypeOK, EOk
  <2>3. out' \in [Clients -> [by : {"none", "probe", "zeros", "tile"},
                             cached : BOOLEAN, locked : BOOLEAN]]
    BY DEF TypeOK
  <2>4. QED
    BY <2>1, <2>2, <2>3 DEF TypeOK
<1>2. HeldInv'
  BY DEF TypeOK, HeldInv, FlagsInv, Resource, NoRes
<1>3. FlagsInv'
  BY LockNeedsCache, TilesLock DEF TypeOK, FlagsInv, Resource, NoRes, Mode
<1>4. LockInv'
  BY DEF TypeOK, LockInv
<1>5. QED
  BY <1>1, <1>2, <1>3, <1>4

\* IInv is kept by Unlock: the HMX is given back.
LEMMA UnlockStep ==
    ASSUME IInv, NEW c \in Clients, Unlock(c) PROVE IInv'
<1> USE DEF IInv, Unlock, Goto, Drop, local
<1>1. TypeOK'
  <2>1. pc' \in [Clients -> Pcs]
    BY DEF TypeOK, Pcs
  <2>2. held' \in [Clients -> SUBSET {"ctx", "cached", "lock"}]
    <3>1. [held EXCEPT ![c] = @ \ {"lock"}]
              \in [Clients -> SUBSET {"ctx", "cached", "lock"}]
      BY HeldUpdate DEF TypeOK
    <3>2. held' = held \/ held' = [held EXCEPT ![c] = @ \ {"lock"}]
      OBVIOUS
    <3>3. held \in [Clients -> SUBSET {"ctx", "cached", "lock"}]
      BY DEF TypeOK
    <3> HIDE DEF IInv, Unlock
    <3>4. QED
      BY <3>1, <3>2, <3>3
  <2>3. QED
    BY <2>1, <2>2 DEF TypeOK
<1>2. HeldInv'
  BY DEF TypeOK, HeldInv, FlagsInv, Resource, NoRes
<1>3. FlagsInv'
  BY LockNeedsCache, TilesLock DEF TypeOK, FlagsInv, Resource, NoRes, Mode
<1>4. LockInv'
  <2>1. \A d \in Clients : held'[d] \subseteq held[d]
    BY DEF TypeOK
  <2>2. QED
    BY <2>1 DEF LockInv
<1>5. QED
  BY <1>1, <1>2, <1>3, <1>4

\* IInv is kept by ReleaseCached: the cached grant is given back.
LEMMA ReleaseCachedStep ==
    ASSUME IInv, NEW c \in Clients, ReleaseCached(c) PROVE IInv'
<1> USE DEF IInv, ReleaseCached, Goto, Drop, HoldsCached, local
<1>1. TypeOK'
  <2>1. pc' \in [Clients -> Pcs]
    BY DEF TypeOK, Pcs
  <2>2. held' \in [Clients -> SUBSET {"ctx", "cached", "lock"}]
    <3>1. [held EXCEPT ![c] = @ \ {"cached"}]
              \in [Clients -> SUBSET {"ctx", "cached", "lock"}]
      BY HeldUpdate DEF TypeOK
    <3>2. held' = held \/ held' = [held EXCEPT ![c] = @ \ {"cached"}]
      OBVIOUS
    <3>3. held \in [Clients -> SUBSET {"ctx", "cached", "lock"}]
      BY DEF TypeOK
    <3> HIDE DEF IInv, ReleaseCached
    <3>4. QED
      BY <3>1, <3>2, <3>3
  <2>3. QED
    BY <2>1, <2>2 DEF TypeOK
<1>2. HeldInv'
  BY DEF TypeOK, HeldInv, FlagsInv, Resource, NoRes
<1>3. FlagsInv'
  BY LockNeedsCache, TilesLock DEF TypeOK, FlagsInv, Resource, NoRes, Mode
<1>4. LockInv'
  BY DEF TypeOK, LockInv
<1>5. QED
  BY <1>1, <1>2, <1>3, <1>4

\* IInv is kept by Release: the context is given back.
LEMMA ReleaseStep ==
    ASSUME IInv, NEW c \in Clients, Release(c) PROVE IInv'
<1> USE DEF IInv, Release, Goto, Drop, NoRes
<1>1. TypeOK'
  <2>1. pc' \in [Clients -> Pcs]
    BY DEF TypeOK, Pcs
  <2>2. res' \in [Clients -> Resource]
    BY DEF TypeOK, Resource, NoRes
  <2>3. held' \in [Clients -> SUBSET {"ctx", "cached", "lock"}]
    <3>1. CASE res[c].ctx = TRUE
      BY <3>1 DEF TypeOK
    <3>2. CASE res[c].ctx # TRUE
      BY <3>2 DEF TypeOK
    <3>3. QED
      BY <3>1, <3>2
  <2>4. QED
    BY <2>1, <2>2, <2>3 DEF TypeOK
<1>2. HeldInv'
  BY DEF TypeOK, HeldInv, FlagsInv, Resource, NoRes
<1>3. FlagsInv'
  BY LockNeedsCache, TilesLock DEF TypeOK, FlagsInv, Resource, NoRes, Mode
<1>4. LockInv'
  BY DEF TypeOK, LockInv
<1>5. QED
  BY <1>1, <1>2, <1>3, <1>4

\* IInv is inductive.
THEOREM NextInv == IInv /\ [Next]_vars => IInv'
<1> SUFFICES ASSUME IInv, [Next]_vars PROVE IInv'
  OBVIOUS
<1>1. ASSUME NEW c \in Clients, Call(c) \/ Step(c) \/ LockFails(c) PROVE IInv'
  BY <1>1, CallStep, PrepareStep, AcquireStep, AcquireCachedStep,
     GetPointerStep, LockStep, LockFailsStep, ProbeStep, StageStep, TileStep,
     DeliverStep, UnlockStep, ReleaseCachedStep, ReleaseStep
     DEF Step
<1>2. CASE UNCHANGED vars
  BY <1>2 DEF vars, IInv, TypeOK, HeldInv, FlagsInv, LockInv, Mode
<1>3. QED
  BY <1>1, <1>2 DEF Next

\* Every reachable state satisfies the inductive invariant.
THEOREM Invariance == Spec => []IInv
BY InitInv, NextInv, PTL DEF Spec

\* Every variable keeps its type, for any error and any grant.
THEOREM TypeCorrect == Spec => []TypeOK
<1>1. IInv => TypeOK
  BY DEF IInv
<1>2. QED
  BY <1>1, Invariance, PTL

\* The tile loop of one session at a time runs, with the HMX locked and the
\* VTCM cached, however many sessions compete.
THEOREM Exclusive == Spec => []HmxExclusive
<1>1. ASSUME IInv PROVE HmxExclusive
  <2> SUFFICES ASSUME NEW c \in Clients, pc[c] = "running"
               PROVE  /\ held[c] = {"ctx", "cached", "lock"}
                      /\ \A d \in Clients : pc[d] = "running" => d = c
    BY DEF HmxExclusive
  <2>1. \A d \in Clients : pc[d] = "running" =>
            {"ctx", "cached", "lock"} \subseteq held[d]
    BY <1>1, TilesLock DEF IInv, HeldInv, FlagsInv
  <2>2. held[c] \subseteq {"ctx", "cached", "lock"}
    BY <1>1 DEF IInv, TypeOK
  <2>3. QED
    BY <1>1, <2>1, <2>2 DEF IInv, LockInv
<1>2. QED
  BY <1>1, Invariance, PTL

\* Whatever step failed, a call that has returned holds nothing.
THEOREM NoLeak == Spec => []NoLeakOnReturn
<1>1. ASSUME IInv PROVE NoLeakOnReturn
  <2> SUFFICES ASSUME NEW c \in Clients, pc[c] \in {"idle", "returned"}
               PROVE  held[c] = {}
    BY DEF NoLeakOnReturn
  <2>1. res[c].ctx = FALSE /\ res[c].cached # TRUE /\ res[c].locked # TRUE
    BY <1>1 DEF IInv, FlagsInv
  <2>2. "ctx" \notin held[c] /\ "cached" \notin held[c] /\ "lock" \notin held[c]
    BY <1>1, <2>1 DEF IInv, HeldInv
  <2>3. QED
    BY <1>1, <2>2 DEF IInv, TypeOK
<1>2. QED
  BY <1>1, Invariance, PTL

\* Resources are given back in the reverse of the order they were taken.
THEOREM AlwaysNested == Spec => []Nested
<1>1. IInv => Nested
  BY DEF IInv, HeldInv, FlagsInv, Nested
<1>2. QED
  BY <1>1, Invariance, PTL

-----------------------------------------------------------------------------
(* What a call tells its caller: a failure is diagnosed, a probe says what *)
(* was held, success means that every repeat ran, and every block the      *)
(* tiles touch fits the grant.                                             *)

\* The step and the error byte can be read back from a return code.
LEMMA ErrDecodes ==
    ASSUME NEW s \in 0..8, NEW b \in 0..255
    PROVE  /\ ((28672 + s * 256 + b) - 28672) \div 256 = s
           /\ ((28672 + s * 256 + b) - 28672) % 256 = b
           /\ 28672 + s * 256 + b # 0
OBVIOUS

LEMMA ErrorByte == ASSUME NEW e \in Int PROVE e % 256 \in 0..255
OBVIOUS

LEMMA ErrIsFailure ==
    ASSUME NEW s \in 0..8, NEW e \in Int PROVE Err(s, e) # EOk
BY ErrorByte, ErrDecodes DEF Err, EOk

\* A step of session c leaves the other sessions' calls as they were.
LEMMA OthersKeep ==
    ASSUME CallInv, NEW c \in Clients,
           \A d \in Clients \ {c} :
              /\ pc'[d] = pc[d] /\ req'[d] = req[d] /\ res'[d] = res[d]
              /\ ret'[d] = ret[d] /\ calls'[d] = calls[d]
              /\ fault'[d] = fault[d] /\ out'[d] = out[d],
           Explained(c)', Probed(c)', Delivered(c)', Bounded(c)'
    PROVE  CallInv'
<1> SUFFICES ASSUME NEW d \in Clients
             PROVE  (Explained(d) /\ Probed(d) /\ Delivered(d) /\ Bounded(d))'
  BY DEF CallInv
<1>1. CASE d = c
  BY <1>1
<1>2. CASE d # c
  <2>1. Explained(d) /\ Probed(d) /\ Delivered(d) /\ Bounded(d)
    BY DEF CallInv
  <2>2. /\ pc'[d] = pc[d] /\ req'[d] = req[d] /\ res'[d] = res[d]
        /\ ret'[d] = ret[d] /\ calls'[d] = calls[d]
        /\ fault'[d] = fault[d] /\ out'[d] = out[d]
    BY <1>2
  <2>3. Explained(d)'
    BY <2>1, <2>2 DEF Explained
  <2>4. Probed(d)'
    BY <2>1, <2>2 DEF Probed, Mode
  <2>5. Delivered(d)'
    BY <2>1, <2>2 DEF Delivered, Mode
  <2>6. Bounded(d)'
    BY <2>1, <2>2 DEF Bounded, Mode
  <2>7. QED
    BY <2>3, <2>4, <2>5, <2>6
<1>3. QED
  BY <1>1, <1>2

\* Until a session has called, it has nothing to answer for.
THEOREM InitCallInv == Init => CallInv
BY DEF Init, CallInv, Explained, Probed, Delivered, Bounded, Working,
   Untouched

\* CallInv is kept by Call: only an accepted request is worked on.
LEMMA CallTells ==
    ASSUME IInv, CallInv, NEW c \in Clients, Call(c) PROVE CallInv'
<1>1. \A d \in Clients \ {c} :
          /\ pc'[d] = pc[d] /\ req'[d] = req[d] /\ res'[d] = res[d]
          /\ ret'[d] = ret[d] /\ calls'[d] = calls[d]
          /\ fault'[d] = fault[d] /\ out'[d] = out[d]
  BY DEF Call, Finish, Goto, IInv, TypeOK
<1>2. PICK r \in Requests[c] :
          /\ req' = [req EXCEPT ![c] = r]
          /\ \/ Accepts(r.mode, r.lens, r.left)
                /\ Goto(c, "prepare") /\ UNCHANGED ret
             \/ ~Accepts(r.mode, r.lens, r.left) /\ Finish(c, EBadParm)
  BY DEF Call
<1>3. /\ req'[c] = r /\ calls'[c] > 0
      /\ fault'[c] = NoFault /\ out'[c].by = "none"
      /\ \/ pc'[c] = "prepare" /\ Accepts(r.mode, r.lens, r.left)
         \/ pc'[c] = "returned" /\ ret'[c] # EOk
  BY <1>2, SizesAssumption
     DEF Call, Finish, Goto, IInv, TypeOK, Untouched, EOk, EBadParm
<1>4. Explained(c)'
  BY <1>3 DEF Explained
<1>5. Probed(c)'
  BY <1>3 DEF Probed, Working
<1>6. Delivered(c)'
  BY <1>3 DEF Delivered, Working
<1>7. Bounded(c)'
  <2>1. Accepts(r.mode, r.lens, r.left) =>
            r.mode \in Modes /\ CallerBuffersHold(r.mode, r.lens)
    BY RequestsAssumption
       DEF Accepts, CallerBuffersHold, WeightLen, U8, U16, DeepTiles, Request
  <2>2. QED
    BY <1>3, <2>1 DEF Bounded, Working, Mode
<1>8. QED
  BY <1>1, <1>4, <1>5, <1>6, <1>7, OthersKeep

\* What the steps before the outcome have in common: the call goes on, ...
LEMMA GoesOn ==
    ASSUME CallInv, NEW c \in Clients, pc[c] \in Working, pc[c] # "running",
           pc'[c] \in Working, pc'[c] # "running",
           req'[c] = req[c], calls'[c] = calls[c],
           fault'[c] = fault[c], out'[c] = out[c]
    PROVE  Explained(c)' /\ Probed(c)' /\ Delivered(c)' /\ Bounded(c)'
<1>1. Explained(c) /\ Probed(c) /\ Delivered(c) /\ Bounded(c)
  BY DEF CallInv
<1>2. pc[c] # "idle" /\ pc'[c] # "idle"
  BY DEF Working
<1>3. Explained(c)'
  BY <1>1 DEF Explained
<1>4. Probed(c)'
  BY <1>1 DEF Probed
<1>5. Delivered(c)'
  BY <1>1, <1>2 DEF Delivered
<1>6. Bounded(c)'
  BY <1>1 DEF Bounded, Mode
<1>7. QED
  BY <1>3, <1>4, <1>5, <1>6

\* ... or it fails, with a fault that the return code explains or with none.
LEMMA GivesUp ==
    ASSUME CallInv, NEW c \in Clients, pc[c] \in Working,
           pc'[c] \in {"unlock", "returned"}, ret'[c] # EOk,
           req'[c] = req[c], calls'[c] = calls[c], out'[c] = out[c],
           \/ fault'[c] = fault[c]
           \/ /\ fault'[c].step \in 0..8
              /\ ret'[c] = Err(fault'[c].step, fault'[c].err)
    PROVE  Explained(c)' /\ Probed(c)' /\ Delivered(c)' /\ Bounded(c)'
<1>1. Explained(c) /\ Probed(c) /\ Delivered(c) /\ Bounded(c)
  BY DEF CallInv
<1>2. pc[c] # "idle" /\ pc'[c] # "idle" /\ pc'[c] \notin Working
  BY DEF Working
<1>3. Explained(c)'
  BY <1>1, <1>2 DEF Explained
<1>4. Probed(c)'
  BY DEF Probed
<1>5. Delivered(c)'
  BY <1>1, <1>2 DEF Delivered, Mode, Working
<1>6. Bounded(c)'
  BY <1>2 DEF Bounded, Working
<1>7. QED
  BY <1>3, <1>4, <1>5, <1>6

\* CallInv is kept by Prepare: steps 0 to 4 of the acquisition.
LEMMA PrepareTells ==
    ASSUME IInv, CallInv, NEW c \in Clients, Prepare(c) PROVE CallInv'
<1>1. \A d \in Clients \ {c} :
          /\ pc'[d] = pc[d] /\ req'[d] = req[d] /\ res'[d] = res[d]
          /\ ret'[d] = ret[d] /\ calls'[d] = calls[d]
          /\ fault'[d] = fault[d] /\ out'[d] = out[d]
  BY DEF Prepare, Finish, Goto, Blame, IInv, TypeOK
<1>2. /\ req'[c] = req[c] /\ calls'[c] = calls[c] /\ out'[c] = out[c]
      /\ pc[c] \in Working /\ pc[c] # "running"
  BY DEF Prepare, Working
<1>3. \/ pc'[c] = "acquire" /\ fault'[c] = fault[c]
      \/ pc'[c] = "returned" /\ ret'[c] = EUnsupported /\ fault'[c] = fault[c]
      \/ \E s \in 0..8, e \in Int :
            /\ pc'[c] = "returned" /\ ret'[c] = Err(s, e)
            /\ fault'[c] = [step |-> s, err |-> e]
  <2>1. CASE /\ Blame(c, 0, ENoMemory)
             /\ Finish(c, Err(0, ENoMemory))
    <3>1. ENoMemory \in Int
      BY DEF ENoMemory
    <3>2. QED
      BY <2>1, <3>1 DEF Finish, Goto, Blame, IInv, TypeOK
  <2>2. ASSUME NEW s \in 1..4, NEW e \in Errs,
               Blame(c, s, e), Finish(c, Err(s, e))
        PROVE  \E t \in 0..8, x \in Int :
                  /\ pc'[c] = "returned" /\ ret'[c] = Err(t, x)
                  /\ fault'[c] = [step |-> t, err |-> x]
    <3>1. s \in 0..8 /\ e \in Int
      BY ErrsAssumption
    <3>2. QED
      BY <2>2, <3>1 DEF Finish, Goto, Blame, IInv, TypeOK
  <2>3. QED
    BY <2>1, <2>2 DEF Prepare, Finish, Goto, IInv, TypeOK
<1>4. /\ EUnsupported # EOk
      /\ \A s \in 0..8, e \in Int : Err(s, e) # EOk
  BY ErrIsFailure DEF EUnsupported, EOk
<1>5. Explained(c)' /\ Probed(c)' /\ Delivered(c)' /\ Bounded(c)'
  <2>1. CASE pc'[c] = "acquire" /\ fault'[c] = fault[c]
    BY <1>2, <2>1, GoesOn DEF Working
  <2>2. CASE /\ pc'[c] = "returned" /\ ret'[c] = EUnsupported
             /\ fault'[c] = fault[c]
    BY <1>2, <1>4, <2>2, GivesUp
  <2>3. ASSUME NEW s \in 0..8, NEW e \in Int,
               pc'[c] = "returned", ret'[c] = Err(s, e),
               fault'[c] = [step |-> s, err |-> e]
        PROVE  Explained(c)' /\ Probed(c)' /\ Delivered(c)' /\ Bounded(c)'
    BY <1>2, <1>4, <2>3, GivesUp
  <2>4. QED
    BY <1>3, <2>1, <2>2, <2>3
<1>6. QED
  BY <1>1, <1>5, OthersKeep

\* CallInv is kept by Acquire: step 5, the context.
LEMMA AcquireTells ==
    ASSUME IInv, CallInv, NEW c \in Clients, Acquire(c) PROVE CallInv'
<1>1. \A d \in Clients \ {c} :
          /\ pc'[d] = pc[d] /\ req'[d] = req[d] /\ res'[d] = res[d]
          /\ ret'[d] = ret[d] /\ calls'[d] = calls[d]
          /\ fault'[d] = fault[d] /\ out'[d] = out[d]
  BY DEF Acquire, Finish, Goto, Blame, Grant, IInv, TypeOK
<1>2. /\ req'[c] = req[c] /\ calls'[c] = calls[c] /\ out'[c] = out[c]
      /\ pc[c] \in Working /\ pc[c] # "running"
  BY DEF Acquire, Working
<1>3. \/ pc'[c] \in {"cache", "pointer"} /\ fault'[c] = fault[c]
      \/ \E e \in Int : /\ pc'[c] \in {"unlock", "returned"}
                       /\ ret'[c] = Err(5, e)
                       /\ fault'[c] = [step |-> 5, err |-> e]
  BY ErrsAssumption DEF Acquire, Finish, Goto, Blame, Grant, ENoMemory, IInv,
     TypeOK
<1>4. \A e \in Int : Err(5, e) # EOk
  BY ErrIsFailure
<1>5. Explained(c)' /\ Probed(c)' /\ Delivered(c)' /\ Bounded(c)'
  <2>1. CASE pc'[c] \in {"cache", "pointer"} /\ fault'[c] = fault[c]
    BY <1>2, <2>1, GoesOn DEF Working
  <2>2. ASSUME NEW e \in Int, pc'[c] \in {"unlock", "returned"},
               ret'[c] = Err(5, e),
               fault'[c] = [step |-> 5, err |-> e]
        PROVE  Explained(c)' /\ Probed(c)' /\ Delivered(c)' /\ Bounded(c)'
    BY <1>2, <1>4, <2>2, GivesUp
  <2>3. QED
    BY <1>3, <2>1, <2>2
<1>6. QED
  BY <1>1, <1>5, OthersKeep

\* CallInv is kept by AcquireCached: step 6, the cached grant.
LEMMA AcquireCachedTells ==
    ASSUME IInv, CallInv, NEW c \in Clients, AcquireCached(c) PROVE CallInv'
<1>1. \A d \in Clients \ {c} :
          /\ pc'[d] = pc[d] /\ req'[d] = req[d] /\ res'[d] = res[d]
          /\ ret'[d] = ret[d] /\ calls'[d] = calls[d]
          /\ fault'[d] = fault[d] /\ out'[d] = out[d]
  BY DEF AcquireCached, Abort, Goto, Blame, Grant, IInv, TypeOK
<1>2. /\ req'[c] = req[c] /\ calls'[c] = calls[c] /\ out'[c] = out[c]
      /\ pc[c] \in Working /\ pc[c] # "running"
  BY DEF AcquireCached, Working
<1>3. \/ pc'[c] \in {"pointer"} /\ fault'[c] = fault[c]
      \/ \E e \in Int : /\ pc'[c] \in {"unlock", "returned"}
                       /\ ret'[c] = Err(6, e)
                       /\ fault'[c] = [step |-> 6, err |-> e]
  BY ErrsAssumption DEF AcquireCached, Abort, Goto, Blame, Grant, ENoMemory,
     IInv, TypeOK
<1>4. \A e \in Int : Err(6, e) # EOk
  BY ErrIsFailure
<1>5. Explained(c)' /\ Probed(c)' /\ Delivered(c)' /\ Bounded(c)'
  <2>1. CASE pc'[c] \in {"pointer"} /\ fault'[c] = fault[c]
    BY <1>2, <2>1, GoesOn DEF Working
  <2>2. ASSUME NEW e \in Int, pc'[c] \in {"unlock", "returned"},
               ret'[c] = Err(6, e),
               fault'[c] = [step |-> 6, err |-> e]
        PROVE  Explained(c)' /\ Probed(c)' /\ Delivered(c)' /\ Bounded(c)'
    BY <1>2, <1>4, <2>2, GivesUp
  <2>3. QED
    BY <1>3, <2>1, <2>2
<1>6. QED
  BY <1>1, <1>5, OthersKeep

\* CallInv is kept by GetPointer: step 7, the VTCM pointer.
LEMMA GetPointerTells ==
    ASSUME IInv, CallInv, NEW c \in Clients, GetPointer(c) PROVE CallInv'
<1>1. \A d \in Clients \ {c} :
          /\ pc'[d] = pc[d] /\ req'[d] = req[d] /\ res'[d] = res[d]
          /\ ret'[d] = ret[d] /\ calls'[d] = calls[d]
          /\ fault'[d] = fault[d] /\ out'[d] = out[d]
  BY DEF GetPointer, Abort, Goto, Blame, IInv, TypeOK
<1>2. /\ req'[c] = req[c] /\ calls'[c] = calls[c] /\ out'[c] = out[c]
      /\ pc[c] \in Working /\ pc[c] # "running"
  BY DEF GetPointer, Working
<1>3. \/ pc'[c] \in {"lock", "staging"} /\ fault'[c] = fault[c]
      \/ \E e \in Int : /\ pc'[c] \in {"unlock", "returned"}
                       /\ ret'[c] = Err(7, e)
                       /\ fault'[c] = [step |-> 7, err |-> e]
  BY ErrsAssumption DEF GetPointer, Abort, Goto, Blame, ENoMemory, IInv,
     TypeOK
<1>4. \A e \in Int : Err(7, e) # EOk
  BY ErrIsFailure
<1>5. Explained(c)' /\ Probed(c)' /\ Delivered(c)' /\ Bounded(c)'
  <2>1. CASE pc'[c] \in {"lock", "staging"} /\ fault'[c] = fault[c]
    BY <1>2, <2>1, GoesOn DEF Working
  <2>2. ASSUME NEW e \in Int, pc'[c] \in {"unlock", "returned"},
               ret'[c] = Err(7, e),
               fault'[c] = [step |-> 7, err |-> e]
        PROVE  Explained(c)' /\ Probed(c)' /\ Delivered(c)' /\ Bounded(c)'
    BY <1>2, <1>4, <2>2, GivesUp
  <2>3. QED
    BY <1>3, <2>1, <2>2
<1>6. QED
  BY <1>1, <1>5, OthersKeep

\* CallInv is kept by LockFails: step 8 fails.
LEMMA LockFailsTells ==
    ASSUME IInv, CallInv, NEW c \in Clients, LockFails(c) PROVE CallInv'
<1>1. \A d \in Clients \ {c} :
          /\ pc'[d] = pc[d] /\ req'[d] = req[d] /\ res'[d] = res[d]
          /\ ret'[d] = ret[d] /\ calls'[d] = calls[d]
          /\ fault'[d] = fault[d] /\ out'[d] = out[d]
  BY DEF LockFails, LockFailure, Abort, Goto, Blame, IInv, TypeOK
<1>2. /\ req'[c] = req[c] /\ calls'[c] = calls[c] /\ out'[c] = out[c]
      /\ pc[c] \in Working /\ pc[c] # "running"
  BY DEF LockFails, Working
<1>3. \/ pc'[c] \in {"staging"} /\ fault'[c] = fault[c]
      \/ \E e \in Int : /\ pc'[c] \in {"unlock", "returned"}
                       /\ ret'[c] = Err(8, e)
                       /\ fault'[c] = [step |-> 8, err |-> e]
  BY ErrsAssumption DEF LockFails, LockFailure, Abort, Goto, Blame,
     ENoMemory, IInv, TypeOK
<1>4. \A e \in Int : Err(8, e) # EOk
  BY ErrIsFailure
<1>5. Explained(c)' /\ Probed(c)' /\ Delivered(c)' /\ Bounded(c)'
  <2>1. CASE pc'[c] \in {"staging"} /\ fault'[c] = fault[c]
    BY <1>2, <2>1, GoesOn DEF Working
  <2>2. ASSUME NEW e \in Int, pc'[c] \in {"unlock", "returned"},
               ret'[c] = Err(8, e),
               fault'[c] = [step |-> 8, err |-> e]
        PROVE  Explained(c)' /\ Probed(c)' /\ Delivered(c)' /\ Bounded(c)'
    BY <1>2, <1>4, <2>2, GivesUp
  <2>3. QED
    BY <1>3, <2>1, <2>2
<1>6. QED
  BY <1>1, <1>5, OthersKeep

\* CallInv is kept by Lock: step 8, the HMX is lent to this session.
LEMMA LockTells ==
    ASSUME IInv, CallInv, NEW c \in Clients, Lock(c) PROVE CallInv'
<1>1. \A d \in Clients \ {c} :
          /\ pc'[d] = pc[d] /\ req'[d] = req[d] /\ res'[d] = res[d]
          /\ ret'[d] = ret[d] /\ calls'[d] = calls[d]
          /\ fault'[d] = fault[d] /\ out'[d] = out[d]
  BY DEF Lock, Goto, Grant, IInv, TypeOK
<1>2. /\ req'[c] = req[c] /\ calls'[c] = calls[c] /\ out'[c] = out[c]
      /\ fault'[c] = fault[c]
      /\ pc[c] = "lock" /\ pc'[c] = "staging"
  BY DEF Lock, Goto, IInv, TypeOK
<1>3. Explained(c)' /\ Probed(c)' /\ Delivered(c)' /\ Bounded(c)'
  BY <1>2, GoesOn DEF Working
<1>4. QED
  BY <1>1, <1>3, OthersKeep

\* CallInv is kept by Probe: its words say what the struct says was taken.
LEMMA ProbeTells ==
    ASSUME IInv, CallInv, NEW c \in Clients, Probe(c) PROVE CallInv'
<1>1. \A d \in Clients \ {c} :
          /\ pc'[d] = pc[d] /\ req'[d] = req[d] /\ res'[d] = res[d]
          /\ ret'[d] = ret[d] /\ calls'[d] = calls[d]
          /\ fault'[d] = fault[d] /\ out'[d] = out[d]
  BY DEF Probe, Abort, Goto, IInv, TypeOK
<1>2. /\ req'[c] = req[c] /\ calls'[c] = calls[c] /\ fault'[c] = fault[c]
      /\ pc[c] = "staging" /\ pc'[c] = "unlock" /\ ret'[c] = EOk
      /\ Mode(c) \in ProbeModes
      /\ out'[c] = [by |-> "probe", cached |-> res[c].cached,
                    locked |-> res[c].locked]
  BY DEF Probe, Abort, Goto, IInv, TypeOK
<1>3. Explained(c) /\ Delivered(c)
  BY DEF CallInv
<1>4. Explained(c)'
  BY <1>2, <1>3 DEF Explained, Working
<1>5. Probed(c)'
  <2>1. /\ res[c].cached = TRUE <=> UseCached(Mode(c))
        /\ res[c].locked = TRUE <=> UseLock(Mode(c))
    BY <1>2 DEF IInv, FlagsInv
  <2>2. Mode(c)' = Mode(c)
    BY <1>2 DEF Mode
  <2>3. /\ out'[c].by = "probe" /\ out'[c].cached = res[c].cached
        /\ out'[c].locked = res[c].locked
    BY <1>2
  <2>4. QED
    BY <2>1, <2>2, <2>3 DEF Probed
<1>6. Delivered(c)'
  <2>1. calls[c] > 0
    BY <1>2, <1>3 DEF Delivered
  <2>2. Mode(c) \notin TileModes
    BY <1>2 DEF ProbeModes, TileModes, FullModes, UbModes, UhModes
  <2>3. QED
    BY <1>2, <2>1, <2>2 DEF Delivered, Mode, Working
<1>7. Bounded(c)'
  BY <1>2 DEF Bounded, Working
<1>8. QED
  BY <1>1, <1>4, <1>5, <1>6, <1>7, OthersKeep

\* CallInv is kept by Stage: the tile loop starts on a layout that fits.
LEMMA StageTells ==
    ASSUME IInv, CallInv, NEW c \in Clients, Stage(c) PROVE CallInv'
<1>1. \A d \in Clients \ {c} :
          /\ pc'[d] = pc[d] /\ req'[d] = req[d] /\ res'[d] = res[d]
          /\ ret'[d] = ret[d] /\ calls'[d] = calls[d]
          /\ fault'[d] = fault[d] /\ out'[d] = out[d]
  BY DEF Stage, Abort, Goto, IInv, TypeOK
<1>2. /\ req'[c] = req[c] /\ calls'[c] = calls[c] /\ fault'[c] = fault[c]
      /\ res' = res /\ pc[c] = "staging"
      /\ \/ Fits(Mode(c), res[c]) /\ pc'[c] = "running"
            /\ out'[c] = [out[c] EXCEPT !.by = "zeros"]
         \/ pc'[c] = "unlock" /\ ret'[c] = LayoutError /\ out'[c] = out[c]
  BY DEF Stage, Abort, Goto, IInv, TypeOK
<1>3. Explained(c) /\ Delivered(c) /\ Bounded(c)
  BY DEF CallInv
<1>4. CASE pc'[c] = "unlock" /\ ret'[c] = LayoutError /\ out'[c] = out[c]
  <2>1. LayoutError # EOk
    BY DEF LayoutError, ENoMemory, EOk
  <2>2. Explained(c)' /\ Probed(c)' /\ Delivered(c)' /\ Bounded(c)'
    BY <1>2, <1>4, <2>1, GivesUp DEF Working
  <2>3. QED
    BY <1>1, <2>2, OthersKeep
<1>5. CASE /\ Fits(Mode(c), res[c]) /\ pc'[c] = "running"
           /\ out'[c] = [out[c] EXCEPT !.by = "zeros"]
  <2>1. out'[c].by = "zeros"
    <3>1. out[c] \in [by : {"none", "probe", "zeros", "tile"},
                     cached : BOOLEAN, locked : BOOLEAN]
      BY DEF IInv, TypeOK
    <3>2. QED
      BY <1>5, <3>1
  <2>2. Explained(c)'
    BY <1>2, <1>3, <1>5 DEF Explained, Working
  <2>3. Probed(c)'
    BY <1>5 DEF Probed, Working
  <2>4. Delivered(c)'
    BY <1>2, <1>3, <1>5, <2>1 DEF Delivered, Working
  <2>5. Bounded(c)'
    BY <1>2, <1>3, <1>5 DEF Bounded, Mode, Working
  <2>6. QED
    BY <1>1, <2>2, <2>3, <2>4, <2>5, OthersKeep
<1>6. QED
  BY <1>2, <1>4, <1>5

\* CallInv is kept by Tile: a repeat is run, or the call ends with an error.
LEMMA TileTells ==
    ASSUME IInv, CallInv, NEW c \in Clients, Tile(c) PROVE CallInv'
<1>1. \A d \in Clients \ {c} :
          /\ pc'[d] = pc[d] /\ req'[d] = req[d] /\ res'[d] = res[d]
          /\ ret'[d] = ret[d] /\ calls'[d] = calls[d]
          /\ fault'[d] = fault[d] /\ out'[d] = out[d]
  BY DEF Tile, Abort, Goto, IInv, TypeOK
<1>2. /\ calls'[c] = calls[c] /\ fault'[c] = fault[c]
      /\ out'[c] = out[c] /\ res' = res /\ pc[c] = "running"
      /\ \/ pc'[c] = "running" /\ req' = [req EXCEPT ![c].left = @ - 1]
         \/ pc'[c] = "unlock" /\ ret'[c] = EUnsupported /\ req'[c] = req[c]
  BY DEF Tile, Abort, Goto, IInv, TypeOK
<1>3. Explained(c) /\ Delivered(c) /\ Bounded(c)
  BY DEF CallInv
<1>4. CASE pc'[c] = "unlock" /\ ret'[c] = EUnsupported /\ req'[c] = req[c]
  <2>1. EUnsupported # EOk
    BY DEF EUnsupported, EOk
  <2>2. Explained(c)' /\ Probed(c)' /\ Delivered(c)' /\ Bounded(c)'
    BY <1>2, <1>4, <2>1, GivesUp DEF Working
  <2>3. QED
    BY <1>1, <2>2, OthersKeep
<1>5. CASE pc'[c] = "running" /\ req' = [req EXCEPT ![c].left = @ - 1]
  <2>1. req'[c].mode = req[c].mode /\ req'[c].lens = req[c].lens
    <3>1. req[c] \in Request
      BY DEF IInv, TypeOK
    <3>2. req'[c] = [req[c] EXCEPT !.left = req[c].left - 1]
      BY <1>5 DEF IInv, TypeOK
    <3>3. QED
      BY <3>1, <3>2 DEF Request
  <2>2. Explained(c)'
    BY <1>2, <1>3, <1>5 DEF Explained, Working
  <2>3. Probed(c)'
    BY <1>5 DEF Probed, Working
  <2>4. Delivered(c)'
    BY <1>2, <1>3, <1>5 DEF Delivered, Working
  <2>5. Bounded(c)'
    BY <1>2, <1>3, <1>5, <2>1 DEF Bounded, Mode, Working
  <2>6. QED
    BY <1>1, <2>2, <2>3, <2>4, <2>5, OthersKeep
<1>6. QED
  BY <1>2, <1>4, <1>5

\* CallInv is kept by Deliver: no repeat is left.
LEMMA DeliverTells ==
    ASSUME IInv, CallInv, NEW c \in Clients, Deliver(c) PROVE CallInv'
<1>1. \A d \in Clients \ {c} :
          /\ pc'[d] = pc[d] /\ req'[d] = req[d] /\ res'[d] = res[d]
          /\ ret'[d] = ret[d] /\ calls'[d] = calls[d]
          /\ fault'[d] = fault[d] /\ out'[d] = out[d]
  BY DEF Deliver, Abort, Goto, IInv, TypeOK
<1>2. /\ req' = req /\ calls'[c] = calls[c] /\ fault'[c] = fault[c]
      /\ pc[c] = "running" /\ pc'[c] = "unlock" /\ ret'[c] = EOk
      /\ req[c].left = 0 /\ out' = [out EXCEPT ![c].by = "tile"]
  BY DEF Deliver, Abort, Goto, IInv, TypeOK
<1>3. /\ Explained(c) /\ Delivered(c)
      /\ Mode(c) \notin ProbeModes
  BY <1>2 DEF CallInv, IInv, FlagsInv
<1>4. out'[c].by = "tile"
  <2>1. out[c] \in [by : {"none", "probe", "zeros", "tile"},
                   cached : BOOLEAN, locked : BOOLEAN]
    BY DEF IInv, TypeOK
  <2>2. QED
    BY <1>2, <2>1 DEF IInv, TypeOK
<1>5. Explained(c)'
  BY <1>2, <1>3 DEF Explained, Working
<1>6. Probed(c)'
  BY <1>2, <1>3 DEF Probed, Mode
<1>7. Delivered(c)'
  BY <1>2, <1>3, <1>4 DEF Delivered, Working
<1>8. Bounded(c)'
  BY <1>2 DEF Bounded, Working
<1>9. QED
  BY <1>1, <1>5, <1>6, <1>7, <1>8, OthersKeep

\* Unwinding tells the caller nothing new.
LEMMA Unwinds ==
    ASSUME CallInv, NEW c \in Clients, pc[c] \notin Working, pc[c] # "idle",
           pc'[c] \notin Working, pc'[c] # "idle", ret'[c] = ret[c],
           req'[c] = req[c], calls'[c] = calls[c],
           fault'[c] = fault[c], out'[c] = out[c]
    PROVE  Explained(c)' /\ Probed(c)' /\ Delivered(c)' /\ Bounded(c)'
<1>1. Explained(c) /\ Probed(c) /\ Delivered(c)
  BY DEF CallInv
<1>2. Explained(c)'
  BY <1>1 DEF Explained
<1>3. Probed(c)'
  BY <1>1 DEF Probed, Mode
<1>4. Delivered(c)'
  BY <1>1 DEF Delivered, Mode, Working
<1>5. Bounded(c)'
  BY DEF Bounded, Working
<1>6. QED
  BY <1>2, <1>3, <1>4, <1>5

\* CallInv is kept by Unlock, ReleaseCached and Release.
LEMMA UnwindTells ==
    ASSUME IInv, CallInv, NEW c \in Clients,
           Unlock(c) \/ ReleaseCached(c) \/ Release(c)
    PROVE  CallInv'
<1>1. \A d \in Clients \ {c} :
          /\ pc'[d] = pc[d] /\ req'[d] = req[d] /\ res'[d] = res[d]
          /\ ret'[d] = ret[d] /\ calls'[d] = calls[d]
          /\ fault'[d] = fault[d] /\ out'[d] = out[d]
  <2>1. CASE Unlock(c)
    BY <2>1 DEF Unlock, Goto, Drop, local, IInv, TypeOK
  <2>2. CASE ReleaseCached(c)
    BY <2>2 DEF ReleaseCached, Goto, Drop, local, IInv, TypeOK
  <2>3. CASE Release(c)
    BY <2>3 DEF Release, Goto, Drop, IInv, TypeOK
  <2>4. QED
    BY <2>1, <2>2, <2>3
<1>2. /\ req' = req /\ ret' = ret /\ calls' = calls /\ fault' = fault
      /\ out' = out
      /\ pc[c] \in {"unlock", "uncache", "release"}
  BY DEF Unlock, ReleaseCached, Release, local
<1>3. pc'[c] \in {"uncache", "release", "returned"}
  BY DEF Unlock, ReleaseCached, Release, Goto, IInv, TypeOK
<1>4. Explained(c)' /\ Probed(c)' /\ Delivered(c)' /\ Bounded(c)'
  BY <1>2, <1>3, Unwinds DEF Working
<1>5. QED
  BY <1>1, <1>4, OthersKeep

\* CallInv is inductive under IInv.
THEOREM NextCallInv == IInv /\ CallInv /\ [Next]_vars => CallInv'
<1> SUFFICES ASSUME IInv, CallInv, [Next]_vars PROVE CallInv'
  OBVIOUS
<1>1. ASSUME NEW c \in Clients, Call(c) \/ Step(c) \/ LockFails(c)
      PROVE  CallInv'
  BY <1>1, CallTells, PrepareTells, AcquireTells, AcquireCachedTells,
     GetPointerTells, LockTells, LockFailsTells, ProbeTells, StageTells,
     TileTells, DeliverTells, UnwindTells
     DEF Step
<1>2. CASE UNCHANGED vars
  BY <1>2 DEF vars, CallInv, Explained, Probed, Delivered, Bounded, Mode
<1>3. QED
  BY <1>1, <1>2 DEF Next

\* Every reachable state satisfies both inductive invariants.
THEOREM CallInvariance == Spec => [](IInv /\ CallInv)
<1>1. Init => IInv /\ CallInv
  BY InitInv, InitCallInv
<1>2. (IInv /\ CallInv) /\ [Next]_vars => (IInv /\ CallInv)'
  BY NextInv, NextCallInv
<1>3. QED
  BY <1>1, <1>2, PTL DEF Spec

\* A failed acquisition is diagnosed by its step and its error byte, whichever
\* step fails with whichever error.
THEOREM Diagnosed == Spec => []DiagnosisFaithful
<1>1. ASSUME IInv, CallInv PROVE DiagnosisFaithful
  <2> SUFFICES ASSUME NEW c \in Clients, pc[c] = "returned",
                      fault[c] # NoFault
               PROVE  /\ (ret[c] - 28672) \div 256 = fault[c].step
                      /\ (ret[c] - 28672) % 256 = fault[c].err % 256
    BY DEF DiagnosisFaithful
  <2> DEFINE s == fault[c].step
             b == fault[c].err % 256
  <2>1. s \in 0..8 /\ ret[c] = Err(s, fault[c].err)
    BY <1>1 DEF CallInv, Explained
  <2>2. fault[c].err \in Int
    BY <1>1 DEF IInv, TypeOK
  <2>3. b \in 0..255
    BY <2>2, ErrorByte
  <2>4. ret[c] = 28672 + s * 256 + b
    BY <2>1 DEF Err
  <2> HIDE DEF s, b
  <2>5. (ret[c] - 28672) \div 256 = s /\ (ret[c] - 28672) % 256 = b
    BY <2>1, <2>3, <2>4, ErrDecodes
  <2>6. QED
    BY <2>5 DEF s, b
<1>2. QED
  BY <1>1, CallInvariance, PTL

\* A record of three fields is known by its fields.
LEMMA OutputIs ==
    ASSUME NEW o \in [by : {"none", "probe", "zeros", "tile"},
                      cached : BOOLEAN, locked : BOOLEAN],
           NEW p \in BOOLEAN, NEW q \in BOOLEAN,
           o.by = "probe", o.cached = TRUE <=> p, o.locked = TRUE <=> q
    PROVE  o = [by |-> "probe", cached |-> p, locked |-> q]
BY Zenon

\* A probe that succeeds says exactly what it held.
THEOREM ProbesTrue == Spec => []ProbeTruth
<1>1. ASSUME IInv, CallInv PROVE ProbeTruth
  <2> SUFFICES ASSUME NEW c \in Clients, pc[c] = "returned", ret[c] = EOk,
                      Mode(c) \in ProbeModes
               PROVE  out[c] = [by |-> "probe",
                                cached |-> Mode(c) # "PROBE_RESOURCE",
                                locked |-> Mode(c) = "PROBE_LOCK"]
    BY DEF ProbeTruth
  <2>1. /\ out[c].by = "probe"
        /\ out[c].cached = TRUE <=> UseCached(Mode(c))
        /\ out[c].locked = TRUE <=> UseLock(Mode(c))
    BY <1>1 DEF CallInv, Probed, Working
  <2>2. /\ UseCached(Mode(c)) <=> Mode(c) # "PROBE_RESOURCE"
        /\ UseLock(Mode(c)) <=> Mode(c) = "PROBE_LOCK"
    BY DEF UseCached, UseLock, ProbeModes
  <2>3. out[c] \in [by : {"none", "probe", "zeros", "tile"},
                    cached : BOOLEAN, locked : BOOLEAN]
    BY <1>1 DEF IInv, TypeOK
  <2>4. QED
    BY <2>1, <2>2, <2>3, OutputIs
<1>2. QED
  BY <1>1, CallInvariance, PTL

\* Success means that every repeat ran and its output was delivered.
THEOREM Done == Spec => []SuccessMeansDone
<1>1. ASSUME IInv, CallInv PROVE SuccessMeansDone
  BY <1>1 DEF CallInv, Delivered, SuccessMeansDone, Working
<1>2. QED
  BY <1>1, CallInvariance, PTL

-----------------------------------------------------------------------------
(* The memory the tiles touch.                                             *)

LEMMA AlignedAbove ==
    ASSUME NEW base \in Nat PROVE AlignedBase(base) \in Nat
                                  /\ AlignedBase(base) >= base
BY DEF AlignedBase, RoundUp

\* Blocks laid out one after the other do not overlap and end where the sum of
\* their sizes says.
LEMMA LayoutInside ==
    ASSUME NEW m \in Modes, NEW r \in Resource, Fits(m, r)
    PROVE  Inside(Layout(m, r.base), r) /\ Apart(Layout(m, r.base))
<1> DEFINE at == AlignedBase(r.base)
           la == ActivationLen(m)
           lw == WeightLen(m)
           lo == WrittenLen(m)
<1>1. /\ r.base \in Nat /\ r.size \in Nat
      /\ la \in Nat /\ lw \in Nat /\ lo \in Nat
  BY LensAreNat DEF Resource
<1>2. at \in Nat /\ at >= r.base
  BY <1>1, AlignedAbove
<1>3. at + (la + lw + 1024 + 256 + lo + 128) <= r.base + r.size
  BY DEF Fits, Required, U8, BiasBytes, Slack
<1>4. Layout(m, r.base) =
          [activation |-> [lo |-> at, hi |-> at + la],
           weight  |-> [lo |-> at + la, hi |-> at + la + lw],
           weight2 |-> [lo |-> at + la + lw, hi |-> at + la + lw + 1024],
           bias |-> [lo |-> at + la + lw + 1024,
                     hi |-> at + la + lw + 1024 + 256],
           output |-> [lo |-> at + la + lw + 1024 + 256,
                       hi |-> at + la + lw + 1024 + 256 + lo]]
  BY DEF Layout, Region, U8, BiasBytes
<1> HIDE DEF at, la, lw, lo
<1>5. Inside(Layout(m, r.base), r)
  BY <1>1, <1>2, <1>3, <1>4 DEF Inside, Blocks
<1>6. Apart(Layout(m, r.base))
  BY <1>1, <1>2, <1>4 DEF Apart, Blocks
<1>7. QED
  BY <1>5, <1>6

\* No block is read beyond its end.
LEMMA ReadsInside ==
    ASSUME NEW m \in Modes, NEW base \in Nat
    PROVE  \A b \in DOMAIN TileReads(m) :
               Layout(m, base)[b].lo + TileReads(m)[b] <= Layout(m, base)[b].hi
<1>1. AlignedBase(base) \in Nat
  BY AlignedAbove
<1>2. /\ TileReads(m).activation = ActivationLen(m)
      /\ TileReads(m).weight = WeightLen(m)
      /\ TileReads(m).weight2 \in 0..1024
      /\ TileReads(m).bias \in 0..256
      /\ DOMAIN TileReads(m) = {"activation", "weight", "weight2", "bias"}
  <2>1. /\ TileReads(m).activation = ActivationLen(m)
        /\ TileReads(m).weight = WeightLen(m)
        /\ TileReads(m).weight2 = IF m = "CM_UB" THEN U8 ELSE 0
        /\ TileReads(m).bias = IF m \in {"CM_UB", "FP16_HF_X64"}
                                 THEN BiasBytes ELSE 0
    BY Zenon DEF TileReads, ActivationLen, WeightLen
  <2>2. DOMAIN TileReads(m) = {"activation", "weight", "weight2", "bias"}
    BY Zenon DEF TileReads
  <2>3. /\ TileReads(m).weight2 \in 0..1024
        /\ TileReads(m).bias \in 0..256
    BY <2>1 DEF U8, BiasBytes
  <2>4. QED
    BY <2>1, <2>2, <2>3
<1>3. QED
  BY <1>1, <1>2, LensAreNat DEF Layout, Region, U8, BiasBytes

\* Stores of one size that do not overlap cover as many bytes as they are.
LEMMA OneStore ==
    ASSUME NEW len \in Nat, len > 0
    PROVE  Tiles({Region(0, len)}, len)
<1> DEFINE r == Region(0, len)
           size(q) == q.hi - q.lo
<1>1. r = [lo |-> 0, hi |-> len] /\ size(r) = len
  BY DEF Region
<1>2. {size(q) : q \in {r}} = {len}
  BY <1>1
<1>3. (CHOOSE n \in {len} : TRUE) = len
  OBVIOUS
<1>4. Cardinality({r}) = 1
  BY FS_Singleton
<1>5. QED
  BY <1>1, <1>2, <1>3, <1>4 DEF Tiles

LEMMA TwoStores ==
    ASSUME NEW len \in Nat, len > 0, NEW whole, whole = 2 * len
    PROVE  Tiles({Region(0, len), Region(len, len)}, whole)
<1> DEFINE r == Region(0, len)
           s == Region(len, len)
           size(q) == q.hi - q.lo
<1>1. /\ r = [lo |-> 0, hi |-> len] /\ size(r) = len
      /\ s = [lo |-> len, hi |-> 2 * len] /\ size(s) = len
  BY DEF Region
<1>2. r # s
  BY <1>1
<1>3. {size(q) : q \in {r, s}} = {len}
  BY <1>1
<1>4. (CHOOSE n \in {len} : TRUE) = len
  OBVIOUS
<1>5. Cardinality({r, s}) = 2
  <2>1. {r, s} = {r} \cup {s} /\ s \notin {r}
    BY <1>2
  <2>2. IsFiniteSet({r}) /\ Cardinality({r}) = 1
    BY FS_Singleton
  <2>3. QED
    BY <2>1, <2>2, FS_AddElement
<1>6. QED
  BY <1>1, <1>3, <1>4, <1>5 DEF Tiles

\* Every mode's stores cover exactly what is copied out.
LEMMA StoresCover ==
    ASSUME NEW m \in TileModes PROVE Tiles(TileWrites(m), WrittenLen(m))
<1> USE DEF UbModes, UhModes, FullModes, ProbeModes
<1>1. /\ Tiles({Region(0, 1024)}, 1024) /\ Tiles({Region(0, 2048)}, 2048)
      /\ Tiles({Region(0, 1024), Region(1024, 1024)}, 2048)
  BY OneStore, TwoStores
<1>2. ASSUME NEW half, NEW whole, half = 4096, whole = 8192
      PROVE  Tiles({Region(0, half), Region(half, half)}, whole)
  <2>1. half \in Nat /\ half > 0 /\ whole = 2 * half
    BY <1>2
  <2> HIDE DEF UbModes, UhModes, FullModes, ProbeModes
  <2>2. QED
    BY <2>1, TwoStores
<1>3. CASE m \in UbModes
  <2>1. /\ m \notin ProbeModes /\ m \notin FullModes /\ m # "UH2X2_FULL_X64"
        /\ m \notin UhModes \cup {"FP16_HF_X64"}
    BY <1>3
  <2> HIDE DEF UbModes, UhModes, FullModes, ProbeModes
  <2>2. TileWrites(m) = {Region(0, U8)} /\ WrittenLen(m) = U8
    BY <1>3, <2>1, Zenon DEF TileWrites, WrittenLen
  <2>3. QED
    BY <1>1, <2>2 DEF U8
<1>4. CASE m \in UhModes \cup {"FP16_HF_X64"}
  <2>1. /\ m \notin UbModes /\ m \notin ProbeModes /\ m \notin FullModes
        /\ m # "UH2X2_FULL_X64"
    BY <1>4
  <2> HIDE DEF UbModes, UhModes, FullModes, ProbeModes
  <2>2. TileWrites(m) = {Region(0, U16)} /\ WrittenLen(m) = U16
    BY <1>4, <2>1, Zenon DEF TileWrites, WrittenLen
  <2>3. QED
    BY <1>1, <2>2 DEF U16
<1>5. CASE m \in FullModes
  <2>1. /\ m \notin UbModes /\ m \notin ProbeModes /\ m # "UH2X2_FULL_X64"
        /\ m \notin UhModes \cup {"FP16_HF_X64"}
    BY <1>5
  <2> HIDE DEF UbModes, UhModes, FullModes, ProbeModes
  <2>2. /\ TileWrites(m) = {Region(0, U8), Region(U8, U8)}
        /\ WrittenLen(m) = U16
    BY <1>5, <2>1, Zenon DEF TileWrites, WrittenLen
  <2>3. QED
    BY <1>1, <2>2 DEF U8, U16
<1>6. CASE m = "UH2X2_FULL_X64"
  <2>1. /\ m \notin UbModes /\ m \notin ProbeModes /\ m \notin FullModes
        /\ m \notin UhModes \cup {"FP16_HF_X64"}
    BY <1>6
  <2> HIDE DEF UbModes, UhModes, FullModes, ProbeModes
  <2>2. /\ TileWrites(m) = {Region(0, U16x2x2 \div 2),
                           Region(U16x2x2 \div 2, U16x2x2 \div 2)}
        /\ WrittenLen(m) = U16x2x2
    BY <1>6, <2>1, Zenon DEF TileWrites, WrittenLen
  <2>3. U16x2x2 = 8192 /\ U16x2x2 \div 2 = 4096
    BY DEF U16x2x2
  <2>4. Tiles({Region(0, U16x2x2 \div 2),
                Region(U16x2x2 \div 2, U16x2x2 \div 2)}, U16x2x2)
    BY <1>2, <2>3
  <2>5. QED
    BY <2>2, <2>4, Zenon
<1>7. QED
  BY <1>3, <1>4, <1>5, <1>6 DEF TileModes

\* The caller's buffers and the session's grant hold whatever a call touches.
THEOREM Footprint == Spec => []FootprintFits
<1>1. ASSUME IInv, CallInv PROVE FootprintFits
  <2>1. ASSUME NEW c \in Clients, pc[c] \in {"staging", "running"}
        PROVE  CallerBuffersHold(Mode(c), req[c].lens)
    BY <1>1, <2>1 DEF CallInv, Bounded, Working
  <2>2. ASSUME NEW c \in Clients, pc[c] = "running"
        PROVE  LET blocks == Layout(Mode(c), res[c].base)
               IN  /\ Inside(blocks, res[c])
                   /\ Apart(blocks)
                   /\ \A b \in DOMAIN TileReads(Mode(c)) :
                         blocks[b].lo + TileReads(Mode(c))[b] <= blocks[b].hi
                   /\ Tiles(TileWrites(Mode(c)), WrittenLen(Mode(c)))
    <3>1. Mode(c) \in Modes /\ Fits(Mode(c), res[c])
      BY <1>1, <2>2 DEF CallInv, Bounded, Working
    <3>2. res[c] \in Resource /\ res[c].base \in Nat
      BY <1>1 DEF IInv, TypeOK, Resource
    <3>3. Mode(c) \in TileModes
      BY <1>1, <2>2, <3>1 DEF IInv, FlagsInv, Modes
    <3>4. QED
      BY <3>1, <3>2, <3>3, LayoutInside, ReadsInside, StoresCover, Zenon
  <2>3. QED
    BY <2>1, <2>2, Zenon DEF FootprintFits
<1>2. QED
  BY <1>1, CallInvariance, PTL
=============================================================================
