---- MODULE RedisLockProofs ----
(* Proofs about RedisLock, for any callers, keys and lifetimes.              *)
EXTENDS RedisLock, TLAPS

LEMMA Lifetimes == Ttl \in Nat /\ Ttl > 0 /\ Interval \in Nat /\ Interval <= Ttl
  BY TtlAssumption

(* What is left of a time never grows as time passes, and keeps its range.   *)
LEMMA LessIsLess ==
  ASSUME NEW n \in Off..Ttl
  PROVE  /\ Less(n) \in Off..Ttl
         /\ Less(n) <= n
         /\ n >= 0 => Less(n) >= 0
         /\ n > 1 <=> Less(n) > 0
         /\ n = Off => Less(n) = Off
  BY Lifetimes DEF Less, Off

LEMMA InitInv == Init => Inv
  <1> SUFFICES ASSUME Init PROVE Inv
    OBVIOUS
  <1> USE Lifetimes, NoneAssumption DEF Init, Off
  <1>1. TypeOK BY DEF TypeOK, Steps
  <1>2. HoldInv BY DEF HoldInv
  <1>3. CallInv BY DEF CallInv
  <1> QED BY <1>1, <1>2, <1>3 DEF Inv

LEMMA BeginInv == ASSUME Inv, NEW k \in Callers, Begin(k) PROVE Inv'
  <1> USE Lifetimes, NoneAssumption DEF Inv, Begin, Goto, callVars, redisVars
  <1>1. PICK X \in (SUBSET Keys) \ {{}} : wants' = [wants EXCEPT ![k] = X]
    OBVIOUS
  <1>2. TypeOK' BY <1>1 DEF TypeOK, Steps, Off
  <1>3. HoldInv' BY <1>1 DEF TypeOK, HoldInv, CallInv, Off
  <1>4. CallInv' BY DEF TypeOK, CallInv, Off
  <1> QED BY <1>2, <1>3, <1>4

LEMMA AcquireInv == ASSUME Inv, NEW k \in Callers, Acquire(k) PROVE Inv'
  <1> USE Lifetimes, NoneAssumption DEF Inv, Acquire, Goto, callVars, redisVars, SetKeys, Held
  <1>1. TypeOK' BY DEF TypeOK, Steps, Off
  <1>2. HoldInv' BY DEF TypeOK, HoldInv, CallInv, Off
  <1>3. CallInv' BY DEF TypeOK, CallInv, Off
  <1> QED BY <1>1, <1>2, <1>3

LEMMA AnswerInv == ASSUME Inv, NEW k \in Callers, Answer(k) PROVE Inv'
  <1> USE Lifetimes, NoneAssumption DEF Inv, Answer, Goto, callVars, redisVars
  <1>1. TypeOK' BY DEF TypeOK, Steps, Off
  <1>2. HoldInv' BY DEF TypeOK, HoldInv, CallInv, Off
  <1>3. CallInv' BY DEF TypeOK, CallInv, Off
  <1> QED BY <1>1, <1>2, <1>3

LEMMA AcquireFailsInv == ASSUME Inv, NEW k \in Callers, AcquireFails(k) PROVE Inv'
  <1> USE Lifetimes, NoneAssumption DEF Inv, AcquireFails, Goto, callVars, redisVars
  <1>1. TypeOK' BY DEF TypeOK, Steps, Off
  <1>2. HoldInv' BY DEF TypeOK, HoldInv, CallInv, Off
  <1>3. CallInv' BY DEF TypeOK, CallInv, Off
  <1> QED BY <1>1, <1>2, <1>3

LEMMA GiveUpInv == ASSUME Inv, NEW k \in Callers, GiveUp(k) PROVE Inv'
  <1> USE Lifetimes, NoneAssumption DEF Inv, GiveUp, Goto, callVars, redisVars, RemoveKeys, Held
  <1>1. TypeOK' BY DEF TypeOK, Steps, Off
  <1>2. HoldInv' BY DEF TypeOK, HoldInv, CallInv, Off
  <1>3. CallInv' BY DEF TypeOK, CallInv, Off
  <1> QED BY <1>1, <1>2, <1>3

LEMMA FireInv == ASSUME Inv, NEW k \in Callers, Fire(k) PROVE Inv'
  <1> USE Lifetimes, NoneAssumption DEF Inv, Fire, Goto, callVars, redisVars
  <1>1. TypeOK' BY DEF TypeOK, Steps, Off
  <1>2. HoldInv' BY DEF TypeOK, HoldInv, CallInv, Off
  <1>3. CallInv' BY DEF TypeOK, CallInv, Off
  <1> QED BY <1>1, <1>2, <1>3

LEMMA ExtendInv == ASSUME Inv, NEW k \in Callers, Extend(k) PROVE Inv'
  <1> USE Lifetimes, NoneAssumption DEF Inv, Extend, Goto, callVars, redisVars, SetKeys, Held
  <1>1. TypeOK' BY DEF TypeOK, Steps, Off
  <1>2. HoldInv' BY DEF TypeOK, HoldInv, CallInv, Off
  <1>3. CallInv' BY DEF TypeOK, CallInv, Off
  <1> QED BY <1>1, <1>2, <1>3

LEMMA ExtendFailsInv == ASSUME Inv, NEW k \in Callers, ExtendFails(k) PROVE Inv'
  <1> USE Lifetimes, NoneAssumption DEF Inv, ExtendFails, Goto, callVars, redisVars, SetKeys, Held
  <1>1. TypeOK' BY DEF TypeOK, Steps, Off
  <1>2. HoldInv' BY DEF TypeOK, HoldInv, CallInv, Off
  <1>3. CallInv' BY DEF TypeOK, CallInv, Off
  <1> QED BY <1>1, <1>2, <1>3

LEMMA FinishInv == ASSUME Inv, NEW k \in Callers, Finish(k) PROVE Inv'
  <1> USE Lifetimes, NoneAssumption DEF Inv, Finish, Goto, callVars, redisVars
  <1>1. TypeOK' BY DEF TypeOK, Steps, Off
  <1>2. HoldInv' BY DEF TypeOK, HoldInv, CallInv, Off
  <1>3. CallInv' BY DEF TypeOK, CallInv, Off
  <1> QED BY <1>1, <1>2, <1>3

LEMMA ReleaseInv == ASSUME Inv, NEW k \in Callers, Release(k) PROVE Inv'
  <1> USE Lifetimes, NoneAssumption DEF Inv, Release, Goto, callVars, redisVars, RemoveKeys, Held
  <1>1. TypeOK' BY DEF TypeOK, Steps, Off
  <1>2. HoldInv' BY DEF TypeOK, HoldInv, CallInv, Off
  <1>3. CallInv' BY DEF TypeOK, CallInv, Off
  <1> QED BY <1>1, <1>2, <1>3

LEMMA StopInv == ASSUME Inv, NEW k \in Callers, Stop(k) PROVE Inv'
  <1> USE Lifetimes, NoneAssumption DEF Inv, Stop, Goto, callVars, redisVars
  <1>1. TypeOK' BY DEF TypeOK, Steps, Off
  <1>2. HoldInv' BY DEF TypeOK, HoldInv, CallInv, Off
  <1>3. CallInv' BY DEF TypeOK, CallInv, Off
  <1> QED BY <1>1, <1>2, <1>3

LEMMA TickInv == ASSUME Inv, Tick PROVE Inv'
  <1> USE Lifetimes, NoneAssumption DEF Inv, Tick, callVars
  <1>1. \A k \in Callers : lock[k] \in 0..Ttl /\ timer[k] \in Off..Ttl /\ promised[k] \in 0..Ttl
    BY DEF TypeOK, Off
  <1>2. TypeOK'
    BY <1>1, LessIsLess DEF TypeOK, Less, Off
  <1>3. HoldInv'
    BY <1>1, LessIsLess DEF TypeOK, HoldInv, Less, Off
  <1>4. CallInv'
    BY <1>1, LessIsLess DEF TypeOK, CallInv, Less, Off
  <1> QED BY <1>2, <1>3, <1>4

LEMMA NextInv == Inv /\ [Next]_vars => Inv'
  <1> SUFFICES ASSUME Inv, [Next]_vars PROVE Inv'
    OBVIOUS
  <1>1. CASE Tick BY <1>1, TickInv
  <1>2. ASSUME NEW k \in Callers, Begin(k) \/ Step(k) \/ Finish(k) \/ Stop(k) PROVE Inv'
    BY <1>2, BeginInv, AcquireInv, AnswerInv, AcquireFailsInv, GiveUpInv, FireInv, ExtendInv,
       ExtendFailsInv, FinishInv, ReleaseInv, StopInv DEF Step
  <1>3. CASE UNCHANGED vars
    BY <1>3 DEF Inv, TypeOK, HoldInv, CallInv, Running, vars
  <1> QED BY <1>1, <1>2, <1>3 DEF Next

(* The inductive invariant: a caller holds its keys all together or not at   *)
(* all, for the time Redis granted.                                          *)
THEOREM Invariance == Spec => []Inv
  BY InitInv, NextInv, PTL DEF Spec

(* Mutual exclusion for as long as Redis granted it: a caller with time left *)
(* holds every key it wants, and a key has one holder.                       *)
THEOREM MutualExclusion == Spec => []Exclusive
  <1>1. Inv => Exclusive
    BY DEF Inv, TypeOK, HoldInv, Exclusive, Running
  <1> QED BY <1>1, Invariance, PTL

(* Who acts on Redis acts on keys of its own or on free ones: a key changes  *)
(* hands only by time, or given back with all the others of its holder.      *)
THEOREM NotLostToOthers == Spec => LostByTimeOrOwner
  <1> DEFINE Lost ==
        \A x \in Keys : holder[x] # None /\ holder'[x] # holder[x] =>
          \/ left[x] = 1 /\ holder'[x] = None
          \/ /\ pc[holder[x]] \in {"release", "giveUp"}
             /\ \A y \in Held(holder[x]) : holder'[y] = None
  <1>1. Inv /\ [Next]_vars => [Lost]_vars
    <2> SUFFICES ASSUME Inv, [Next]_vars PROVE Lost
      OBVIOUS
    <2> USE NoneAssumption DEF Inv
    <2>1. CASE Tick
      BY <2>1, Lifetimes DEF Tick, TypeOK
    <2>2. ASSUME NEW k \in Callers, Acquire(k) PROVE Lost
      BY <2>2 DEF Acquire, SetKeys, Goto, TypeOK, redisVars
    <2>3. ASSUME NEW k \in Callers, GiveUp(k) \/ Release(k) PROVE Lost
      BY <2>3 DEF GiveUp, Release, RemoveKeys, Held, Goto, TypeOK, redisVars
    <2>4. ASSUME NEW k \in Callers, Extend(k) \/ ExtendFails(k) PROVE Lost
      BY <2>4 DEF Extend, ExtendFails, SetKeys, Held, TypeOK, redisVars
    <2>5. ASSUME NEW k \in Callers,
                 Begin(k) \/ Answer(k) \/ AcquireFails(k) \/ Fire(k) \/ Finish(k) \/ Stop(k)
          PROVE Lost
      BY <2>5 DEF Begin, Answer, AcquireFails, Fire, Finish, Stop, redisVars
    <2>6. CASE UNCHANGED vars
      BY <2>6 DEF vars
    <2> QED BY <2>1, <2>2, <2>3, <2>4, <2>5, <2>6 DEF Next, Step
  <1>2. Spec => [][Lost]_vars
    BY <1>1, Invariance, PTL DEF Spec
  <1> QED BY <1>2 DEF LostByTimeOrOwner
====
