-------------------------- MODULE ParseGateProofs --------------------------
(* Theorems about the gate of ParseGate (types, turns, wake-ups), for any   *)
(* set of threads and any bounds, about the slot behind it, and that the    *)
(* two implement SerialParses.                                              *)
EXTENDS ParseGate, SequenceTheorems, TLAPS

(* What the steps do to a stack: push a frame, replace the top, drop it.    *)
LEMMA PushStack ==
    ASSUME NEW s \in Seq(Frame), NEW f \in Frame
    PROVE  /\ Append(s, f) \in Seq(Frame)
           /\ Append(s, f) # <<>>
           /\ Len(Append(s, f)) = Len(s) + 1
           /\ \A i \in 1..Len(s) : Append(s, f)[i] = s[i]
           /\ Append(s, f)[Len(s) + 1] = f
  BY AppendProperties

LEMMA TopOfStack ==
    ASSUME NEW s \in Seq(Frame), s # <<>>
    PROVE  /\ Len(s) \in Nat \ {0}
           /\ s[Len(s)] \in Frame
  BY EmptySeq, ElementOfSeq

LEMMA EmptyByLength == ASSUME NEW s \in Seq(Frame), Len(s) = 0 PROVE s = <<>>
  BY EmptySeq

LEMMA SetTopOfStack ==
    ASSUME NEW s \in Seq(Frame), s # <<>>, NEW f \in Frame
    PROVE  /\ [s EXCEPT ![Len(s)] = f] \in Seq(Frame)
           /\ Len([s EXCEPT ![Len(s)] = f]) = Len(s)
           /\ [s EXCEPT ![Len(s)] = f] # <<>>
           /\ \A i \in 1..Len(s) : [s EXCEPT ![Len(s)] = f][i] =
                                   IF i = Len(s) THEN f ELSE s[i]
  BY TopOfStack, ExceptSeq, EmptySeq, Len(s) \in 1..Len(s)

LEMMA PopStack ==
    ASSUME NEW s \in Seq(Frame), s # <<>>
    PROVE  /\ SubSeq(s, 1, Len(s) - 1) \in Seq(Frame)
           /\ Len(SubSeq(s, 1, Len(s) - 1)) = Len(s) - 1
           /\ \A i \in 1..(Len(s) - 1) : SubSeq(s, 1, Len(s) - 1)[i] = s[i]
  <1> DEFINE n == Len(s) - 1
  <1>1. n \in Nat /\ 1 \in Int /\ n \in Int /\ \A i \in 1..n : s[i] \in Frame
    BY TopOfStack, ElementOfSeq
  <1> HIDE DEF n
  <1>2. /\ SubSeq(s, 1, n) \in Seq(Frame)
        /\ Len(SubSeq(s, 1, n)) = IF 1 <= n THEN n - 1 + 1 ELSE 0
        /\ \A i \in 1..(n - 1 + 1) : SubSeq(s, 1, n)[i] = s[1 + i - 1]
    BY <1>1, SubSeqProperties
  <1>3. n - 1 + 1 = n /\ (~(1 <= n) => n = 0)
    BY <1>1
  <1>4. ASSUME NEW i \in 1..n PROVE SubSeq(s, 1, n)[i] = s[i]
    <2>1. 1 + i - 1 = i
      BY <1>1
    <2> QED BY <1>2, <1>3, <2>1
  <1> QED BY <1>1, <1>2, <1>3, <1>4 DEF n

(* What Enter pushes.                                                       *)
LEMMA FreshFrame ==
    ASSUME NEW t \in Thread, NEW n \in 1..MaxCalls, NEW kind \in Kinds
    PROVE  [call |-> <<t, n>>, kind |-> kind, at |-> "entered",
            prev |-> NoCollector, emitted |-> FALSE] \in Frame
  <1>1. <<t, n>> \in CallId
    BY DEF CallId
  <1>2. NoCollector \in Slot
    BY DEF NoCollector, Slot
  <1> QED BY <1>1, <1>2 DEF Frame
----------------------------------------------------------------------------
(* The gate.                                                                *)

LEMMA GateInit == Init => GateInv
  BY GateAssumption, EmptySeq
  DEF GateAssumption, Init, GateInv, TypeOK, AtTheGate, TakesTurns, NoLostWakeup,
      Waiting, Slot, NoCollector, Kinds

(* The types, and that a thread at the gate has numbered its call.          *)
LEMMA TypeStep == GateInv /\ [Next]_vars => TypeOK' /\ AtTheGate'
  <1> SUFFICES ASSUME GateInv, [Next]_vars PROVE TypeOK' /\ AtTheGate'
    OBVIOUS
  <1> USE GateAssumption DEF GateAssumption, TypeOK, AtTheGate, Top, GateInv
  <1>1. ASSUME NEW t \in Thread, NEW kind \in Kinds, Call(t, kind)
        PROVE  TypeOK' /\ AtTheGate'
    BY <1>1 DEF Call
  <1>2. ASSUME NEW t \in Thread, Enter(t) PROVE TypeOK' /\ AtTheGate'
    <2> DEFINE f == [call |-> <<t, calls[t]>>, kind |-> want[t], at |-> "entered",
                     prev |-> NoCollector, emitted |-> FALSE]
    <2>1. f \in Frame
      <3>1. pc[t] # "run"
        BY <1>2 DEF Enter, FreeFor
      <3>2. calls[t] > 0 /\ calls[t] \in 0..MaxCalls
        BY <3>1 DEF AtTheGate
      <3>3. calls[t] \in 1..MaxCalls
        BY <3>2
      <3>4. want[t] \in Kinds
        OBVIOUS
      <3> QED BY <3>3, <3>4, FreshFrame
    <2>2. stack' = [stack EXCEPT ![t] = Append(@, f)]
      BY <1>2 DEF Enter, FreeFor
    <2>3. stack' \in [Thread -> Seq(Frame)]
      BY <2>1, <2>2, PushStack
    <2> QED BY <1>2, <2>2, <2>3 DEF Enter, FreeFor
  <1>3. ASSUME NEW t \in Thread, Wait(t) \/ SpuriousWake(t) PROVE TypeOK' /\ AtTheGate'
    BY <1>3 DEF Wait, FreeFor, SpuriousWake
  <1>4. ASSUME NEW t \in Thread, Activate(t) \/ Emit(t) \/ Finish(t) \/ Restore(t)
        PROVE  TypeOK' /\ AtTheGate'
    <2>1. stack[t] # <<>> /\ Top(t) \in Frame /\ pc[t] = "run"
      BY <1>4, TopOfStack DEF Activate, CollectorFor, Emit, Finish, Restore, PutBack, TopIs
    <2>2. /\ Top(t).call \in CallId
          /\ Top(t).prev \in Slot
          /\ slot.on \in BOOLEAN
          /\ slot.got \in SUBSET CallId
          /\ \A at \in {"entered", "active", "restored"}, p \in Slot, e \in BOOLEAN :
                /\ [Top(t) EXCEPT !.at = at, !.prev = p] \in Frame
                /\ [Top(t) EXCEPT !.emitted = e] \in Frame
                /\ [Top(t) EXCEPT !.at = at] \in Frame
      BY <2>1 DEF Frame, Slot
    <2>3. PICK f \in Frame : SetTop(t, f)
      BY <1>4, <2>2 DEF Activate, CollectorFor, Emit, Finish, Restore, PutBack
    <2>4. stack' \in [Thread -> Seq(Frame)] /\ \A u \in Thread \ {t} : stack'[u] = stack[u]
      BY <2>1, <2>3, SetTopOfStack DEF SetTop
    <2>5. slot' \in Slot
      <3>1. Fresh \in Slot /\ NoCollector \in Slot
        BY DEF Fresh, NoCollector, Slot
      <3>2. slot.got \cup {Top(t).call} \in SUBSET CallId
        BY <2>2
      <3>3. [slot EXCEPT !.got = slot.got \cup {Top(t).call}] \in Slot
        BY <3>2 DEF Slot
      <3> QED BY <1>4, <2>2, <3>1, <3>3 DEF Activate, CollectorFor, Emit, Finish, Restore, PutBack
    <2>6. result' \in [Thread -> [due : SUBSET CallId, got : SUBSET CallId]]
      <3>1. Own(Top(t)) \in SUBSET CallId
        BY <2>2 DEF Own
      <3>2. [due |-> Own(Top(t)), got |-> slot.got] \in [due : SUBSET CallId, got : SUBSET CallId]
        BY <2>2, <3>1
      <3> QED BY <1>4, <3>2 DEF Activate, CollectorFor, Emit, Finish, Restore, PutBack
    <2>7. UNCHANGED <<holder, depth, pc, want, calls>>
      BY <1>4 DEF Activate, CollectorFor, Emit, Finish, Restore, PutBack
    <2> QED BY <2>1, <2>4, <2>5, <2>6, <2>7
  <1>5. ASSUME NEW t \in Thread, Leave(t) PROVE TypeOK' /\ AtTheGate'
    <2>1. stack[t] # <<>> /\ pc[t] = "run"
      BY <1>5 DEF Leave, NotifyOne, TopIs
    <2>2. /\ stack' \in [Thread -> Seq(Frame)]
          /\ \A u \in Thread \ {t} : stack'[u] = stack[u]
      BY <1>5, <2>1, PopStack DEF Leave, NotifyOne
    <2>3. depth' \in Nat /\ holder' \in Thread \cup {NoThread}
      BY <1>5, <2>1, TopOfStack DEF Leave, NotifyOne, TakesTurns
    <2>4. /\ pc' \in [Thread -> {"run", "trying", "waiting"}]
          /\ \A u \in Thread : pc'[u] # "run" => pc[u] # "run" /\ u # t
      BY <1>5, <2>1 DEF Leave, NotifyOne, Waiting
    <2> QED BY <1>5, <2>2, <2>3, <2>4 DEF Leave, NotifyOne
  <1>6. CASE UNCHANGED vars
    BY <1>6 DEF vars
  <1> QED BY <1>1, <1>2, <1>3, <1>4, <1>5, <1>6 DEF Next, Step, Over

(* The gate has one holder, as deep as its calls are many.                  *)
LEMMA TurnStep == GateInv /\ [Next]_vars => TakesTurns'
  <1> SUFFICES ASSUME GateInv, [Next]_vars PROVE TakesTurns'
    OBVIOUS
  <1> USE GateAssumption DEF GateAssumption, GateInv, TypeOK, TakesTurns
  <1>1. ASSUME NEW t \in Thread, NEW kind \in Kinds, Call(t, kind) PROVE TakesTurns'
    BY <1>1 DEF Call
  <1>2. ASSUME NEW t \in Thread, Enter(t) PROVE TakesTurns'
    <2> DEFINE f == [call |-> <<t, calls[t]>>, kind |-> want[t], at |-> "entered",
                     prev |-> NoCollector, emitted |-> FALSE]
    <2>1. f \in Frame
      <3>1. pc[t] # "run"
        BY <1>2 DEF Enter, FreeFor
      <3>2. calls[t] > 0 /\ calls[t] \in 0..MaxCalls
        BY <3>1 DEF AtTheGate
      <3>3. calls[t] \in 1..MaxCalls
        BY <3>2
      <3>4. want[t] \in Kinds
        OBVIOUS
      <3> QED BY <3>3, <3>4, FreshFrame
    <2>2. stack' = [stack EXCEPT ![t] = Append(@, f)]
      BY <1>2 DEF Enter, FreeFor
    <2>3. Len(stack'[t]) = Len(stack[t]) + 1
      BY <2>1, <2>2, PushStack
    <2>4. depth = Len(stack[t])
      BY <1>2, EmptySeq DEF Enter, FreeFor
    <2> QED BY <1>2, <2>2, <2>3, <2>4 DEF Enter, FreeFor
  <1>3. ASSUME NEW t \in Thread, Wait(t) \/ SpuriousWake(t) PROVE TakesTurns'
    BY <1>3 DEF Wait, FreeFor, SpuriousWake
  <1>4. ASSUME NEW t \in Thread, Activate(t) \/ Emit(t) \/ Finish(t) \/ Restore(t)
        PROVE  TakesTurns'
    <2>1. stack[t] # <<>> /\ UNCHANGED <<holder, depth, pc>>
      BY <1>4 DEF Activate, CollectorFor, Emit, Finish, Restore, PutBack, TopIs
    <2>2. PICK f : stack' = [stack EXCEPT ![t] = [stack[t] EXCEPT ![Len(stack[t])] = f]]
      BY <1>4 DEF Activate, CollectorFor, Emit, Finish, Restore, PutBack, SetTop
    <2>3. Len(stack'[t]) = Len(stack[t])
      BY <2>2, LenProperties
    <2>4. stack'[t] # <<>>
      <3>1. stack[t] \in Seq(Frame) /\ Len(stack[t]) # 0
        BY <2>1, TopOfStack
      <3> QED BY <2>3, <3>1, EmptySeq
    <2> QED BY <2>1, <2>2, <2>3, <2>4
  <1>5. ASSUME NEW t \in Thread, Leave(t) PROVE TakesTurns'
    <2>1. stack[t] # <<>> /\ pc[t] = "run" /\ holder = t /\ depth = Len(stack[t])
      BY <1>5 DEF Leave, NotifyOne, TopIs
    <2>2. stack' = [stack EXCEPT ![t] = SubSeq(stack[t], 1, Len(stack[t]) - 1)]
      BY <1>5 DEF Leave, NotifyOne
    <2>3. Len(stack'[t]) = depth - 1 /\ stack'[t] \in Seq(Frame) /\ depth \in Nat \ {0}
      BY <2>1, <2>2, PopStack, TopOfStack
    <2>4. \A u \in Thread \ {t} : stack'[u] = <<>>
      BY <2>1, <2>2
    <2>5. CASE depth = 1
      <3>1. stack'[t] \in Seq(Frame) /\ Len(stack'[t]) = 0
        BY <2>3, <2>5
      <3>2. stack'[t] = <<>>
        BY <3>1, EmptyByLength
      <3> QED BY <1>5, <2>3, <2>4, <2>5, <3>2 DEF Leave, NotifyOne
    <2>6. CASE depth # 1
      <3>1. stack'[t] # <<>>
        BY <2>3, <2>6, EmptySeq
      <3> QED BY <1>5, <2>1, <2>3, <2>4, <2>6, <3>1 DEF Leave, NotifyOne
    <2> QED BY <2>5, <2>6
  <1>6. CASE UNCHANGED vars
    BY <1>6 DEF vars
  <1> QED BY <1>1, <1>2, <1>3, <1>4, <1>5, <1>6 DEF Next, Step, Over

(* Whoever frees the gate wakes a sleeper; whoever sleeps does so because   *)
(* it is not free.                                                          *)
LEMMA WakeupStep == GateInv /\ [Next]_vars => NoLostWakeup'
  <1> SUFFICES ASSUME GateInv, [Next]_vars PROVE NoLostWakeup'
    OBVIOUS
  <1> USE GateAssumption DEF GateAssumption, GateInv, TypeOK, NoLostWakeup, Waiting
  <1>1. ASSUME NEW t \in Thread, NEW kind \in Kinds, Call(t, kind) PROVE NoLostWakeup'
    BY <1>1 DEF Call
  <1>2. ASSUME NEW t \in Thread, Enter(t) \/ Wait(t) PROVE NoLostWakeup'
    BY <1>2 DEF Enter, Wait, FreeFor
  <1>3. ASSUME NEW t \in Thread, SpuriousWake(t) PROVE NoLostWakeup'
    BY <1>3 DEF SpuriousWake
  <1>4. ASSUME NEW t \in Thread, Activate(t) \/ Emit(t) \/ Finish(t) \/ Restore(t)
        PROVE  NoLostWakeup'
    BY <1>4 DEF Activate, CollectorFor, Emit, Finish, Restore, PutBack
  <1>5. ASSUME NEW t \in Thread, Leave(t) PROVE NoLostWakeup'
    <2>1. CASE depth = 1 /\ Waiting # {}
      BY <1>5, <2>1 DEF Leave, NotifyOne
    <2>2. CASE depth = 1 /\ Waiting = {}
      BY <1>5, <2>2 DEF Leave, NotifyOne
    <2>3. CASE depth # 1
      BY <1>5, <2>3 DEF Leave, NotifyOne
    <2> QED BY <2>1, <2>2, <2>3
  <1>6. CASE UNCHANGED vars
    BY <1>6 DEF vars
  <1> QED BY <1>1, <1>2, <1>3, <1>4, <1>5, <1>6 DEF Next, Step, Over

(* Gate::enter and Turn's Drop: in every behaviour, whatever the scheduling *)
(* and however many threads, the types hold, one thread at a time is inside *)
(* calls and no wake-up is lost.                                            *)
THEOREM GateCorrect == Spec => []GateInv
  <1>1. GateInv /\ [Next]_vars => GateInv'
    BY TypeStep, TurnStep, WakeupStep DEF GateInv
  <1> QED BY GateInit, <1>1, PTL DEF Spec

(* The values of Mux and Gate keep their types.                             *)
THEOREM TypesHold == Spec => []TypeOK
  BY GateCorrect, PTL DEF GateInv

(* Threads take turns at whole outermost calls.                             *)
THEOREM TurnsAreTaken == Spec => []TakesTurns
  BY GateCorrect, PTL DEF GateInv

(* A free gate never leaves everybody asleep on it.                         *)
THEOREM WakeupsArrive == Spec => []NoLostWakeup
  BY GateCorrect, PTL DEF GateInv
-----------------------------------------------------------------------------
(* What the gate protects: the one slot serves every call as a collector of *)
(* its own would.  While a thread is in a call every other stack is empty   *)
(* (TakesTurns), so the argument is about one stack: WellSaved, which names *)
(* where the collector of each of its calls is, survives every step.  Then, *)
(* that the mux and its gate implement SerialParses.                        *)

(* Enter: the new frame saves nothing yet, so nothing moves.                *)
LEMMA SavedEnter ==
    ASSUME NEW s \in Seq(Frame), NEW f \in Frame, NEW sl \in Slot,
           f.at = "entered", ~f.emitted,
           \/ s = <<>> /\ sl = NoCollector
           \/ s # <<>> /\ WellSaved(s, sl) /\ s[Len(s)].at = "active"
    PROVE  WellSaved(Append(s, f), sl)
  <1> DEFINE n  == Len(s)
             s2 == Append(s, f)
  <1>1. n \in Nat /\ s2 # <<>> /\ Len(s2) = n + 1
    BY PushStack, LenProperties
  <1>2. s2[n + 1] = f /\ \A i \in 1..n : s2[i] = s[i]
    BY PushStack
  <1>3. (s = <<>>) <=> n = 0
    BY EmptySeq
  <1> HIDE DEF n, s2
  <1>4. InForce(s2) = n
    BY <1>1, <1>2 DEF InForce
  <1>5. ASSUME n = 0 PROVE WellSaved(s2, sl)
    <2>1. sl = NoCollector
      BY <1>3, <1>5
    <2> QED BY <1>1, <1>2, <1>4, <1>5, <2>1 DEF WellSaved
  <1>6. ASSUME n # 0 PROVE WellSaved(s2, sl)
    <2>1. WellSaved(s, sl) /\ s[n].at = "active" /\ s # <<>>
      BY <1>3, <1>6 DEF n
    <2>2. InForce(s) = n
      BY <2>1 DEF InForce, n
    <2>3. /\ \A i \in 1..n : i < n => s[i].at = "active"
          /\ \A i \in 1..n : CollectorOf(s, sl, i) = OwnCollector(s[i])
          /\ s[1].prev = NoCollector
      BY <1>1, <1>6, <2>1, <2>2 DEF WellSaved, n
    <2>4. ASSUME NEW i \in 1..(n + 1), i < n + 1 PROVE s2[i].at = "active"
      <3>1. i \in 1..n /\ (i < n \/ i = n)
        BY <1>1, <2>4
      <3> QED BY <1>2, <2>1, <2>3, <3>1
    <2>5. \A i \in 1..n : CollectorOf(s2, sl, i) = CollectorOf(s, sl, i)
      BY <1>1, <1>2, <1>4, <2>2 DEF CollectorOf
    <2>6. \A i \in 1..n : CollectorOf(s2, sl, i) = OwnCollector(s2[i])
      BY <1>2, <2>3, <2>5
    <2>7. s2[1].prev = NoCollector
      BY <1>1, <1>2, <1>6, <2>3
    <2> QED BY <1>1, <1>2, <1>4, <1>6, <2>4, <2>6, <2>7 DEF WellSaved
  <1> QED BY <1>5, <1>6 DEF s2

(* What the stack is after a step of its innermost call.                    *)
LEMMA Retopped ==
    ASSUME NEW s \in Seq(Frame), s # <<>>, NEW f \in Frame, NEW n, n = Len(s),
           NEW s2, s2 = [s EXCEPT ![n] = f]
    PROVE  /\ n \in Nat /\ n >= 1
           /\ s2 # <<>> /\ Len(s2) = n /\ s2[n] = f
           /\ \A i \in 1..n : i # n => s2[i] = s[i]
  BY TopOfStack, SetTopOfStack

(* Activation::new: the slot's collector, the next one out's, is saved and  *)
(* this call's own takes its place.                                         *)
LEMMA SavedActivate ==
    ASSUME NEW s \in Seq(Frame), s # <<>>, NEW sl \in Slot, WellSaved(s, sl),
           NEW f \in Frame, NEW n, n = Len(s), s[n].at = "entered",
           f.at = "active", f.prev = sl, f.kind = s[n].kind, f.emitted = s[n].emitted,
           NEW s2, s2 = [s EXCEPT ![n] = f],
           NEW sl2, sl2 = CollectorFor(f.kind)
    PROVE  WellSaved(s2, sl2)
  <1>1. /\ n \in Nat /\ n >= 1
        /\ s2 # <<>> /\ Len(s2) = n /\ s2[n] = f
        /\ \A i \in 1..n : i # n => s2[i] = s[i]
    BY Retopped
  <1>2. InForce(s) = n - 1 /\ InForce(s2) = n
    BY <1>1 DEF InForce
  <1>3. /\ \A i \in 1..n : i < n => s[i].at = "active"
        /\ \A i \in 1..(n - 1) : CollectorOf(s, sl, i) = OwnCollector(s[i])
        /\ (IF n - 1 = 0 THEN sl ELSE s[1].prev) = NoCollector
        /\ ~f.emitted
    BY <1>2 DEF WellSaved
  <1>4. sl2 = OwnCollector(f)
    BY <1>3 DEF CollectorFor, OwnCollector, Own, Fresh
  <1>5. ASSUME NEW i \in 1..n PROVE CollectorOf(s2, sl2, i) = OwnCollector(s2[i])
    <2>1. CASE i = n
      BY <1>1, <1>2, <1>4, <2>1 DEF CollectorOf
    <2>2. CASE i = n - 1
      <3>1. i # n /\ i + 1 = n /\ i \in 1..(n - 1)
        BY <1>1, <2>2
      <3>2. CollectorOf(s2, sl2, i) = sl /\ CollectorOf(s, sl, i) = sl
        BY <1>1, <1>2, <2>2, <3>1 DEF CollectorOf
      <3> QED BY <1>1, <1>3, <3>1, <3>2
    <2>3. CASE i < n - 1
      <3>1. i # n /\ i # n - 1 /\ i + 1 \in 1..n /\ i + 1 # n /\ i \in 1..(n - 1)
        BY <1>1, <2>3
      <3>2. CollectorOf(s2, sl2, i) = CollectorOf(s, sl, i)
        BY <1>1, <1>2, <3>1 DEF CollectorOf
      <3> QED BY <1>1, <1>3, <3>1, <3>2
    <2> QED BY <1>1, <2>1, <2>2, <2>3
  <1>6. s2[1].prev = NoCollector
    BY <1>1, <1>3
  <1>7. \A i \in 1..n : i < n => s2[i].at = "active"
    BY <1>1, <1>3
  <1>8. n # 0 /\ s2[Len(s2)].at = "active"
    BY <1>1
  <1>9. \A i \in 1..InForce(s2) : CollectorOf(s2, sl2, i) = OwnCollector(s2[i])
    BY <1>2, <1>5
  <1> QED BY <1>1, <1>2, <1>6, <1>7, <1>8, <1>9 DEF WellSaved

(* An event of the innermost call goes into its collector, which is the     *)
(* slot's, and into no other.                                               *)
LEMMA SavedEmit ==
    ASSUME NEW s \in Seq(Frame), s # <<>>, NEW sl \in Slot, WellSaved(s, sl),
           NEW f \in Frame, NEW n, n = Len(s), s[n].at = "active",
           f.at = "active", f.prev = s[n].prev, f.kind = s[n].kind, f.emitted,
           f.call = s[n].call,
           NEW s2, s2 = [s EXCEPT ![n] = f],
           NEW sl2, sl2 = IF sl.on THEN [sl EXCEPT !.got = @ \cup {f.call}] ELSE sl
    PROVE  WellSaved(s2, sl2)
  <1>1. /\ n \in Nat /\ n >= 1
        /\ s2 # <<>> /\ Len(s2) = n /\ s2[n] = f
        /\ \A i \in 1..n : i # n => s2[i] = s[i]
    BY Retopped
  <1>2. InForce(s) = n /\ InForce(s2) = n
    BY <1>1 DEF InForce
  <1>3. /\ \A i \in 1..n : i < n => s[i].at = "active"
        /\ \A i \in 1..n : CollectorOf(s, sl, i) = OwnCollector(s[i])
        /\ s[1].prev = NoCollector
    BY <1>1, <1>2 DEF WellSaved
  <1>4. sl = OwnCollector(s[n])
    BY <1>1, <1>2, <1>3 DEF CollectorOf
  <1>5. sl2 = OwnCollector(f)
    <2>1. CASE f.kind = "parse"
      <3>1. sl.on /\ sl.got \cup {f.call} = {f.call}
        BY <1>4, <2>1 DEF OwnCollector, Own
      <3>2. sl2 = [sl EXCEPT !.got = {f.call}]
        BY <3>1
      <3>3. sl2 = [on |-> TRUE, got |-> {f.call}]
        BY <3>1, <3>2 DEF Slot
      <3> QED BY <2>1, <3>3 DEF OwnCollector, Own
    <2>2. CASE f.kind # "parse"
      BY <1>4, <2>2 DEF OwnCollector, NoCollector
    <2> QED BY <2>1, <2>2
  <1>6. ASSUME NEW i \in 1..n PROVE CollectorOf(s2, sl2, i) = OwnCollector(s2[i])
    <2>1. CASE i = n
      BY <1>1, <1>2, <1>5, <2>1 DEF CollectorOf
    <2>2. CASE i # n
      <3>1. i + 1 \in 1..n
        BY <1>1, <2>2
      <3>2. s2[i + 1].prev = s[i + 1].prev
        BY <1>1, <3>1
      <3>3. CollectorOf(s2, sl2, i) = CollectorOf(s, sl, i)
        BY <1>2, <2>2, <3>2 DEF CollectorOf
      <3> QED BY <1>1, <1>3, <2>2, <3>3
    <2> QED BY <2>1, <2>2
  <1>7. s2[1].prev = NoCollector /\ \A i \in 1..n : i < n => s2[i].at = "active"
    BY <1>1, <1>3
  <1>8. n # 0 /\ s2[Len(s2)].at = "active"
    BY <1>1
  <1>9. \A i \in 1..InForce(s2) : CollectorOf(s2, sl2, i) = OwnCollector(s2[i])
    BY <1>2, <1>6
  <1> QED BY <1>1, <1>2, <1>7, <1>8, <1>9 DEF WellSaved

(* Mux::restore: the slot has again the collector of the next call out.     *)
LEMMA SavedPutBack ==
    ASSUME NEW s \in Seq(Frame), s # <<>>, NEW sl \in Slot, WellSaved(s, sl),
           NEW f \in Frame, NEW n, n = Len(s), s[n].at = "active", f.at = "restored",
           NEW s2, s2 = [s EXCEPT ![n] = f]
    PROVE  /\ sl = OwnCollector(s[n])
           /\ WellSaved(s2, s[n].prev)
  <1>1. /\ n \in Nat /\ n >= 1
        /\ s2 # <<>> /\ Len(s2) = n /\ s2[n] = f
        /\ \A i \in 1..n : i # n => s2[i] = s[i]
    BY Retopped
  <1>2. InForce(s) = n /\ InForce(s2) = n - 1
    BY <1>1 DEF InForce
  <1>3. /\ \A i \in 1..n : i < n => s[i].at = "active"
        /\ \A i \in 1..n : CollectorOf(s, sl, i) = OwnCollector(s[i])
        /\ s[1].prev = NoCollector
    BY <1>1, <1>2 DEF WellSaved
  <1>4. sl = OwnCollector(s[n])
    BY <1>1, <1>2, <1>3 DEF CollectorOf
  <1>5. ASSUME NEW i \in 1..(n - 1) PROVE CollectorOf(s2, s[n].prev, i) = OwnCollector(s2[i])
    <2>1. i \in 1..n /\ i # n /\ i + 1 \in 1..n
      BY <1>1
    <2>2. CollectorOf(s2, s[n].prev, i) = s[i + 1].prev
      BY <1>1, <1>2, <2>1 DEF CollectorOf
    <2>3. CollectorOf(s, sl, i) = s[i + 1].prev
      BY <1>2, <2>1 DEF CollectorOf
    <2> QED BY <1>1, <1>3, <2>1, <2>2, <2>3
  <1>6. (IF n - 1 = 0 THEN s[n].prev ELSE s2[1].prev) = NoCollector
    BY <1>1, <1>3
  <1>7. \A i \in 1..n : i < n => s2[i].at = "active"
    BY <1>1, <1>3
  <1> QED BY <1>1, <1>2, <1>4, <1>5, <1>6, <1>7 DEF WellSaved

LEMMA LastOut ==
    ASSUME NEW s \in Seq(Frame), s # <<>>, SubSeq(s, 1, Len(s) - 1) = <<>>
    PROVE  Len(s) = 1
  <1> DEFINE n == Len(s)
  <1>1. n \in Nat /\ n - 1 = 0
    <2>1. n \in Nat /\ Len(SubSeq(s, 1, n - 1)) = n - 1
      BY PopStack, TopOfStack
    <2> QED BY <2>1, EmptySeq
  <1> HIDE DEF n
  <1>2. n = 1
    BY <1>1
  <1> QED BY <1>2 DEF n

(* Leave: the call around it, if there is one, goes on with its collector;  *)
(* if there is none the slot is empty.                                      *)
LEMMA SavedPop ==
    ASSUME NEW s \in Seq(Frame), s # <<>>, NEW sl \in Slot, WellSaved(s, sl),
           NEW n, n = Len(s), s[n].at = "restored",
           NEW s2, s2 = SubSeq(s, 1, n - 1)
    PROVE  /\ n = 1 => sl = NoCollector
           /\ s2 # <<>> => WellSaved(s2, sl)
  <1>1. n \in Nat /\ n >= 1
    BY TopOfStack
  <1>2. /\ s2 \in Seq(Frame) /\ Len(s2) = n - 1
        /\ \A i \in 1..(n - 1) : s2[i] = s[i]
    BY PopStack
  <1>3. InForce(s) = n - 1
    BY DEF InForce
  <1>4. /\ \A i \in 1..n : i < n => s[i].at = "active"
        /\ \A i \in 1..(n - 1) : CollectorOf(s, sl, i) = OwnCollector(s[i])
        /\ (IF n - 1 = 0 THEN sl ELSE s[1].prev) = NoCollector
    BY <1>3 DEF WellSaved
  <1>5. ASSUME s2 # <<>> PROVE WellSaved(s2, sl)
    <2>1. n - 1 # 0
      BY <1>2, <1>5, EmptyByLength
    <2>2. n - 1 \in 1..(n - 1) /\ n - 1 \in 1..n /\ n - 1 < n
      BY <1>1, <2>1
    <2>3. s2[n - 1].at = "active"
      BY <1>2, <1>4, <2>2
    <2>4. InForce(s2) = n - 1
      BY <1>2, <2>3 DEF InForce
    <2>5. ASSUME NEW i \in 1..(n - 1) PROVE CollectorOf(s2, sl, i) = OwnCollector(s2[i])
      <3>1. i # n - 1 => i + 1 \in 1..(n - 1)
        BY <1>1
      <3>2. CollectorOf(s2, sl, i) = CollectorOf(s, sl, i)
        BY <1>2, <1>3, <2>4, <3>1 DEF CollectorOf
      <3> QED BY <1>2, <1>4, <3>2
    <2>6. s2[1].prev = NoCollector
      BY <1>1, <1>2, <1>4, <2>1, 1 \in 1..(n - 1)
    <2>7. \A i \in 1..(n - 1) : i < n - 1 => s2[i].at = "active"
      BY <1>1, <1>2, <1>4
    <2> QED BY <1>2, <2>1, <2>3, <2>4, <2>5, <2>6, <2>7 DEF WellSaved
  <1> QED BY <1>1, <1>4, <1>5
----------------------------------------------------------------------------
LEMMA SlotInit == Init => SlotInv
  <1> SUFFICES ASSUME Init PROVE SlotInv
    OBVIOUS
  <1>1. SavedCollectors
    <2>1. \A t \in Thread : stack[t] = <<>>
      BY DEF Init
    <2> QED BY <2>1 DEF SavedCollectors
  <1>2. SlotEmptyWhenFree /\ CollectsOwnEvents
    BY DEF Init, SlotEmptyWhenFree, CollectsOwnEvents
  <1> QED BY <1>1, <1>2 DEF SlotInv

(* A step on one stack is a step of all: the others are empty.              *)
LEMMA OneStack ==
    ASSUME GateInv, GateInv', NEW t \in Thread, stack'[t] # <<>>, WellSaved(stack'[t], slot')
    PROVE  SavedCollectors' /\ SlotEmptyWhenFree'
  <1>1. holder' = t /\ t # NoThread
    BY GateAssumption DEF GateInv, TakesTurns, GateAssumption
  <1>2. \A u \in Thread : stack'[u] # <<>> => u = t
    BY <1>1 DEF GateInv, TakesTurns
  <1> QED BY <1>1, <1>2 DEF SavedCollectors, SlotEmptyWhenFree

LEMMA SlotStep == GateInv /\ GateInv' /\ SlotInv /\ [Next]_vars => SlotInv'
  <1> SUFFICES ASSUME GateInv, GateInv', SlotInv, [Next]_vars PROVE SlotInv'
    OBVIOUS
  <1>a. /\ slot \in Slot /\ \A t \in Thread : stack[t] \in Seq(Frame) /\ stack'[t] \in Seq(Frame)
        /\ SavedCollectors /\ SlotEmptyWhenFree /\ CollectsOwnEvents
        /\ stack \in [Thread -> Seq(Frame)]
        /\ result \in [Thread -> [due : SUBSET CallId, got : SUBSET CallId]]
    BY DEF GateInv, TypeOK, SlotInv
  <1>1. CASE UNCHANGED <<holder, stack, slot, result>>
    BY <1>a, <1>1 DEF SlotInv, SavedCollectors, SlotEmptyWhenFree, CollectsOwnEvents
  <1>2. ASSUME NEW t \in Thread, Enter(t) PROVE SlotInv'
    <2> DEFINE f == [call |-> <<t, calls[t]>>, kind |-> want[t], at |-> "entered",
                     prev |-> NoCollector, emitted |-> FALSE]
    <2>1. stack'[t] = Append(stack[t], f) /\ UNCHANGED <<slot, result>> /\ holder \in {t, NoThread}
      BY <1>2, <1>a DEF Enter, FreeFor
    <2>2. f \in Frame
      <3>1. calls[t] > 0 /\ calls[t] \in 0..MaxCalls
        BY <1>2 DEF GateInv, TypeOK, AtTheGate, Enter, FreeFor
      <3>2. calls[t] \in 1..MaxCalls
        BY <3>1, GateAssumption DEF GateAssumption
      <3>3. want[t] \in Kinds
        BY DEF GateInv, TypeOK
      <3> QED BY <3>2, <3>3, FreshFrame
    <2>3. \/ stack[t] = <<>> /\ slot = NoCollector
          \/ stack[t] # <<>> /\ WellSaved(stack[t], slot) /\ stack[t][Len(stack[t])].at = "active"
      <3>1. CASE holder = NoThread
        BY <1>a, <2>1, <3>1, GateAssumption
        DEF SlotEmptyWhenFree, GateInv, TakesTurns, GateAssumption
      <3>2. CASE holder = t
        <4>1. stack[t] # <<>>
          BY <3>2, GateAssumption DEF GateInv, TakesTurns, GateAssumption
        <4>2. stack[t][Len(stack[t])].at = "active"
          BY <1>2, <4>1 DEF GateInv, AtTheGate, Top, Enter, FreeFor
        <4> QED BY <1>a, <4>1, <4>2 DEF SavedCollectors
      <3> QED BY <2>1, <3>1, <3>2
    <2>4. f.at = "entered" /\ ~f.emitted
      OBVIOUS
    <2> HIDE DEF f
    <2>5. WellSaved(Append(stack[t], f), slot)
      BY <1>a, <2>2, <2>3, <2>4, SavedEnter
    <2>6. stack'[t] # <<>> /\ WellSaved(stack'[t], slot')
      BY <1>a, <2>1, <2>2, <2>5, PushStack
    <2> QED BY <1>a, <2>1, <2>6, OneStack DEF SlotInv, CollectsOwnEvents
  <1>3. ASSUME NEW t \in Thread, TopIs(t, "entered") \/ TopIs(t, "active") \/ TopIs(t, "restored")
        PROVE  /\ stack[t] # <<>> /\ WellSaved(stack[t], slot)
               /\ Len(stack[t]) >= 1 /\ Top(t) \in Frame
    BY <1>3, <1>a, TopOfStack DEF TopIs, SavedCollectors, Top
  <1>4. ASSUME NEW t \in Thread, NEW f \in Frame, TopIs(t, "entered") \/ TopIs(t, "active"),
               SetTop(t, f)
        PROVE  /\ stack'[t] = [stack[t] EXCEPT ![Len(stack[t])] = f]
               /\ stack'[t] # <<>>
    BY <1>3, <1>4, <1>a, SetTopOfStack DEF SetTop
  <1>5. ASSUME NEW t \in Thread, Activate(t) PROVE SlotInv'
    <2>1. TopIs(t, "entered") /\ UNCHANGED result
      BY <1>5 DEF Activate
    <2>2. stack[t] # <<>> /\ WellSaved(stack[t], slot) /\ Top(t) \in Frame
      BY <1>3, <2>1
    <2>3. PICK f : f = [Top(t) EXCEPT !.at = "active", !.prev = slot]
      OBVIOUS
    <2>4. /\ f \in Frame
          /\ f.at = "active" /\ f.prev = slot /\ f.kind = Top(t).kind /\ f.emitted = Top(t).emitted
      BY <1>a, <2>2, <2>3 DEF Frame
    <2>5. SetTop(t, f) /\ slot' = CollectorFor(f.kind)
      BY <1>5, <2>3, <2>4 DEF Activate
    <2>6. stack'[t] = [stack[t] EXCEPT ![Len(stack[t])] = f] /\ stack'[t] # <<>>
      BY <1>4, <2>1, <2>4, <2>5
    <2>7. WellSaved(stack'[t], slot')
      BY <1>a, <2>1, <2>2, <2>4, <2>5, <2>6, SavedActivate DEF TopIs, Top
    <2> QED BY <1>a, <2>1, <2>6, <2>7, OneStack DEF SlotInv, CollectsOwnEvents
  <1>6. ASSUME NEW t \in Thread, Emit(t) PROVE SlotInv'
    <2>1. TopIs(t, "active") /\ UNCHANGED result
      BY <1>6 DEF Emit
    <2>2. stack[t] # <<>> /\ WellSaved(stack[t], slot) /\ Top(t) \in Frame
      BY <1>3, <2>1
    <2>3. PICK f : f = [Top(t) EXCEPT !.emitted = TRUE]
      OBVIOUS
    <2>4. /\ f \in Frame
          /\ f.at = Top(t).at /\ f.prev = Top(t).prev /\ f.kind = Top(t).kind
          /\ f.call = Top(t).call /\ f.emitted
      BY <2>2, <2>3 DEF Frame
    <2>5. /\ SetTop(t, f)
          /\ slot' = IF slot.on THEN [slot EXCEPT !.got = @ \cup {f.call}] ELSE slot
      BY <1>6, <2>3, <2>4 DEF Emit
    <2>6. stack'[t] = [stack[t] EXCEPT ![Len(stack[t])] = f] /\ stack'[t] # <<>>
      BY <1>4, <2>1, <2>4, <2>5
    <2>7. WellSaved(stack'[t], slot')
      <3> DEFINE s  == stack[t]
                 n  == Len(s)
                 s2 == stack'[t]
      <3>1. /\ s[n].at = "active" /\ f.at = "active" /\ f.prev = s[n].prev
            /\ f.kind = s[n].kind /\ f.call = s[n].call
        BY <2>1, <2>4 DEF TopIs, Top
      <3>2. /\ s \in Seq(Frame) /\ s # <<>> /\ WellSaved(s, slot) /\ s2 = [s EXCEPT ![n] = f]
            /\ slot \in Slot
        BY <1>a, <2>2, <2>6
      <3>3. n = Len(s)
        OBVIOUS
      <3> HIDE DEF s, n, s2
      <3>4. WellSaved(s2, slot')
        BY <2>4, <2>5, <3>1, <3>2, <3>3, SavedEmit
      <3> QED BY <3>4 DEF s2
    <2> QED BY <1>a, <2>1, <2>6, <2>7, OneStack DEF SlotInv, CollectsOwnEvents
  <1>7. ASSUME NEW t \in Thread, TopIs(t, "active"), PutBack(t)
        PROVE  /\ slot = OwnCollector(Top(t))
               /\ SavedCollectors' /\ SlotEmptyWhenFree'
    <2>1. stack[t] # <<>> /\ WellSaved(stack[t], slot) /\ Top(t) \in Frame
      BY <1>3, <1>7
    <2>2. PICK f : f = [Top(t) EXCEPT !.at = "restored"]
      OBVIOUS
    <2>3. f \in Frame /\ f.at = "restored"
      BY <2>1, <2>2 DEF Frame
    <2>4. SetTop(t, f) /\ slot' = Top(t).prev
      BY <1>7, <2>2 DEF PutBack
    <2>5. stack'[t] = [stack[t] EXCEPT ![Len(stack[t])] = f] /\ stack'[t] # <<>>
      BY <1>4, <1>7, <2>3, <2>4
    <2>6. slot = OwnCollector(Top(t)) /\ WellSaved(stack'[t], slot')
      <3> DEFINE s  == stack[t]
                 n  == Len(s)
                 s2 == stack'[t]
      <3>1. s[n] = Top(t) /\ s[n].at = "active"
        BY <1>7 DEF TopIs, Top
      <3>2. /\ s \in Seq(Frame) /\ s # <<>> /\ WellSaved(s, slot) /\ s2 = [s EXCEPT ![n] = f]
            /\ slot \in Slot
        BY <1>a, <2>1, <2>5
      <3>3. n = Len(s)
        OBVIOUS
      <3> HIDE DEF s, n, s2
      <3>4. slot = OwnCollector(s[n]) /\ WellSaved(s2, s[n].prev)
        BY <2>3, <3>1, <3>2, <3>3, SavedPutBack
      <3> QED BY <2>4, <3>1, <3>4 DEF s2
    <2> QED BY <2>5, <2>6, OneStack
  <1>8. ASSUME NEW t \in Thread, Finish(t) PROVE SlotInv'
    <2>1. TopIs(t, "active") /\ PutBack(t) /\ Top(t).kind = "parse"
      BY <1>8 DEF Finish
    <2>2. slot.got = Own(Top(t))
      BY <1>7, <2>1 DEF OwnCollector
    <2>3. result' = [result EXCEPT ![t] = [due |-> Own(Top(t)), got |-> Own(Top(t))]]
      BY <1>8, <2>2 DEF Finish
    <2>4. CollectsOwnEvents'
      BY <1>a, <2>3 DEF CollectsOwnEvents
    <2> QED BY <1>7, <2>1, <2>4 DEF SlotInv
  <1>9. ASSUME NEW t \in Thread, Restore(t) PROVE SlotInv'
    BY <1>7, <1>9, <1>a DEF Restore, SlotInv, CollectsOwnEvents
  <1>10. ASSUME NEW t \in Thread, Leave(t) PROVE SlotInv'
    <2>1. TopIs(t, "restored") /\ UNCHANGED <<slot, result>>
      BY <1>10 DEF Leave
    <2>2. stack[t] # <<>> /\ WellSaved(stack[t], slot) /\ Top(t).at = "restored"
      BY <1>3, <2>1 DEF TopIs
    <2>3. stack' = [stack EXCEPT ![t] = SubSeq(stack[t], 1, Len(stack[t]) - 1)]
      BY <1>10 DEF Leave
    <2>4. stack'[t] = SubSeq(stack[t], 1, Len(stack[t]) - 1)
      BY <1>a, <2>3
    <2>5. /\ Len(stack[t]) = 1 => slot = NoCollector
          /\ stack'[t] # <<>> => WellSaved(stack'[t], slot)
      BY <1>a, <2>2, <2>4, SavedPop DEF Top
    <2>6. CASE stack'[t] # <<>>
      BY <1>a, <2>1, <2>5, <2>6, OneStack DEF SlotInv, CollectsOwnEvents
    <2>7. CASE stack'[t] = <<>>
      <3>1. \A u \in Thread : stack'[u] = <<>>
        BY <1>a, <2>2, <2>3, <2>7 DEF GateInv, TakesTurns
      <3>2. Len(stack[t]) = 1
        BY <1>a, <2>2, <2>4, <2>7, LastOut
      <3> QED BY <1>a, <2>1, <2>5, <3>1, <3>2
          DEF SlotInv, SavedCollectors, SlotEmptyWhenFree, CollectsOwnEvents
    <2> QED BY <2>6, <2>7
  <1>11. ASSUME NEW t \in Thread, NEW kind \in Kinds,
                Call(t, kind) \/ Wait(t) \/ SpuriousWake(t)
         PROVE  UNCHANGED <<holder, stack, slot, result>>
    BY <1>11 DEF Call, Wait, FreeFor, SpuriousWake
  <1>12. UNCHANGED vars => UNCHANGED <<holder, stack, slot, result>>
    BY DEF vars
  <1>13. CASE \E t \in Thread : Wait(t) \/ SpuriousWake(t) \/ \E kind \in Kinds : Call(t, kind)
    BY <1>1, <1>11, <1>13 DEF Wait, FreeFor, SpuriousWake
  <1> QED BY <1>1, <1>2, <1>5, <1>6, <1>8, <1>9, <1>10, <1>12, <1>13 DEF Next, Step, Over

(* Mux::parse and Mux::without_collector: in every behaviour the slot is    *)
(* the collector of the innermost call and every other is where its call    *)
(* will look for it.                                                        *)
THEOREM SlotCorrect == Spec => []SlotInv
  <1>1. GateInv /\ GateInv' /\ SlotInv /\ [Next]_vars => SlotInv'
    BY SlotStep
  <1> QED BY GateCorrect, SlotInit, <1>1, PTL DEF Spec

(* A parse returns its own run's events, however many threads parse, and    *)
(* however calls nest and unwind.                                           *)
THEOREM ParsesCollectTheirOwn == Spec => []CollectsOwnEvents
  BY SlotCorrect, PTL DEF SlotInv

(* Between outermost calls no collector is left in the slot.                *)
THEOREM SlotIsLeftEmpty == Spec => []SlotEmptyWhenFree
  BY SlotCorrect, PTL DEF SlotInv
-----------------------------------------------------------------------------
(* The mux and its gate implement SerialParses, step by step: what is open  *)
(* on a stack is a function of the stack and the slot alone (OpenOf), a     *)
(* step of the mux does to it what one of SerialParses' steps says or       *)
(* nothing, and every other thread's stack is empty meanwhile.              *)
OpenCall == [call : CallId, collects : BOOLEAN, got : SUBSET CallId]

LEMMA IsSequence ==
    ASSUME NEW S, NEW n \in Nat, NEW f \in [1..n -> S]
    PROVE  f \in Seq(S) /\ Len(f) = n
  OBVIOUS

LEMMA OpenedType ==
    ASSUME NEW f \in Frame, NEW got \in SUBSET CallId
    PROVE  Opened(f, got) \in OpenCall
  <1>1. f.call \in CallId /\ (f.kind = "parse") \in BOOLEAN
    BY DEF Frame
  <1> QED BY <1>1 DEF Opened, OpenCall

LEMMA OpenedFields ==
    ASSUME NEW f \in Frame, NEW got
    PROVE  LET c == Opened(f, got) IN
           c.call = f.call /\ c.got = got /\ (c.collects <=> f.kind = "parse")
  BY Zenon DEF Opened

LEMMA InForceType ==
    ASSUME NEW s \in Seq(Frame)
    PROVE  /\ InForce(s) \in Nat /\ InForce(s) <= Len(s)
           /\ InForce(s) = Len(s) \/ (InForce(s) = Len(s) - 1 /\ s # <<>>)
           /\ Len(s) \in Nat
  BY TopOfStack, EmptySeq DEF InForce

(* OpenOf is a sequence of calls, one for each activation in force.         *)
LEMMA OpenIsSequence ==
    ASSUME NEW s \in Seq(Frame), NEW sl \in Slot
    PROVE  /\ OpenOf(s, sl) \in Seq(OpenCall)
           /\ Len(OpenOf(s, sl)) = InForce(s)
           /\ \A i \in 1..InForce(s) :
                 OpenOf(s, sl)[i] = Opened(s[i], CollectorOf(s, sl, i).got)
  <1> DEFINE n == InForce(s)
  <1>1. n \in Nat /\ n <= Len(s) /\ Len(s) \in Nat /\ (n = Len(s) \/ n = Len(s) - 1)
    BY InForceType
  <1>2. ASSUME NEW i \in 1..n
        PROVE  Opened(s[i], CollectorOf(s, sl, i).got) \in OpenCall
    <2>1. s[i] \in Frame /\ (i # n => s[i + 1] \in Frame)
      BY <1>1, ElementOfSeq
    <2>2. CollectorOf(s, sl, i) \in Slot
      BY <2>1 DEF CollectorOf, Frame
    <2>3. s[i].call \in CallId /\ CollectorOf(s, sl, i).got \in SUBSET CallId
      BY <2>1, <2>2 DEF Frame, Slot
    <2> QED BY <2>1, <2>3, OpenedType
  <1>3. OpenOf(s, sl) \in [1..n -> OpenCall]
    BY <1>2 DEF OpenOf
  <1>4. OpenOf(s, sl) \in Seq(OpenCall) /\ Len(OpenOf(s, sl)) = n
    BY <1>1, <1>3, IsSequence
  <1> QED BY <1>4 DEF OpenOf

LEMMA PopOpen ==
    ASSUME NEW o \in Seq(OpenCall), NEW n \in Nat, n >= 1, Len(o) = n
    PROVE  /\ SubSeq(o, 1, n - 1) \in Seq(OpenCall)
           /\ Len(SubSeq(o, 1, n - 1)) = n - 1
           /\ \A i \in 1..(n - 1) : SubSeq(o, 1, n - 1)[i] = o[i]
  <1> DEFINE m == n - 1
  <1>1. m \in Nat /\ 1 \in Int /\ m \in Int /\ \A i \in 1..m : o[i] \in OpenCall
    BY ElementOfSeq
  <1> HIDE DEF m
  <1>2. /\ SubSeq(o, 1, m) \in Seq(OpenCall)
        /\ Len(SubSeq(o, 1, m)) = IF 1 <= m THEN m - 1 + 1 ELSE 0
        /\ \A i \in 1..(m - 1 + 1) : SubSeq(o, 1, m)[i] = o[1 + i - 1]
    BY <1>1, SubSeqProperties
  <1>3. m - 1 + 1 = m /\ (~(1 <= m) => m = 0)
    BY <1>1
  <1>4. ASSUME NEW i \in 1..m PROVE SubSeq(o, 1, m)[i] = o[i]
    <2>1. 1 + i - 1 = i
      BY <1>1
    <2> QED BY <1>2, <1>3, <2>1
  <1> QED BY <1>1, <1>2, <1>3, <1>4 DEF m

LEMMA NothingOpen ==
    ASSUME NEW s \in Seq(Frame), NEW sl \in Slot, InForce(s) = 0
    PROVE  OpenOf(s, sl) = <<>>
  BY OpenIsSequence, EmptySeq

LEMMA EmptyHasNone == ASSUME NEW sl \in Slot PROVE OpenOf(<<>>, sl) = <<>>
  <1>1. <<>> \in Seq(Frame) /\ InForce(<<>>) = 0
    BY EmptySeq DEF InForce
  <1> QED BY <1>1, NothingOpen

(* Two stacks with the same activations in force have the same calls open.  *)
LEMMA OpenAlike ==
    ASSUME NEW s \in Seq(Frame), NEW sl \in Slot, NEW s2 \in Seq(Frame), NEW sl2 \in Slot,
           InForce(s2) = InForce(s),
           \A i \in 1..InForce(s) :
              /\ s2[i].call = s[i].call /\ s2[i].kind = s[i].kind
              /\ CollectorOf(s2, sl2, i).got = CollectorOf(s, sl, i).got
    PROVE  OpenOf(s2, sl2) = OpenOf(s, sl)
  BY DEF OpenOf, Opened
----------------------------------------------------------------------------
(* Enter: the call is not open yet.                                         *)
LEMMA OpenEnter ==
    ASSUME NEW s \in Seq(Frame), NEW f \in Frame, NEW sl \in Slot,
           f.at = "entered", s = <<>> \/ s[Len(s)].at = "active"
    PROVE  OpenOf(Append(s, f), sl) = OpenOf(s, sl)
  <1> DEFINE n  == Len(s)
             s2 == Append(s, f)
  <1>1. n \in Nat /\ s2 \in Seq(Frame) /\ s2 # <<>> /\ Len(s2) = n + 1
    BY PushStack, LenProperties
  <1>2. s2[n + 1] = f /\ \A i \in 1..n : s2[i] = s[i]
    BY PushStack
  <1>3. InForce(s) = n
    BY EmptySeq DEF InForce
  <1> HIDE DEF n, s2
  <1>4. InForce(s2) = n
    BY <1>1, <1>2 DEF InForce
  <1>5. \A i \in 1..n : CollectorOf(s2, sl, i) = CollectorOf(s, sl, i)
    BY <1>1, <1>2, <1>3, <1>4 DEF CollectorOf
  <1>6. OpenOf(s2, sl) = OpenOf(s, sl)
    BY <1>1, <1>2, <1>3, <1>4, <1>5, OpenAlike
  <1> QED BY <1>6 DEF s2

(* Activation::new: the call is open, with nothing collected.               *)
LEMMA OpenActivate ==
    ASSUME NEW s \in Seq(Frame), s # <<>>, NEW sl \in Slot,
           NEW f \in Frame, s[Len(s)].at = "entered", f.at = "active", f.prev = sl,
           NEW sl2 \in Slot, sl2.got = {}
    PROVE  OpenOf([s EXCEPT ![Len(s)] = f], sl2) = Append(OpenOf(s, sl), Opened(f, {}))
  <1>0. PICK n, s2 : n = Len(s) /\ s2 = [s EXCEPT ![n] = f]
    OBVIOUS
  <1> USE <1>0
  <1> DEFINE c == Opened(f, {})
             o == OpenOf(s, sl)
             o2 == OpenOf(s2, sl2)
  <1>1. /\ n \in Nat /\ n >= 1
        /\ s2 # <<>> /\ Len(s2) = n /\ s2[n] = f
        /\ \A i \in 1..n : i # n => s2[i] = s[i]
    BY Retopped
  <1>2. s2 \in Seq(Frame)
    BY SetTopOfStack
  <1>3. InForce(s) = n - 1 /\ InForce(s2) = n
    BY <1>1 DEF InForce
  <1>4. c \in OpenCall
    BY OpenedType
  <1>5. /\ o \in Seq(OpenCall) /\ Len(o) = n - 1
        /\ \A i \in 1..(n - 1) : o[i] = Opened(s[i], CollectorOf(s, sl, i).got)
    BY <1>3, OpenIsSequence
  <1>6. /\ o2 \in Seq(OpenCall) /\ Len(o2) = n
        /\ \A i \in 1..n : o2[i] = Opened(s2[i], CollectorOf(s2, sl2, i).got)
    <2>1. s2 \in Seq(Frame) /\ sl2 \in Slot /\ InForce(s2) = n
      BY <1>2, <1>3
    <2> QED BY ONLY <2>1, OpenIsSequence
  <1>7. o2[n] = c
    <2> HIDE DEF o2
    <2>1. CollectorOf(s2, sl2, n).got = {}
      BY <1>3 DEF CollectorOf
    <2>2. n \in 1..n
      BY <1>1
    <2>3. o2[n] = Opened(s2[n], CollectorOf(s2, sl2, n).got)
      BY <1>6, <2>2
    <2> QED BY <1>1, <2>1, <2>3
  <1>8. ASSUME NEW i \in 1..(n - 1) PROVE o2[i] = o[i]
    <2>1. i \in 1..n /\ i # n /\ i + 1 \in 1..n
      BY <1>1
    <2> HIDE DEF c, o, o2
    <2>2. CollectorOf(s2, sl2, i) = s2[i + 1].prev
      BY <1>3, <2>1 DEF CollectorOf
    <2>3. CollectorOf(s, sl, i) = IF i = n - 1 THEN sl ELSE s[i + 1].prev
      BY <1>3 DEF CollectorOf
    <2>4. CollectorOf(s2, sl2, i) = CollectorOf(s, sl, i)
      BY <1>1, <2>1, <2>2, <2>3
    <2>5. s2[i] = s[i]
      BY <1>1, <2>1
    <2>6. o[i] = Opened(s[i], CollectorOf(s, sl, i).got)
      BY <1>5
    <2>7. o2[i] = Opened(s2[i], CollectorOf(s2, sl2, i).got)
      BY <1>6, <2>1
    <2> QED BY <2>4, <2>5, <2>6, <2>7
  <1> HIDE DEF c, o, o2
  <1>9. /\ Append(o, c) \in Seq(OpenCall) /\ Len(Append(o, c)) = n
        /\ \A i \in 1..(n - 1) : Append(o, c)[i] = o[i]
        /\ Append(o, c)[n] = c
    <2>1. o \in Seq(OpenCall) /\ n - 1 \in Nat /\ Len(o) = n - 1 /\ (n - 1) + 1 = n
      BY <1>1, <1>5
    <2>2. Append(o, c) \in Seq(OpenCall) /\ Len(Append(o, c)) = n
      BY <1>4, <2>1, AppendProperties
    <2>3. \A i \in 1..(n - 1) : Append(o, c)[i] = o[i]
      BY <1>4, <2>1, AppendProperties
    <2>4. Append(o, c)[n] = c
      BY <1>4, <2>1, AppendProperties
    <2> QED BY <2>2, <2>3, <2>4
  <1>10. \A i \in 1..n : o2[i] = Append(o, c)[i]
    BY <1>1, <1>7, <1>8, <1>9
  <1>11. o2 = Append(o, c)
    BY <1>6, <1>9, <1>10, SeqEqual
  <1> QED BY <1>11 DEF c, o, o2

Retop(o, c) == [o EXCEPT ![Len(o)] = c]

(* The forwarders: what the innermost call announces it has, if it is a     *)
(* parse, and no other open call has anything more.                         *)
LEMMA OpenEmit ==
    ASSUME NEW s \in Seq(Frame), s # <<>>, NEW sl \in Slot,
           NEW f \in Frame, s[Len(s)].at = "active",
           f.at = "active", f.prev = s[Len(s)].prev, f.kind = s[Len(s)].kind,
           f.call = s[Len(s)].call, NEW sl2 \in Slot
    PROVE  LET o  == OpenOf(s, sl)
               o2 == OpenOf([s EXCEPT ![Len(s)] = f], sl2)
           IN  /\ o # <<>> /\ Len(o) = Len(s)
               /\ o[Len(s)] = Opened(s[Len(s)], sl.got)
               /\ o2 = Retop(o, Opened(s[Len(s)], sl2.got))
  <1>0. PICK n, s2 : n = Len(s) /\ s2 = [s EXCEPT ![n] = f]
    OBVIOUS
  <1> USE <1>0
  <1> DEFINE o  == OpenOf(s, sl)
             o2 == OpenOf(s2, sl2)
             c  == Opened(f, sl2.got)
  <1>1. /\ n \in Nat /\ n >= 1
        /\ s2 # <<>> /\ Len(s2) = n /\ s2[n] = f
        /\ \A i \in 1..n : i # n => s2[i] = s[i]
    BY Retopped
  <1>2. s2 \in Seq(Frame) /\ n \in 1..n
    BY <1>1, SetTopOfStack
  <1>3. InForce(s) = n /\ InForce(s2) = n
    BY <1>1 DEF InForce
  <1>4. CollectorOf(s2, sl2, n) = sl2 /\ CollectorOf(s, sl, n) = sl
    BY <1>3 DEF CollectorOf
  <1>5. ASSUME NEW i \in 1..n, i # n PROVE CollectorOf(s2, sl2, i) = CollectorOf(s, sl, i)
    <2>1. i + 1 \in 1..n
      BY <1>1, <1>5
    <2>2. s2[i + 1].prev = s[i + 1].prev
      BY <1>1, <2>1
    <2> QED BY <1>3, <1>5, <2>2 DEF CollectorOf
  <1>6. /\ o \in Seq(OpenCall) /\ Len(o) = n
        /\ \A i \in 1..n : o[i] = Opened(s[i], CollectorOf(s, sl, i).got)
    BY <1>3, OpenIsSequence
  <1>7. /\ o2 \in Seq(OpenCall) /\ Len(o2) = n
        /\ \A i \in 1..n : o2[i] = Opened(s2[i], CollectorOf(s2, sl2, i).got)
    BY <1>2, <1>3, OpenIsSequence
  <1>8. o[n] = Opened(s[n], sl.got) /\ o2[n] = c
    BY <1>1, <1>2, <1>4, <1>6, <1>7
  <1>9. ASSUME NEW i \in 1..n, i # n PROVE o2[i] = o[i]
    <2> HIDE DEF c, o, o2
    <2>1. s2[i] = s[i] /\ CollectorOf(s2, sl2, i) = CollectorOf(s, sl, i)
      BY <1>1, <1>5, <1>9
    <2>2. o[i] = Opened(s[i], CollectorOf(s, sl, i).got)
      BY <1>6
    <2>3. o2[i] = Opened(s2[i], CollectorOf(s2, sl2, i).got)
      BY <1>7
    <2> QED BY <2>1, <2>2, <2>3
  <1>10. sl2.got \in SUBSET CallId /\ c \in OpenCall
    BY OpenedType DEF Slot
  <1>11. c = Opened(s[n], sl2.got)
    BY DEF Opened
  <1> HIDE DEF o, o2, c
  <1>12. o2 = [o EXCEPT ![n] = c]
    <2> DEFINE o3 == [o EXCEPT ![n] = c]
    <2>1. o3 \in Seq(OpenCall) /\ Len(o3) = n /\ \A i \in 1..n : o3[i] = IF i = n THEN c ELSE o[i]
      BY <1>2, <1>6, <1>10, ExceptSeq
    <2> HIDE DEF o3
    <2>2. o2 = o3
      BY <1>7, <1>8, <1>9, <2>1, SeqEqual
    <2> QED BY <2>2 DEF o3
  <1>13. o # <<>>
    BY <1>1, <1>6, EmptySeq
  <1> QED BY <1>6, <1>8, <1>11, <1>12, <1>13 DEF o, o2, Retop

(* Mux::restore: the innermost call is over and the others are as they were.*)
LEMMA OpenPutBack ==
    ASSUME NEW s \in Seq(Frame), s # <<>>, NEW sl \in Slot,
           NEW f \in Frame, s[Len(s)].at = "active", f.at = "restored"
    PROVE  LET o == OpenOf(s, sl) IN
           /\ o # <<>> /\ Len(o) = Len(s)
           /\ o[Len(s)] = Opened(s[Len(s)], sl.got)
           /\ OpenOf([s EXCEPT ![Len(s)] = f], s[Len(s)].prev) = SubSeq(o, 1, Len(s) - 1)
  <1>0. PICK n, s2 : n = Len(s) /\ s2 = [s EXCEPT ![n] = f]
    OBVIOUS
  <1> USE <1>0
  <1> DEFINE o  == OpenOf(s, sl)
             sl2 == s[n].prev
             o2 == OpenOf(s2, sl2)
             o3 == SubSeq(o, 1, n - 1)
  <1>1. /\ n \in Nat /\ n >= 1
        /\ s2 # <<>> /\ Len(s2) = n /\ s2[n] = f
        /\ \A i \in 1..n : i # n => s2[i] = s[i]
    BY Retopped
  <1>2. s2 \in Seq(Frame) /\ n \in 1..n /\ sl2 \in Slot
    <2>1. s[n] \in Frame
      BY TopOfStack
    <2> QED BY <1>1, <2>1, SetTopOfStack DEF Frame
  <1>3. InForce(s) = n /\ InForce(s2) = n - 1
    BY <1>1 DEF InForce
  <1>4. CollectorOf(s, sl, n) = sl
    BY <1>3 DEF CollectorOf
  <1>5. ASSUME NEW i \in 1..(n - 1) PROVE CollectorOf(s2, sl2, i) = CollectorOf(s, sl, i)
    <2>1. i \in 1..n /\ i # n /\ i + 1 \in 1..n
      BY <1>1
    <2>2. CollectorOf(s, sl, i) = s[i + 1].prev
      BY <1>3, <2>1 DEF CollectorOf
    <2>3. CollectorOf(s2, sl2, i) = IF i = n - 1 THEN sl2 ELSE s2[i + 1].prev
      BY <1>3 DEF CollectorOf
    <2> QED BY <1>1, <2>1, <2>2, <2>3
  <1>6. /\ o \in Seq(OpenCall) /\ Len(o) = n
        /\ \A i \in 1..n : o[i] = Opened(s[i], CollectorOf(s, sl, i).got)
    BY <1>3, OpenIsSequence
  <1>7. /\ o2 \in Seq(OpenCall) /\ Len(o2) = n - 1
        /\ \A i \in 1..(n - 1) : o2[i] = Opened(s2[i], CollectorOf(s2, sl2, i).got)
    BY <1>2, <1>3, OpenIsSequence
  <1>8. o[n] = Opened(s[n], sl.got)
    BY <1>2, <1>4, <1>6
  <1>9. \A i \in 1..(n - 1) : o2[i] = o[i]
    <2>1. ASSUME NEW i \in 1..(n - 1) PROVE i \in 1..n /\ i # n
      BY <1>1
    <2> QED BY <1>1, <1>5, <1>6, <1>7, <2>1
  <1> HIDE DEF o, o2
  <1>10. o3 \in Seq(OpenCall) /\ Len(o3) = n - 1 /\ \A i \in 1..(n - 1) : o3[i] = o[i]
    BY <1>1, <1>6, PopOpen
  <1>11. o2 = o3
    BY <1>7, <1>9, <1>10, SeqEqual
  <1>12. o # <<>>
    BY <1>1, <1>6, EmptySeq
  <1> QED BY <1>6, <1>8, <1>11, <1>12 DEF o, o2

(* Leave: the call was over already.                                        *)
LEMMA OpenPop ==
    ASSUME NEW s \in Seq(Frame), s # <<>>, NEW sl \in Slot, WellSaved(s, sl),
           NEW n, n = Len(s), s[n].at = "restored",
           NEW s2, s2 = SubSeq(s, 1, n - 1)
    PROVE  OpenOf(s2, sl) = OpenOf(s, sl)
  <1>1. /\ n \in Nat /\ n >= 1
        /\ s2 \in Seq(Frame) /\ Len(s2) = n - 1
        /\ \A i \in 1..(n - 1) : s2[i] = s[i]
    BY TopOfStack, PopStack
  <1>2. InForce(s) = n - 1
    BY DEF InForce
  <1>3. InForce(s2) = n - 1
    <2>1. CASE n = 1
      BY <1>1, <2>1, EmptySeq DEF InForce
    <2>2. CASE n # 1
      <3>1. n - 1 \in 1..(n - 1) /\ n - 1 \in 1..n /\ n - 1 < n
        BY <1>1, <2>2
      <3>2. s2[n - 1].at = "active"
        BY <1>1, <3>1 DEF WellSaved
      <3> QED BY <1>1, <3>2 DEF InForce
    <2> QED BY <2>1, <2>2
  <1>4. ASSUME NEW i \in 1..(n - 1) PROVE CollectorOf(s2, sl, i) = CollectorOf(s, sl, i)
    <2>1. i # n - 1 => i + 1 \in 1..(n - 1)
      BY <1>1
    <2> QED BY <1>1, <1>2, <1>3, <2>1 DEF CollectorOf
  <1>5. InForce(s2) = InForce(s)
    BY <1>2, <1>3
  <1>6. ASSUME NEW i \in 1..InForce(s)
        PROVE  /\ s2[i].call = s[i].call /\ s2[i].kind = s[i].kind
               /\ CollectorOf(s2, sl, i).got = CollectorOf(s, sl, i).got
    BY <1>1, <1>2, <1>4
  <1>7. s2 \in Seq(Frame)
    BY <1>1
  <1> QED BY ONLY <1>5, <1>6, <1>7, OpenAlike, s \in Seq(Frame), sl \in Slot
----------------------------------------------------------------------------
Opens == [t \in Thread |-> OpenOf(stack[t], slot)]

LEMMA SerialInit == Init => Serial!Init
  <1> SUFFICES ASSUME Init PROVE Serial!Init
    OBVIOUS
  <1>1. \A t \in Thread : stack[t] = <<>> /\ result[t].got = {}
    BY DEF Init
  <1>2. slot \in Slot
    BY DEF Init, Slot, NoCollector
  <1>3. \A t \in Thread : OpenOf(stack[t], slot) = <<>>
    BY <1>1, <1>2, EmptyHasNone
  <1> QED BY <1>1, <1>3 DEF Serial!Init

(* The slot collects exactly when the innermost running call is a parse.    *)
LEMMA InnermostHasSlot ==
    ASSUME NEW s \in Seq(Frame), s # <<>>, NEW sl \in Slot, WellSaved(s, sl),
           s[Len(s)].at = "active", sl.on
    PROVE  s[Len(s)].kind = "parse"
  <1>1. InForce(s) = Len(s) /\ Len(s) \in 1..Len(s)
    BY TopOfStack DEF InForce
  <1>2. sl = OwnCollector(s[Len(s)])
    BY <1>1 DEF WellSaved, CollectorOf
  <1> QED BY <1>2 DEF OwnCollector, NoCollector

(* While one thread is in a call, nothing is open on any other.             *)
LEMMA OneOpens ==
    ASSUME GateInv, GateInv', NEW t \in Thread, NEW s2, stack' = [stack EXCEPT ![t] = s2],
           \A u \in Thread : u # t => stack[u] = <<>>
    PROVE  /\ \A u \in Thread : u # t => Opens[u] = <<>>
           /\ Opens' = [Opens EXCEPT ![t] = OpenOf(s2, slot')]
           /\ stack'[t] = s2
  <1>1. slot \in Slot /\ slot' \in Slot /\ stack \in [Thread -> Seq(Frame)]
    BY DEF GateInv, TypeOK
  <1>2. stack'[t] = s2 /\ \A u \in Thread : u # t => stack'[u] = <<>>
    BY <1>1
  <1>3. \A u \in Thread : u # t => OpenOf(stack[u], slot) = <<>> /\ OpenOf(stack'[u], slot') = <<>>
    BY <1>1, <1>2, EmptyHasNone
  <1>4. \A u \in Thread : u # t => Opens[u] = <<>>
    BY <1>3 DEF Opens
  <1>5. Opens' = [u \in Thread |-> IF u = t THEN OpenOf(s2, slot') ELSE <<>>]
    BY <1>2, <1>3 DEF Opens
  <1>6. [Opens EXCEPT ![t] = OpenOf(s2, slot')] =
           [u \in Thread |-> IF u = t THEN OpenOf(s2, slot') ELSE <<>>]
    BY <1>4 DEF Opens
  <1> QED BY <1>2, <1>4, <1>5, <1>6

LEMMA SerialStep == GateInv /\ GateInv' /\ SlotInv /\ [Next]_vars => [Serial!Next]_(Serial!vars)
  <1> SUFFICES ASSUME GateInv, GateInv', SlotInv, [Next]_vars
               PROVE  [Serial!Next]_(Serial!vars)
    OBVIOUS
  <1> DEFINE Returns == [t \in Thread |-> result[t].got]
             Same    == Opens' = Opens /\ Returns' = Returns
  <1>a. /\ slot \in Slot /\ slot' \in Slot
        /\ stack \in [Thread -> Seq(Frame)]
        /\ \A t \in Thread : stack[t] \in Seq(Frame)
        /\ result \in [Thread -> [due : SUBSET CallId, got : SUBSET CallId]]
        /\ SavedCollectors
    BY DEF GateInv, TypeOK, SlotInv
  <1>b. Same => [Serial!Next]_(Serial!vars)
    BY DEF Serial!vars, Opens
  <1>1. CASE UNCHANGED <<stack, slot, result>>
    BY <1>1, <1>b DEF Opens
  <1>2. ASSUME NEW t \in Thread, stack[t] # <<>>
        PROVE  /\ \A u \in Thread : u # t => stack[u] = <<>>
               /\ WellSaved(stack[t], slot) /\ Len(stack[t]) \in Nat \ {0} /\ Top(t) \in Frame
    BY <1>2, <1>a, TopOfStack DEF GateInv, TakesTurns, SavedCollectors, Top
  <1>3. ASSUME NEW t \in Thread, Enter(t) PROVE Same
    <2> DEFINE f == [call |-> <<t, calls[t]>>, kind |-> want[t], at |-> "entered",
                     prev |-> NoCollector, emitted |-> FALSE]
    <2>1. /\ stack' = [stack EXCEPT ![t] = Append(stack[t], f)] /\ UNCHANGED <<slot, result>>
          /\ holder \in {t, NoThread} /\ pc[t] = "trying"
      BY <1>3 DEF Enter, FreeFor
    <2>2. f \in Frame
      <3>1. calls[t] > 0 /\ calls[t] \in 0..MaxCalls
        BY <2>1 DEF GateInv, TypeOK, AtTheGate
      <3>2. calls[t] \in 1..MaxCalls
        BY <3>1, GateAssumption DEF GateAssumption
      <3>3. want[t] \in Kinds
        BY DEF GateInv, TypeOK
      <3> QED BY <3>2, <3>3, FreshFrame
    <2>3. f.at = "entered"
      OBVIOUS
    <2> HIDE DEF f
    <2>4. stack[t] = <<>> \/ stack[t][Len(stack[t])].at = "active"
      BY <2>1 DEF GateInv, AtTheGate, Top
    <2>5. \A u \in Thread : u # t => stack[u] = <<>>
      BY <2>1, GateAssumption DEF GateInv, TakesTurns, GateAssumption
    <2>6. OpenOf(Append(stack[t], f), slot) = OpenOf(stack[t], slot)
      BY <1>a, <2>2, <2>3, <2>4, OpenEnter
    <2>7. Opens' = [Opens EXCEPT ![t] = OpenOf(stack[t], slot)]
      BY <2>1, <2>5, <2>6, OneOpens
    <2>8. Opens' = Opens
      BY <2>7 DEF Opens
    <2> QED BY <2>1, <2>8
  <1>4. ASSUME NEW t \in Thread, NEW f, SetTop(t, f), stack[t] # <<>>
        PROVE  LET s2 == [stack[t] EXCEPT ![Len(stack[t])] = f] IN
               /\ stack' = [stack EXCEPT ![t] = s2]
               /\ \A u \in Thread : u # t => Opens[u] = <<>>
               /\ Opens' = [Opens EXCEPT ![t] = OpenOf(s2, slot')]
    <2>1. PICK s2 : s2 = [stack[t] EXCEPT ![Len(stack[t])] = f]
      OBVIOUS
    <2>2. stack' = [stack EXCEPT ![t] = s2]
      BY <1>4, <2>1 DEF SetTop
    <2> QED BY <1>2, <1>4, <2>1, <2>2, OneOpens
  <1>5. ASSUME NEW t \in Thread, Activate(t) PROVE Serial!Next
    <2>1. TopIs(t, "entered") /\ UNCHANGED result /\ stack[t] # <<>>
      BY <1>5 DEF Activate, TopIs
    <2>2. Top(t) \in Frame
      BY <1>2, <2>1
    <2>3. PICK f : f = [Top(t) EXCEPT !.at = "active", !.prev = slot]
      OBVIOUS
    <2>4. f \in Frame /\ f.at = "active" /\ f.prev = slot /\ f.kind = Top(t).kind
      BY <1>a, <2>2, <2>3 DEF Frame
    <2>5. SetTop(t, f) /\ slot'.got = {}
      BY <1>5, <2>3, <2>4 DEF Activate, CollectorFor, Fresh, NoCollector
    <2>6. PICK n, s2 : n = Len(stack[t]) /\ s2 = [stack[t] EXCEPT ![n] = f]
      OBVIOUS
    <2>7. /\ \A u \in Thread : u # t => Opens[u] = <<>>
          /\ Opens' = [Opens EXCEPT ![t] = OpenOf(s2, slot')]
      BY <1>4, <2>1, <2>5, <2>6
    <2>8. stack[t][n].at = "entered"
      BY <2>1, <2>6 DEF TopIs, Top
    <2>9. OpenOf(s2, slot') = Append(OpenOf(stack[t], slot), Opened(f, {}))
      <3>1. PICK s, sl2 : s = stack[t] /\ sl2 = slot'
        OBVIOUS
      <3>2. /\ s \in Seq(Frame) /\ s # <<>> /\ n = Len(s) /\ s[n].at = "entered"
            /\ s2 = [s EXCEPT ![n] = f] /\ slot \in Slot /\ sl2 \in Slot /\ sl2.got = {}
        BY <1>a, <2>1, <2>5, <2>6, <2>8, <3>1
      <3>3. OpenOf(s2, sl2) = Append(OpenOf(s, slot), Opened(f, {}))
        BY ONLY <2>4, <3>2, OpenActivate
      <3> QED BY <3>1, <3>3
    <2>10. Opens' = [Opens EXCEPT ![t] = Append(Opens[t], Opened(f, {}))]
      BY <2>7, <2>9 DEF Opens
    <2>11. Serial!Begin(t, f.call, f.kind = "parse")
      BY <2>1, <2>7, <2>10 DEF Serial!Begin, Serial!Others, Opens, Opened
    <2>12. f.call \in CallId /\ (f.kind = "parse") \in BOOLEAN
      BY <2>4 DEF Frame
    <2> QED BY <2>11, <2>12 DEF Serial!Next
  <1>6. ASSUME NEW t \in Thread, Emit(t) PROVE [Serial!Next]_(Serial!vars)
    <2>1. TopIs(t, "active") /\ UNCHANGED result /\ stack[t] # <<>>
      BY <1>6 DEF Emit, TopIs
    <2>2. Top(t) \in Frame
      BY <1>2, <2>1
    <2>3. PICK f : f = [Top(t) EXCEPT !.emitted = TRUE]
      OBVIOUS
    <2>4. /\ f \in Frame
          /\ f.at = Top(t).at /\ f.prev = Top(t).prev /\ f.kind = Top(t).kind /\ f.call = Top(t).call
      BY <2>2, <2>3 DEF Frame
    <2>5. /\ SetTop(t, f)
          /\ slot' = IF slot.on THEN [slot EXCEPT !.got = @ \cup {Top(t).call}] ELSE slot
      BY <1>6, <2>3 DEF Emit
    <2>6. PICK n, s2 : n = Len(stack[t]) /\ s2 = [stack[t] EXCEPT ![n] = f]
      OBVIOUS
    <2>7. Opens' = [Opens EXCEPT ![t] = OpenOf(s2, slot')]
      BY <1>4, <2>1, <2>5, <2>6
    <2>8. /\ stack[t][n].at = "active" /\ f.at = "active" /\ f.prev = stack[t][n].prev
          /\ f.kind = stack[t][n].kind /\ f.call = stack[t][n].call /\ stack[t][n] = Top(t)
      BY <2>1, <2>4, <2>6 DEF TopIs, Top
    <2>9. /\ Opens[t] # <<>> /\ Len(Opens[t]) = n
          /\ Opens[t][n] = Opened(Top(t), slot.got)
          /\ OpenOf(s2, slot') = [Opens[t] EXCEPT ![n] = Opened(Top(t), slot'.got)]
      <3>1. PICK s, sl2 : s = stack[t] /\ sl2 = slot'
        OBVIOUS
      <3>2. /\ s \in Seq(Frame) /\ s # <<>> /\ n = Len(s) /\ s2 = [s EXCEPT ![n] = f]
            /\ slot \in Slot /\ sl2 \in Slot
        BY <1>a, <2>1, <2>6, <3>1
      <3>3. /\ f \in Frame /\ s[Len(s)].at = "active" /\ f.at = "active"
            /\ f.prev = s[Len(s)].prev /\ f.kind = s[Len(s)].kind /\ f.call = s[Len(s)].call
        BY <2>4, <2>8, <3>1, <3>2
      <3>4. LET o  == OpenOf(s, slot)
                o2 == OpenOf([s EXCEPT ![Len(s)] = f], sl2)
            IN  /\ o # <<>> /\ Len(o) = Len(s)
                /\ o[Len(s)] = Opened(s[Len(s)], slot.got)
                /\ o2 = Retop(o, Opened(s[Len(s)], sl2.got))
        BY <3>2, <3>3, OpenEmit
      <3> QED BY <2>8, <3>1, <3>2, <3>4 DEF Opens, Retop
    <2>10. CASE slot.on
      <3>1. Top(t).kind = "parse"
        BY <1>2, <1>a, <2>1, <2>10, InnermostHasSlot DEF TopIs, Top
      <3>2. slot'.got = slot.got \cup {Top(t).call}
        BY <2>5, <2>10, <1>a DEF Slot
      <3>3. /\ Opens[t][n].collects /\ Opens[t][n].got = slot.got /\ Opens[t][n].call = Top(t).call
        <4>1. Opens[t][n] = Opened(Top(t), slot.got)
          BY <2>9
        <4> QED BY <2>2, <3>1, <4>1, OpenedFields
      <3>4. Opened(Top(t), slot'.got) = [Opens[t][n] EXCEPT !.got = slot'.got]
        <4>1. Opens[t][n] = Opened(Top(t), slot.got)
          BY <2>9
        <4> QED BY <4>1 DEF Opened
      <3>5. Opens' = [Opens EXCEPT ![t][n].got = @ \cup {Opens[t][n].call}]
        <4>1. Opens' = [Opens EXCEPT ![t] = [Opens[t] EXCEPT ![n] = [Opens[t][n] EXCEPT !.got = slot'.got]]]
          BY <2>7, <2>9, <3>4
        <4>2. slot'.got = Opens[t][n].got \cup {Opens[t][n].call}
          BY <3>2, <3>3
        <4> HIDE DEF Opens
        <4> QED BY <4>1, <4>2, Zenon
      <3>6. Serial!Announce(t)
        BY <2>1, <2>9, <3>3, <3>5 DEF Serial!Announce, Opens
      <3> QED BY <3>6 DEF Serial!Next
    <2>11. CASE ~slot.on
      <3>1. Opens' = [Opens EXCEPT ![t] = [Opens[t] EXCEPT ![n] = Opens[t][n]]]
        BY <2>5, <2>7, <2>9, <2>11
      <3>2. Opens[t] \in Seq(OpenCall)
        BY <1>a, OpenIsSequence DEF Opens
      <3>3. [Opens[t] EXCEPT ![n] = Opens[t][n]] = Opens[t]
        BY <3>2
      <3>4. Opens' = Opens
        BY <3>1, <3>3 DEF Opens
      <3> QED BY <1>b, <2>1, <3>4
    <2> QED BY <2>10, <2>11
  <1>7. ASSUME NEW t \in Thread, TopIs(t, "active"), PutBack(t),
               \/ Top(t).kind = "parse" /\ Returns' = [Returns EXCEPT ![t] = slot.got]
               \/ UNCHANGED result
        PROVE  Serial!Next
    <2>1. stack[t] # <<>>
      BY <1>7 DEF TopIs
    <2>2. Top(t) \in Frame
      BY <1>2, <2>1
    <2>3. PICK f : f = [Top(t) EXCEPT !.at = "restored"]
      OBVIOUS
    <2>4. f \in Frame /\ f.at = "restored"
      BY <2>2, <2>3 DEF Frame
    <2>5. SetTop(t, f) /\ slot' = Top(t).prev
      BY <1>7, <2>3 DEF PutBack
    <2>6. PICK n, s2 : n = Len(stack[t]) /\ s2 = [stack[t] EXCEPT ![n] = f]
      OBVIOUS
    <2>7. Opens' = [Opens EXCEPT ![t] = OpenOf(s2, slot')]
      BY <1>4, <2>1, <2>5, <2>6
    <2>8. stack[t][n].at = "active" /\ stack[t][n] = Top(t)
      BY <1>7, <2>6 DEF TopIs, Top
    <2>9. /\ Opens[t] # <<>> /\ Len(Opens[t]) = n
          /\ Opens[t][n] = Opened(Top(t), slot.got)
          /\ OpenOf(s2, slot') = SubSeq(Opens[t], 1, n - 1)
      <3>1. LET o == OpenOf(stack[t], slot) IN
            /\ o # <<>> /\ Len(o) = n
            /\ o[n] = Opened(stack[t][n], slot.got)
            /\ OpenOf(s2, stack[t][n].prev) = SubSeq(o, 1, n - 1)
        <4>1. PICK s : s = stack[t]
          OBVIOUS
        <4>2. /\ s \in Seq(Frame) /\ s # <<>> /\ n = Len(s) /\ s[n].at = "active"
              /\ s2 = [s EXCEPT ![n] = f] /\ slot \in Slot
          BY <1>a, <2>1, <2>6, <2>8, <4>1
        <4>3. LET o == OpenOf(s, slot) IN
              /\ o # <<>> /\ Len(o) = n
              /\ o[n] = Opened(s[n], slot.got)
              /\ OpenOf(s2, s[n].prev) = SubSeq(o, 1, n - 1)
          BY ONLY <2>4, <4>2, OpenPutBack
        <4> QED BY <4>1, <4>3
      <3> QED BY <2>5, <2>8, <3>1 DEF Opens
    <2>10. Opens' = [Opens EXCEPT ![t] = SubSeq(@, 1, n - 1)]
      BY <2>7, <2>9
    <2>11. /\ Opens[t][n].got = slot.got
           /\ Top(t).kind = "parse" => Opens[t][n].collects
      <3>1. Opens[t][n] = Opened(Top(t), slot.got)
        BY <2>9
      <3> QED BY <2>2, <3>1, OpenedFields
    <2>12. \/ Opens[t][n].collects /\ Returns' = [Returns EXCEPT ![t] = Opens[t][n].got]
           \/ Returns' = Returns
      BY <1>7, <2>11
    <2>13. Serial!End(t)
      BY <2>9, <2>10, <2>12 DEF Serial!End, Opens
    <2> QED BY <2>13 DEF Serial!Next
  <1>8. ASSUME NEW t \in Thread, Finish(t) PROVE Serial!Next
    <2>1. TopIs(t, "active") /\ PutBack(t) /\ Top(t).kind = "parse"
      BY <1>8 DEF Finish
    <2>2. result' = [result EXCEPT ![t] = [due |-> Own(Top(t)), got |-> slot.got]]
      BY <1>8 DEF Finish
    <2>3. Returns' = [Returns EXCEPT ![t] = slot.got]
      BY <1>a, <2>2
    <2> QED BY <1>7, <2>1, <2>3
  <1>9. ASSUME NEW t \in Thread, Restore(t) PROVE Serial!Next
    BY <1>7, <1>9 DEF Restore
  <1>10. ASSUME NEW t \in Thread, Leave(t) PROVE Same
    <2>1. TopIs(t, "restored") /\ UNCHANGED <<slot, result>> /\ stack[t] # <<>>
      BY <1>10 DEF Leave, TopIs
    <2>2. PICK n, s2 : n = Len(stack[t]) /\ s2 = SubSeq(stack[t], 1, n - 1)
      OBVIOUS
    <2>3. stack' = [stack EXCEPT ![t] = s2] /\ stack[t][n].at = "restored"
      BY <1>10, <2>1, <2>2 DEF Leave, TopIs, Top
    <2>4. OpenOf(s2, slot) = OpenOf(stack[t], slot)
      <3>1. PICK s : s = stack[t]
        OBVIOUS
      <3>2. /\ s \in Seq(Frame) /\ s # <<>> /\ n = Len(s) /\ s[n].at = "restored"
            /\ s2 = SubSeq(s, 1, n - 1) /\ WellSaved(s, slot)
        BY <1>2, <1>a, <2>1, <2>2, <2>3, <3>1
      <3>3. OpenOf(s2, slot) = OpenOf(s, slot)
        BY <1>a, <3>2, OpenPop
      <3> QED BY <3>1, <3>3
    <2>5. Opens' = [Opens EXCEPT ![t] = OpenOf(s2, slot')]
      BY <1>2, <2>1, <2>3, OneOpens
    <2>6. Opens' = Opens
      BY <2>1, <2>4, <2>5 DEF Opens
    <2> QED BY <2>1, <2>6
  <1>11. CASE \E t \in Thread : Wait(t) \/ SpuriousWake(t) \/ \E kind \in Kinds : Call(t, kind)
    BY <1>1, <1>11 DEF Wait, FreeFor, SpuriousWake, Call
  <1>12. CASE UNCHANGED vars
    BY <1>1, <1>12 DEF vars
  <1> HIDE DEF Same
  <1> QED BY <1>b, <1>3, <1>5, <1>6, <1>8, <1>9, <1>10, <1>11, <1>12 DEF Next, Step, Over

(* Gate, Mux::parse, Mux::without_collector: one slot behind a gate serves  *)
(* parses on any number of threads, nested and unwinding, as a collector of *)
(* its own for every call would.                                            *)
THEOREM SlotsActAsCollectors == Spec => ImplementsSerialParses
  <1>1. GateInv /\ GateInv' /\ SlotInv /\ [Next]_vars => [Serial!Next]_(Serial!vars)
    BY SerialStep
  <1> QED BY SerialInit, <1>1, GateCorrect, SlotCorrect, PTL
          DEF Spec, ImplementsSerialParses, Serial!Spec
=============================================================================
