----------------------------- MODULE ParseGate -----------------------------
(* The mux of rs/src/instances.rs: one collector slot shared by every       *)
(* engine instance of a cache, and the re-entrant gate (a mutex, a holder,  *)
(* a depth and a condition variable) that makes threads take turns.         *)
(*                                                                          *)
(* A call is Mux::parse ("parse": collects) or Mux::without_collector       *)
(* ("quiet": collects nothing).  Each runs                                  *)
(*    enter the gate; swap the slot; run the engine; swap back; leave       *)
(* and may nest, on its own thread, inside a call that is running.  Every   *)
(* step takes one of the two mutexes for its whole length, so a step is     *)
(* one atomic action and everything else may run between two of them.       *)
(*                                                                          *)
(* Next to some definitions stands a faulty form no action uses, named for  *)
(* the mistake: what the properties below are there to catch.               *)
EXTENDS Naturals, Sequences

CONSTANTS
    Thread,         \* the threads sharing one instance cache
    NoThread,       \* Holder.thread = None
    MaxCalls,       \* bound: calls a thread makes
    MaxDepth        \* bound: nesting of calls on one thread

CallId == Thread \X (1..MaxCalls)
Kinds  == {"parse", "quiet"}

ASSUME GateAssumption ==
    /\ NoThread \notin Thread
    /\ MaxCalls \in Nat
    /\ MaxDepth \in Nat

VARIABLES
    holder,     \* Holder.thread
    depth,      \* Holder.depth
    pc,         \* "run", "trying" (at the gate), "waiting" (in Condvar::wait)
    want,       \* the kind of call a thread at the gate is making
    calls,      \* how many calls a thread has made: names its calls
    stack,      \* the calls a thread is inside of, outermost first
    slot,       \* the mux's slot: a collector, or none
    result      \* the last Collected a parse returned on each thread

vars == <<holder, depth, pc, want, calls, stack, slot, result>>

(* An event is named by the call whose engine run announced it; a Slot is   *)
(* an Option<Collected>, on for Some.                                       *)
Slot        == [on : BOOLEAN, got : SUBSET CallId]
NoCollector == [on |-> FALSE, got |-> {}]
Fresh       == [on |-> TRUE, got |-> {}]

(* prev is Activation.previous; emitted remembers that the call's engine    *)
(* run announced something.                                                 *)
Frame == [call : CallId, kind : Kinds, at : {"entered", "active", "restored"},
          prev : Slot, emitted : BOOLEAN]

TypeOK ==
    /\ holder \in Thread \cup {NoThread}
    /\ depth \in Nat
    /\ pc \in [Thread -> {"run", "trying", "waiting"}]
    /\ want \in [Thread -> Kinds]
    /\ calls \in [Thread -> 0..MaxCalls]
    /\ stack \in [Thread -> Seq(Frame)]
    /\ slot \in Slot
    /\ result \in [Thread -> [due : SUBSET CallId, got : SUBSET CallId]]

Init ==
    /\ holder = NoThread
    /\ depth = 0
    /\ pc = [t \in Thread |-> "run"]
    /\ want = [t \in Thread |-> "quiet"]
    /\ calls = [t \in Thread |-> 0]
    /\ stack = [t \in Thread |-> <<>>]
    /\ slot = NoCollector
    /\ result = [t \in Thread |-> [due |-> {}, got |-> {}]]

Top(t)         == stack[t][Len(stack[t])]
TopIs(t, at)   == stack[t] # <<>> /\ Top(t).at = at
SetTop(t, f)   == stack' = [stack EXCEPT ![t][Len(stack[t])] = f]
Own(f)         == IF f.kind = "parse" /\ f.emitted THEN {f.call} ELSE {}
Waiting        == {t \in Thread : pc[t] = "waiting"}
----------------------------------------------------------------------------
(* A thread outside every call, or in the middle of an engine run (a query  *)
(* under the parse lock, a grammar callback), makes a call.                 *)
Call(t, kind) ==
    /\ pc[t] = "run"
    /\ stack[t] # <<>> => Top(t).at = "active"
    /\ Len(stack[t]) < MaxDepth
    /\ calls[t] < MaxCalls
    /\ pc' = [pc EXCEPT ![t] = "trying"]
    /\ want' = [want EXCEPT ![t] = kind]
    /\ calls' = [calls EXCEPT ![t] = @ + 1]
    /\ UNCHANGED <<holder, depth, stack, slot, result>>

(* Gate::enter's test of the gate: free, or already this thread's.          *)
BargesIn(t) == TRUE
FreeFor(t)  == holder \in {t, NoThread}

(* Gate::enter, past its test.                                              *)
EnterAfresh(t) ==
    /\ pc[t] = "trying"
    /\ FreeFor(t)
    /\ holder' = t
    /\ depth' = 1
    /\ pc' = [pc EXCEPT ![t] = "run"]
    /\ stack' = [stack EXCEPT ![t] = Append(@,
                    [call |-> <<t, calls[t]>>, kind |-> want[t], at |-> "entered",
                     prev |-> NoCollector, emitted |-> FALSE])]
    /\ UNCHANGED <<want, calls, slot, result>>

Enter(t) ==
    /\ pc[t] = "trying"
    /\ FreeFor(t)
    /\ holder' = t
    /\ depth' = depth + 1
    /\ pc' = [pc EXCEPT ![t] = "run"]
    /\ stack' = [stack EXCEPT ![t] = Append(@,
                    [call |-> <<t, calls[t]>>, kind |-> want[t], at |-> "entered",
                     prev |-> NoCollector, emitted |-> FALSE])]
    /\ UNCHANGED <<want, calls, slot, result>>

(* Gate::enter with the gate another thread's: wait on the condition, which *)
(* the loop tests again whenever the wait ends.                             *)
Wait(t) ==
    /\ pc[t] = "trying"
    /\ ~FreeFor(t)
    /\ pc' = [pc EXCEPT ![t] = "waiting"]
    /\ UNCHANGED <<holder, depth, want, calls, stack, slot, result>>

(* Condvar::wait may return with nobody having notified it.                 *)
SpuriousWake(t) ==
    /\ pc[t] = "waiting"
    /\ pc' = [pc EXCEPT ![t] = "trying"]
    /\ UNCHANGED <<holder, depth, want, calls, stack, slot, result>>

(* The collector Mux::parse and Mux::without_collector activate.            *)
ReusesOuter(kind)  == IF kind = "parse" THEN (IF slot.on THEN slot ELSE Fresh) ELSE NoCollector
CollectorFor(kind) == IF kind = "parse" THEN Fresh ELSE NoCollector

(* Activation::new: a fresh collector, or none, in the slot; the one it     *)
(* replaces is kept in the frame.                                           *)
Activate(t) ==
    /\ pc[t] = "run"
    /\ TopIs(t, "entered")
    /\ SetTop(t, [Top(t) EXCEPT !.at = "active", !.prev = slot])
    /\ slot' = CollectorFor(Top(t).kind)
    /\ UNCHANGED <<holder, depth, pc, want, calls, result>>

(* The forwarders: an event of the engine run goes into the slot's          *)
(* collector, and nowhere when there is none.                               *)
Emit(t) ==
    /\ pc[t] = "run"
    /\ TopIs(t, "active")
    /\ SetTop(t, [Top(t) EXCEPT !.emitted = TRUE])
    /\ slot' = IF slot.on THEN [slot EXCEPT !.got = @ \cup {Top(t).call}] ELSE slot
    /\ UNCHANGED <<holder, depth, pc, want, calls, result>>

(* Mux::restore, of the collector an activation replaced.                   *)
PutBackNone(t)    == slot' = NoCollector  /\ SetTop(t, [Top(t) EXCEPT !.at = "restored"])
PutBackNothing(t) == slot' = slot         /\ SetTop(t, [Top(t) EXCEPT !.at = "restored"])
PutBack(t)        == slot' = Top(t).prev  /\ SetTop(t, [Top(t) EXCEPT !.at = "restored"])

(* Activation::finish: the previous collector back, this call's returned    *)
(* (an empty one if there is none: unwrap_or_default).                      *)
Finish(t) ==
    /\ pc[t] = "run"
    /\ TopIs(t, "active")
    /\ Top(t).kind = "parse"
    /\ result' = [result EXCEPT ![t] = [due |-> Own(Top(t)), got |-> slot.got]]
    /\ PutBack(t)
    /\ UNCHANGED <<holder, depth, pc, want, calls>>

(* Activation's Drop: a quiet call is over, or the engine call unwinds.     *)
Restore(t) ==
    /\ pc[t] = "run"
    /\ TopIs(t, "active")
    /\ PutBack(t)
    /\ UNCHANGED <<holder, depth, pc, want, calls, result>>

(* Condvar::notify_one: some waiter, if there is any.                       *)
NotifyNobody == pc' = pc
NotifyOne ==
    IF Waiting = {} THEN pc' = pc
    ELSE \E w \in Waiting : pc' = [pc EXCEPT ![w] = "trying"]

(* Turn's Drop, after the activation's: the last one out frees the gate and *)
(* notifies.                                                                *)
Leave(t) ==
    /\ pc[t] = "run"
    /\ TopIs(t, "restored")
    /\ stack' = [stack EXCEPT ![t] = SubSeq(@, 1, Len(@) - 1)]
    /\ depth' = depth - 1
    /\ IF depth = 1
       THEN holder' = NoThread /\ NotifyOne
       ELSE UNCHANGED <<holder, pc>>
    /\ UNCHANGED <<want, calls, slot, result>>

(* Every thread has made its calls: the program using the cache is over.    *)
Over ==
    /\ \A t \in Thread : pc[t] = "run" /\ stack[t] = <<>> /\ calls[t] = MaxCalls
    /\ UNCHANGED vars

Step(t) == Enter(t) \/ Wait(t) \/ Activate(t) \/ Finish(t) \/ Restore(t) \/ Leave(t)

Next ==
    \/ \E t \in Thread :
          \/ \E kind \in Kinds : Call(t, kind)
          \/ Step(t)
          \/ SpuriousWake(t)
          \/ Emit(t)
    \/ Over

Spec == Init /\ [][Next]_vars

(* A thread at the gate or inside a call keeps running, and an engine run   *)
(* ends; nothing is assumed of the order in which the system wakes threads. *)
FairSpec == Spec /\ \A t \in Thread : WF_vars(Step(t))
----------------------------------------------------------------------------
(* While one thread is between entering and leaving the gate no other is:   *)
(* the holder waits for nobody and the depth is the number of its calls, so *)
(* the gate is freed exactly when its outermost call ends.                  *)
TakesTurns ==
    /\ \A t \in Thread : stack[t] # <<>> => holder = t /\ pc[t] # "waiting"
    /\ IF holder = NoThread THEN depth = 0
       ELSE stack[holder] # <<>> /\ depth = Len(stack[holder])

(* notify_one with barging loses no wake-up: when the gate is free and a    *)
(* thread sleeps on it, another one is awake and about to test it.          *)
NoLostWakeup ==
    holder = NoThread /\ Waiting # {} => \E t \in Thread : pc[t] = "trying"

(* What a parse returns is exactly what its own engine run announced: no    *)
(* event of another thread, of a nested call or of a quiet query, and none  *)
(* of its own lost to one, unwinding included.                              *)
CollectsOwnEvents == \A t \in Thread : result[t].got = result[t].due

(* Between calls the slot is empty: whatever unwound, no collector is left  *)
(* active for a later parse to write into.                                  *)
SlotEmptyWhenFree == holder = NoThread => slot = NoCollector

(* No call is stuck at the gate or inside it: every thread gets through all *)
(* the calls it makes, whichever waiter each notify picks.                  *)
CallsReturn == \A t \in Thread :
    pc[t] # "run" \/ stack[t] # <<>> ~> pc[t] = "run" /\ stack[t] = <<>>
----------------------------------------------------------------------------
(* What makes the properties above inductive.                               *)

(* A thread at the gate has numbered the call it makes, from inside a call  *)
(* that is running its engine, if from inside any.                          *)
AtTheGate == \A t \in Thread : pc[t] # "run" =>
    /\ calls[t] > 0
    /\ stack[t] # <<>> => Top(t).at = "active"

(* The collector of the i-th call of a stack s, the slot holding sl: the    *)
(* slot's for the innermost activation in force, and for one further out    *)
(* what the activation just inside it saved.                                *)
InForce(s)             == IF s # <<>> /\ s[Len(s)].at # "active" THEN Len(s) - 1 ELSE Len(s)
CollectorOf(s, sl, i)  == IF i = InForce(s) THEN sl ELSE s[i + 1].prev
OwnCollector(f)        == IF f.kind = "parse" THEN [on |-> TRUE, got |-> Own(f)] ELSE NoCollector

(* The collectors of a stack: only its innermost call may be between two of *)
(* its steps, each call in force has its own collector, and under the       *)
(* outermost one is none.                                                   *)
WellSaved(s, sl) ==
    /\ \A i \in 1..Len(s) : i < Len(s) => s[i].at = "active"
    /\ \A i \in 1..InForce(s) : CollectorOf(s, sl, i) = OwnCollector(s[i])
    /\ s # <<>> => /\ (IF InForce(s) = 0 THEN sl ELSE s[1].prev) = NoCollector
                   /\ s[Len(s)].at = "entered" => ~s[Len(s)].emitted

SavedCollectors == \A t \in Thread : stack[t] # <<>> => WellSaved(stack[t], slot)

GateInv == TypeOK /\ AtTheGate /\ TakesTurns /\ NoLostWakeup
SlotInv == SlotEmptyWhenFree /\ SavedCollectors /\ CollectsOwnEvents
----------------------------------------------------------------------------
(* The mux implements SerialParses: the calls open on a thread are those    *)
(* of its stack whose activation is in force, each with what its collector  *)
(* holds.                                                                   *)
Opened(f, got) == [call |-> f.call, collects |-> f.kind = "parse", got |-> got]
OpenOf(s, sl)  == [i \in 1..InForce(s) |-> Opened(s[i], CollectorOf(s, sl, i).got)]

Serial == INSTANCE SerialParses WITH
    open     <- [t \in Thread |-> OpenOf(stack[t], slot)],
    returned <- [t \in Thread |-> result[t].got]

(* One slot behind a gate is as good as a collector for every call: parses  *)
(* on several threads, nested ones and unwinding ones never share or lose   *)
(* events.                                                                  *)
ImplementsSerialParses == Serial!Spec
============================================================================
