---------------------------- MODULE SerialParses ----------------------------
(* What rs/src/instances.rs promises of its one slot and its gate: threads  *)
(* take turns at whole outermost calls, and every parse has a collector of  *)
(* its own.  There is no slot, no gate and no saved collector here: a call  *)
(* simply owns the set of events announced while it is the innermost one.   *)
EXTENDS Naturals, Sequences

CONSTANTS Thread, CallId

VARIABLES
    open,       \* the calls running on each thread, outermost first
    returned    \* the events the last parse on each thread returned

vars == <<open, returned>>

Init ==
    /\ open = [t \in Thread |-> <<>>]
    /\ returned = [t \in Thread |-> {}]

Others(t) == Thread \ {t}

Begin(t, c, collects) ==
    /\ \A u \in Others(t) : open[u] = <<>>
    /\ open' = [open EXCEPT ![t] =
                  Append(@, [call |-> c, collects |-> collects, got |-> {}])]
    /\ UNCHANGED returned

(* The innermost call's engine run announces an event; only a parse keeps   *)
(* it, and only the innermost one does.                                     *)
Announce(t) ==
    /\ open[t] # <<>>
    /\ LET n == Len(open[t]) IN
       /\ open[t][n].collects
       /\ open' = [open EXCEPT ![t][n].got = @ \cup {open[t][n].call}]
    /\ UNCHANGED returned

(* A call ends: a parse by returning what it collected, a quiet call or one *)
(* that unwinds with nothing.  The call around it is as it was.             *)
End(t) ==
    /\ open[t] # <<>>
    /\ LET n == Len(open[t]) IN
       /\ open' = [open EXCEPT ![t] = SubSeq(@, 1, n - 1)]
       /\ \/ /\ open[t][n].collects
             /\ returned' = [returned EXCEPT ![t] = open[t][n].got]
          \/ UNCHANGED returned

Next ==
    \E t \in Thread :
       \/ \E c \in CallId, collects \in BOOLEAN : Begin(t, c, collects)
       \/ Announce(t)
       \/ End(t)

Spec == Init /\ [][Next]_vars
=============================================================================
