-------------------------- MODULE RemoteCallContract --------------------------
(***************************************************************************)
(* What a user of Glamor's remote calls may rely on, without queues,       *)
(* batches, notifications or threads.  Requests are issued in some order,  *)
(* ending with at most one Close; they execute exactly in that order; an   *)
(* executed request completes once, after the ones executed before it, and *)
(* only when Close was issued may a completion be skipped.  Between the    *)
(* completions the user is given notices, each at most once.               *)
(***************************************************************************)
EXTENDS Naturals, Sequences

CONSTANTS Requests, Notices, Close

VARIABLES issued, executed,
          completed     \* completions and notices, as the user sees them

contractVars == <<issued, executed, completed>>

Occurs(s, m) == \E i \in DOMAIN s : s[i] = m

Init == issued = <<>> /\ executed = <<>> /\ completed = <<>>

Issue(m) ==
    /\ ~Occurs(issued, m) /\ ~Occurs(issued, Close)
    /\ issued' = Append(issued, m)
    /\ UNCHANGED <<executed, completed>>

Execute ==
    /\ Len(executed) < Len(issued)
    /\ executed' = Append(executed, issued[Len(executed) + 1])
    /\ UNCHANGED <<issued, completed>>

(* The requests executed before the i-th are complete, or may be skipped.  *)
Complete(i) ==
    /\ executed[i] \in Requests
    /\ \A j \in i .. Len(executed) : ~Occurs(completed, executed[j])
    /\ \/ Occurs(issued, Close)
       \/ \A j \in 1 .. i - 1 : Occurs(completed, executed[j])
    /\ completed' = Append(completed, executed[i])
    /\ UNCHANGED <<issued, executed>>

Notify(s) ==
    /\ ~Occurs(completed, s)
    /\ completed' = Append(completed, s)
    /\ UNCHANGED <<issued, executed>>

Next ==
    \/ \E m \in Requests \cup {Close} : Issue(m)
    \/ Execute
    \/ \E i \in DOMAIN executed : Complete(i)
    \/ \E s \in Notices : Notify(s)

Spec == Init /\ [][Next]_contractVars

===============================================================================
