------------------------------ MODULE RemoteCall ------------------------------
(***************************************************************************)
(* What GLoIP promises the threads of a program that forwards calls: a     *)
(* call is executed at most once; one that returns a result was executed;  *)
(* one that returns without waiting, or that fails, may be executed later; *)
(* and the server executes a thread's calls in the order they were made,   *)
(* without leaving one out, except across a call that failed.              *)
(***************************************************************************)
EXTENDS Naturals, Sequences

CONSTANTS Threads, MaxCalls

VARIABLES
    calls,    \* calls each thread has made
    outcome,  \* results of the calls that have returned, per thread
    log       \* calls executed by the server, in order

vars == <<calls, outcome, log>>

Executed == {log[i] : i \in DOMAIN log}

Pending(t) == Len(outcome[t]) < calls[t]

\* A call of t in n..m-1 has failed.
FailureBetween(t, n, m) ==
    \E k \in n..(m - 1) : k \in DOMAIN outcome[t] /\ outcome[t][k] = "failed"

Init ==
    /\ calls = [t \in Threads |-> 0]
    /\ outcome = [t \in Threads |-> <<>>]
    /\ log = <<>>

Issue(t) ==
    /\ ~Pending(t)
    /\ calls[t] < MaxCalls
    /\ calls' = [calls EXCEPT ![t] = @ + 1]
    /\ UNCHANGED <<outcome, log>>

Perform(t, n) ==
    /\ <<t, n>> \notin Executed
    /\ \A k \in 1..(n - 1) :
          <<t, k>> \in Executed \/ FailureBetween(t, k, n)
    /\ log' = Append(log, <<t, n>>)
    /\ UNCHANGED <<calls, outcome>>

Return(t, result) ==
    /\ Pending(t)
    /\ result = "ok" => <<t, calls[t]>> \in Executed
    /\ outcome' = [outcome EXCEPT ![t] = Append(@, result)]
    /\ UNCHANGED <<calls, log>>

Next ==
    \E t \in Threads :
        \/ Issue(t)
        \/ \E n \in 1..calls[t] : Perform(t, n)
        \/ \E result \in {"ok", "sent", "failed"} : Return(t, result)

Spec == Init /\ [][Next]_vars

=============================================================================
