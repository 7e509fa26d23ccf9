---------------------------- MODULE OneShotGrant ----------------------------
(***************************************************************************)
(* What an approval promises, whatever keeps it: it is issued for one      *)
(* exact action, somebody who may do so grants it, and each grant is then  *)
(* used at most once, for that action.  Executor and GuardApproval         *)
(* implement this; in the second an approval counts as granted once.       *)
(***************************************************************************)
EXTENDS Naturals

CONSTANTS Ids, Actions, None

VARIABLES
  bound,    \* the action each approval was issued for; None: not issued
  granted,  \* how often each has been granted
  count,    \* how often each has been used
  usedFor   \* the action it was last used for; None: unused

vars == <<bound, granted, count, usedFor>>

Init ==
  /\ bound = [i \in Ids |-> None]
  /\ granted = [i \in Ids |-> 0]
  /\ count = [i \in Ids |-> 0]
  /\ usedFor = [i \in Ids |-> None]

Issue(i, a) ==
  /\ bound[i] = None
  /\ bound' = [bound EXCEPT ![i] = a]
  /\ UNCHANGED <<granted, count, usedFor>>

Grant(i) ==
  /\ bound[i] # None
  /\ granted' = [granted EXCEPT ![i] = @ + 1]
  /\ UNCHANGED <<bound, count, usedFor>>

Use(i) ==
  /\ count[i] < granted[i]
  /\ count' = [count EXCEPT ![i] = @ + 1]
  /\ usedFor' = [usedFor EXCEPT ![i] = bound[i]]
  /\ UNCHANGED <<bound, granted>>

Next == \E i \in Ids : Grant(i) \/ Use(i) \/ \E a \in Actions : Issue(i, a)

Spec == Init /\ [][Next]_vars
=============================================================================
