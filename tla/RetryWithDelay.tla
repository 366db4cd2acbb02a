---------------------------- MODULE RetryWithDelay ----------------------------
(***************************************************************************)
(* RetryWithDelay, the handler the pipelines of this project give to       *)
(* RxJava's retryWhen.  One handler object counts the errors of one        *)
(* operator for as long as its pipeline lives: the count is never reset,   *)
(* so an operator resubscribes its source at most MaxRetries - 1 times and *)
(* then lets every error through to the next retryWhen downstream.         *)
(*                                                                         *)
(* A pipeline's counts are a function from its retryWhen operators to the  *)
(* resubscriptions each has granted; the count of an exhausted operator is *)
(* left where it is, since nothing tells two exhausted counts apart.       *)
(***************************************************************************)
EXTENDS Integers, Sequences

CONSTANT MaxRetries     \* maxRetries; every use in the code passes 3

\* With 1 no error would be retried, and the first one would end the thread
\* that subscribed.
ASSUME RetryAssumption == MaxRetries \in Nat \ {0, 1}

Granted == 0..(MaxRetries - 1)

\* if (++retryCount < maxRetries) return Observable.timer(...)
Grants(count) == count + 1 < MaxRetries

\* An error that meets the operators of path in this order is handled by the
\* i-th: the first one that still grants a resubscription.
HandledAt(counts, path, i) ==
  /\ i \in DOMAIN path
  /\ Grants(counts[path[i]])
  /\ \A j \in 1..(i - 1) : ~Grants(counts[path[j]])

\* Mutant of Regranted: retries are not counted.
RegrantedUncounted(counts, op) == [counts EXCEPT ![op] = @]

Regranted(counts, op) == [counts EXCEPT ![op] = @ + 1]

\* No operator of path handles it: Observable.error(throwable) all the way.
PassedOn(counts, path) == \A i \in DOMAIN path : ~Grants(counts[path[i]])

================================================================================
