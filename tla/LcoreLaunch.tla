---------------------------- MODULE LcoreLaunch ----------------------------
(***************************************************************************)
(* Launching closures on worker lcores (dpdk-net/src/api/rte/lcore.rs):    *)
(* LaunchBuilder and LaunchHandle, and launch_on_workers and Lcore::run,   *)
(* which are the same loop over all workers and over one.  The main lcore  *)
(* launches; rte_eal_remote_launch and rte_eal_wait_lcore are external.    *)
(***************************************************************************)
EXTENDS Integers, Sequences

CONSTANTS
  Lcores,     \* the lcores that are enabled
  Main        \* the one of the thread that launches

VARIABLES
  lcores,     \* the lcores the builder targets, in order
  at,         \* where the main thread is
  i,          \* position of its loop
  state,      \* of each lcore, "Wait" or "Running"
  job,        \* the position in lcores whose closure it has run last, or 0
  results     \* what wait() has collected

vars == <<lcores, at, i, state, job, results>>

\* Lcores may be busy with something launched before.
Init ==
  /\ lcores \in Seq(Lcores) /\ at = "select" /\ i = 1
  /\ state \in [Lcores -> {"Wait", "Running"}]
  /\ job = [l \in Lcores |-> 0]
  /\ results = <<>>

\* LcoreIter: workers() leaves the main lcore out, all() and with_lcores may
\* not; on_socket, filter and take keep some of the list, in its order.
Retain(s) ==
  /\ at = "select"
  /\ lcores' \in Seq(s)
  /\ \E place \in [1..Len(lcores') -> 1..Len(lcores)] :
       /\ \A j, k \in 1..Len(lcores') : j < k => place[j] < place[k]
       /\ \A k \in 1..Len(lcores') : lcores'[k] = lcores[place[k]]
       /\ \A k \in 1..Len(lcores) :
            lcores[k] \in s <=> \E j \in 1..Len(lcores') : place[j] = k
  /\ UNCHANGED <<at, i, state, job, results>>

take(n) ==
  /\ at = "select" /\ n <= Len(lcores)
  /\ lcores' = SubSeq(lcores, 1, n)
  /\ UNCHANGED <<at, i, state, job, results>>

Selected ==
  /\ at = "select" /\ at' = "launch"
  /\ UNCHANGED <<lcores, i, state, job, results>>

\* Lcore::launch: the trampoline runs the boxed closure.
Launch ==
  LET l == lcores[i] IN
  /\ at = "launch" /\ i <= Len(lcores) /\ l # Main /\ state[l] = "Wait"
  /\ state' = [state EXCEPT ![l] = "Running"]
  /\ job' = [job EXCEPT ![l] = i]
  /\ i' = i + 1
  /\ UNCHANGED <<lcores, at, results>>

\* A busy lcore refuses, and the main one has nobody who would run it: the box
\* is dropped again, the builder returns the error, and what it has launched
\* runs on without a handle.
LaunchRefused ==
  /\ at = "launch" /\ i <= Len(lcores)
  /\ lcores[i] = Main \/ state[lcores[i]] # "Wait"
  /\ at' = "failed"
  /\ UNCHANGED <<lcores, i, state, job, results>>

\* The builder returns a LaunchHandle, and its owner waits.
Launched ==
  /\ at = "launch" /\ i = Len(lcores) + 1
  /\ at' = "wait" /\ i' = 1
  /\ UNCHANGED <<lcores, state, job, results>>

\* A closure, of this launch or of an earlier one, returns.
Finishes(l) ==
  /\ state[l] = "Running" /\ state' = [state EXCEPT ![l] = "Wait"]
  /\ UNCHANGED <<lcores, at, i, job, results>>

\* LaunchHandle::wait: lcore by lcore, in the order of the list.
wait ==
  /\ at = "wait" /\ i <= Len(lcores) /\ state[lcores[i]] = "Wait"
  /\ results' = Append(results, job[lcores[i]])
  /\ i' = i + 1
  /\ UNCHANGED <<lcores, at, state, job>>

Return ==
  /\ at = "wait" /\ i = Len(lcores) + 1 /\ at' = "returned"
  /\ UNCHANGED <<lcores, i, state, job, results>>

\* LaunchHandle::is_done.
is_done == \A k \in 1..Len(lcores) : state[lcores[k]] # "Running"

Next ==
  \/ \E s \in SUBSET Lcores : Retain(s)
  \/ \E n \in Nat : take(n)
  \/ Selected \/ Launch \/ LaunchRefused \/ Launched \/ wait \/ Return
  \/ \E l \in Lcores : Finishes(l)

Spec == Init /\ [][Next]_vars

-----------------------------------------------------------------------------

\* When wait() returns, every lcore of the list has run a closure of this very
\* launch to its end, and its result stands in the lcore's place: the results
\* are not those of what ran there before, nor of another lcore, and is_done
\* agrees (lcore.rs:591-606).
ResultsAreOwn ==
  at = "returned" =>
    /\ is_done
    /\ Len(results) = Len(lcores)
    /\ \A k \in 1..Len(lcores) :
         results[k] \in 1..Len(lcores) /\ lcores[results[k]] = lcores[k]

TypeOK ==
  /\ lcores \in Seq(Lcores)
  /\ at \in {"select", "launch", "failed", "wait", "returned"}
  /\ i \in Nat \ {0} /\ i <= Len(lcores) + 1
  /\ state \in [Lcores -> {"Wait", "Running"}]
  /\ job \in [Lcores -> Nat]
  /\ results \in Seq(Nat)

\* The job of an lcore is one that was launched there.
JobIsOwn(k) ==
  job[lcores[k]] \in 1..Len(lcores) /\ lcores[job[lcores[k]]] = lcores[k]

Inv ==
  /\ TypeOK
  /\ at = "select" => i = 1
  /\ at = "launch" => results = <<>> /\ \A k \in 1..(i - 1) : JobIsOwn(k)
  /\ at = "wait" =>
       /\ \A k \in 1..Len(lcores) : JobIsOwn(k)
       /\ Len(results) = i - 1
       /\ \A k \in 1..(i - 1) :
            /\ state[lcores[k]] = "Wait"
            /\ results[k] \in 1..Len(lcores) /\ lcores[results[k]] = lcores[k]
  /\ at = "select" => results = <<>>
  /\ ResultsAreOwn
=============================================================================
