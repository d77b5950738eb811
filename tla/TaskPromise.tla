---------------------------- MODULE TaskPromise ----------------------------
(***************************************************************************)
(* What the delivery of notification tasks promises, with no rows, jobs,   *)
(* locks or workers: a task that was handed over is sent, at most Limit    *)
(* times, until it is closed with a verdict; it is closed as "done" only   *)
(* if it was sent.  A send may still come after the verdict.  Mocked tasks *)
(* are the exception: they are never sent and may be closed as "done" all  *)
(* the same.                                                               *)
(***************************************************************************)
EXTENDS Naturals

CONSTANTS Tasks, Limit

VARIABLES
  due,      \* the tasks handed over
  mocked,   \* the tasks that nothing is ever sent for
  sends,    \* sends[t]: how often t was delivered
  verdict   \* verdict[t]: "open", "done" or "gaveUp"

promiseVars == <<due, mocked, sends, verdict>>

Verdicts == {"open", "done", "gaveUp"}

Init ==
  /\ due = {}
  /\ mocked \in SUBSET Tasks
  /\ sends = [t \in Tasks |-> 0]
  /\ verdict = [t \in Tasks |-> "open"]

HandOver(t) ==
  /\ due' = due \cup {t}
  /\ UNCHANGED <<mocked, sends, verdict>>

SendOnce(t) ==
  /\ t \in due \ mocked /\ sends[t] < Limit
  /\ sends' = [sends EXCEPT ![t] = @ + 1]
  /\ UNCHANGED <<due, mocked, verdict>>

Close(t, v) ==
  /\ t \in due /\ verdict[t] = "open"
  /\ v = "done" => sends[t] > 0 \/ t \in mocked
  /\ verdict' = [verdict EXCEPT ![t] = v]
  /\ UNCHANGED <<due, mocked, sends>>

Next ==
  \E t \in Tasks :
    \/ HandOver(t)
    \/ SendOnce(t)
    \/ \E v \in Verdicts \ {"open"} : Close(t, v)

Spec == Init /\ [][Next]_promiseVars

\* Every task handed over is closed in the end.
Closing == \A t \in Tasks : t \in due ~> verdict[t] # "open"
============================================================================
