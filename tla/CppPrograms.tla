-------------------------------- MODULE CppPrograms --------------------------------
(*******************************************************************************)
(* The C++ programs that read a configuration file, up to where they start,    *)
(* and of c_malloc_free the benchmark that it starts.  What the websocket      *)
(* programs do then is in WsHub, the reports of time are in LatencyReport.     *)
(*******************************************************************************)
EXTENDS ConfigLoad, FreeRing

vars == <<configVars, ringVars>>

Init == ConfigInit /\ RingInit

Loading == Load /\ UNCHANGED ringVars

\* The benchmarks create their report before they start, the server listens.
Begin ==
  /\ process = "loaded"
  /\ process' = "started"
  /\ UNCHANGED <<program, file, at, key, config, ret, held, ringVars>>

\* The report cannot be created, or the server does not get its port.
StartFails ==
  /\ process = "loaded"
  /\ program \in {"c_malloc_free", "time", "ws_trans_server"}
  /\ process' = "failed"
  /\ UNCHANGED <<program, file, at, key, config, ret, held, ringVars>>

\* Threads of c_malloc_free.
Runs == process = "started" /\ program = "c_malloc_free" /\ UNCHANGED configVars

Ended ==
  IF process = "started" /\ program = "c_malloc_free" THEN RingEnded
  ELSE process \notin {"loading", "loaded"}

Exited == Ended /\ UNCHANGED vars

Next ==
  \/ Loading \/ Begin \/ StartFails
  \/ Runs /\ Ring
  \/ Exited

Spec == Init /\ [][Next]_vars

\* Every thread is scheduled again and again.
Fairness ==
  /\ WF_vars(Loading \/ Begin)
  /\ WF_vars(Runs /\ Main)
  /\ \A n \in Processors : \A p \in 0 .. 2 * n :
       WF_vars(Runs /\ p \in Producers /\ Producer(p))
  /\ WF_vars(Runs /\ Consumer)

FairSpec == Spec /\ Fairness

--------------------------------------------------------------------------------
(* Properties.                                                                 *)

\* Every program ends or starts, and the benchmark that c_malloc_free starts comes
\* to its report, however far the consumer falls behind.
Terminates == <>Ended

================================================================================
