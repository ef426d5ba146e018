----------------------------- MODULE MCUserParts -----------------------------
(***************************************************************************)
(* Four parts of the user library for TLC in one run: threads in the       *)
(* memory manager, the queue, the stack and the error log.  They share     *)
(* nothing, and a behaviour uses one.                                      *)
(*   One minor error of the log is listed, one is not (division by zero),  *)
(* and the mask of all sixteen has a description of its own; 32 is no type *)
(* of error.                                                               *)
(***************************************************************************)
EXTENDS MemoryThreads, Queue, Stack, ErrorLog

VARIABLE part   (* "threads", "queue", "stack" or "log"                    *)

MCMajors == {16, 18, 32}
MCMinors == {{0, 1}, {1, 4}, BERR_EDEADB}

partsVars == <<thread_vars, queueVars, stackVars, logVars, part>>

PartsInit ==
  /\ part \in {"threads", "queue", "stack", "log"}
  /\ ThreadsInit
  /\ InitQueue
  /\ StackInit /\ (part # "stack" => word = CHOOSE w \in WordSizes : TRUE)
  /\ LogInit

PartsNext ==
  /\ UNCHANGED part
  /\ \/ part = "threads" /\ ThreadsNext /\ UNCHANGED <<queueVars, stackVars, logVars>>
     \/ part = "queue" /\ NextQueue /\ UNCHANGED <<thread_vars, stackVars, logVars>>
     \/ part = "stack" /\ StackNext /\ UNCHANGED <<thread_vars, queueVars, logVars>>
     \/ part = "log" /\ LogNext /\ UNCHANGED <<thread_vars, queueVars, stackVars>>

(* The fairness of MemoryThreads and of Queue, of the part that is used. *)
PartsSpec ==
  /\ PartsInit /\ [][PartsNext]_partsVars
  /\ \A t \in Threads : WF_thread_vars(part = "threads" /\ Step(t))
  /\ WF_queueVars(part = "queue" /\ queue_get)
=============================================================================
