----------------------------- MODULE WorkQueue ------------------------------
(***************************************************************************)
(* What the thread pool promises to the runtime: work that is submitted is *)
(* done once, and answered once, by the main thread, after it was done. A  *)
(* process that ends owes no more answers.                                 *)
(***************************************************************************)
CONSTANT Work

VARIABLES status,   \* status[w]: "new", "submitted", "done", "answered"
          over      \* has the process ended?
workVars == <<status, over>>

WorkInit == status = [w \in Work |-> "new"] /\ over = FALSE

Move(w, from, to) ==
    /\ status[w] = from
    /\ status' = [status EXCEPT ![w] = to]
    /\ UNCHANGED over

Submitted(w) == ~over /\ Move(w, "new", "submitted")
Done(w)      == Move(w, "submitted", "done")
Answered(w)  == ~over /\ Move(w, "done", "answered")
End          == ~over /\ over' = TRUE /\ UNCHANGED status

WorkNext == End \/ \E w \in Work : Submitted(w) \/ Done(w) \/ Answered(w)

\* Work that is submitted gets done; a prompt queue also answers it, as long as
\* the process goes on.
WorkSpec == /\ WorkInit /\ [][WorkNext]_workVars
            /\ \A w \in Work : WF_workVars(Done(w))
Prompt   == \A w \in Work : WF_workVars(Answered(w))
=============================================================================
