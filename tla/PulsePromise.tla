----------------------------- MODULE PulsePromise -----------------------------
(***************************************************************************)
(* What a user of the gate relies on, with no queue, task or reducer: a    *)
(* request is carried out by at most one pulse on one output, or by none;  *)
(* pulses never overlap and their starts keep the minimum interval; and    *)
(* nothing but a request that is still open ever starts one.  Who gives up *)
(* waiting and asks again has several requests open.                       *)
(***************************************************************************)
EXTENDS Naturals

CONSTANTS Requesters, Outputs, NoOutput

VARIABLES
  relay,   \* the output that is active, or NoOutput
  rested,  \* the minimum interval since the last pulse start has passed
  open     \* of each requester, how many requests are not carried out or dropped

promiseVars == <<relay, rested, open>>

PromiseInit ==
  relay = NoOutput /\ rested = TRUE /\ open = [c \in Requesters |-> 0]

Asked(c)    == open' = [open EXCEPT ![c] = @ + 1]
Answered(c) == open[c] > 0 /\ open' = [open EXCEPT ![c] = @ - 1]

Ask(c)  == Asked(c) /\ UNCHANGED <<relay, rested>>
Drop(c) == Answered(c) /\ UNCHANGED <<relay, rested>>

Fire(c, output) ==
  /\ relay = NoOutput /\ rested /\ Answered(c)
  /\ relay' = output /\ rested' = FALSE

Release == relay' = NoOutput /\ UNCHANGED <<rested, open>>
Rest    == rested' = TRUE /\ UNCHANGED <<relay, open>>

PromiseNext ==
  \/ \E c \in Requesters : Ask(c) \/ Drop(c)
  \/ \E c \in Requesters, output \in Outputs : Fire(c, output)
  \/ Release \/ Rest

PromiseSpec == PromiseInit /\ [][PromiseNext]_promiseVars
=============================================================================
