-------------------------- MODULE ResponseHandler ---------------------------
(***************************************************************************)
(* struct ResponseHandler of handling/handlers.cpp: decides whether a      *)
(* request that was not answered with 200 is sent again.  It counts the    *)
(* 500s of each route; the counters of 503s beside them are reset but      *)
(* never read, since review_request sends only 500s to them.               *)
(*                                                                         *)
(* The counters are plain ints that all threads share without a lock, so   *)
(* errors[r] += 1 followed by the comparison with the limit is three       *)
(* steps of the thread: a read, a write, and a read for the decision.      *)
(***************************************************************************)
EXTENDS Integers

CONSTANTS
    Threads,
    Routes,
    InitialErrors   \* what a counter may hold at first: nothing initialises it

VARIABLES
    errors,     \* platform_errors, region_errors, val_platform_errors, entry 0
    seen        \* the counter as read by a thread that is about to increment it
vars == <<errors, seen>>

MaxInternalDenials == 2

TypeOK ==
    /\ errors \in [Routes -> Int]
    /\ seen \in [Threads -> Int]

Init ==
    /\ errors \in [Routes -> InitialErrors]
    /\ seen = [t \in Threads |-> 0]

\* reset_server_error_count
ResetServerErrorCount(r) ==
    /\ errors' = [errors EXCEPT ![r] = 0]
    /\ UNCHANGED seen

\* handle_server_error: the increment, in two steps, and the answer.
ReadErrorCount(t, r) ==
    /\ seen' = [seen EXCEPT ![t] = errors[r]]
    /\ UNCHANGED errors

\* Faulty: the increment is lost.
WriteErrorCountUnchanged(t, r) ==
    /\ errors' = [errors EXCEPT ![r] = seen[t]]
    /\ seen' = [seen EXCEPT ![t] = 0]

WriteErrorCount(t, r) ==
    /\ errors' = [errors EXCEPT ![r] = seen[t] + 1]
    /\ seen' = [seen EXCEPT ![t] = 0]

Resend(r) == errors[r] < MaxInternalDenials
=============================================================================
