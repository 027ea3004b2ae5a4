----------------------------- MODULE MCAsyncJobs -----------------------------
(* AsyncJobs for TLC: four calls, one line out of turn about another job, of *)
(* another kind or unreadable, and one request that is too long.            *)
EXTENDS AsyncJobs

OutOfTurn == {Reply(kind, [id |-> 9, kind |-> "validate"], 0) :
                 kind \in {"job_status", "protocol_error", "oversized", "spec_valid"}}
LongRequests == {[kind |-> "submit", about |-> Submission("gen_traces"), serial |-> 2]}
=============================================================================
