---------------------------- MODULE CudaStreams -----------------------------
(***************************************************************************)
(* The CUDA runtime as the pipelines of src/batch_pipeline.cuh and         *)
(* src/factor_pipeline.cuh use it: streams execute what was enqueued in    *)
(* order, independently of each other and of the host; an event names the  *)
(* most recent record made of it when the host makes a call that waits for *)
(* it, and an event never recorded does not hold a wait back.              *)
(***************************************************************************)
EXTENDS Naturals, Sequences

CONSTANTS Stream, Event

VARIABLES
    queue,       \* per stream: the operations enqueued and not yet complete
    recorded,    \* per event: how many records of it the host has enqueued
    completed    \* the records <<event, number>> the device has executed

streams == <<queue, recorded, completed>>

StreamsInit ==
    /\ queue = [s \in Stream |-> <<>>]
    /\ recorded = [e \in Event |-> 0]
    /\ completed = {}

\* cudaStreamWaitEvent: the record captured is the latest one enqueued.
Wait(e) == [kind |-> "wait", on |-> <<e, recorded[e]>>]

\* The same call made after a record of e in the same step.
WaitNew(e) == [kind |-> "wait", on |-> <<e, recorded[e] + 1>>]

\* cudaEventRecord, and its effect on the host's view of the event.
Record(e) == [kind |-> "record", mark |-> <<e, recorded[e] + 1>>]

Recording(events) == [e \in Event |-> IF e \in events THEN recorded[e] + 1 ELSE recorded[e]]

Happened(mark) == mark[2] = 0 \/ mark \in completed

Busy(s) == queue[s] # <<>>

Next1(s) == Head(queue[s])

Doing(s, kind) == Busy(s) /\ Next1(s).kind = kind

Pop(s) == queue' = [queue EXCEPT ![s] = Tail(@)]

\* The device passes a wait ...
PassWait(s) ==
    /\ Doing(s, "wait")
    /\ Happened(Next1(s).on)
    /\ Pop(s)
    /\ UNCHANGED <<recorded, completed>>

\* ... and executes a record.
PassRecord(s) ==
    /\ Doing(s, "record")
    /\ completed' = completed \cup {Next1(s).mark}
    /\ Pop(s)
    /\ UNCHANGED recorded

Drained(S) == \A s \in S : ~Busy(s)
=============================================================================
