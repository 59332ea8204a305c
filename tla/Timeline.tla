------------------------------ MODULE Timeline ------------------------------
(***************************************************************************)
(* What the statistics file promises: one timeline of all power samples    *)
(* and of the Caffe events among them.  Both come in the order of their    *)
(* own log; the earlier one goes first, the event if both have the same    *)
(* time.  Events are learned before the first row is written, and none is  *)
(* written unless a sample follows it.                                     *)
(***************************************************************************)
EXTENDS Integers, Sequences

VARIABLES
    samples,    \* the times of the samples
    events,     \* the times of the events
    numSamples, \* how many of each are in the timeline
    numEvents,
    timeline    \* the rows

vars == <<samples, events, numSamples, numEvents, timeline>>

Row == [from : {"sample", "event"}, index : Nat, timestamp : Int]

Init ==
    /\ samples \in Seq(Int)
    /\ events = <<>>
    /\ numSamples = 0
    /\ numEvents = 0
    /\ timeline = <<>>

LearnEvent ==
    /\ timeline = <<>>
    /\ Len(events') = Len(events) + 1
    /\ events'[Len(events) + 1] \in Int
    /\ events' = Append(events, events'[Len(events) + 1])
    /\ UNCHANGED <<samples, numSamples, numEvents, timeline>>

\* The next event is not due before the next sample.
SampleFirst ==
    numEvents < Len(events) => samples[numSamples + 1] < events[numEvents + 1]

AddSample ==
    /\ numSamples < Len(samples)
    /\ SampleFirst
    /\ numSamples' = numSamples + 1
    /\ timeline' = Append(timeline,
         [from |-> "sample", index |-> numSamples + 1,
          timestamp |-> samples[numSamples + 1]])
    /\ UNCHANGED <<samples, events, numEvents>>

AddEvent ==
    /\ numSamples < Len(samples)
    /\ numEvents < Len(events)
    /\ ~SampleFirst
    /\ numEvents' = numEvents + 1
    /\ timeline' = Append(timeline,
         [from |-> "event", index |-> numEvents + 1,
          timestamp |-> events[numEvents + 1]])
    /\ UNCHANGED <<samples, events, numSamples>>

Next == LearnEvent \/ AddSample \/ AddEvent

Spec == Init /\ [][Next]_vars

-----------------------------------------------------------------------------
TypeOK ==
    /\ samples \in Seq(Int)
    /\ events \in Seq(Int)
    /\ numSamples \in 0 .. Len(samples)
    /\ numEvents \in 0 .. Len(events)
    /\ timeline \in Seq(Row)

Sorted(s) == \A i, j \in 1 .. Len(s) : i <= j => s[i] <= s[j]

\* The timeline is in order whenever both logs are.
TimelineSorted ==
    Sorted(samples) /\ Sorted(events) =>
      \A i, j \in 1 .. Len(timeline) :
        i <= j => timeline[i].timestamp <= timeline[j].timestamp
=============================================================================
