---------------------------- MODULE MCStatMerge -----------------------------
(* Small instances of StatMerge: some logs of Caffe with every nondecreasing *)
(* assignment of times, and every rawdata file of up to MaxSamples records.  *)
EXTENDS StatMerge

CONSTANTS FirstTime, LastTime, MaxSamples

Text(x, k) == [text |-> x, n |-> k]

\* A complete run of two batches, of one batch of two blobs, one that is killed
\* in its second batch, and one that starts the CNN with its first line.
MCTexts ==
    {<<Text("other", 0), Text("running", 2), Text("batch", 0), Text("batch", 1)>>,
     <<Text("other", 0), Text("running", 1), Text("batch", 0), Text("batch", 0)>>,
     <<Text("noise", 0), Text("other", 0), Text("running", 2), Text("batch", 0),
       Text("other", 0)>>,
     <<Text("running", 1), Text("other", 0), Text("batch", 0), Text("other", 0)>>}

Nondecreasing(k) ==
    {s \in [1 .. k -> FirstTime .. LastTime] : \A i \in 1 .. k - 1 : s[i] <= s[i + 1]}

MCLogs ==
    UNION {{[i \in 1 .. Len(x) |-> [t |-> s[i], text |-> x[i].text, n |-> x[i].n]]
              : s \in Nondecreasing(Len(x))} : x \in MCTexts}

\* The clock is set back by one or more units once.
MCRawdata ==
    {s \in UNION {[1 .. k -> FirstTime .. LastTime] : k \in 0 .. MaxSamples} :
       \A i, j \in 1 .. Len(s) - 1 : s[i] > s[i + 1] /\ s[j] > s[j + 1] => i = j}
=============================================================================
