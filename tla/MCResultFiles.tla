--------------------------- MODULE MCResultFiles ---------------------------
(* The board's table and short ones; two samples of a time, a power and a   *)
(* frequency, with texts that fit, fill and exceed their fields; columns of *)
(* each kind, with names and values that fit and that do not; the rows and  *)
(* the summaries of the code, with and without samples in them.             *)
EXTENDS ResultFiles

LOCAL INSTANCE SequencesExt

Digits(n) == [i \in 1 .. n |-> "d"]

TextOf(lengths) == FlattenSeq([i \in DOMAIN lengths |-> Append(Digits(lengths[i]), "s")])

\* The TX2: nine frequencies below 1 GHz and four above.
BoardText == TextOf(<<9, 9, 9, 9, 9, 9, 9, 9, 9, 10, 10, 10, 10>>)

ShortTexts == {TextOf(l) : l \in UNION {[1 .. k -> {1, 9}] : k \in 0 .. 3}}

\* With and without a separator at the end.
MCTexts == {t \in ShortTexts \cup {Front(t) : t \in ShortTexts \ {<<>>}} \cup {BoardText} :
              Readable(t)}

MCWidth == <<2, 2, 4>>
MCShown == <<{1}, {0, 1, 2}, {0, 1, 3, 4, 5}>>

MCReserved == <<18, 50, 54, 54, 54, 48, 29, 50, 54, -1, 54, 54, 48, 1>>

Util == [message |-> 27, data |-> {8, 9, 10, 11}, unit |-> 1]
Energy(message) == [message |-> message, data |-> {21}, unit |-> 1]

RowsOf(title) ==
    <<[message |-> title, data |-> {}, unit |-> 0],
      Util, Util, Energy(21), Energy(18), Energy(18)>>

MCRows == RowsOf(29) \o RowsOf(27)

\* Ten bytes of a unit and two behind it, then the message of the next row.
MCUnitGarbage == {0, 11, 39}

MCSummaries ==
    <<{37}, {42}, {48, 49}, {52, 55}, {48, 49}, {48},
      {35}, {42}, {48, 49}, {52, 55}, {48, 49}, {48}>>

Stat(colname, colwidth, logtype, values) ==
    [colname |-> colname, colwidth |-> colwidth, logtype |-> logtype, values |-> values]

\* All that prepare_measurement() registers (power_measurement.c:355-426), in its
\* order.  An energy stays below 100 kJ; psum_GPU-util is always too long by one.
MCColumns ==
    <<Stat(7, 18, "time", {18}),
      Stat(15, 15, "powerlog", {4, 5}),
      Stat(16, 16, "powerlog", {4, 5}),
      Stat(13, 13, "powerlog", {1, 5}),
      Stat(17, 17, "powerlog", {1, 5}),
      Stat(13, 13, "powerlog", {1, 5}),
      Stat(18, 18, "powerlog", {1, 5}),
      Stat(14, 14, "powerlog", {1, 5}),
      Stat(16, 19, "summary", {15, 19}),
      Stat(13, 19, "summary", {15, 19}),
      Stat(13, 19, "summary", {15, 19}),
      Stat(13, 13, "powerlog", {3, 4}),
      Stat(20, 19, "summary", {11, 19}),
      Stat(11, 11, "powerlog", {5}),
      Stat(18, 18, "summary", {19}),
      Stat(13, 13, "powerlog", {4}),
      Stat(11, 11, "powerlog", {8}),
      Stat(18, 18, "powerlog", {6}),
      Stat(9, 19, "timestamp", {19}),
      Stat(11, 11, "caffelog", {1, 4}),
      Stat(16, 16, "caffelog", {1, 4}),
      Stat(9, 9, "caffelog", {1, 4}),
      Stat(12, 13, "caffelog", {1, 4}),
      Stat(11, 35, "caffelog", {20, 60})>>

\* What follows depends neither on the table, so that one is enough, nor the
\* lines of events and the summary on the samples, so that those without failures
\* are.
FewerRuns ==
    /\ stat_at # "expinfo" => text = TextOf(<<9>>)
    /\ (num_line["caffelog"] > 0 \/ stat_at \in {"rows", "summaries", "closed"}) =>
         \A c \in DOMAIN collected : collected[c].chars = 1
=============================================================================
