------------------------------ MODULE History ------------------------------
(***************************************************************************)
(* The values a transient analysis keeps for circuits with a delay         *)
(* (history, initHistory and updateHistory of trsolver).  There is one     *)
(* vector of times, and for each history a vector of values that belong to *)
(* the last of these times.  Each vector drops old entries by itself.      *)
(*                                                                         *)
(* A value is represented by the time at which it was saved.               *)
(***************************************************************************)
EXTENDS Integers, Sequences

CONSTANTS
  Histories,  \* the histories of all circuits
  Ages,       \* ages (delays) a circuit may ask for
  Slack,      \* entries that are not worth a drop: 127 in the code
  MaxTime     \* end of the analysis

ASSUME AgesAssumption == Ages \subseteq Nat \ {0}
ASSUME SlackAssumption == Slack \in Nat \ {0}
ASSUME TimeAssumption == MaxTime \in Nat

VARIABLES
  age,     \* age of each history
  tAge,    \* age of the vector of times: the largest of them
  t,       \* the vector of times, shared by all
  values   \* the vector of values of each history

historyVars == <<age, tAge, t, values>>

last(times) == times[Len(times)]

leftidx(times, vals) ==
  IF Len(times) > Len(vals) THEN Len(times) - Len(vals) ELSE 0

unused(times, vals) ==
  IF Len(vals) > Len(times) THEN Len(vals) - Len(times) ELSE 0

first(times, vals) == times[leftidx(times, vals) + 1]

\* Where the loop of drop ends: the first used time that is younger than a.
FirstYounger(times, vals, a) ==
  CHOOSE i \in leftidx(times, vals) + 1 .. Len(times) :
    /\ last(times) - times[i] < a
    /\ \A j \in leftidx(times, vals) + 1 .. i - 1 : last(times) - times[j] >= a

\* Mutant: only one older value is kept.
AllButOne(times, vals, a) ==
  LET r == FirstYounger(times, vals, a) - (leftidx(times, vals) + 1) + unused(times, vals)
      s == IF r >= 1 THEN r - 1 ELSE r
  IN  IF s < Len(vals) - 1 THEN s ELSE Len(vals) - 1

\* What drop erases at the front: all older values, but two.
Surplus(times, vals, a) ==
  LET r == FirstYounger(times, vals, a) - (leftidx(times, vals) + 1) + unused(times, vals)
      s == IF r >= 2 THEN r - 2 ELSE r
  IN  IF s < Len(vals) - 1 THEN s ELSE Len(vals) - 1

\* Mutant: the other end is erased.
DropNewest(times, vals, a) ==
  IF /\ a > 0 /\ last(times) - first(times, vals) > a
     /\ Surplus(times, vals, a) > Slack
  THEN SubSeq(vals, 1, Len(vals) - Surplus(times, vals, a))
  ELSE vals

drop(times, vals, a) ==
  IF /\ a > 0 /\ last(times) - first(times, vals) > a
     /\ Surplus(times, vals, a) > Slack
  THEN SubSeq(vals, Surplus(times, vals, a) + 1, Len(vals))
  ELSE vals

-----------------------------------------------------------------------------
\* initHistory at the start of the analysis.
initHistory ==
  /\ age \in [Histories -> Ages]
  /\ tAge \in {age[h] : h \in Histories} /\ \A h \in Histories : age[h] <= tAge
  /\ t = <<0>>
  /\ values = [h \in Histories |-> <<0>>]

updateHistory(time) ==
  LET times == Append(t, time)
  IN  /\ time > last(t)
      /\ values' = [h \in Histories |-> drop(times, Append(values[h], time), age[h])]
      /\ t' = drop(times, times, tAge)
      /\ UNCHANGED <<age, tAge>>

NextTime == \E time \in 1 .. MaxTime : updateHistory(time)

HistorySpec == initHistory /\ [][NextTime]_historyVars

-----------------------------------------------------------------------------
\* Mutant: the search goes on after the middle.
SeekAfter(times, tval, left) ==
  LET n == Len(times)
      d(i) == times[i] - tval
      abs(x) == IF x < 0 THEN -x ELSE x
      f[l \in left + 1 .. n, r \in left + 1 .. n, idx \in 0 .. n] ==
        LET i == (l - 1 + r - 1) \div 2 + 1
            better == idx = 0 \/ abs(d(i)) < abs(d(idx))
            best == IF better THEN i ELSE idx
        IN  IF l = r THEN i
            ELSE IF ~better /\ i = l THEN idx
            ELSE IF d(i) < 0 THEN f[i + 1, r, best]
            ELSE IF d(i) > 0 THEN f[l, i, best]
            ELSE best
  IN  f[left + 1, n, 0]

\* history::seek: the index it returns for a time, looking from the first used
\* index l to the last one r.
seek(times, tval, left) ==
  LET n == Len(times)
      d(i) == times[i] - tval
      abs(x) == IF x < 0 THEN -x ELSE x
      f[l \in left + 1 .. n, r \in left + 1 .. n, idx \in 0 .. n] ==
        LET i == (l - 1 + r - 1) \div 2 + 1
            better == idx = 0 \/ abs(d(i)) < abs(d(idx))
            best == IF better THEN i ELSE idx
        IN  IF l = r THEN i
            ELSE IF ~better /\ i = l THEN idx
            ELSE IF d(i) < 0 THEN f[i, r, best]
            ELSE IF d(i) > 0 THEN f[l, i, best]
            ELSE best
  IN  f[left + 1, n, 0]

\* The value nearest() finds for a time, without interpolation.
nearest(h, tval) ==
  LET l == leftidx(t, values[h]) IN values[h][seek(t, tval, l) - l]

-----------------------------------------------------------------------------
\* Values and times are kept in separate vectors that history::drop shortens
\* one by one.  With the age of the vector of times a history has as many
\* values as there are times, and as long as no values are unused each one is
\* read with the time at which it was saved.
Aligned ==
  \A h \in Histories :
    /\ age[h] = tAge => Len(values[h]) = Len(t)
    /\ Len(values[h]) <= Len(t) =>
         \A i \in DOMAIN values[h] : values[h][i] = t[i + leftidx(t, values[h])]

\* "keep 2 values being older than specified age": whatever the steps were,
\* history::drop leaves what a circuit with that delay interpolates between.
WindowCovered ==
  \A h \in Histories :
    \/ values[h][1] = 0
    \/ Len(values[h]) > 1 /\ last(t) - values[h][2] >= age[h]

\* The history does not grow beyond its age by more than the entries that are
\* not worth a drop, although history::drop does nothing for most steps.
Bounded ==
  \A h \in Histories :
    Len(values[h]) > Slack + 2 => last(t) - values[h][Slack + 3] < age[h]

\* How far the ith time is from tval, and the used times none is nearer than.
dist(i, tval) == IF t[i] < tval THEN tval - t[i] ELSE t[i] - tval

Nearest(l, tval) ==
  {k \in l + 1 .. Len(t) : \A i \in l + 1 .. Len(t) : dist(k, tval) <= dist(i, tval)}

\* The recursive search of history::seek, which never compares the last time, finds
\* the time nearest to any given one among all that are used, unless that is
\* the last: then it finds the one before, which no search ends beyond.
NearestButLast ==
  \A h \in Histories : \A tval \in 0 .. last(t) :
    LET l == leftidx(t, values[h])
        k == seek(t, tval, l)
    IN  Len(t) > l + 1 =>
          \/ k \in Nearest(l, tval)
          \/ k = Len(t) - 1 /\ Nearest(l, tval) = {Len(t)}

\* Not kept by the code: README, section 3.  seek finds the nearest of all times,
\* the last one included.
NearestFound ==
  \A h \in Histories : \A tval \in 0 .. last(t) :
    LET l == leftidx(t, values[h]) IN seek(t, tval, l) \in Nearest(l, tval)

\* Not kept by the code: README, section 3.  nearest() returns a value that was
\* saved at the time seek has found.
NearestIsSaved ==
  \A h \in Histories : \A tval \in 0 .. last(t) :
    nearest(h, tval) = t[seek(t, tval, leftidx(t, values[h]))]
=============================================================================
