------------------------- MODULE AudioOutputProofs -------------------------
(***************************************************************************)
(* Proofs about AudioOutput, for any buffer, margin, lag and messages.     *)
(***************************************************************************)
EXTENDS AudioOutput, WellFoundedInduction, TLAPS

LEMMA InitTypeOK == Init => TypeOK
<1>1. 0 \in 0..BufferTime - 1 BY AudioOutputAssumption
<1> QED BY <1>1 DEF Init, TypeOK

LEMMA LeftOK == \A count \in Nat : Left(count) \in 0..BufferTime - 1
BY AudioOutputAssumption DEF Left

LEMMA StepTypeOK == TypeOK /\ [Next]_vars => TypeOK'
<1> SUFFICES ASSUME TypeOK, [Next]_vars PROVE TypeOK' OBVIOUS
<1> USE DEF player, page, unmute, context
<1>1. CASE start BY <1>1, AudioOutputAssumption DEF start, TypeOK
<1>2. CASE stop BY <1>2 DEF stop, TypeOK
<1>3. CASE feedMisaligned BY <1>3 DEF feedMisaligned, TypeOK
<1>4. CASE Tick BY <1>4 DEF Tick, TypeOK
<1>5. ASSUME NEW size \in Chunks, feed(size) PROVE TypeOK'
  <2>1. samplesCount + size \in Nat BY AudioOutputAssumption DEF TypeOK
  <2>2. samplesCount' \in 0..BufferTime - 1 BY <1>5, <2>1, LeftOK DEF feed
  <2> QED BY <1>5, <2>2 DEF feed, TypeOK
<1>6. CASE Done BY <1>6 DEF Done, TypeOK
<1>7. CASE Interrupted BY <1>7 DEF Interrupted, TypeOK
<1>8. CASE statechange
  <2>1. samplesCount' \in 0..BufferTime - 1
    BY <1>8, AudioOutputAssumption DEF statechange, TypeOK
  <2> QED BY <1>8, <2>1 DEF statechange, context_statechange, updateContextState, TypeOK
<1>9. ASSUME NEW hide \in BOOLEAN, NEW focus \in BOOLEAN, updatePlaybackState(hide, focus),
             hidden' \in BOOLEAN, focused' \in BOOLEAN
      PROVE  TypeOK'
  BY <1>9 DEF updatePlaybackState, ShouldAllowPlayback, updateChannelState, updateContextState, TypeOK
<1>10. CASE visibilitychange
  BY <1>9, <1>10 DEF visibilitychange, TypeOK
<1>11. CASE focusChange
  <2>1. CASE isIOS BY <1>9, <1>11, <2>1 DEF focusChange, TypeOK
  <2>2. CASE ~isIOS BY <1>11, <2>2 DEF focusChange, TypeOK
  <2> QED BY <2>1, <2>2
<1>12. CASE mediaPlaybackEvent BY <1>12 DEF mediaPlaybackEvent, updateContextState, TypeOK
<1>13. CASE ChannelPlays \/ destroyChannelTag
  BY <1>13 DEF ChannelPlays, destroyChannelTag, TypeOK
<1>14. CASE UNCHANGED vars BY <1>14 DEF vars, TypeOK
<1> QED BY <1>1, <1>2, <1>3, <1>4, <1>5, <1>6, <1>7, <1>8, <1>10, <1>11, <1>12, <1>13, <1>14
        DEF Next

\* Every variable keeps its type; less than a buffer of samples is left over.
THEOREM TypeCorrect == Spec => []TypeOK
BY InitTypeOK, StepTypeOK, PTL DEF Spec

-----------------------------------------------------------------------------
(* NothingStale needs no help: nothing is fed, and no clock runs, while the *)
(* sound is off.                                                            *)

LEMMA StaleStep == TypeOK /\ NothingStale /\ [Next]_vars => NothingStale'
<1> SUFFICES ASSUME TypeOK, NothingStale, [Next]_vars PROVE NothingStale' OBVIOUS
<1> USE DEF NothingStale, player, page, unmute, context
<1>1. CASE start \/ stop \/ feedMisaligned \/ Tick
  BY <1>1 DEF start, stop, feedMisaligned, Tick, Listens
<1>2. ASSUME NEW size \in Chunks, feed(size) PROVE NothingStale' BY <1>2 DEF feed, Listens
<1>3. CASE Done \/ Interrupted \/ statechange
  BY <1>3 DEF Done, Interrupted, statechange, Cleared, TypeOK
<1>4. CASE visibilitychange \/ focusChange \/ mediaPlaybackEvent
  BY <1>4 DEF visibilitychange, focusChange, mediaPlaybackEvent, updatePlaybackState
<1>5. CASE ChannelPlays \/ destroyChannelTag \/ UNCHANGED vars
  BY <1>5 DEF ChannelPlays, destroyChannelTag, vars
<1> QED BY <1>1, <1>2, <1>3, <1>4, <1>5 DEF Next

\* Neither samples nor a start time outlive the sound, whatever the listeners
\* of the context are told, and when.
THEOREM DropsStale == Spec => []NothingStale
<1>1. Init => NothingStale BY DEF Init, NothingStale
<1>2. Spec => [](TypeOK /\ NothingStale)
  BY <1>1, InitTypeOK, StepTypeOK, StaleStep, PTL DEF Spec
<1> QED BY <1>2, PTL

-----------------------------------------------------------------------------
(* The silent track.                                                       *)

\* allowPlayback is what the document says it should be.
TrackInv == TrackInForeground /\ (allowPlayback <=> ShouldAllowPlayback(hidden, focused))

LEMMA TrackStep == TypeOK /\ TrackInv /\ [Next]_vars => TrackInv'
<1> SUFFICES ASSUME TypeOK, TrackInv, [Next]_vars PROVE TrackInv' OBVIOUS
<1> USE DEF TrackInv, TrackInForeground, ShouldAllowPlayback, player, page, unmute, context
<1>1. CASE start \/ stop \/ feedMisaligned \/ Tick \/ Done \/ Interrupted \/ statechange
  BY <1>1 DEF start, stop, feedMisaligned, Tick, Done, Interrupted, statechange
<1>2. ASSUME NEW size \in Chunks, feed(size) PROVE TrackInv' BY <1>2 DEF feed
<1>3. CASE visibilitychange
  BY <1>3 DEF visibilitychange, updatePlaybackState, updateChannelState, TypeOK
<1>4. CASE focusChange
  BY <1>4 DEF focusChange, updatePlaybackState, updateChannelState, TypeOK
<1>5. CASE mediaPlaybackEvent BY <1>5 DEF mediaPlaybackEvent, TypeOK
<1>6. CASE ChannelPlays \/ destroyChannelTag \/ UNCHANGED vars
  BY <1>6 DEF ChannelPlays, destroyChannelTag, vars
<1> QED BY <1>1, <1>2, <1>3, <1>4, <1>5, <1>6 DEF Next

\* iOS never shows the controls of the silent track for a page in the background.
THEOREM TrackNeverBehind == Spec => []TrackInForeground
<1>1. Init => TrackInv BY DEF Init, TrackInv, TrackInForeground, ShouldAllowPlayback
<1>2. Spec => [](TypeOK /\ TrackInv)
  BY <1>1, InitTypeOK, StepTypeOK, TrackStep, PTL DEF Spec
<1>3. TrackInv => TrackInForeground BY DEF TrackInv
<1> QED BY <1>2, <1>3, PTL

-----------------------------------------------------------------------------
(* The start times.  What a buffer after the other makes of the start time *)
(* is proved of every number of buffers by its recursion: a number of      *)
(* which it failed would have a least one.                                 *)

LEMMA Least ==
  ASSUME NEW T, T \subseteq Nat, T # {}
  PROVE  \E n \in T : \A m \in T : n <= m
<1> DEFINE R == OpToRel(<, Nat)
<1>1. IsWellFoundedOn(R, Nat) BY NatLessThanWellFounded, Zenon
<1>2. \A m, n \in Nat : m < n => <<m, n>> \in R
  <2>1. R = {ss \in Nat \X Nat : ss[1] < ss[2]} BY Zenon DEF OpToRel
  <2> HIDE DEF R
  <2> QED BY <2>1
<1> HIDE DEF R
<1>3. PICK n \in T : \A m \in T : ~ (<<m, n>> \in R) BY <1>1, WFMin, Zenon
<1>4. \A m \in T : ~(m < n) BY <1>2, <1>3
<1> QED BY <1>4

\* s is the recursion of After up to n.
IsAfter(s, n, t) ==
  s = [k \in 0..n |-> IF k = 0 THEN t ELSE StartOf(s[k - 1]) + BufferTime]

LEMMA AfterExists == ASSUME NEW t PROVE \A n \in Nat : \E s : IsAfter(s, n, t)
<1> DEFINE T == {n \in Nat : ~ \E s : IsAfter(s, n, t)}
<1> SUFFICES ASSUME T # {} PROVE FALSE OBVIOUS
<1>1. T \subseteq Nat OBVIOUS
<1>2. PICK n \in T : \A m \in T : n <= m
  <2> HIDE DEF T
  <2> QED BY <1>1, Least, Zenon
<1>3. CASE n = 0
  <2> DEFINE g == [k \in 0..0 |-> t]
  <2>1. IsAfter(g, 0, t) BY DEF IsAfter
  <2> QED BY <1>3, <2>1
<1>4. CASE n # 0
  <2>1. n \in Nat /\ n - 1 \in Nat /\ n - 1 \notin T BY <1>2, <1>4
  <2>2. PICK s : IsAfter(s, n - 1, t) BY <2>1
  <2> DEFINE g == [k \in 0..n |-> IF k < n THEN s[k] ELSE StartOf(s[n - 1]) + BufferTime]
  <2>3. \A k \in 0..n - 1 : s[k] = IF k = 0 THEN t ELSE StartOf(s[k - 1]) + BufferTime
    BY <2>2 DEF IsAfter
  <2>4. \A k \in 0..n : g[k] = IF k = 0 THEN t ELSE StartOf(g[k - 1]) + BufferTime
    BY <1>4, <2>1, <2>3
  <2>5. g = [k \in 0..n |-> g[k]] OBVIOUS
  <2>6. IsAfter(g, n, t)
    <3> HIDE DEF g
    <3> QED BY <2>4, <2>5 DEF IsAfter
  <2> QED BY <1>2, <2>1, <2>6
<1> QED BY <1>3, <1>4

\* flush plays a buffer at most the lag allowed ahead, and never in the past,
\* whatever start time it finds.
LEMMA StartOfBounds ==
  ASSUME NEW t \in {Unscheduled} \cup Int
  PROVE  StartOf(t) \in 0..MaxAudioLag
BY AudioOutputAssumption DEF StartOf, OnTime

\* After at least one buffer, the end of the last one is ahead by a buffer or
\* more; after any number it is within the lag allowed and one buffer.
LEMMA AfterBounds ==
  ASSUME NEW n \in Nat, NEW t \in {Unscheduled} \cup Int
  PROVE  /\ n = 0 => After(n, t) = t
         /\ n > 0 => After(n, t) \in BufferTime..(MaxAudioLag + BufferTime)
<1> DEFINE s == CHOOSE g : IsAfter(g, n, t)
<1>1. After(n, t) = s[n] BY DEF After, IsAfter
<1>2. IsAfter(s, n, t)
  <2>1. \E g : IsAfter(g, n, t) BY AfterExists
  <2> QED BY <2>1
<1> HIDE DEF s
<1>3. \A k \in 0..n : s[k] = IF k = 0 THEN t ELSE StartOf(s[k - 1]) + BufferTime
  BY <1>2 DEF IsAfter
<1> DEFINE Ahead(x) == x \in BufferTime..(MaxAudioLag + BufferTime)
           T == {k \in 1..n : ~Ahead(s[k])}
<1>4. ASSUME T # {} PROVE FALSE
  <2>1. T \subseteq Nat OBVIOUS
  <2>2. PICK k \in T : \A m \in T : k <= m
    <3> HIDE DEF T
    <3> QED BY <1>4, <2>1, Least, Zenon
  <2>3. s[k - 1] \in {Unscheduled} \cup Int
    <3>1. CASE k = 1 BY <1>3, <3>1
    <3>2. CASE k # 1
      <4>1. k - 1 \in 1..n /\ k - 1 \notin T BY <2>2, <3>2
      <4>2. Ahead(s[k - 1]) BY <4>1
      <4> QED BY <4>2
    <3> QED BY <3>1, <3>2
  <2>4. s[k] = StartOf(s[k - 1]) + BufferTime BY <1>3, <2>2
  <2>5. StartOf(s[k - 1]) \in 0..MaxAudioLag BY <2>3, StartOfBounds
  <2>6. Ahead(s[k])
    <3> DEFINE x == StartOf(s[k - 1])
    <3>1. s[k] = x + BufferTime /\ x \in 0..MaxAudioLag BY <2>4, <2>5
    <3> HIDE DEF x
    <3> QED BY <3>1, AudioOutputAssumption
  <2> QED BY <2>2, <2>6
<1>5. n > 0 => Ahead(s[n]) BY <1>4
<1> QED BY <1>1, <1>3, <1>5

\* What feed leaves of lead; the buffers it fills are at least one when the
\* samples are those of a buffer or more.
LEMMA FeedTimes ==
  ASSUME TypeOK, LatencyBounded, NEW size \in Chunks, feed(size)
  PROVE  /\ LatencyBounded'
         /\ samplesCount + size >= BufferTime => lead' >= BufferTime
<1> DEFINE c == samplesCount + size
           n == c \div BufferTime
<1>1. c \in Nat /\ BufferTime \in Nat \ {0} BY AudioOutputAssumption DEF TypeOK
<1>2. n \in Nat /\ (c >= BufferTime => n > 0)
  <2> HIDE DEF c
  <2> QED BY <1>1
<1>3. lead' = After(n, lead) BY DEF feed
<1>4. lead \in {Unscheduled} \cup Int /\ MaxAudioLag \in Nat
  BY AudioOutputAssumption DEF LatencyBounded
<1>5. n = 0 => lead' = lead BY <1>2, <1>3, <1>4, AfterBounds
<1>6. n > 0 => lead' \in BufferTime..(MaxAudioLag + BufferTime)
  BY <1>2, <1>3, <1>4, AfterBounds
<1> HIDE DEF n
<1>7. LatencyBounded'
  <2>1. CASE n = 0 BY <1>5, <2>1 DEF LatencyBounded
  <2>2. CASE n > 0 BY <1>1, <1>4, <1>6, <2>2 DEF LatencyBounded
  <2> QED BY <1>2, <2>1, <2>2
<1>8. ASSUME c >= BufferTime PROVE lead' >= BufferTime BY <1>1, <1>2, <1>4, <1>6, <1>8
<1> QED BY <1>7, <1>8

LEMMA LatencyStep == TypeOK /\ LatencyBounded /\ [Next]_vars => LatencyBounded'
<1> SUFFICES ASSUME TypeOK, LatencyBounded, [Next]_vars PROVE LatencyBounded' OBVIOUS
<1> USE DEF LatencyBounded, player, page, unmute, context
<1>1. CASE start \/ feedMisaligned BY <1>1 DEF start, feedMisaligned
<1>2. ASSUME NEW size \in Chunks, feed(size) PROVE LatencyBounded' BY <1>2, FeedTimes
<1>3. CASE Tick BY <1>3, AudioOutputAssumption DEF Tick
<1>4. CASE stop \/ Done \/ Interrupted \/ statechange
  BY <1>4 DEF stop, Done, Interrupted, statechange
<1>5. CASE visibilitychange \/ focusChange \/ mediaPlaybackEvent
  BY <1>5 DEF visibilitychange, focusChange, mediaPlaybackEvent, updatePlaybackState
<1>6. CASE ChannelPlays \/ destroyChannelTag \/ UNCHANGED vars
  BY <1>6 DEF ChannelPlays, destroyChannelTag, vars
<1> QED BY <1>1, <1>2, <1>3, <1>4, <1>5, <1>6 DEF Next

\* The next buffer is never further ahead than the lag allowed and one buffer,
\* and no buffer is ever scheduled in the past: for any sizes of the messages,
\* wherever the clock and the suspensions leave the start time between them.
THEOREM PlayedInTime == Spec => InTime
<1>1. Init => LatencyBounded BY DEF Init, LatencyBounded
<1>2. Spec => [](TypeOK /\ LatencyBounded)
  BY <1>1, InitTypeOK, StepTypeOK, LatencyStep, PTL DEF Spec
<1>3. TypeOK /\ LatencyBounded /\ [Next]_vars
      => [\A size \in Chunks : feed(size) /\ samplesCount + size >= BufferTime
            => lead' >= BufferTime]_vars
  BY FeedTimes
<1> QED BY <1>2, <1>3, PTL DEF Spec, InTime, NeverInThePast
=============================================================================
