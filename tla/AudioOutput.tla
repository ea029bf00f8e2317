---------------------------- MODULE AudioOutput ----------------------------
(***************************************************************************)
(* The sound of the page: the player that cuts the stream into buffers and *)
(* schedules them (app/pcm-player.js), and the helper that resumes and     *)
(* suspends the audio context they share (app/unmute.js).                  *)
(*                                                                         *)
(* Time is counted in ticks of 5 ms and relative to the clock of the       *)
(* context: lead is startTime - currentTime.  The context is external:     *)
(* resume() and suspend() take effect later, and then tell "statechange".  *)
(***************************************************************************)
EXTENDS Integers

CONSTANTS
  BufferTime,   \* bufferAudioTime, in ticks
  Margin,       \* the 0.005 s of flush, in ticks
  MaxAudioLag,  \* maxAudioLag, in ticks
  Unscheduled,  \* startTime = 0
  Chunks        \* bound of the model: sizes of the messages, in ticks of sound

ASSUME AudioOutputAssumption ==
  /\ BufferTime \in Nat \ {0} /\ Margin \in Nat /\ MaxAudioLag \in Nat
  /\ Margin <= MaxAudioLag /\ Unscheduled \notin Int /\ Chunks \subseteq Nat \ {0}

VARIABLES
  started, samplesCount, \* of the player; samplesCount in ticks
  lead,          \* startTime - currentTime, -1 once it is in the past, or Unscheduled
  isIOS, allowPlayback, hasMediaPlaybackEventOccurred, channelTag,
  hidden, focused, \* of the document
  state,         \* of the context: "running" or not ("suspended")
  asked,         \* what the context was asked last: "resume", "suspend" or "none"
  told           \* FALSE: its statechange is yet to come

player  == <<started, samplesCount, lead>>
page    == <<isIOS, hidden, focused>>
unmute  == <<allowPlayback, hasMediaPlaybackEventOccurred, channelTag>>
context == <<state, asked, told>>
vars == <<player, page, unmute, context>>

-----------------------------------------------------------------------------
(* The player.                                                             *)

\* Where flush finds startTime: what was missed or lags too much is dropped.
\* Mutant: a start time that was missed is used.
MutOnTime(t) == IF t # Unscheduled /\ t > MaxAudioLag THEN Unscheduled ELSE t

OnTime(t) ==
  IF t # Unscheduled /\ (t < 0 \/ t > MaxAudioLag) THEN Unscheduled ELSE t

\* When flush plays a buffer.
StartOf(t) == IF OnTime(t) = Unscheduled THEN Margin ELSE OnTime(t)

\* startTime after n flushes, one after the other, from t.
After(n, t) ==
  LET s[k \in 0..n] == IF k = 0 THEN t ELSE StartOf(s[k - 1]) + BufferTime IN s[n]

start ==
  /\ ~started /\ started' = TRUE /\ samplesCount' = 0 /\ lead' = Unscheduled
  /\ UNCHANGED <<page, unmute, context>>

stop ==
  /\ started /\ started' = FALSE
  /\ UNCHANGED <<samplesCount, lead, page, unmute, context>>

Listens == started /\ state = "running"

\* What stays in the buffer of that many samples.
Left(count) == count % BufferTime

\* feed: every full buffer is flushed.
feed(size) ==
  /\ Listens
  /\ samplesCount' = Left(samplesCount + size)
  /\ lead' = After((samplesCount + size) \div BufferTime, lead)
  /\ UNCHANGED <<started, page, unmute, context>>

\* feed of data that ends in the middle of a sample.
feedMisaligned ==
  /\ Listens /\ lead' = Unscheduled
  /\ UNCHANGED <<started, samplesCount, page, unmute, context>>

\* The clock of the context.
Tick ==
  /\ state = "running" /\ lead \notin {Unscheduled, -1} /\ lead' = lead - 1
  /\ UNCHANGED <<started, samplesCount, page, unmute, context>>

-----------------------------------------------------------------------------
(* The context.                                                            *)

\* updateContextState, with the playback allowed or not.
updateContextState(allow, occurred, now) ==
  asked' = IF allow /\ occurred /\ now # "running" THEN "resume"
           ELSE IF ~allow /\ now = "running" THEN "suspend" ELSE asked

\* The context does what it was asked; it does not resume before the user
\* touched the page.
Done ==
  /\ told /\ asked # "none" /\ (asked = "resume" => hasMediaPlaybackEventOccurred)
  /\ asked' = "none"
  /\ state' = IF asked = "resume" THEN "running" ELSE "suspended"
  /\ told' = (state' = state)
  /\ UNCHANGED <<player, page, unmute>>

\* The system takes the sound away, for a call.
Interrupted ==
  /\ told /\ state = "running" /\ state' = "suspended" /\ told' = FALSE
  /\ UNCHANGED <<player, page, unmute, asked>>

\* Mutant: what was fed stays.
MutCleared == FALSE

\* The listener of the player drops what it has when the sound is off.
Cleared == state # "running"

\* Mutant: the state the context got is taken as it is.
Mutcontext_statechange == UNCHANGED asked

\* The listener of unmute checks again whether that state is wanted.
context_statechange == updateContextState(allowPlayback, hasMediaPlaybackEventOccurred, state)

\* statechange, for both listeners.
statechange ==
  /\ ~told /\ told' = TRUE
  /\ IF Cleared THEN lead' = Unscheduled /\ samplesCount' = 0 ELSE UNCHANGED <<lead, samplesCount>>
  /\ context_statechange
  /\ UNCHANGED <<started, page, unmute, state>>

-----------------------------------------------------------------------------
(* The page goes to the background and comes back.                         *)

\* By default sound goes on in the background, but on iOS.
ShouldAllowPlayback(hide, focus) == ~isIOS \/ (~hide /\ focus)

\* updateChannelState, but for a gesture: in the background the silent track,
\* which puts the sound on the media channel of iOS, is destroyed.
\* Mutant: it stays.
MutupdateChannelState(allow) == UNCHANGED channelTag

updateChannelState(allow) ==
  channelTag' = IF isIOS /\ ~allow THEN "none" ELSE channelTag

\* updatePlaybackState
updatePlaybackState(hide, focus) ==
  LET should == ShouldAllowPlayback(hide, focus)
  IN /\ allowPlayback' = should
     /\ IF should # allowPlayback
        THEN /\ updateChannelState(should)
             /\ updateContextState(should, hasMediaPlaybackEventOccurred, state)
        ELSE UNCHANGED <<channelTag, asked>>
     /\ UNCHANGED <<player, isIOS, hasMediaPlaybackEventOccurred, state, told>>

visibilitychange ==
  hidden' = ~hidden /\ focused' = focused /\ updatePlaybackState(~hidden, focused)

\* Only on iOS is the focus listened to.
focusChange ==
  /\ focused' = ~focused /\ hidden' = hidden
  /\ IF isIOS THEN updatePlaybackState(hidden, ~focused)
     ELSE UNCHANGED <<player, isIOS, unmute, context>>

\* A gesture: the silent track is made and played, and the context resumed.
mediaPlaybackEvent ==
  /\ ~hidden /\ hasMediaPlaybackEventOccurred' = TRUE
  /\ channelTag' = IF isIOS /\ allowPlayback /\ channelTag # "playing" THEN "starting" ELSE channelTag
  /\ updateContextState(allowPlayback, TRUE, state)
  /\ UNCHANGED <<player, page, allowPlayback, state, told>>

\* The silent track plays.
ChannelPlays ==
  /\ channelTag = "starting" /\ channelTag' = "playing"
  /\ UNCHANGED <<player, page, context, allowPlayback, hasMediaPlaybackEventOccurred>>

\* It could not, or the play that failed was of an earlier track.
destroyChannelTag ==
  /\ channelTag # "none" /\ channelTag' = "none"
  /\ UNCHANGED <<player, page, context, allowPlayback, hasMediaPlaybackEventOccurred>>

-----------------------------------------------------------------------------
Init ==
  /\ started = FALSE /\ samplesCount = 0 /\ lead = Unscheduled
  /\ isIOS \in BOOLEAN /\ hidden = FALSE /\ focused = TRUE
  /\ allowPlayback = TRUE /\ hasMediaPlaybackEventOccurred = FALSE /\ channelTag = "none"
  /\ state = "suspended" /\ asked = "resume" /\ told = TRUE

Next ==
  \/ start \/ stop \/ feedMisaligned \/ Tick \/ \E size \in Chunks : feed(size)
  \/ Done \/ Interrupted \/ statechange
  \/ visibilitychange \/ focusChange \/ mediaPlaybackEvent \/ ChannelPlays \/ destroyChannelTag

\* The context does what it is asked, and tells.
Fairness == SF_vars(Done) /\ WF_vars(statechange)

Spec == Init /\ [][Next]_vars

FairSpec == Spec /\ Fairness

-----------------------------------------------------------------------------
(* Properties.                                                             *)

\* The types, but for lead: see InTime.
TypeOK ==
  /\ {started, isIOS, allowPlayback, hasMediaPlaybackEventOccurred, hidden, focused, told} \subseteq BOOLEAN
  /\ samplesCount \in 0..BufferTime - 1 /\ channelTag \in {"none", "starting", "playing"}
  /\ state \in {"running", "suspended"} /\ asked \in {"none", "resume", "suspend"}

\* What is scheduled is never further ahead than the lag allowed and one
\* buffer: the sound stays close to the desktop, however the stream comes.
LatencyBounded == lead \in {Unscheduled} \cup -1..(MaxAudioLag + BufferTime)

\* A buffer is never scheduled in the past, where the browser would play it at
\* once and on top of the one before: after a flush its end is still ahead.
NeverInThePast ==
  [][\A size \in Chunks : feed(size) /\ samplesCount + size >= BufferTime => lead' >= BufferTime]_vars

\* Buffers are scheduled neither too early nor too late, whatever start time
\* the stream, the clock and the suspensions left to the next flush.
InTime == []LatencyBounded /\ NeverInThePast

\* Once it is known that the sound is off nothing of it is left to be played
\* when it comes back: neither samples nor a start time.
NothingStale == state # "running" /\ told => samplesCount = 0 /\ lead = Unscheduled

\* The silent track, and the controls iOS shows for it, exist only while the
\* page is in the foreground.
TrackInForeground == channelTag # "none" => isIOS /\ ~hidden /\ focused

\* In the foreground, and once it was touched, the page has sound again in the
\* end, even if it came back while the context was still being suspended.
Resumes ==
  (allowPlayback /\ hasMediaPlaybackEventOccurred) ~> (state = "running" \/ ~allowPlayback)

\* In the background, iOS is silent in the end, even if it went there while the
\* context was still being resumed.
Suspends == ~allowPlayback ~> (state # "running" \/ allowPlayback)

\* The sound follows the page: resume() and suspend() take effect late, and the
\* state they lead to is put right when it is no longer the one wanted.
SoundFollowsPage == Resumes /\ Suspends
=============================================================================
