------------------------------ MODULE RiseRate ------------------------------
(***************************************************************************)
(* The humidity-rise detector shared by the controller's methods: the last *)
(* RiseBufferSize valid samples, newest first, and the two-point slope     *)
(* taken over those inside the window.  The ring buffer of the code (slots,*)
(* head, count) is abstracted to the sequence of the samples it holds.     *)
(***************************************************************************)
EXTENDS MillisClock, Sequences

CONSTANTS RiseEnabled,      \* rise_rate_detection_enabled
          RiseThreshold,    \* rise_rate_threshold_percent_per_minute
          RiseWindow,       \* rise_rate_window_ms
          RiseMinSamples,   \* rise_rate_min_valid_samples
          RiseBufferSize,   \* kRiseRateBufferSize
          Minute            \* one minute in the clock's unit

ASSUME RiseRateAssumption ==
  /\ RiseEnabled \in BOOLEAN
  /\ RiseThreshold \in Int
  /\ RiseWindow \in UInt32
  /\ RiseMinSamples \in Nat
  /\ RiseBufferSize \in Nat \ {0}
  /\ Minute \in Nat \ {0}

RiseSample == [time : UInt32, humidity : Int]

\* UpdateRiseRateBuffer: the new sample replaces the oldest one when full.
UpdateRiseRateBuffer(buffer, humidity, now) ==
  LET kept == IF Len(buffer) < RiseBufferSize THEN Len(buffer)
                                              ELSE RiseBufferSize - 1
  IN  IF RiseEnabled
        THEN <<[time |-> now, humidity |-> humidity]>> \o SubSeq(buffer, 1, kept)
        ELSE buffer

\* The walk from the newest sample stops at the first one out of the window,
\* so what it has seen is the longest run of samples inside it.
IsWindowRun(buffer, now, n) ==
  \A i \in 1 .. n : SaturatingSub(now, buffer[i].time) <= RiseWindow

\* The slope is compared without division: rate >= threshold per minute.
RiseRateTriggered(buffer, now) ==
  /\ RiseEnabled
  /\ \E n \in 1 .. Len(buffer) :
       /\ IsWindowRun(buffer, now, n)
       /\ n = Len(buffer) \/ ~IsWindowRun(buffer, now, n + 1)
       /\ n >= RiseMinSamples
       /\ LET elapsed == SaturatingSub(buffer[1].time, buffer[n].time)
              rise    == buffer[1].humidity - buffer[n].humidity
          IN  elapsed > 0 /\ rise * Minute >= RiseThreshold * elapsed

=============================================================================
