------------------------------- MODULE Router -------------------------------
(***************************************************************************)
(* One router of modules/ez_p2p: what it does with the frames that reach   *)
(* it, and how it keeps greeting its seeds.  A sender repeats a frame it   *)
(* could not send (_send_to_addr, and once more per call inside            *)
(* TcpTransport.send) with the same msg_id and timestamp, so the frame may *)
(* arrive several times, and late; the receiver remembers the identifiers  *)
(* of a window of time.                                                    *)
(*                                                                         *)
(* Time is relative: age is how long ago, on the receiver's clock, the     *)
(* timestamp of a message lies; it is negative when the sender's clock is  *)
(* ahead.  Signatures, versions, sizes and the handlers' own work are left *)
(* out, and so is the table of peers.                                      *)
(***************************************************************************)
EXTENDS Integers, FiniteSets

CONSTANTS Msgs, Seeds,
          Window,       \* dedup_window_ms
          Skew,         \* _clock_future_skew_ms
          Skews,        \* how far senders' clocks may be ahead
          Retries,      \* retry_count
          Base, Longest,\* seed_retry_base_sec, seed_retry_max_sec
          MaxSteps, MaxStops

VARIABLES sent,         \* the attempts made with each message, by its sender
          age, wire,    \* its timestamp's age, and its copies on the way
          seen,         \* _seen_msg_ids
          handled,      \* how often this process has handled it (a history)
          stepped,      \* the clock has been set back (a history)
          reach,        \* the seeds that can be reached
          failures, retryIn,
          stops

routerVars == <<sent, age, wire, seen, handled, stepped, reach, failures, retryIn, stops>>

Unsent == 0
Done == Retries + 2

Init ==
    /\ sent = [m \in Msgs |-> Unsent] /\ age = [m \in Msgs |-> 0] /\ wire = [m \in Msgs |-> 0]
    /\ seen = {} /\ handled = [m \in Msgs |-> 0] /\ stepped = 0
    /\ reach \in SUBSET Seeds
    /\ failures = [s \in Seeds |-> 0] /\ retryIn = [s \in Seeds |-> 0]
    /\ stops = 0

-----------------------------------------------------------------------------
(* Senders *)

\* _encode_outbound_message: the frame gets its timestamp once.
Encode(m) ==
    /\ sent[m] = Unsent
    /\ sent' = [sent EXCEPT ![m] = 1]
    /\ \E k \in Skews : age' = [age EXCEPT ![m] = -k]
    /\ UNCHANGED <<wire, seen, handled, stepped, reach, failures, retryIn, stops>>

\* One attempt of _send_to_addr: the transport writes the frame to a socket it
\* has, and to a fresh one if that fails.  A frame may be on its way although
\* the attempt failed or timed out; then it is made again.
Attempt(m) ==
    /\ sent[m] \in 1..(Retries + 1)
    /\ \E copies \in 0..2 :
         /\ wire' = [wire EXCEPT ![m] = @ + copies]
         /\ \/ sent' = [sent EXCEPT ![m] = @ + 1]
            \/ copies > 0 /\ sent' = [sent EXCEPT ![m] = Done]
    /\ UNCHANGED <<age, seen, handled, stepped, reach, failures, retryIn, stops>>

-----------------------------------------------------------------------------
(* The receiver *)

\* Mutant: an identifier is forgotten while its message is still accepted.
EvictedEarly(ids) == {m \in ids : age[m] < Window}

\* _evict_old_msg_ids
Evicted(ids) == {m \in ids : age[m] <= Window}

\* _is_replay_or_duplicate
Refused(m) == m \in Evicted(seen) \/ age[m] > Window \/ age[m] < -Skew

\* _on_frame
Deliver(m) ==
    /\ wire[m] > 0
    /\ wire' = [wire EXCEPT ![m] = @ - 1]
    /\ IF Refused(m)
       THEN seen' = Evicted(seen) /\ UNCHANGED handled
       ELSE /\ seen' = Evicted(seen) \cup {m}
            /\ handled' = [handled EXCEPT ![m] = @ + 1]
    /\ UNCHANGED <<sent, age, stepped, reach, failures, retryIn, stops>>

\* min(max, base * 2^min(failures - 1, 10))
Shorter(x, y) == IF x <= y THEN x ELSE y
Backoff(n) == Shorter(Longest, Base * 2 ^ Shorter(n - 1, 10))

\* _maintenance_once: eviction, then a HELLO to every seed that is due.
Due == {s \in Seeds : retryIn[s] = 0}
Maintain ==
    /\ seen' = Evicted(seen)
    \* counting failures beyond the longest backoff changes nothing
    /\ failures' = [s \in Seeds |->
                      IF s \notin Due THEN failures[s]
                      ELSE IF s \in reach THEN 0 ELSE Shorter(failures[s] + 1, Longest)]
    /\ retryIn' = [s \in Seeds |->
                     IF s \notin Due THEN retryIn[s]
                     ELSE IF s \in reach THEN Base ELSE Backoff(failures'[s])]
    /\ UNCHANGED <<sent, age, wire, handled, stepped, reach, stops>>

\* A HELLO or WELCOME from a seed's own address (_seed_mark_success).
Heard(s) ==
    /\ s \in reach
    /\ failures' = [failures EXCEPT ![s] = 0]
    /\ retryIn' = [retryIn EXCEPT ![s] = Base]
    /\ UNCHANGED <<sent, age, wire, seen, handled, stepped, reach, stops>>

\* The process stops and starts: what it has seen is forgotten, and its seeds
\* are greeted at once (start).
Restart ==
    /\ stops < MaxStops
    /\ stops' = stops + 1
    /\ seen' = {} /\ handled' = [m \in Msgs |-> 0]
    /\ failures' = [s \in Seeds |-> IF s \in reach THEN 0 ELSE 1]
    /\ retryIn' = [s \in Seeds |-> IF s \in reach THEN Base ELSE Backoff(1)]
    /\ UNCHANGED <<sent, age, wire, stepped, reach>>

-----------------------------------------------------------------------------
(* The world *)

\* A unit of time passes.  What is older than the window counts as just older,
\* however old it is.
Tick ==
    /\ age' = [m \in Msgs |-> IF sent[m] = Unsent THEN 0 ELSE Shorter(age[m] + 1, Window + 1)]
    /\ retryIn' = [s \in Seeds |-> IF retryIn[s] = 0 THEN 0 ELSE retryIn[s] - 1]
    /\ UNCHANGED <<sent, wire, seen, handled, stepped, reach, failures, stops>>

\* The wall clock is set back (time.time is not monotonic; the seeds' timers
\* are): by a unit, or by as much as makes an old message as old as the window.
StepBack ==
    /\ stepped < MaxSteps
    /\ stepped' = stepped + 1
    /\ age' = [m \in Msgs |-> IF sent[m] = Unsent THEN 0 ELSE age[m] - 1]
    /\ UNCHANGED <<sent, wire, seen, handled, reach, failures, retryIn, stops>>

Change(s) ==
    /\ reach' \in {reach \cup {s}, reach \ {s}}
    /\ reach' # reach
    /\ UNCHANGED <<sent, age, wire, seen, handled, stepped, failures, retryIn, stops>>

Next ==
    \/ \E m \in Msgs : Encode(m) \/ Attempt(m) \/ Deliver(m)
    \/ \E s \in Seeds : Heard(s) \/ Change(s)
    \/ Maintain \/ Restart \/ Tick \/ StepBack

Spec == Init /\ [][Next]_routerVars /\ WF_routerVars(Tick) /\ WF_routerVars(Maintain)

-----------------------------------------------------------------------------
\* A process handles a message once, whatever its sender repeats, however late
\* the copies are, however far ahead the sender's clock is, and whenever the
\* identifiers are evicted (_is_replay_or_duplicate, _evict_old_msg_ids).
HandledOnce == \A m \in Msgs : handled[m] <= 1

\* That needs a clock that is never set back: one step makes a message young
\* again whose identifier is gone.  Until then, no step handles a message that
\* this process has handled.
HandledOnceUnlessStepped ==
    [][\A m \in Msgs : stepped = 0 /\ handled'[m] > handled[m] => handled[m] = 0]_routerVars

\* A seed that can be reached again is greeted again: no backoff grows beyond
\* its bound (_attempt_seed_hello).
SeedsGreeted == \A s \in Seeds : <>[](s \in reach) => <>[](failures[s] = 0)
=============================================================================
