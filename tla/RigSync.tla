------------------------------ MODULE RigSync ------------------------------
(***************************************************************************)
(* Rig control of the desktop client: a double-clicked spot tunes the      *)
(* transceiver through flrig (FlrigSync in client/flrig.go, as main.go     *)
(* uses it: the direction is always "sdr-to-rig").  A click arms a timer   *)
(* that replaces the one before; when it fires, a goroutine sends what has *)
(* changed since the last push.  Another goroutine connects, polls the     *)
(* rig, and connects again.  The UI thread clicks, switches the feature on *)
(* and off and stops it when the window closes.  Each critical section and *)
(* each request to flrig is one step.                                      *)
(***************************************************************************)
EXTENDS SpotLine

CONSTANTS Flusher,   \* timers; one that has run can be armed again
          DialSettings, \* what the operator may set the rig to by hand
          MaxEvents, \* bound: clicks, turns of the dial, switches of the rig or the feature
          PatientClose \* the window stays open until the loop has taken its stop channel

ASSUME SyncAssumption ==
  /\ MaxEvents \in Nat /\ PatientClose \in BOOLEAN
  /\ DialSettings \subseteq [hz : Int, mode : STRING]

VARIABLES enabled, connected,
          lastFlrig, \* frequency and mode last read from the rig; Unknown before
          lastSdr,   \* frequency and mode last sent to it
          pending,   \* pendingSdrFreq, pendingSdrMode
          handle,    \* debounceTimer: the timer that Stop would reach, {} when nil
          flush,     \* flush[f]: what the function of timer f does and holds
          loop,      \* where runLoop is
          readHz,    \* the frequency the running poll has read
          uiThread,  \* the UI thread: between the two locks of Configure, in Stop
          stopCh,    \* the stop channel: open, closed, or lost to a loop that began after Stop
          rig,       \* external: the rig's frequency and mode
          up,        \* external: whether flrig answers
          events,
          asked,     \* history: the spot clicked last
          fate,      \* history: how the rig came by its frequency and by its mode
          alone,     \* history: the push begun last met no other under way
          fresh      \* history: the rig was read since the last connect

config == <<enabled, connected, uiThread>>
push == <<lastSdr, pending, handle, flush>>
poll == <<lastFlrig, loop, readHz, fresh>>
world == <<rig, up, events>>
past == <<asked, fate, alone>>
rigVars == <<config, push, poll, stopCh, world, past>>

Unknown == [hz |-> 0, mode |-> NoMode]
Idle == [pc |-> "idle", val |-> Unknown, setHz |-> FALSE, setMode |-> FALSE]

\* sdrToFlrig
FlrigMode == [usb |-> "USB", lsb |-> "LSB", cwu |-> "CW", cwl |-> "CWR"]

\* A setting of the rig is "pushed" when a push delivered it and nothing has
\* happened to it since.  It is "off" once the dial was turned, another rig
\* configured, the request for it failed or was never sent because the one
\* before it failed, or two pushes overlapped; "left", if all that was before
\* the last click.
Setting == {"hz", "mode"}
Off(S) == [k \in Setting |-> IF k \in S THEN "off" ELSE fate[k]]
Leave == [k \in Setting |-> IF fate[k] = "off" THEN "left" ELSE fate[k]]

RigInit ==
  /\ enabled \in BOOLEAN /\ connected = FALSE
  /\ lastFlrig = Unknown /\ lastSdr = Unknown /\ pending = Unknown
  /\ handle = {} /\ flush = [f \in Flusher |-> Idle]
  /\ loop = "begin" /\ readHz = 0 /\ uiThread = "idle" /\ stopCh = "open"
  /\ rig \in DialSettings /\ up \in BOOLEAN /\ events = 0
  /\ asked = {} /\ fate = [k \in Setting |-> "left"] /\ alone = TRUE /\ fresh = FALSE

Event == events < MaxEvents /\ events' = events + 1

\* Timers whose function is past its first lock.
Pushing == {f \in Flusher : flush[f].pc \in {"taken", "setHz", "setMode"}}

-----------------------------------------------------------------------------
(* The UI thread.                                                          *)

\* Stop of a timer that has not fired.
Disarmed == [f \in Flusher |-> IF f \in handle /\ flush[f].pc = "armed" THEN Idle ELSE flush[f]]

Arm(f) == flush' = [Disarmed EXCEPT ![f] = [Idle EXCEPT !.pc = "armed"]] /\ handle' = {f}

\* Faulty: the timer before goes on running and the values are not replaced.
PushSDRStateKeepsFirst(to, f) ==
  /\ IF handle = {} THEN Arm(f) /\ pending' = to ELSE UNCHANGED <<flush, handle, pending>>
  /\ UNCHANGED lastSdr

PushSDRState(to, f) == Arm(f) /\ pending' = to /\ UNCHANGED lastSdr

\* A double click on the line of a spot; a digital one does nothing.
DoubleTap(s, f) ==
  LET to == ParseSpotLine(FormatDXCluster(s))
  IN  /\ uiThread = "idle" /\ Event
      /\ enabled /\ connected /\ to.mode # NoMode
      /\ flush[f].pc = "idle" \/ (f \in handle /\ flush[f].pc = "armed")
      /\ PushSDRState(to, f)
      /\ asked' = {s} /\ fate' = Leave
      /\ UNCHANGED <<config, poll, stopCh, rig, up, alone>>

\* Save of the flrig dialog, or a reset of the preferences.  Host and port may
\* name another rig; what is known of the one before is kept.
Configure(on, another) ==
  /\ uiThread = "idle" /\ Event
  /\ enabled' = on
  /\ uiThread' = IF enabled /\ ~on THEN "disabling" ELSE "idle"
  /\ IF another THEN rig' \in DialSettings /\ up' \in BOOLEAN /\ fate' = Off(Setting)
                ELSE on # enabled /\ UNCHANGED <<rig, up, fate>>
  /\ UNCHANGED <<connected, push, poll, stopCh, asked, alone>>

MarkDisconnected ==
  /\ uiThread = "disabling"
  /\ connected' = FALSE /\ uiThread' = "idle"
  /\ UNCHANGED <<enabled, push, poll, stopCh, world, past>>

\* Faulty: the channel is dropped and not closed.
StopForgets ==
  /\ uiThread = "idle" /\ (PatientClose => loop # "begin")
  /\ uiThread' = "stopping"
  /\ flush' = Disarmed /\ handle' = {}
  /\ UNCHANGED <<enabled, connected, lastSdr, pending, poll, stopCh, world, past>>

\* The window is closed: Stop, up to the wait for the loop.
Stop ==
  /\ uiThread = "idle" /\ (PatientClose => loop # "begin")
  /\ uiThread' = "stopping"
  /\ flush' = Disarmed /\ handle' = {}
  /\ stopCh' = "closed"
  /\ UNCHANGED <<enabled, connected, lastSdr, pending, poll, world, past>>

StopReturnsFromWait ==
  /\ uiThread = "stopping" /\ loop = "ended" /\ uiThread' = "closed"
  /\ UNCHANGED <<enabled, connected, push, poll, stopCh, world, past>>

-----------------------------------------------------------------------------
(* flushSDRToRig.                                                          *)

Goto(f, pc) == flush' = [flush EXCEPT ![f].pc = pc]

Fire(f) ==
  /\ flush[f].pc = "armed" /\ Goto(f, "fired")
  /\ UNCHANGED <<config, lastSdr, pending, handle, poll, stopCh, world, past>>

\* The first critical section.  It forgets whichever timer is armed, its own
\* or a newer one.
Take(f) ==
  /\ flush[f].pc = "fired" /\ pending.hz # 0
  /\ flush' = [flush EXCEPT ![f].pc = "taken", ![f].val = pending]
  /\ handle' = {}
  /\ alone' = (Pushing = {})
  /\ fate' = IF Pushing = {} THEN fate ELSE Off(Setting)
  /\ UNCHANGED <<config, lastSdr, pending, poll, stopCh, world, asked>>

\* What a value changes against the one last sent.
Changes(val) ==
  [hz |-> lastSdr.hz = 0 \/ val.hz # lastSdr.hz,
   mode |-> FlrigMode[val.mode] # lastSdr.mode]

\* The second critical section: the changes are stamped before they are sent.
Stamp(f) ==
  LET ch == Changes(flush[f].val)
      next == IF ch.hz THEN "setHz" ELSE IF ch.mode THEN "setMode" ELSE "idle"
  IN  /\ flush[f].pc = "taken"
      /\ lastSdr' = [hz |-> IF ch.hz THEN flush[f].val.hz ELSE lastSdr.hz,
                     mode |-> IF ch.mode THEN FlrigMode[flush[f].val.mode] ELSE lastSdr.mode]
      /\ flush' = [flush EXCEPT ![f] = IF next = "idle" THEN Idle
                    ELSE [@ EXCEPT !.pc = next, !.setHz = ch.hz, !.setMode = ch.mode]]
      /\ UNCHANGED <<config, pending, handle, poll, stopCh, world, past>>

\* A request to the rig: it is carried out and answered, carried out although
\* the answer is lost, or not carried out; the last two return an error,
\* which ends the push.
SetRig(f, field, value, next) ==
  \E done, answered \in BOOLEAN :
    /\ done => up
    /\ answered => done
    /\ rig' = IF done THEN [rig EXCEPT ![field] = value] ELSE rig
    /\ fate' = LET spoiled == IF next = "setMode" /\ ~answered THEN {field, "mode"} ELSE {field}
               IN  IF done /\ alone THEN [Off(spoiled) EXCEPT ![field] = "pushed"] ELSE Off(spoiled)
    /\ flush' = [flush EXCEPT ![f] = IF ~answered \/ next = "idle" THEN Idle
                                     ELSE [@ EXCEPT !.pc = next]]
    /\ UNCHANGED <<config, lastSdr, pending, handle, poll, stopCh, up, events, asked, alone>>

SetFreq(f) ==
  /\ flush[f].pc = "setHz"
  /\ SetRig(f, "hz", flush[f].val.hz, IF flush[f].setMode THEN "setMode" ELSE "idle")

SetMode(f) ==
  /\ flush[f].pc = "setMode"
  /\ SetRig(f, "mode", FlrigMode[flush[f].val.mode], "idle")

Flush(f) == Take(f) \/ Stamp(f) \/ SetFreq(f) \/ SetMode(f)

-----------------------------------------------------------------------------
(* runLoop.                                                                *)

LoopTo(place) ==
  /\ loop' = place
  /\ UNCHANGED <<enabled, uiThread, push, world, past>>

\* The loop takes its stop channel; Stop may have set it to nil by now, and
\* then nothing ends the loop.
LoopBegins ==
  /\ loop = "begin"
  /\ LoopTo("start")
  /\ stopCh' = IF stopCh = "closed" THEN "lost" ELSE "open"
  /\ UNCHANGED <<connected, lastFlrig, readHz, fresh>>

\* The first attempt to connect, at once.
StartConnect ==
  /\ loop = "start" /\ LoopTo(IF enabled THEN "test" ELSE "select")
  /\ UNCHANGED <<connected, stopCh, lastFlrig, readHz, fresh>>

ReconnectTick ==
  /\ loop = "select" /\ enabled /\ ~connected /\ LoopTo("test")
  /\ UNCHANGED <<connected, stopCh, lastFlrig, readHz, fresh>>

PollTick ==
  /\ loop = "select" /\ enabled /\ connected /\ LoopTo("getHz")
  /\ UNCHANGED <<connected, stopCh, lastFlrig, readHz, fresh>>

StopSeen ==
  /\ loop = "select" /\ stopCh = "closed" /\ LoopTo("ended")
  /\ UNCHANGED <<connected, stopCh, lastFlrig, readHz, fresh>>

\* Faulty: what was read before the link broke is kept.
TryConnectKeepsReading ==
  /\ loop = "test" /\ LoopTo("select")
  /\ connected' = up /\ fresh' = FALSE
  /\ UNCHANGED <<stopCh, lastFlrig, readHz>>

\* system.listMethods is answered, or it is not.
TryConnect ==
  /\ loop = "test" /\ LoopTo("select")
  /\ connected' = (up \/ connected)
  /\ IF up THEN lastFlrig' = Unknown /\ fresh' = FALSE ELSE UNCHANGED <<lastFlrig, fresh>>
  /\ UNCHANGED <<stopCh, readHz>>

\* Faulty: the loop returns on a failed poll.
LoseConnectionReturns ==
  /\ loop \in {"getHz", "getMode"} /\ ~up
  /\ connected' = FALSE /\ LoopTo("ended")
  /\ UNCHANGED <<stopCh, lastFlrig, readHz, fresh>>

LoseConnection ==
  /\ loop \in {"getHz", "getMode"} /\ ~up
  /\ connected' = FALSE /\ LoopTo("select")
  /\ UNCHANGED <<stopCh, lastFlrig, readHz, fresh>>

GetFreq ==
  /\ loop = "getHz" /\ up
  /\ readHz' = rig.hz /\ LoopTo("getMode")
  /\ UNCHANGED <<connected, stopCh, lastFlrig, fresh>>

\* The mode is read, and both values are kept.
GetMode ==
  /\ loop = "getMode" /\ up
  /\ lastFlrig' = [hz |-> readHz, mode |-> rig.mode]
  /\ fresh' = TRUE /\ readHz' = 0 /\ LoopTo("select")
  /\ UNCHANGED <<connected, stopCh>>

Poll == LoseConnection \/ GetFreq \/ GetMode
Loop == LoopBegins \/ StartConnect \/ ReconnectTick \/ PollTick \/ TryConnect \/ Poll

-----------------------------------------------------------------------------
(* The rig and its operator (external).                                    *)

TurnDial(d) ==
  /\ Event /\ rig' = d /\ rig # d
  /\ fate' = Off({k \in Setting : d[k] # rig[k]})
  /\ UNCHANGED <<config, push, poll, stopCh, up, asked, alone>>

SwitchRig ==
  /\ Event /\ up' = ~up
  /\ UNCHANGED <<config, push, poll, stopCh, rig, past>>

-----------------------------------------------------------------------------

UI == \/ \E s \in Spots, f \in Flusher : DoubleTap(s, f)
      \/ \E on, another \in BOOLEAN : Configure(on, another)
      \/ MarkDisconnected \/ Stop \/ StopReturnsFromWait

RigNext ==
  \/ UI
  \/ \E f \in Flusher : Fire(f) \/ Flush(f)
  \/ Loop \/ StopSeen
  \/ \E d \in DialSettings : TurnDial(d)
  \/ SwitchRig

RigSpec == RigInit /\ [][RigNext]_rigVars

\* Both goroutines run, requests end within their time limit, and select
\* picks among its ready channels at random, so that a closed stop channel
\* is not passed over for ever.  Nothing is assumed of user and rig.
RigFairSpec ==
  /\ RigSpec
  /\ WF_rigVars(Loop) /\ SF_rigVars(StopSeen)
  /\ WF_rigVars(MarkDisconnected) /\ WF_rigVars(StopReturnsFromWait)
  /\ \A f \in Flusher : WF_rigVars(Fire(f)) /\ WF_rigVars(Flush(f))

-----------------------------------------------------------------------------
(* Properties.                                                             *)

RigTypeOK ==
  /\ {enabled, connected, up, alone, fresh} \subseteq BOOLEAN
  /\ handle \subseteq Flusher /\ events \in 0..MaxEvents
  /\ {pending} \cup {flush[f].val : f \in Flusher} \subseteq
       {Unknown} \cup {ParseSpotLine(FormatDXCluster(s)) : s \in Spots}
  /\ asked \subseteq Spots /\ fate \in [Setting -> {"pushed", "off", "left"}]
  /\ stopCh \in {"open", "closed", "lost"}
  /\ loop \in {"begin", "start", "select", "test", "getHz", "getMode", "ended"}
  /\ uiThread \in {"idle", "disabling", "stopping", "closed"}

\* Where and how a spot is worked, from the spot itself and not its line:
\* CW, also when a comment names its speed, by the sideband convention, voice
\* as it was heard, the rest on the sideband of the band; digital spots and
\* free texts that look like one are not tuned to.  The limit between low and
\* high bands, where no band is, moves with the line's rounding.
WantedMode(s) ==
  LET high == s.hz + 50 >= TenMHz
      byEar == (s.stream = "cwskimmer" /\ s.mode = "CW") \/ (s.stream = "cluster" /\ Has(s.text, "WPM"))
  IN  CASE byEar -> IF high THEN "CW" ELSE "CWR"
        [] s.stream = "voice" -> s.mode
        [] ~byEar /\ s.stream = "cluster" /\ s.text # <<>> /\ s.text[1] \in {"USB", "LSB"} -> s.text[1]
        [] OTHER -> IF high THEN "USB" ELSE "LSB"

AtRest == uiThread \in {"idle", "disabling"} /\ \A f \in Flusher : flush[f].pc = "idle"

\* The settings of the rig that are the last clicked spot's: its frequency
\* within the line's rounding, the mode of its stream.
Follows(s) == {k \in Setting : IF k = "hz" THEN rig.hz - s.hz \in -50..50
                                         ELSE rig.mode = WantedMode(s)}

\* When no push is under way, whatever of the rig a push delivered and nobody
\* has disturbed since is the spot's that was clicked last, and not an
\* earlier one's: timers that are replaced, cancelled or late, a request that
\* failed before and a setting that is not sent again because it did not
\* change never leave it with another click (flrig.go:255, flrig.go:281).
RigFollowsClicks ==
  /\ RigTypeOK
  /\ AtRest => \A s \in asked :
       s.stream # "decoder" /\ {k \in Setting : fate[k] = "pushed"} \subseteq Follows(s)

\* "Double-clicking a spot line pushes the frequency and mode to flrig"
\* (main.go:1478): when the pushes are done, the rig is where the last click
\* put it, save for what went wrong or was turned after that click.  It is
\* not: a click does not send again what was sent for the click before, even
\* if that failed or the dial was turned in between (flrig.go:281-291).
ClickTunesRig ==
  AtRest => \A s \in asked : {k \in Setting : fate[k] # "off"} \subseteq Follows(s)

\* A frequency offered to the spot dialog (GetLastFreqKHz) was read after the
\* link last came up (flrig.go:393); from another rig than the one configured
\* only if that was changed while the link was up.
DialogFresh == (enabled /\ connected /\ lastFlrig.hz # 0) => fresh

\* A rig that stays reachable while the feature stays on ends up connected.
LinkRecovers ==
  <>[](enabled /\ up /\ uiThread = "idle") => <>[]connected

\* Closing the window ends the loop, whatever request is under way.
StopRigReturns == uiThread = "stopping" ~> uiThread = "closed"
=============================================================================
