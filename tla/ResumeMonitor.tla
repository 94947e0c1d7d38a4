--------------------------- MODULE ResumeMonitor ---------------------------
(***************************************************************************)
(* WatchResumes and its monitor, internal/power/resume.go: the host's      *)
(* resumes, announced by systemd-logind over D-Bus, become notifications   *)
(* in a channel of one place.                                              *)
(*                                                                         *)
(* The connection to the bus may break, and what the host does until the   *)
(* monitor has subscribed again is not announced to it: it notifies once   *)
(* after subscribing, whether the host has resumed meanwhile or not.       *)
(***************************************************************************)
EXTENDS Naturals, Sequences

CONSTANTS
  MaxResumes,   \* bound on host suspensions
  MaxBreaks     \* bound on broken connections

ASSUME ResumeMonitorAssumption == {MaxResumes, MaxBreaks} \subseteq Nat

VARIABLES
  asleep,          \* the host prepares for sleep or sleeps
  conn,            \* "none", "open"; "broken" once the bus or an error closed it
  subscribed,      \* logind's signals are routed to the connection
  wire,            \* messages on the socket: "reply", "sleep", "resume"
  signals,         \* signals queued for the monitor
  stuck,           \* the connection waits for bytes somebody else has read
  monitor,         \* "forward", "wait", "connect", "match", "subscribed", "ended"
  recoveryNeeded,  \* a notification is due after the next subscription
  resumes,         \* notifications in the channel, 0 or 1
  canceled,        \* the context is cancelled
  unseen,          \* history: the host has resumed since the daemon was last notified
  suspensions,     \* host suspensions so far
  breaks           \* broken connections so far

hostVars == <<asleep, suspensions>>
connVars == <<conn, subscribed, wire, signals, stuck>>
monitorVars == <<monitor, recoveryNeeded>>
channelVars == <<resumes, unseen>>

resumeVars == <<hostVars, connVars, monitorVars, channelVars, canceled, breaks>>

\* WatchResumes has returned: it has subscribed, or the monitor is to retry.
ResumeInit ==
  /\ asleep = FALSE
  /\ conn \in {"none", "open"}
  /\ subscribed = (conn = "open")
  /\ wire = << >>
  /\ signals = << >>
  /\ stuck = FALSE
  /\ monitor = IF conn = "open" THEN "forward" ELSE "wait"
  /\ recoveryNeeded = (conn = "none")
  /\ resumes = 0
  /\ canceled = FALSE
  /\ unseen = FALSE
  /\ suspensions = 0
  /\ breaks = 0

-----------------------------------------------------------------------------
(* The host, logind and the bus *)

Announce(signal) == wire' = IF subscribed THEN Append(wire, signal) ELSE wire

Suspend ==
  /\ ~asleep
  /\ suspensions < MaxResumes
  /\ asleep' = TRUE
  /\ suspensions' = suspensions + 1
  /\ Announce("sleep")
  /\ UNCHANGED <<conn, subscribed, signals, stuck, monitorVars, channelVars, canceled, breaks>>

Wake ==
  /\ asleep
  /\ asleep' = FALSE
  /\ unseen' = TRUE
  /\ Announce("resume")
  /\ UNCHANGED <<suspensions, conn, subscribed, signals, stuck, monitorVars, resumes,
                 canceled, breaks>>

Drop(state) ==
  /\ conn' = state
  /\ subscribed' = FALSE
  /\ wire' = << >>
  /\ stuck' = FALSE

\* The bus closes the connection, or what it sends cannot be decoded.
Break ==
  /\ conn = "open"
  /\ breaks < MaxBreaks
  /\ breaks' = breaks + 1
  /\ Drop("broken")
  /\ UNCHANGED <<hostVars, signals, monitorVars, channelVars, canceled>>

\* The connection's reader decodes a signal.
Deliver ==
  /\ conn = "open"
  /\ ~stuck
  /\ wire # << >>
  /\ Head(wire) # "reply"
  /\ signals' = Append(signals, Head(wire))
  /\ wire' = Tail(wire)
  /\ UNCHANGED <<hostVars, conn, subscribed, stuck, monitorVars, channelVars, canceled, breaks>>

\* Somebody else reads from the socket: the messages that follow make no sense.
Steal ==
  /\ conn = "open"
  /\ wire # << >>
  /\ stuck' = TRUE
  /\ UNCHANGED <<hostVars, conn, subscribed, wire, signals, monitorVars, channelVars,
                 canceled, breaks>>

Cancel ==
  /\ ~canceled
  /\ canceled' = TRUE
  /\ UNCHANGED <<hostVars, connVars, monitorVars, channelVars, breaks>>

-----------------------------------------------------------------------------
(* monitor *)

\* A notification that finds the place taken is merged with the one there.
notify == resumes' = 1 /\ UNCHANGED unseen

\* monitor has returned, or has closed the connection and is to wait.
LeaveConn(place) ==
  /\ Drop("none")
  /\ signals' = << >>
  /\ monitor' = place

isResumeSignal(signal) == signal = "resume"

Forward ==
  /\ monitor = "forward"
  /\ signals # << >>
  /\ signals' = Tail(signals)
  /\ IF isResumeSignal(Head(signals)) THEN notify ELSE UNCHANGED channelVars
  /\ UNCHANGED <<hostVars, conn, subscribed, wire, stuck, monitorVars, canceled, breaks>>

BrokenAndTrusted ==    \* mutant: nothing is thought to be missed while disconnected
  /\ monitor = "forward"
  /\ conn = "broken"
  /\ LeaveConn(IF canceled THEN "ended" ELSE "wait")
  /\ UNCHANGED <<hostVars, recoveryNeeded, channelVars, canceled, breaks>>

\* The select may prefer the broken connection to signals that are queued.
Broken ==
  /\ monitor = "forward"
  /\ conn = "broken"
  /\ LeaveConn(IF canceled THEN "ended" ELSE "wait")
  /\ recoveryNeeded' = TRUE
  /\ UNCHANGED <<hostVars, channelVars, canceled, breaks>>

Stop ==
  /\ monitor \in {"forward", "wait"}
  /\ canceled
  /\ LeaveConn("ended")
  /\ UNCHANGED <<hostVars, recoveryNeeded, channelVars, canceled, breaks>>

\* The interval between two attempts has passed.
Waited ==
  /\ monitor = "wait"
  /\ monitor' = "connect"
  /\ UNCHANGED <<hostVars, connVars, recoveryNeeded, channelVars, canceled, breaks>>

Connect ==
  /\ monitor = "connect"
  /\ conn' = "open"
  /\ monitor' = "match"
  /\ UNCHANGED <<hostVars, subscribed, wire, signals, stuck, recoveryNeeded, channelVars,
                 canceled, breaks>>

ConnectFails ==
  /\ monitor = "connect"
  /\ monitor' = "wait"
  /\ UNCHANGED <<hostVars, connVars, recoveryNeeded, channelVars, canceled, breaks>>

\* The bus adds the match, and replies.
Match ==
  /\ monitor = "match"
  /\ conn = "open"
  /\ ~subscribed
  /\ subscribed' = TRUE
  /\ wire' = <<"reply">>
  /\ UNCHANGED <<hostVars, conn, signals, stuck, monitorVars, channelVars, canceled,
                 breaks>>

Subscribed ==
  /\ monitor = "match"
  /\ subscribed
  /\ ~stuck
  /\ wire # << >>
  /\ Head(wire) = "reply"
  /\ wire' = Tail(wire)
  /\ monitor' = "subscribed"
  /\ UNCHANGED <<hostVars, conn, subscribed, signals, stuck, recoveryNeeded, channelVars,
                 canceled, breaks>>

MatchFails ==
  /\ monitor = "match"
  /\ conn = "broken" \/ canceled
  /\ LeaveConn("wait")
  /\ UNCHANGED <<hostVars, recoveryNeeded, channelVars, canceled, breaks>>

Recover ==
  /\ monitor = "subscribed"
  /\ monitor' = "forward"
  /\ recoveryNeeded' = FALSE
  /\ IF recoveryNeeded THEN notify ELSE UNCHANGED channelVars
  /\ UNCHANGED <<hostVars, connVars, canceled, breaks>>

-----------------------------------------------------------------------------
(* The daemon *)

Take ==
  /\ resumes = 1
  /\ resumes' = 0
  /\ unseen' = FALSE
  /\ UNCHANGED <<hostVars, connVars, monitorVars, canceled, breaks>>

\* Everything the monitor does but connect.
Progress == Forward \/ Broken \/ Waited \/ Subscribed \/ MatchFails \/ Recover

MonitorStep == Progress \/ Connect \/ ConnectFails \/ Stop

BusStep == Break \/ Deliver \/ Match

ResumeStep == Suspend \/ Wake \/ Cancel \/ Take \/ BusStep \/ MonitorStep
=============================================================================
