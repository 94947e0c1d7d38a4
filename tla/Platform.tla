------------------------------ MODULE Platform ------------------------------
(***************************************************************************)
(* A HIDRAW device (Hidraw) and the resume monitor (ResumeMonitor) in one  *)
(* process: they share its table of file descriptors.  A connection to the *)
(* bus takes the lowest free number (socket), which may be the number the  *)
(* device's reader still has in hand, and gives it back when it is closed. *)
(***************************************************************************)
EXTENDS Hidraw, ResumeMonitor

VARIABLE socket    \* number of the connection's socket, NoFd if there is none

NoFd == 0

ASSUME NoFdAssumption == NoFd \notin Fd

platformVars == <<hidrawVars, resumeVars, socket>>

PlatformInit ==
  /\ HidrawInit
  /\ ResumeInit
  /\ socket \in Fd \cup {NoFd}
  /\ \A n \in Fd : (owner[n] = "other") = (n = socket)
  /\ (socket # NoFd) = (conn = "open")

-----------------------------------------------------------------------------

Lowest(numbers) == CHOOSE n \in numbers : \A m \in numbers : n <= m

Free == {n \in Fd : owner[n] = "free"}

\* The table follows the connection.
Opens == conn # "open" /\ conn' = "open"
Closes == conn = "open" /\ conn' # "open"

Allot ==
  /\ Opens
  /\ Free # {}
  /\ socket' = Lowest(Free)
  /\ owner' = [owner EXCEPT ![socket'] = "other"]

GiveBack ==
  /\ Closes
  /\ socket' = NoFd
  /\ owner' = [owner EXCEPT ![socket] = "free"]

Keep == ~Opens /\ ~Closes /\ UNCHANGED <<socket, owner>>

InMonitor(A) ==
  /\ A
  /\ Allot \/ GiveBack \/ Keep
  /\ UNCHANGED <<deviceVars, fileVars, readVars, strayed>>

InDevice(A) == A /\ UNCHANGED <<resumeVars, socket>>

\* A read by number of a descriptor that has become the socket.
ReadsSocket == ReadForeign /\ Steal /\ UNCHANGED socket

PlatformNext ==
  \/ InMonitor(ResumeStep)
  \/ InDevice(HidrawStep)
  \/ ReadsSocket

PlatformSpec == PlatformInit /\ [][PlatformNext]_platformVars

-----------------------------------------------------------------------------
(* Fairness: the goroutines and the bus go on; a connection that is tried    *)
(* again and again is made at last.  Neither the host, the device, the user  *)
(* nor the caller of Close has to do anything.                               *)

FairPlatformSpec ==
  /\ PlatformSpec
  /\ WF_platformVars(InDevice(ReaderStep) \/ ReadsSocket)
  /\ WF_platformVars(InDevice(CloseRead))
  /\ WF_platformVars(InDevice(CloseWrite))
  /\ WF_platformVars(InMonitor(Deliver))
  /\ WF_platformVars(InMonitor(Match))
  /\ WF_platformVars(InMonitor(Take))
  /\ WF_platformVars(InMonitor(Progress))
  /\ SF_platformVars(InMonitor(Connect))

-----------------------------------------------------------------------------
(* Properties *)

Carries(queue) == \E i \in DOMAIN queue : isResumeSignal(queue[i])

\* ReadReport returns reports of its own device only, never data of the file
\* that took over the descriptor's number after Close, nor an error because the
\* number is not in use any more: the Session is told that it is closed.
NoForeignReport == ~strayed

\* As long as the daemon has not been told of a host resume the notification is
\* there or on its way to it: in the channel, in a signal that will be read, or
\* in the monitor, which owes one after it has subscribed again or has yet to
\* see that the connection is broken.  No break, no retry and no reconnection
\* loses it, at whatever moment the host resumes ("the returned channel remains
\* active while the monitor retries", resume.go:44-45).
ResumeOnItsWay ==
  (unseen /\ ~canceled /\ ~stuck) =>
    \/ resumes = 1
    \/ Carries(signals)
    \/ subscribed /\ Carries(wire)
    \/ recoveryNeeded
    \/ conn = "broken" /\ monitor = "forward"

\* Close ends the reader and releases both descriptors, whatever has become of
\* their numbers ("Close is allowed to run concurrently with ReadReport so a
\* blocked read can be interrupted", hidraw_linux.go:28-29).  The Session's own
\* Close waits for it.
ReaderStops == closed ~> (reader = "ended" /\ closing = "done")

\* After a host resume the daemon is notified, unless the context is cancelled
\* first: also when the connection to the bus is down, breaks or is being made
\* at that moment, and when another notification is pending.
ResumeSeen == unseen ~> (~unseen \/ canceled \/ stuck)

-----------------------------------------------------------------------------
(* Does not hold: the reader is kept from returning what it read through the *)
(* number of another file, not from reading it.  Between AfterPoll's look at *)
(* closed and the read, Close may free the number and the monitor take it    *)
(* for its socket; the bus loses what the reader takes.  ResumeSeen leaves   *)
(* that connection out.                                                      *)

\* Nobody but the connection reads from the connection's socket.
BusIsOwn == ~stuck
=============================================================================
