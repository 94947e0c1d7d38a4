------------------------------- MODULE Hidraw -------------------------------
(***************************************************************************)
(* One opened HIDRAW device: ReadReport, in the loop of its Session's      *)
(* reader, and Close of internal/hidraw/hidraw_linux.go.                   *)
(*                                                                         *)
(* ReadReport polls and reads the descriptor by its number, without        *)
(* keeping a reference to the file: once Close has closed the file the     *)
(* number may be that of another file of the process.  (WriteReport goes   *)
(* through os.File, which refuses a write to a file that is closed: it is  *)
(* left out.)                                                              *)
(***************************************************************************)
EXTENDS Naturals

CONSTANTS
  ReadFd,       \* number of the read descriptor
  WriteFd,      \* number of the write descriptor
  Fd,           \* all numbers
  MaxReports    \* bound on reports waiting to be read

ASSUME HidrawAssumption ==
  /\ Fd \subseteq Nat
  /\ {ReadFd, WriteFd} \subseteq Fd
  /\ ReadFd # WriteFd
  /\ MaxReports \in Nat

VARIABLES
  owner,     \* whose each descriptor is: "device", "other", "free"
  reports,   \* reports waiting in the device
  gone,      \* the device is unplugged
  closed,    \* Device.closed
  closing,   \* Close: "none", "read" or "write" (closed next), "done"
  reader,    \* where ReadReport is: "call", "check", "poll", "wait", "polled",
             \* "read", "got"; "ended" once it has returned an error
  waiting,   \* the file poll waits for, as owner says it: "free" while it does not
  revents,   \* what poll said, while it matters: "none", "in", "invalid"
  got,       \* what read returned, while it matters: "nothing", "report",
             \* "foreign", "error", "bad descriptor"
  strayed    \* history: ReadReport has returned something of a descriptor that
             \* was not the device's

fileVars == <<closed, closing>>
readVars == <<reader, waiting, revents, got>>
deviceVars == <<reports, gone>>

hidrawVars == <<owner, deviceVars, fileVars, readVars, strayed>>

HidrawInit ==
  /\ owner \in [Fd -> {"device", "other", "free"}]
  /\ \A n \in Fd : (owner[n] = "device") = (n \in {ReadFd, WriteFd})
  /\ reports = 0
  /\ gone = FALSE
  /\ closed = FALSE
  /\ closing = "none"
  /\ reader = "call"
  /\ waiting = "free"
  /\ revents = "none"
  /\ got = "nothing"
  /\ strayed = FALSE

-----------------------------------------------------------------------------
(* The device *)

Report ==
  /\ ~gone
  /\ reports < MaxReports
  /\ reports' = reports + 1
  /\ UNCHANGED <<owner, gone, fileVars, readVars, strayed>>

Unplug ==
  /\ ~gone
  /\ gone' = TRUE
  /\ reports' = 0
  /\ UNCHANGED <<owner, fileVars, readVars, strayed>>

-----------------------------------------------------------------------------
(* Close *)

Close ==
  /\ closing = "none"
  /\ closed' = TRUE
  /\ closing' = "read"
  /\ UNCHANGED <<owner, deviceVars, readVars, strayed>>

CloseRead ==
  /\ closing = "read"
  /\ owner' = [owner EXCEPT ![ReadFd] = "free"]
  /\ closing' = "write"
  /\ UNCHANGED <<closed, deviceVars, readVars, strayed>>

CloseWrite ==
  /\ closing = "write"
  /\ owner' = [owner EXCEPT ![WriteFd] = "free"]
  /\ closing' = "done"
  /\ UNCHANGED <<closed, deviceVars, readVars, strayed>>

-----------------------------------------------------------------------------
(* ReadReport *)

\* An error ends the reader of the Session; a report lets it call again.
ReadReturn(r) ==
  /\ reader' = IF r \in {"report", "foreign"} THEN "call" ELSE "ended"
  /\ strayed' = (strayed \/ r \in {"foreign", "bad descriptor"})

Goto(place) == reader' = place /\ UNCHANGED strayed

ReadStep(place) ==
  /\ reader = place
  /\ UNCHANGED <<owner, gone, fileVars>>

OpenFD ==
  /\ ReadStep("call")
  /\ IF closed THEN ReadReturn("closed") ELSE Goto("check")
  /\ UNCHANGED <<reports, waiting, revents, got>>

Check ==
  /\ ReadStep("check")
  /\ IF closed THEN ReadReturn("closed") ELSE Goto("poll")
  /\ UNCHANGED <<reports, waiting, revents, got>>

\* Poll looks the number up once, and waits for that file even if the number
\* is closed or goes to another.
Poll ==
  /\ ReadStep("poll")
  /\ IF owner[ReadFd] = "free"
       THEN revents' = "invalid" /\ Goto("polled") /\ UNCHANGED waiting
       ELSE waiting' = owner[ReadFd] /\ Goto("wait") /\ UNCHANGED revents
  /\ UNCHANGED <<reports, got>>

\* An unplugged device is readable: reading it gives the error.  Whether
\* another file is, is not known here; it does no harm to say that it is.
Readable == waiting = "device" => (reports > 0 \/ gone)

PolledForever ==    \* mutant: poll waits for a report, however long
  /\ ReadStep("wait")
  /\ Readable
  /\ revents' = "in"
  /\ waiting' = "free"
  /\ Goto("polled")
  /\ UNCHANGED <<reports, got>>

\* Poll returns when there is something to read, or after 100 ms.
Polled ==
  /\ ReadStep("wait")
  /\ IF Readable THEN revents' = "in" ELSE revents' = "none"
  /\ waiting' = "free"
  /\ Goto("polled")
  /\ UNCHANGED <<reports, got>>

AfterPoll ==
  /\ ReadStep("polled")
  /\ CASE closed -> ReadReturn("closed")
       [] ~closed /\ revents = "none" -> Goto("check")
       [] ~closed /\ revents = "invalid" -> ReadReturn("bad descriptor")
       [] ~closed /\ revents = "in" -> Goto("read")
  /\ revents' = "none"
  /\ UNCHANGED <<reports, waiting, got>>

Read ==
  /\ ReadStep("read")
  /\ owner[ReadFd] # "other"
  /\ reports > 0 \/ gone \/ owner[ReadFd] = "free"
  /\ got' = CASE owner[ReadFd] = "free" -> "bad descriptor"
              [] owner[ReadFd] = "device" -> IF gone THEN "error" ELSE "report"
  /\ reports' = IF got' = "report" THEN reports - 1 ELSE reports
  /\ Goto("got")
  /\ UNCHANGED <<waiting, revents>>

\* The number is that of another file by now, and the file has data.
ReadForeign ==
  /\ ReadStep("read")
  /\ owner[ReadFd] = "other"
  /\ got' = "foreign"
  /\ Goto("got")
  /\ UNCHANGED <<reports, waiting, revents>>

\* EAGAIN or EINTR
ReadNothing ==
  /\ ReadStep("read")
  /\ Goto("check")
  /\ UNCHANGED <<reports, waiting, revents, got>>

AfterReadUnchecked ==    \* mutant: what has been read is returned in any case
  /\ ReadStep("got")
  /\ ReadReturn(got)
  /\ got' = "nothing"
  /\ UNCHANGED <<reports, waiting, revents>>

AfterRead ==
  /\ ReadStep("got")
  /\ ReadReturn(IF closed THEN "closed" ELSE got)
  /\ got' = "nothing"
  /\ UNCHANGED <<reports, waiting, revents>>

ReaderStep == OpenFD \/ Check \/ Poll \/ Polled \/ AfterPoll \/ Read \/ ReadNothing \/ AfterRead

HidrawStep ==
  \/ Report \/ Unplug
  \/ Close \/ CloseRead \/ CloseWrite
  \/ ReaderStep
=============================================================================
