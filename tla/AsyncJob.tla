------------------------------ MODULE AsyncJob ------------------------------
(* ansible_mitogen.target.AsyncRunner: a job runs on the main thread of a forked *)
(* child and reports in a status file, which it replaces by renaming a temporary *)
(* file.  The time limit is a signal: its handler runs on the same thread        *)
(* between any two steps, writes to the same temporary file, and shuts down the  *)
(* broker, which kills the process at some moment after that.                    *)
EXTENDS Naturals

CONSTANT TimeLimits   \* whether timeout_secs > 0: a subset of BOOLEAN
ASSUME JobAssumption == TimeLimits \subseteq BOOLEAN

VARIABLES limited,    \* the job has a time limit
          main,       \* what the main thread does next: <<step, status, handler>>
          status,     \* content of the status file
          temporary,  \* content of the temporary file, or "none"
          descriptor, \* the file main has open: the temporary one, or the status
                      \* file, when it was renamed in the meantime
          told,       \* the controller was told that the job started
          armed, fired,  \* the alarm is set; its handler ran
          moduleRaised,     \* _run_module() raised
          shutDown    \* broker.shutdown() was called

jobVars == <<limited, main, status, temporary, descriptor, told, armed, fired, moduleRaised, shutDown>>

JobInit ==
  /\ limited \in TimeLimits
  /\ main = <<"open", "started", "run">> /\ status = "none" /\ temporary = "none" /\ descriptor = "none"
  /\ told = FALSE /\ armed = FALSE /\ fired = "no" /\ moduleRaised = FALSE /\ shutDown = FALSE

Step == main[1]
\* The except clause an exception goes to: that of _run() around _parse_result(),
\* then that of run(), then none.
Handle(handler) == CASE handler = "parse" -> <<"open", "failed", "run">>
                     [] handler = "run" -> <<"open", "failed", "none">>
                     [] OTHER -> <<"finally", "", "">>
\* What follows an update of the status file.
Continue == IF main[2] = "started" THEN <<"tell", "", "">> ELSE <<"finally", "", "">>

-----------------------------------------------------------------------------
(* _update(): open, write and close, rename *)
\* mutation: the status file is written in place.
UpdateInPlace ==
  /\ Step = "open" /\ temporary' = "none" /\ descriptor' = "temporary" /\ main' = <<"close", main[2], main[3]>>
  /\ UNCHANGED <<limited, status, told, armed, fired, moduleRaised, shutDown>>

UpdateOpen ==
  /\ Step = "open" /\ temporary' = "empty" /\ descriptor' = "temporary" /\ main' = <<"close", main[2], main[3]>>
  /\ UNCHANGED <<limited, status, told, armed, fired, moduleRaised, shutDown>>

\* Into the status file when the handler renamed it: over the longer of both.
UpdateClose ==
  /\ Step = "close" /\ main' = <<"rename", main[2], main[3]>> /\ descriptor' = "none"
  /\ IF descriptor = "temporary" THEN temporary' = main[2] /\ UNCHANGED status
     ELSE status' \in {main[2], "torn"} /\ UNCHANGED temporary
  /\ UNCHANGED <<limited, told, armed, fired, moduleRaised, shutDown>>

UpdateRename ==
  /\ Step = "rename"
  /\ IF temporary # "none"
     THEN status' = temporary /\ temporary' = "none" /\ main' = Continue
     ELSE main' = Handle(main[3]) /\ UNCHANGED <<status, temporary>>
  /\ UNCHANGED <<limited, descriptor, told, armed, fired, moduleRaised, shutDown>>

\* mutation: the controller is told before the first update of the file.
TellEarly ==
  /\ ~told /\ told' = TRUE /\ main' = IF Step = "tell" THEN <<"module", "", "">> ELSE main
  /\ armed' = IF Step = "tell" THEN limited ELSE armed
  /\ UNCHANGED <<limited, status, temporary, descriptor, fired, moduleRaised, shutDown>>

\* started_sender.send(), then _install_alarm().
Tell ==
  /\ Step = "tell" /\ told' = TRUE /\ armed' = limited /\ main' = <<"module", "", "">>
  /\ UNCHANGED <<limited, status, temporary, descriptor, fired, moduleRaised, shutDown>>

\* _run_module() returns or raises.
ModuleReturns ==
  /\ Step = "module" /\ main' = <<"check", "", "">>
  /\ UNCHANGED <<limited, status, temporary, descriptor, told, armed, fired, moduleRaised, shutDown>>
ModuleRaises ==
  /\ Step = "module" /\ main' = Handle("run") /\ moduleRaised' = TRUE
  /\ UNCHANGED <<limited, status, temporary, descriptor, told, armed, fired, shutDown>>

\* mutation: the result is written although the time limit was reached.
CheckNothing ==
  /\ Step = "check" /\ (main' = <<"open", "result", "parse">> \/ main' = Handle("parse"))
  /\ UNCHANGED <<limited, status, temporary, descriptor, told, armed, fired, moduleRaised, shutDown>>

\* _run() drops the result of a job that reached its time limit; otherwise
\* _parse_result() writes it, or fails to parse it.
Check ==
  /\ Step = "check"
  /\ IF fired # "no" THEN main' = <<"finally", "", "">>
     ELSE main' = <<"open", "result", "parse">> \/ main' = Handle("parse")
  /\ UNCHANGED <<limited, status, temporary, descriptor, told, armed, fired, moduleRaised, shutDown>>

\* The finally clause of run().
Finally ==
  /\ Step = "finally" /\ shutDown' = TRUE /\ main' = <<"returned", "", "">>
  /\ UNCHANGED <<limited, status, temporary, descriptor, told, armed, fired, moduleRaised>>

\* mutation: the handler only ends the process.
AlarmOnly ==
  /\ armed /\ fired = "no" /\ Step # "killed"
  /\ fired' = Step /\ shutDown' = TRUE
  /\ UNCHANGED <<limited, main, status, temporary, descriptor, told, armed, moduleRaised>>

\* _on_sigalrm(): a whole update of its own, then the shutdown of the broker.
OnSigalrm ==
  /\ armed /\ fired = "no" /\ Step # "killed"
  /\ fired' = Step /\ shutDown' = TRUE
  /\ status' = "timeout" /\ temporary' = "none"
  /\ descriptor' = IF descriptor = "temporary" THEN "status" ELSE descriptor
  /\ UNCHANGED <<limited, main, told, armed, moduleRaised>>

\* The broker's exit kills the process.
Killed ==
  /\ shutDown /\ Step # "killed" /\ main' = <<"killed", "", "">>
  /\ UNCHANGED <<limited, status, temporary, descriptor, told, armed, fired, moduleRaised, shutDown>>

MainSteps == UpdateOpen \/ UpdateClose \/ UpdateRename \/ Tell \/ ModuleReturns \/ ModuleRaises \/ Check \/ Finally
JobNext == MainSteps \/ OnSigalrm \/ Killed
JobSpec == JobInit /\ [][JobNext]_jobVars

-----------------------------------------------------------------------------
Final == {"result", "failed", "timeout"}

JobTypeOK ==
  /\ status \in Final \cup {"none", "started", "torn"} /\ temporary \in Final \cup {"none", "empty", "started"}
  /\ descriptor = "temporary" => temporary = "empty"

\* A process that ended left a final status, whenever it was killed; an unreadable
\* one only if the alarm struck while the result was being written.
EndReported ==
  Step \in {"returned", "killed"} => status \in Final \/ (status = "torn" /\ fired = "close")

\* The controller is told of the job when its status file is there (started_sender).
ToldWhenThere == told => status # "none"

\* A job that reached its time limit while the module ran is reported as timed out,
\* if the module does not raise.
TimeoutStands == [][status = "timeout" /\ fired = "module" /\ ~moduleRaised' => status' = status]_jobVars

\* What AsyncRunner promises the controller that polls the status file: it is there when told,
\* final when the process is gone, and a timeout is not overwritten.
JobSafe ==
  /\ [](JobTypeOK /\ EndReported /\ ToldWhenThere)
  /\ TimeoutStands
=============================================================================
