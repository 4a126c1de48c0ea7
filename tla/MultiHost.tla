----------------------------- MODULE MultiHost ------------------------------
(***************************************************************************)
(* tools/run_multi_host.py for the roles receiver and sender: start one    *)
(* process per configured module, wait until the receivers listen, collect *)
(* the exit codes, write summary.json; on SIGTERM, on Ctrl-C or when a     *)
(* launch fails, stop what was started.  The report role later reads the   *)
(* summary.  The tool may be called again on the same --output.            *)
(*                                                                         *)
(* A signal is handled between any two steps of the runner, those of the   *)
(* finally clause included, where nothing catches what it raises: the call *)
(* then ends without its summary, as when the summary cannot be written.   *)
(* The modules are numbered in the order of the configuration file.        *)
(***************************************************************************)
EXTENDS Integers, Sequences

CONSTANTS
  N,            \* the modules of the configuration
  MaxRuns,      \* bound: the launches into one output directory
  MaxSignals    \* bound: the signals that the tool gets in one launch

ASSUME MultiHostAssumption == N \in Nat \ {0} /\ MaxRuns \in Nat /\ MaxSignals \in Nat

Modules == 1 .. N

VARIABLES
  role, save_sent,    \* options, the same in every call
  runs,               \* the launches so far
  pc,                 \* the next step of the runner, "idle" between two calls
  processes,          \* how many of the modules' processes are in the list
  pending,            \* wait_receivers_ready: the modules not seen to listen
  stopped,            \* stop_processes: how many of the list it has been through
  results,            \* the exit codes collected, in the order of the modules
  return_code,
  child,              \* each module's process
  code,               \* its exit code, once it has ended
  captures,           \* disk: the call whose process made captures/, or 0
  heard,              \* disk: the modules whose log says "listening on"
  summary,            \* disk: what summary.json says, and of which call
  signals,            \* signals in this call
  listened,           \* history: the modules that have listened in this call
  stop_cut,           \* history: a Ctrl-C has ended stop_processes early
  unreported          \* history: the last call ended without its summary

call_vars == <<processes, pending, stopped, results, return_code, signals, stop_cut>>
child_vars == <<child, code, captures, heard, listened>>
report_vars == <<summary, unreported>>
vars == <<role, save_sent, runs, pc, call_vars, child_vars, report_vars>>

NoSummary == [run |-> 0, status |-> "none", results |-> << >>]

\* Cut off while it was written, it is no JSON, and says nothing of any call.
TornSummary == [run |-> 0, status |-> "torn", results |-> << >>]

Killed == -15

Init ==
  /\ role \in {"receiver", "sender"}
  /\ save_sent \in BOOLEAN
  /\ runs = 0
  /\ pc = "idle"
  /\ processes = 0
  /\ pending = {}
  /\ stopped = 0
  /\ results = << >>
  /\ return_code = 1
  /\ child = [m \in Modules |-> "none"]
  /\ code = [m \in Modules |-> 0]
  /\ captures = [m \in Modules |-> 0]
  /\ heard = {}
  /\ summary = NoSummary
  /\ signals = 0
  /\ listened = {}
  /\ stop_cut = FALSE
  /\ unreported = FALSE

Running(m) == child[m] \in {"new", "created", "listening"}

Goto(next) ==
  /\ pc' = next
  /\ UNCHANGED <<role, save_sent, runs>>

-----------------------------------------------------------------------------
(* The processes of the modules.                                           *)

\* A receiver makes captures/raw before it opens its log; a sender makes a
\* directory if it saves what it sends.
CreateCaptures(m) ==
  /\ child[m] = "new"
  /\ role = "receiver" \/ save_sent
  /\ child' = [child EXCEPT ![m] = "created"]
  /\ captures' = [captures EXCEPT ![m] = runs]
  /\ UNCHANGED <<code, heard, listened>>

\* The log is appended to.
StartListening(m) ==
  /\ role = "receiver"
  /\ child[m] = "created"
  /\ child' = [child EXCEPT ![m] = "listening"]
  /\ heard' = heard \union {m}
  /\ listened' = listened \union {m}
  /\ UNCHANGED <<code, captures>>

\* A process may fail at any time; a receiver that succeeds has listened, and
\* a sender that succeeds has saved its frames if it was told to.
End(m) ==
  /\ Running(m)
  /\ child' = [child EXCEPT ![m] = "ended"]
  /\ \E c \in {0, 1} :
       /\ c = 0 /\ role = "receiver" => child[m] = "listening"
       /\ c = 0 /\ role = "sender" /\ save_sent => child[m] = "created"
       /\ code' = [code EXCEPT ![m] = c]
  /\ UNCHANGED <<captures, heard, listened>>

ChildActs ==
  /\ \E m \in Modules : CreateCaptures(m) \/ StartListening(m) \/ End(m)
  /\ UNCHANGED <<role, save_sent, runs, pc, call_vars, report_vars>>

-----------------------------------------------------------------------------
(* The runner.                                                             *)

\* Definitions named Variant_... are plausible mistakes, for checking that
\* the properties would notice them; no specification uses one.
Variant_PreviousCaptures_of_all == \A m \in Modules : captures[m] # 0

\* An output directory that has captures of some module is refused.
PreviousCaptures == \E m \in Modules : captures[m] # 0

\* A call that is refused changes nothing.  One while processes of an earlier
\* call still run is left out.
Launch ==
  /\ pc = "idle" /\ runs < MaxRuns
  /\ ~PreviousCaptures
  /\ \A m \in Modules : ~Running(m)
  /\ runs' = runs + 1
  /\ pc' = "launch"
  /\ processes' = 0
  /\ pending' = {}
  /\ stopped' = 0
  /\ results' = << >>
  /\ return_code' = 1
  /\ child' = [m \in Modules |-> "none"]
  /\ code' = [m \in Modules |-> 0]
  /\ signals' = 0
  /\ listened' = {}
  /\ stop_cut' = FALSE
  /\ unreported' = FALSE
  /\ UNCHANGED <<role, save_sent, captures, heard, summary>>

\* Popen has started the process ...
Spawn ==
  /\ pc = "launch" /\ processes < N
  /\ Goto("append")
  /\ child' = [child EXCEPT ![processes + 1] = "new"]
  /\ UNCHANGED <<call_vars, code, captures, heard, listened,
                 report_vars>>

\* ... and the list has it.
Register ==
  /\ pc = "append"
  /\ Goto("launch")
  /\ processes' = processes + 1
  /\ UNCHANGED <<pending, stopped, results, return_code, signals, stop_cut,
                 child_vars, report_vars>>

Launched ==
  /\ pc = "launch" /\ processes = N
  /\ Goto(IF role = "receiver" THEN "ready" ELSE "wait")
  /\ pending' = Modules
  /\ UNCHANGED <<processes, stopped, results, return_code, signals, stop_cut,
                 child_vars, report_vars>>

\* Popen fails, a receiver has ended before it was seen to listen, or some are
\* not seen to within 15 s.
LaunchError ==
  /\ \/ pc = "launch" /\ processes < N
     \/ pc = "ready" /\ pending # {}
  /\ Goto("except_oserror")
  /\ stopped' = 0
  /\ UNCHANGED <<processes, pending, results, return_code, signals, stop_cut,
                 child_vars, report_vars>>

\* A process that runs and whose log has the line is taken for listening.
HearReceiver ==
  /\ pc = "ready"
  /\ \E m \in pending : Running(m) /\ m \in heard /\ pending' = pending \ {m}
  /\ Goto("ready")
  /\ UNCHANGED <<processes, stopped, results, return_code, signals, stop_cut,
                 child_vars, report_vars>>

\* "ready: start the sender role now"
AnnounceReady ==
  /\ pc = "ready" /\ pending = {}
  /\ Goto("wait")
  /\ UNCHANGED <<call_vars, child_vars, report_vars>>

Variant_Collect_ended_only ==
  /\ pc = "wait" /\ Len(results) < N
  /\ results' = Append(results, code[Len(results) + 1])
  /\ Goto("wait")
  /\ UNCHANGED <<processes, pending, stopped, return_code, signals, stop_cut,
                 child_vars, report_vars>>

Collect ==
  /\ pc = "wait" /\ Len(results) < N
  /\ child[Len(results) + 1] = "ended"
  /\ results' = Append(results, code[Len(results) + 1])
  /\ Goto("wait")
  /\ UNCHANGED <<processes, pending, stopped, return_code, signals, stop_cut,
                 child_vars, report_vars>>

AllZero == \A i \in 1 .. Len(results) : results[i] = 0

Collected ==
  /\ pc = "wait" /\ Len(results) = N
  /\ Goto("finally")
  /\ return_code' = IF AllZero THEN 0 ELSE 1
  /\ UNCHANGED <<processes, pending, stopped, results, signals, stop_cut,
                 child_vars, report_vars>>

-----------------------------------------------------------------------------
(* stop_processes, in the SIGTERM handler or in an except clause.          *)

InExcept == {"except_interrupt", "except_oserror", "handler_in_except"}
Stopping == InExcept \union {"handler", "handler_in_finally"}

Variant_StopOne_breaks_at_an_ended_one ==
  /\ pc \in Stopping /\ stopped < processes
  /\ stopped' = IF Running(stopped + 1) THEN stopped + 1 ELSE processes
  /\ IF Running(stopped + 1)
     THEN /\ child' = [child EXCEPT ![stopped'] = "ended"]
          /\ code' = [code EXCEPT ![stopped'] = Killed]
     ELSE UNCHANGED <<child, code>>
  /\ UNCHANGED <<role, save_sent, runs, pc, processes, pending, results,
                 return_code, signals, stop_cut, captures, heard, listened,
                 report_vars>>

\* The next process of the list is terminated, or killed after 3 s.
StopOne ==
  /\ pc \in Stopping /\ stopped < processes
  /\ stopped' = stopped + 1
  /\ IF Running(stopped')
     THEN /\ child' = [child EXCEPT ![stopped'] = "ended"]
          /\ code' = [code EXCEPT ![stopped'] = Killed]
     ELSE UNCHANGED <<child, code>>
  /\ UNCHANGED <<role, save_sent, runs, pc, processes, pending, results,
                 return_code, signals, stop_cut, captures, heard, listened,
                 report_vars>>

\* An exception leaves the finally clause and ends the tool: summary.json is
\* as it was, or cut off where the write had come to.
EndUnreported ==
  /\ Goto("idle")
  /\ unreported' = TRUE
  /\ summary' \in IF pc = "write" THEN {summary, TornSummary} ELSE {summary}

\* The handler raises KeyboardInterrupt when it is done; raised inside an
\* except clause, it leaves return_code as it was.
StopDone ==
  /\ pc \in Stopping /\ stopped = processes
  /\ stopped' = 0
  /\ \/ pc = "handler" /\ Goto("except_interrupt") /\ UNCHANGED report_vars
     \/ pc \in InExcept /\ Goto("finally") /\ UNCHANGED report_vars
     \/ pc = "handler_in_finally" /\ EndUnreported
  /\ return_code' = CASE pc = "except_interrupt" -> 130
                      [] pc = "except_oserror"   -> 2
                      [] OTHER                   -> return_code
  /\ UNCHANGED <<processes, pending, results, signals, stop_cut, child_vars>>

InTry == pc \in {"launch", "append", "ready", "wait"}

\* SIGTERM runs the handler, from wherever the runner is, until finally has
\* put back the previous one: then it ends the tool.
Terminated ==
  /\ signals < MaxSignals
  /\ signals' = signals + 1
  /\ stopped' = 0
  /\ \/ (InTry \/ pc = "handler") /\ Goto("handler") /\ UNCHANGED report_vars
     \/ pc \in InExcept /\ Goto("handler_in_except") /\ UNCHANGED report_vars
     \/ /\ pc \in {"finally", "handler_in_finally"}
        /\ Goto("handler_in_finally")
        /\ UNCHANGED report_vars
     \/ pc = "write" /\ EndUnreported
  /\ UNCHANGED <<processes, pending, results, return_code, stop_cut, child_vars>>

\* Ctrl-C raises KeyboardInterrupt at once.
Interrupted ==
  /\ signals < MaxSignals
  /\ signals' = signals + 1
  /\ stopped' = 0
  /\ \/ /\ InTry \/ pc = "handler"
        /\ Goto("except_interrupt")
        /\ UNCHANGED <<stop_cut, report_vars>>
     \/ /\ pc \in InExcept
        /\ Goto("finally")
        /\ stop_cut' = TRUE
        /\ UNCHANGED report_vars
     \/ /\ pc \in {"finally", "handler_in_finally", "write"}
        /\ EndUnreported
        /\ stop_cut' = (stop_cut \/ pc = "handler_in_finally")
  /\ UNCHANGED <<processes, pending, results, return_code, child_vars>>

-----------------------------------------------------------------------------
(* The finally clause.                                                     *)

RestoreHandler ==
  /\ pc = "finally"
  /\ Goto("write")
  /\ UNCHANGED <<call_vars, child_vars, report_vars>>

Status ==
  CASE return_code = 0   -> "passed"
    [] return_code = 130 -> "interrupted"
    [] OTHER             -> "failed"

\* write_text may fail, with a part of the file written.
WriteSummary ==
  /\ pc = "write"
  /\ \/ /\ Goto("idle")
        /\ summary' = [run |-> runs, status |-> Status, results |-> results]
        /\ UNCHANGED unreported
     \/ EndUnreported
  /\ UNCHANGED <<call_vars, child_vars>>

-----------------------------------------------------------------------------
\* Every module that the report finds no exit code for counts as exit 0.
ReceiverExitCheck(m) ==
  m \in 1 .. Len(summary.results) => summary.results[m] = 0

RunnerActs ==
  \/ Launch
  \/ Spawn \/ Register \/ Launched \/ LaunchError
  \/ HearReceiver \/ AnnounceReady
  \/ Collect \/ Collected
  \/ StopOne \/ StopDone
  \/ RestoreHandler \/ WriteSummary

Next == RunnerActs \/ ChildActs \/ Terminated \/ Interrupted

Spec == Init /\ [][Next]_vars
-----------------------------------------------------------------------------
\* The operator starts the senders when the tool says ready: every receiver
\* has listened in this call.  The line in the log is no proof of that, for
\* the log is appended to; it is the refusal of a used directory that is.
ReadyIsListening == role = "receiver" /\ pc = "wait" => listened = Modules

\* When the tool has ended, no process of its list still runs, unless a Ctrl-C
\* came while it stopped them; and besides those of the list at most one was
\* started, which still runs only if a signal came between its start and its
\* entry into the list.
NoneLeft ==
  pc = "idle" =>
    /\ \A m \in 1 .. processes : Running(m) => stop_cut
    /\ \A m \in Modules : Running(m) => signals > 0 /\ m <= processes + 1

\* What the report reads belongs together: the summary is of the call whose
\* processes made the captures.  If that call ended without its summary, for
\* a signal came in the finally clause or the write failed, what an earlier
\* call may have left is not taken for it: it does not say "passed", and for
\* receivers it has no exit codes.
SummaryMatchesCaptures ==
  pc = "idle" =>
    \A m \in Modules : captures[m] # 0 =>
      IF unreported
      THEN /\ summary.status # "passed"
           /\ role = "receiver" => summary.results = << >>
      ELSE summary.run = captures[m]

\* A launch whose summary says "passed" ran every module to its end with
\* exit 0.  And a module whose exit code the report accepts ended with 0, if
\* no signal came, the launch succeeded and the summary was written: in the
\* other cases the report takes a code that it does not have for 0.
ReportedExits ==
  pc = "idle" /\ runs > 0 =>
    /\ summary.run = runs /\ summary.status = "passed" =>
         \A m \in Modules : child[m] = "ended" /\ code[m] = 0
    /\ signals = 0 /\ return_code # 2 /\ ~unreported =>
         \A m \in Modules : ReceiverExitCheck(m) => code[m] = 0
=============================================================================
