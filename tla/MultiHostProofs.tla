--------------------------- MODULE MultiHostProofs --------------------------
(***************************************************************************)
(* Proofs about the runner, for every number of modules, of calls into one *)
(* output directory and of signals: the receivers that are announced as    *)
(* ready listen, nothing is left running without a reason, and what the    *)
(* report reads belongs together.                                          *)
(*                                                                         *)
(* What makes it work is that a call starts with no capture of any module: *)
(* then nothing was heard before the call either, and all captures in the  *)
(* directory are of the last call (DirectoryOK).  The rest follows the     *)
(* runner through its program: which processes can run (ChildrenOK), what  *)
(* has been collected (ResultsOK), and what a call that is over has left   *)
(* (OverOK), its summary too, if it came to write one (SummaryOK).         *)
(***************************************************************************)
EXTENDS MultiHost, SequenceTheorems, TLAPS

Codes == {0, 1, Killed}

Pcs == {"idle", "launch", "append", "ready", "wait", "finally", "write"} \union Stopping

\* The modules make captures.
Captures == role = "receiver" \/ save_sent

Typing ==
  /\ role \in {"receiver", "sender"}
  /\ save_sent \in BOOLEAN
  /\ runs \in Nat
  /\ pc \in Pcs
  /\ processes \in 0 .. N
  /\ pending \subseteq Modules
  /\ stopped \in 0 .. processes
  /\ results \in Seq(Codes)
  /\ return_code \in {0, 1, 2, 130}
  /\ child \in [Modules -> {"none", "new", "created", "listening", "ended"}]
  /\ code \in [Modules -> Codes]
  /\ captures \in [Modules -> Nat]
  /\ signals \in Nat
  /\ stop_cut \in BOOLEAN
  /\ unreported \in BOOLEAN

\* Before the first call nothing has run.  Since the last call began, the log
\* of a module has the line only if the module has listened in that call, and
\* all captures are of that call.  A module that succeeded has made its own.
DirectoryOK ==
  /\ runs = 0 => pc = "idle" /\ child = [m \in Modules |-> "none"]
  /\ heard = listened
  /\ heard \subseteq {m \in Modules : captures[m] # 0}
  /\ \A m \in Modules : captures[m] \in {0, runs}
  /\ \A m \in Modules : captures[m] # 0 => Captures
  /\ \A m \in Modules : child[m] \in {"created", "listening"} => captures[m] # 0
  /\ \A m \in Modules : child[m] = "ended" /\ code[m] = 0 /\ Captures => captures[m] # 0

\* A process runs only if it is in the list, or about to be entered, or was
\* caught between the two by a signal; then it is the one after the list.
ChildrenOK ==
  /\ InTry => signals = 0 /\ ~stop_cut
  /\ pc \in Stopping \ {"handler_in_finally"} => ~stop_cut
  /\ pc \in Stopping \ {"except_oserror"} => signals > 0
  /\ \A m \in Modules : m > processes + 1 => child[m] = "none"
  /\ pc = "launch" => \A m \in Modules : m > processes => child[m] = "none"
  /\ pc = "append" => processes < N
  /\ pc \notin {"launch", "append"} =>
       \A m \in Modules : m > processes /\ Running(m) => signals > 0
  /\ pc \in Stopping => \A m \in 1 .. stopped : ~Running(m)
  /\ pc \in {"finally", "write", "idle"} =>
       stop_cut \/ \A m \in 1 .. processes : ~Running(m)
  /\ stop_cut => signals > 0

\* In the readiness loop, what is no longer pending was heard.
ReadyOK ==
  /\ pc = "ready" => processes = N /\ Modules \ pending \subseteq heard
  /\ pc = "wait" => processes = N /\ (role = "receiver" => Modules \subseteq heard)
  /\ role = "receiver" /\ results # << >> => Modules \subseteq heard

\* What was collected are the codes of the first modules, which have ended.
ResultsOK ==
  /\ Len(results) <= N
  /\ pc \in {"launch", "append", "ready"} => results = << >>
  /\ \A i \in 1 .. Len(results) : child[i] = "ended" /\ code[i] = results[i]

\* A call that is over has all codes, or a reason not to.
OverOK ==
  /\ InTry \/ pc \in Stopping \ {"handler_in_finally"} => return_code = 1
  /\ return_code = 0 => Len(results) = N /\ AllZero
  /\ pc \in {"finally", "write", "idle"} /\ runs > 0 =>
       signals > 0 \/ return_code = 2 \/ Len(results) = N

\* A summary that says "passed", or that has exit codes of receivers, is the one
\* of a call that is over and has made captures: no call comes after that.
Vouches ==
  /\ Captures
  /\ \/ summary.status = "passed"
     \/ role = "receiver" /\ summary.results # << >>

\* The summary is of the last call when that call is over, unless the call ended
\* without it; until then it is of an earlier one, or of none.
SummaryOK ==
  /\ summary.run \in Nat
  /\ summary.run <= runs
  /\ unreported => pc = "idle" /\ runs > 0
  /\ pc # "idle" \/ unreported => summary.run < runs
  /\ pc = "idle" /\ ~unreported => summary.run = runs
  /\ pc = "idle" /\ ~unreported /\ runs > 0 =>
       summary.status = Status /\ summary.results = results
  /\ Vouches => /\ pc = "idle" /\ ~unreported
                /\ \E m \in Modules : captures[m] # 0

RunnerInv ==
  Typing /\ DirectoryOK /\ ChildrenOK /\ ReadyOK /\ ResultsOK /\ OverOK /\ SummaryOK

-----------------------------------------------------------------------------
(* The steps                                                               *)

LEMMA LaunchStep == RunnerInv /\ Launch => RunnerInv'
<1> SUFFICES ASSUME RunnerInv, Launch PROVE RunnerInv'
  OBVIOUS
<1> USE DEF Launch, Goto, call_vars, child_vars, report_vars, RunnerInv
<1>1. Typing'
  <2>1. child' \in [Modules -> {"none"}] /\ code' \in [Modules -> {0}]
    OBVIOUS
  <2>2. runs' \in Nat /\ processes' \in 0 .. N /\ stopped' \in 0 .. processes'
    BY MultiHostAssumption DEF Typing
  <2>3. results' \in Seq(Codes) /\ signals' \in Nat /\ pending' \subseteq Modules
    OBVIOUS
  <2> QED
    BY <2>1, <2>2, <2>3 DEF Typing, Pcs, Codes
<1>2. DirectoryOK'
  <2>1. heard = {} /\ \A m \in Modules : captures[m] = 0
    BY DEF DirectoryOK, PreviousCaptures
  <2> QED
    BY <2>1 DEF Typing, DirectoryOK
<1>3. ChildrenOK'
  BY DEF Typing, ChildrenOK, Modules, InTry, Stopping, InExcept, Running
<1>4. ReadyOK'
  BY DEF Typing, ReadyOK, DirectoryOK, Modules, Stopping, InExcept, InTry
<1>5. ResultsOK'
  BY MultiHostAssumption DEF Typing, ResultsOK, Stopping, InExcept
<1>6. OverOK'
  BY DEF Typing, OverOK, ResultsOK, AllZero, InTry, Stopping, InExcept, Status, Modules
<1>7. SummaryOK'
  <2>1. \A m \in Modules : captures[m] = 0
    BY DEF PreviousCaptures
  <2>2. ~Vouches /\ ~Vouches'
    BY <2>1 DEF SummaryOK, Vouches, Captures
  <2> QED
    BY <2>2 DEF Typing, SummaryOK
<1> QED
  BY <1>1, <1>2, <1>3, <1>4, <1>5, <1>6, <1>7

LEMMA SpawnStep == RunnerInv /\ Spawn => RunnerInv'
<1> SUFFICES ASSUME RunnerInv, Spawn PROVE RunnerInv'
  OBVIOUS
<1> USE DEF Spawn, Goto, call_vars, child_vars, report_vars, RunnerInv
<1>1. Typing'
  BY DEF Typing, Pcs, Stopping, InExcept, Codes, Modules
<1>2. DirectoryOK'
  BY DEF Typing, DirectoryOK, Captures, Modules
<1>3. ChildrenOK'
  BY DEF Typing, ChildrenOK, Modules, InTry, Stopping, InExcept, Running
<1>4. ReadyOK'
  BY DEF Typing, ReadyOK, DirectoryOK, Modules, Stopping, InExcept, InTry
<1>5. ResultsOK'
  BY DEF Typing, ResultsOK, Modules, Stopping, InExcept
<1>6. OverOK'
  BY DEF Typing, OverOK, ResultsOK, AllZero, InTry, Stopping, InExcept, Status, Modules
<1>7. SummaryOK'
  BY DEF Typing, SummaryOK, Vouches, Captures, Status, InTry, Stopping, InExcept
<1> QED
  BY <1>1, <1>2, <1>3, <1>4, <1>5, <1>6, <1>7

LEMMA RegisterStep == RunnerInv /\ Register => RunnerInv'
<1> SUFFICES ASSUME RunnerInv, Register PROVE RunnerInv'
  OBVIOUS
<1> USE DEF Register, Goto, call_vars, child_vars, report_vars, RunnerInv
<1>1. Typing'
  BY MultiHostAssumption DEF Typing, Pcs, Stopping, InExcept, Codes, ChildrenOK
<1>2. DirectoryOK'
  BY DEF Typing, DirectoryOK, Captures, Modules
<1>3. ChildrenOK'
  BY DEF Typing, ChildrenOK, Modules, InTry, Stopping, InExcept, Running
<1>4. ReadyOK'
  BY DEF Typing, ReadyOK, DirectoryOK, Modules, Stopping, InExcept, InTry
<1>5. ResultsOK'
  BY DEF Typing, ResultsOK, Modules, Stopping, InExcept
<1>6. OverOK'
  BY DEF Typing, OverOK, ResultsOK, AllZero, InTry, Stopping, InExcept, Status, Modules
<1>7. SummaryOK'
  BY DEF Typing, SummaryOK, Vouches, Captures, Status, InTry, Stopping, InExcept
<1> QED
  BY <1>1, <1>2, <1>3, <1>4, <1>5, <1>6, <1>7

LEMMA LaunchedStep == RunnerInv /\ Launched => RunnerInv'
<1> SUFFICES ASSUME RunnerInv, Launched PROVE RunnerInv'
  OBVIOUS
<1> USE DEF Launched, Goto, call_vars, child_vars, report_vars, RunnerInv
<1>1. Typing'
  BY DEF Typing, Pcs, Stopping, InExcept, Codes, Modules
<1>2. DirectoryOK'
  BY DEF Typing, DirectoryOK, Captures, Modules
<1>3. ChildrenOK'
  BY DEF Typing, ChildrenOK, Modules, InTry, Stopping, InExcept, Running
<1>4. ReadyOK'
  BY DEF Typing, ReadyOK, DirectoryOK, Modules, Stopping, InExcept, InTry
<1>5. ResultsOK'
  BY DEF Typing, ResultsOK, Modules, Stopping, InExcept
<1>6. OverOK'
  BY DEF Typing, OverOK, ResultsOK, AllZero, InTry, Stopping, InExcept, Status, Modules
<1>7. SummaryOK'
  BY DEF Typing, SummaryOK, Vouches, Captures, Status, InTry, Stopping, InExcept
<1> QED
  BY <1>1, <1>2, <1>3, <1>4, <1>5, <1>6, <1>7

LEMMA LaunchErrorStep == RunnerInv /\ LaunchError => RunnerInv'
<1> SUFFICES ASSUME RunnerInv, LaunchError PROVE RunnerInv'
  OBVIOUS
<1> USE DEF LaunchError, Goto, call_vars, child_vars, report_vars, RunnerInv
<1>1. Typing'
  BY DEF Typing, Pcs, Stopping, InExcept, Codes, Modules
<1>2. DirectoryOK'
  BY DEF Typing, DirectoryOK, Captures, Modules
<1>3. ChildrenOK'
  BY DEF Typing, ChildrenOK, Modules, InTry, Stopping, InExcept, Running
<1>4. ReadyOK'
  BY DEF Typing, ReadyOK, DirectoryOK, Modules, Stopping, InExcept, InTry
<1>5. ResultsOK'
  BY DEF Typing, ResultsOK, Modules, Stopping, InExcept
<1>6. OverOK'
  BY DEF Typing, OverOK, ResultsOK, AllZero, InTry, Stopping, InExcept, Status, Modules
<1>7. SummaryOK'
  BY DEF Typing, SummaryOK, Vouches, Captures, Status, InTry, Stopping, InExcept
<1> QED
  BY <1>1, <1>2, <1>3, <1>4, <1>5, <1>6, <1>7

LEMMA HearReceiverStep == RunnerInv /\ HearReceiver => RunnerInv'
<1> SUFFICES ASSUME RunnerInv, HearReceiver PROVE RunnerInv'
  OBVIOUS
<1> USE DEF HearReceiver, Goto, call_vars, child_vars, report_vars, RunnerInv
<1>1. Typing'
  BY DEF Typing, Pcs, Stopping, InExcept, Codes, Modules
<1>2. DirectoryOK'
  BY DEF Typing, DirectoryOK, Captures, Modules
<1>3. ChildrenOK'
  BY DEF Typing, ChildrenOK, Modules, InTry, Stopping, InExcept, Running
<1>4. ReadyOK'
  BY DEF Typing, ReadyOK, DirectoryOK, Modules, Stopping, InExcept, InTry
<1>5. ResultsOK'
  BY DEF Typing, ResultsOK, Modules, Stopping, InExcept
<1>6. OverOK'
  BY DEF Typing, OverOK, ResultsOK, AllZero, InTry, Stopping, InExcept, Status, Modules
<1>7. SummaryOK'
  BY DEF Typing, SummaryOK, Vouches, Captures, Status, InTry, Stopping, InExcept
<1> QED
  BY <1>1, <1>2, <1>3, <1>4, <1>5, <1>6, <1>7

LEMMA AnnounceReadyStep == RunnerInv /\ AnnounceReady => RunnerInv'
<1> SUFFICES ASSUME RunnerInv, AnnounceReady PROVE RunnerInv'
  OBVIOUS
<1> USE DEF AnnounceReady, Goto, call_vars, child_vars, report_vars, RunnerInv
<1>1. Typing'
  BY DEF Typing, Pcs, Stopping, InExcept, Codes, Modules
<1>2. DirectoryOK'
  BY DEF Typing, DirectoryOK, Captures, Modules
<1>3. ChildrenOK'
  BY DEF Typing, ChildrenOK, Modules, InTry, Stopping, InExcept, Running
<1>4. ReadyOK'
  BY DEF Typing, ReadyOK, DirectoryOK, Modules, Stopping, InExcept, InTry
<1>5. ResultsOK'
  BY DEF Typing, ResultsOK, Modules, Stopping, InExcept
<1>6. OverOK'
  BY DEF Typing, OverOK, ResultsOK, AllZero, InTry, Stopping, InExcept, Status, Modules
<1>7. SummaryOK'
  BY DEF Typing, SummaryOK, Vouches, Captures, Status, InTry, Stopping, InExcept
<1> QED
  BY <1>1, <1>2, <1>3, <1>4, <1>5, <1>6, <1>7

LEMMA CollectStep == RunnerInv /\ Collect => RunnerInv'
<1> SUFFICES ASSUME RunnerInv, Collect PROVE RunnerInv'
  OBVIOUS
<1> USE DEF Collect, Goto, call_vars, child_vars, report_vars, RunnerInv
<1>1. Typing'
  <2>1. Len(results) + 1 \in Modules
    BY MultiHostAssumption DEF Typing, Modules
  <2> QED
    BY <2>1 DEF Typing, Pcs
<1>2. DirectoryOK'
  BY DEF Typing, DirectoryOK, Captures, Modules
<1>3. ChildrenOK'
  BY DEF Typing, ChildrenOK, Modules, InTry, Stopping, InExcept, Running
<1>4. ReadyOK'
  BY DEF Typing, ReadyOK, DirectoryOK, Modules, Stopping, InExcept, InTry
<1>5. ResultsOK'
  <2>1. Len(results') = Len(results) + 1
    BY DEF Typing
  <2>2. ASSUME NEW i \in 1 .. Len(results')
        PROVE  child[i] = "ended" /\ code[i] = results'[i]
    BY <2>1 DEF Typing, ResultsOK
  <2> QED
    BY <2>1, <2>2, MultiHostAssumption DEF Typing, ResultsOK
<1>6. OverOK'
  BY DEF Typing, OverOK, ResultsOK, AllZero, InTry, Stopping, InExcept, Status, Modules
<1>7. SummaryOK'
  BY DEF Typing, SummaryOK, Vouches, Captures, Status, InTry, Stopping, InExcept
<1> QED
  BY <1>1, <1>2, <1>3, <1>4, <1>5, <1>6, <1>7

LEMMA CollectedStep == RunnerInv /\ Collected => RunnerInv'
<1> SUFFICES ASSUME RunnerInv, Collected PROVE RunnerInv'
  OBVIOUS
<1> USE DEF Collected, Goto, call_vars, child_vars, report_vars, RunnerInv
<1>1. Typing'
  BY DEF Typing, Pcs, Stopping, InExcept, Codes, Modules
<1>2. DirectoryOK'
  BY DEF Typing, DirectoryOK, Captures, Modules
<1>3. ChildrenOK'
  <2>1. \A m \in 1 .. processes : ~Running(m)
    BY DEF Typing, ReadyOK, ResultsOK, Running
  <2> QED
    BY <2>1 DEF Typing, ChildrenOK, InTry, Stopping, InExcept, Running
<1>4. ReadyOK'
  BY DEF Typing, ReadyOK, DirectoryOK, Modules, Stopping, InExcept, InTry
<1>5. ResultsOK'
  BY DEF Typing, ResultsOK, Modules, Stopping, InExcept
<1>6. OverOK'
  BY DEF Typing, OverOK, ResultsOK, AllZero, InTry, Stopping, InExcept, Status, Modules
<1>7. SummaryOK'
  BY DEF Typing, SummaryOK, Vouches, Captures, Status, InTry, Stopping, InExcept
<1> QED
  BY <1>1, <1>2, <1>3, <1>4, <1>5, <1>6, <1>7

LEMMA StopOneStep == RunnerInv /\ StopOne => RunnerInv'
<1> SUFFICES ASSUME RunnerInv, StopOne PROVE RunnerInv'
  OBVIOUS
<1> USE DEF StopOne, Goto, call_vars, child_vars, report_vars, RunnerInv
<1>1. Typing'
  BY DEF Typing, Pcs, Stopping, InExcept, Codes, Modules
<1>2. DirectoryOK'
  <2>1. runs # 0 /\ stopped + 1 \in Modules
    BY MultiHostAssumption DEF Typing, DirectoryOK, Modules, Stopping, InExcept
  <2>2. \A m \in Modules : child'[m] \in {"created", "listening"} => child[m] = child'[m]
    BY <2>1 DEF Typing
  <2>3. \A m \in Modules : child'[m] = "ended" /\ code'[m] = 0 =>
                             child[m] = "ended" /\ code[m] = 0
    BY <2>1 DEF Typing, Killed
  <2> QED
    BY <2>1, <2>2, <2>3 DEF DirectoryOK, Captures
<1>3. ChildrenOK'
  <2>1. /\ stopped \in Nat /\ processes \in 0 .. N /\ stopped' = stopped + 1
        /\ stopped + 1 \in Modules
    BY MultiHostAssumption DEF Typing, Modules
  <2>2. \A m \in Modules : Running(m)' => Running(m) /\ m # stopped + 1
    BY <2>1 DEF Typing, Running
  <2>3. \A m \in 1 .. stopped' : ~Running(m)'
    <3> SUFFICES ASSUME NEW m \in 1 .. stopped + 1, Running(m)' PROVE FALSE
      BY <2>1
    <3>1. m \in Modules
      <4>1. \A p, q \in Nat : p \in 1 .. q => 1 .. p \subseteq 1 .. q
        OBVIOUS
      <4> QED
        BY <2>1, <4>1, MultiHostAssumption DEF Modules
    <3>2. Running(m) /\ m # stopped + 1
      BY <2>2, <3>1
    <3>3. m \in 1 .. stopped
      BY <2>1, <3>2
    <3> QED
      BY <3>2, <3>3 DEF ChildrenOK
  <2>4. \A m \in Modules : m > processes + 1 => child'[m] = "none"
    <3>1. stopped + 1 <= processes
      BY <2>1 DEF Typing
    <3>2. ASSUME NEW m \in Modules, m > processes + 1 PROVE child'[m] = child[m]
      <4>1. m # stopped + 1
        BY <2>1, <3>1, <3>2 DEF Modules
      <4> QED
        BY <2>1, <4>1 DEF Typing
    <3> QED
      BY <3>2 DEF ChildrenOK
  <2> QED
    BY <2>2, <2>3, <2>4 DEF ChildrenOK, InTry, Stopping, InExcept
<1>4. ReadyOK'
  BY DEF Typing, ReadyOK, DirectoryOK, Modules, Stopping, InExcept, InTry
<1>5. ResultsOK'
  <2>1. \A i \in Modules : child[i] = "ended" => child'[i] = "ended" /\ code'[i] = code[i]
    BY DEF Typing, Running
  <2>2. 1 .. Len(results) \subseteq Modules
    BY MultiHostAssumption DEF Typing, ResultsOK, Modules
  <2> QED
    BY <2>1, <2>2 DEF ResultsOK, Stopping, InExcept
<1>6. OverOK'
  BY DEF Typing, OverOK, ResultsOK, AllZero, InTry, Stopping, InExcept, Status, Modules
<1>7. SummaryOK'
  BY DEF Typing, SummaryOK, Vouches, Captures, Status, InTry, Stopping, InExcept
<1> QED
  BY <1>1, <1>2, <1>3, <1>4, <1>5, <1>6, <1>7

\* An exception leaves the finally clause: what the call has established is
\* kept, and the summary stays that of an earlier call, or is cut off.
LEMMA Leaving ==
  ASSUME RunnerInv, EndUnreported,
         pc \in {"finally", "handler_in_finally", "write"},
         UNCHANGED <<processes, pending, results, return_code, child_vars>>,
         stopped' \in 0 .. processes,
         signals' \in Nat, signals > 0 => signals' > 0,
         stop_cut' \in BOOLEAN, stop_cut => stop_cut', stop_cut' => signals' > 0,
         pc = "handler_in_finally" =>
           signals' > 0 /\ (stop_cut' \/ \A m \in 1 .. processes : ~Running(m))
  PROVE  RunnerInv'
<1> USE DEF EndUnreported, Goto, child_vars, RunnerInv
<1>1. pc' = "idle" /\ unreported' = TRUE /\ summary' \in {summary, TornSummary}
  OBVIOUS
<1>2. pc \notin {"idle", "launch", "append", "ready", "wait"} /\ runs > 0 /\ runs \in Nat
  BY DEF Typing, DirectoryOK
<1>3. Typing'
  BY <1>1 DEF Typing, Pcs
<1>4. DirectoryOK'
  BY <1>1, <1>2 DEF DirectoryOK, Captures
<1>5. ChildrenOK'
  <2>1. \A m \in Modules : m > processes /\ Running(m) => signals' > 0
    BY <1>2 DEF ChildrenOK
  <2>2. stop_cut' \/ \A m \in 1 .. processes : ~Running(m)
    BY DEF ChildrenOK
  <2> QED
    BY <1>1, <2>1, <2>2 DEF ChildrenOK, InTry, Stopping, InExcept, Running
<1>6. ReadyOK' /\ ResultsOK'
  BY <1>1 DEF ReadyOK, ResultsOK
<1>7. OverOK'
  BY <1>1, <1>2 DEF OverOK, InTry, Stopping, InExcept, AllZero, ChildrenOK
<1>8. SummaryOK'
  <2>1. summary.run \in Nat /\ summary.run < runs /\ ~Vouches
    BY <1>2 DEF SummaryOK
  <2>2. summary'.run \in Nat /\ summary'.run < runs
    BY <1>1, <1>2, <2>1 DEF TornSummary
  <2>3. ~Vouches'
    BY <1>1, <2>1 DEF Vouches, Captures, TornSummary
  <2> QED
    BY <1>1, <1>2, <2>2, <2>3 DEF SummaryOK
<1> QED
  BY <1>3, <1>4, <1>5, <1>6, <1>7, <1>8

LEMMA StopDoneStep == RunnerInv /\ StopDone => RunnerInv'
<1> SUFFICES ASSUME RunnerInv, StopDone PROVE RunnerInv'
  OBVIOUS
<1> USE DEF RunnerInv
<1>1. CASE pc = "handler_in_finally"
  <2>1. /\ EndUnreported /\ stopped' = 0 /\ stopped = processes
        /\ UNCHANGED <<processes, pending, results, return_code, signals, stop_cut, child_vars>>
    BY <1>1 DEF StopDone, InExcept
  <2>2. \A m \in 1 .. processes : ~Running(m)
    BY <1>1, <2>1 DEF ChildrenOK, Stopping
  <2>3. signals > 0 /\ stopped' \in 0 .. processes
    BY <1>1, <2>1 DEF ChildrenOK, Stopping, Typing
  <2>4. signals' \in Nat /\ stop_cut' \in BOOLEAN /\ (stop_cut' => signals' > 0)
    BY <2>1 DEF Typing, ChildrenOK
  <2> QED
    BY <1>1, <2>1, <2>2, <2>3, <2>4, Leaving
<1>2. CASE pc # "handler_in_finally"
  <2> USE DEF StopDone, Goto, child_vars, report_vars
  <2>1. /\ pc \in InExcept \union {"handler"} /\ ~stop_cut /\ stopped = processes
        /\ UNCHANGED <<role, save_sent, runs, processes, pending, results, signals,
                       stop_cut, child_vars, report_vars>>
        /\ pc' = IF pc = "handler" THEN "except_interrupt" ELSE "finally"
        /\ stopped' = 0
    BY <1>2 DEF Stopping, InExcept, ChildrenOK
  <2>2. return_code = 1 /\ runs # 0
    BY <1>2, <2>1 DEF OverOK, DirectoryOK, Stopping, InExcept
  <2>3. return_code' \in {1, 2, 130} /\ (pc = "except_oserror" => return_code' = 2)
        /\ (pc = "handler" => return_code' = 1)
    BY <2>2
  <2>4. pc # "except_oserror" => signals > 0
    BY <1>2, <2>1 DEF ChildrenOK, Stopping
  <2> HIDE DEF StopDone
  <2>5. Typing'
    BY <2>1, <2>3 DEF Typing, Pcs, Stopping, InExcept
  <2>6. DirectoryOK'
    BY <2>1, <2>2 DEF DirectoryOK, Captures
  <2>7. ChildrenOK'
    <3>1. \A m \in 1 .. processes : ~Running(m)
      BY <2>1 DEF ChildrenOK, Stopping
    <3>2. \A m \in Modules : m > processes /\ Running(m) => signals > 0
      BY <2>1 DEF ChildrenOK, InExcept
    <3> QED
      BY <2>1, <2>4, <3>1, <3>2 DEF Typing, ChildrenOK, InTry, Stopping, InExcept, Running
  <2>8. ReadyOK' /\ ResultsOK'
    BY <2>1 DEF ReadyOK, ResultsOK
  <2>9. OverOK'
    BY <2>1, <2>2, <2>3, <2>4 DEF OverOK, InTry, Stopping, InExcept
  <2>10. SummaryOK'
    BY <2>1 DEF SummaryOK, Vouches, Captures, InExcept
  <2> QED
    BY <2>5, <2>6, <2>7, <2>8, <2>9, <2>10
<1> QED
  BY <1>1, <1>2

LEMMA RestoreHandlerStep == RunnerInv /\ RestoreHandler => RunnerInv'
<1> SUFFICES ASSUME RunnerInv, RestoreHandler PROVE RunnerInv'
  OBVIOUS
<1> USE DEF RestoreHandler, Goto, call_vars, child_vars, report_vars, RunnerInv
<1>1. Typing'
  BY DEF Typing, Pcs
<1>2. DirectoryOK'
  BY DEF DirectoryOK, Captures
<1>3. ChildrenOK'
  BY DEF ChildrenOK, InTry, Stopping, InExcept, Running
<1>4. ReadyOK' /\ ResultsOK'
  BY DEF ReadyOK, ResultsOK
<1>5. OverOK'
  BY DEF OverOK, InTry, Stopping, InExcept, AllZero
<1>6. SummaryOK'
  BY DEF SummaryOK, Vouches, Captures
<1> QED
  BY <1>1, <1>2, <1>3, <1>4, <1>5, <1>6

LEMMA WriteSummaryStep == RunnerInv /\ WriteSummary => RunnerInv'
<1> SUFFICES ASSUME RunnerInv, WriteSummary PROVE RunnerInv'
  OBVIOUS
<1> USE DEF RunnerInv
<1>1. CASE EndUnreported
  BY <1>1, Leaving DEF WriteSummary, call_vars, Typing, ChildrenOK
<1>2. CASE ~EndUnreported
  <2>1. /\ pc = "write" /\ pc' = "idle"
        /\ summary' = [run |-> runs, status |-> Status, results |-> results]
        /\ UNCHANGED <<role, save_sent, runs, call_vars, child_vars, unreported>>
    BY <1>2 DEF WriteSummary, Goto
  <2> USE DEF call_vars, child_vars
  <2>2. runs > 0 /\ runs \in Nat
    BY <2>1 DEF Typing, DirectoryOK
  <2>3. Typing'
    BY <2>1 DEF Typing, Pcs
  <2>4. DirectoryOK'
    BY <2>1, <2>2 DEF DirectoryOK, Captures
  <2>5. ChildrenOK'
    BY <2>1 DEF ChildrenOK, InTry, Stopping, InExcept, Running
  <2>6. ReadyOK' /\ ResultsOK'
    BY <2>1 DEF ReadyOK, ResultsOK
  <2>7. OverOK'
    BY <2>1 DEF OverOK, InTry, Stopping, InExcept, AllZero
  <2>8. SummaryOK'
    <3>1. /\ summary'.run = runs /\ summary'.status = Status /\ summary'.results = results
          /\ Status' = Status
      BY <2>1 DEF Status
    <3>2. unreported' = FALSE
      BY <2>1 DEF SummaryOK, Typing
    <3>3. 1 \in Modules
      BY MultiHostAssumption DEF Modules
    <3>4. ASSUME Captures, Status = "passed" PROVE captures[1] # 0
      <4>1. return_code = 0
        BY <3>4 DEF Status
      <4>2. 1 \in 1 .. Len(results) /\ results[1] = 0
        BY <3>3, <4>1 DEF OverOK, AllZero, Modules
      <4>3. child[1] = "ended" /\ code[1] = 0
        BY <4>2 DEF ResultsOK
      <4> QED
        BY <3>3, <3>4, <4>3 DEF DirectoryOK
    <3>5. ASSUME role = "receiver", results # << >> PROVE captures[1] # 0
      BY <3>3, <3>5 DEF ReadyOK, DirectoryOK
    <3>6. Vouches' => captures'[1] # 0
      BY <2>1, <3>1, <3>4, <3>5 DEF Vouches, Captures
    <3> QED
      BY <2>1, <2>2, <3>1, <3>2, <3>3, <3>6 DEF SummaryOK
  <2> QED
    BY <2>3, <2>4, <2>5, <2>6, <2>7, <2>8
<1> QED
  BY <1>1, <1>2

\* A child never starts again, and what has ended keeps its code.
LEMMA ChildFacts ==
  ASSUME Typing, NEW m \in Modules, CreateCaptures(m) \/ StartListening(m) \/ End(m)
  PROVE  /\ child' \in [Modules -> {"none", "new", "created", "listening", "ended"}]
         /\ code' \in [Modules -> Codes]
         /\ \A x \in Modules :
              /\ Running(x)' => Running(x)
              /\ child[x] = "none" => child'[x] = "none"
              /\ child[x] = "ended" => child'[x] = "ended" /\ code'[x] = code[x]
         /\ Running(m)
<1>1. CASE CreateCaptures(m)
  BY <1>1 DEF CreateCaptures, Typing, Running
<1>2. CASE StartListening(m)
  BY <1>2 DEF StartListening, Typing, Running
<1>3. CASE End(m)
  BY <1>3 DEF End, Typing, Running, Codes
<1> QED
  BY <1>1, <1>2, <1>3

LEMMA ChildActsStep == RunnerInv /\ ChildActs => RunnerInv'
<1> SUFFICES ASSUME RunnerInv, NEW m \in Modules,
                    CreateCaptures(m) \/ StartListening(m) \/ End(m),
                    UNCHANGED <<role, save_sent, runs, pc, call_vars, report_vars>>
             PROVE  RunnerInv'
  BY DEF ChildActs
<1> USE DEF call_vars, report_vars, RunnerInv
<1>1. /\ child' \in [Modules -> {"none", "new", "created", "listening", "ended"}]
      /\ code' \in [Modules -> Codes]
      /\ \A x \in Modules :
           /\ Running(x)' => Running(x)
           /\ child[x] = "none" => child'[x] = "none"
           /\ child[x] = "ended" => child'[x] = "ended" /\ code'[x] = code[x]
      /\ runs \in Nat \ {0}
  <2>1. runs # 0
    BY ChildFacts DEF DirectoryOK, Running
  <2> QED
    BY <2>1, ChildFacts DEF Typing
<1>2. captures' \in [Modules -> Nat] /\ heard \subseteq heard' /\ heard' \subseteq Modules
  BY DEF CreateCaptures, StartListening, End, Typing, DirectoryOK
<1>3. Typing'
  BY <1>1, <1>2 DEF Typing
<1>4. DirectoryOK'
  <2>1. CASE CreateCaptures(m)
    BY <1>1, <2>1 DEF CreateCaptures, DirectoryOK, Captures, Typing
  <2>2. CASE StartListening(m)
    BY <1>1, <2>2 DEF StartListening, DirectoryOK, Captures, Typing
  <2>3. CASE End(m)
    BY <1>1, <2>3 DEF End, DirectoryOK, Captures, Typing
  <2> QED
    BY <2>1, <2>2, <2>3
<1>5. ChildrenOK'
  <2>1. \A k \in 0 .. N : 1 .. k \subseteq Modules
    BY MultiHostAssumption DEF Modules
  <2>2. 1 .. stopped \subseteq Modules /\ 1 .. processes \subseteq Modules
    BY <2>1, MultiHostAssumption DEF Typing
  <2> QED
    BY <1>1, <2>2 DEF ChildrenOK, InTry, Stopping, InExcept
<1>6. ReadyOK'
  BY <1>2 DEF ReadyOK
<1>7. ResultsOK'
  <2>1. 1 .. Len(results) \subseteq Modules
    BY MultiHostAssumption DEF Typing, ResultsOK, Modules
  <2> QED
    BY <1>1, <2>1 DEF ResultsOK
<1>8. OverOK'
  BY DEF OverOK, AllZero, InTry, Stopping, InExcept, Status
<1>9. SummaryOK'
  <2>1. \A x \in Modules : captures[x] # 0 => captures'[x] # 0
    BY <1>1 DEF CreateCaptures, StartListening, End, Typing
  <2> QED
    BY <2>1 DEF SummaryOK, Vouches, Captures, Status
<1> QED
  BY <1>3, <1>4, <1>5, <1>6, <1>7, <1>8, <1>9

LEMMA TerminatedStep == RunnerInv /\ Terminated => RunnerInv'
<1> SUFFICES ASSUME RunnerInv, Terminated PROVE RunnerInv'
  OBVIOUS
<1> USE DEF RunnerInv
<1>1. CASE EndUnreported /\ pc = "write"
  <2>1. signals' \in Nat /\ signals' > 0 /\ stopped' \in 0 .. processes
    BY DEF Terminated, Typing
  <2> QED
    BY <1>1, <2>1, Leaving DEF Terminated, Typing
<1>2. CASE ~(EndUnreported /\ pc = "write")
  <2>1. /\ pc \in {"launch", "append", "ready", "wait", "handler"} \union InExcept
                    \union {"finally", "handler_in_finally"}
        /\ pc' = IF pc \in InExcept THEN "handler_in_except"
                 ELSE IF pc \in {"finally", "handler_in_finally"} THEN "handler_in_finally"
                 ELSE "handler"
        /\ UNCHANGED <<role, save_sent, runs, processes, pending, results, return_code,
                       stop_cut, child_vars, report_vars>>
        /\ stopped' = 0 /\ signals' = signals + 1
    BY <1>2 DEF Terminated, Goto, InTry, InExcept
  <2> USE DEF child_vars, report_vars
  <2>2. signals' \in Nat /\ signals' > 0 /\ stopped' \in 0 .. processes
    BY <2>1 DEF Typing
  <2>3. Typing'
    BY <2>1, <2>2 DEF Typing, Pcs, Stopping, InExcept
  <2>4. DirectoryOK'
    BY <2>1 DEF DirectoryOK, Captures, InExcept
  <2>5. ChildrenOK'
    BY <2>1, <2>2 DEF Typing, ChildrenOK, InTry, Stopping, InExcept, Running
  <2>6. ReadyOK' /\ ResultsOK'
    BY <2>1 DEF ReadyOK, ResultsOK
  <2>7. OverOK'
    BY <2>1, <2>2 DEF OverOK, InTry, Stopping, InExcept, AllZero
  <2>8. SummaryOK'
    BY <2>1 DEF SummaryOK, Vouches, Captures, InExcept
  <2> QED
    BY <2>3, <2>4, <2>5, <2>6, <2>7, <2>8
<1> QED
  BY <1>1, <1>2

LEMMA InterruptedStep == RunnerInv /\ Interrupted => RunnerInv'
<1> SUFFICES ASSUME RunnerInv, Interrupted PROVE RunnerInv'
  OBVIOUS
<1> USE DEF RunnerInv
<1>1. /\ signals' \in Nat /\ signals' > 0 /\ stopped' = 0 /\ stopped' \in 0 .. processes
      /\ UNCHANGED <<processes, pending, results, return_code, child_vars>>
  BY DEF Interrupted, Typing
<1>2. CASE pc \in {"finally", "handler_in_finally", "write"}
  <2>1. EndUnreported /\ stop_cut' = (stop_cut \/ pc = "handler_in_finally")
    BY <1>2 DEF Interrupted, InTry, InExcept
  <2>2. /\ stop_cut' \in BOOLEAN /\ (stop_cut => stop_cut')
        /\ (pc = "handler_in_finally" => stop_cut')
    BY <2>1 DEF Typing
  <2> QED
    BY <1>1, <1>2, <2>1, <2>2, Leaving
<1>3. CASE pc \notin {"finally", "handler_in_finally", "write"}
  <2>1. /\ pc \in {"launch", "append", "ready", "wait", "handler"} \union InExcept
        /\ pc' = IF pc \in InExcept THEN "finally" ELSE "except_interrupt"
        /\ UNCHANGED <<role, save_sent, runs, report_vars>>
        /\ stop_cut' = IF pc \in InExcept THEN TRUE ELSE stop_cut
    BY <1>3 DEF Interrupted, Goto, InTry, InExcept
  <2> USE DEF child_vars, report_vars
  <2>2. pc \in InExcept \/ ~stop_cut
    BY <2>1 DEF ChildrenOK, InTry, Stopping, InExcept
  <2>3. Typing'
    BY <1>1, <2>1 DEF Typing, Pcs, Stopping, InExcept
  <2>4. DirectoryOK'
    BY <1>1, <2>1 DEF DirectoryOK, Captures, InExcept
  <2>5. ChildrenOK'
    BY <1>1, <2>1, <2>2 DEF Typing, ChildrenOK, InTry, Stopping, InExcept, Running
  <2>6. ReadyOK' /\ ResultsOK'
    BY <1>1, <2>1 DEF ReadyOK, ResultsOK
  <2>7. OverOK'
    BY <1>1, <2>1 DEF OverOK, InTry, Stopping, InExcept, AllZero
  <2>8. SummaryOK'
    BY <1>1, <2>1 DEF SummaryOK, Vouches, Captures, InExcept
  <2> QED
    BY <2>3, <2>4, <2>5, <2>6, <2>7, <2>8
<1> QED
  BY <1>2, <1>3

LEMMA RunnerInit == Init => RunnerInv
<1> SUFFICES ASSUME Init PROVE RunnerInv
  OBVIOUS
<1>1. Typing
  <2>1. /\ child \in [Modules -> {"none", "new", "created", "listening", "ended"}]
        /\ code \in [Modules -> Codes]
        /\ captures \in [Modules -> Nat]
        /\ results \in Seq(Codes)
    BY DEF Init, Codes
  <2>2. /\ processes \in 0 .. N /\ stopped \in 0 .. processes
        /\ runs \in Nat /\ signals \in Nat
    BY MultiHostAssumption DEF Init
  <2>3. /\ role \in {"receiver", "sender"} /\ save_sent \in BOOLEAN
        /\ pc \in Pcs /\ pending \subseteq Modules
        /\ return_code \in {0, 1, 2, 130} /\ stop_cut \in BOOLEAN
        /\ unreported \in BOOLEAN
    BY DEF Init, Pcs
  <2> QED
    BY <2>1, <2>2, <2>3 DEF Typing
<1>2. DirectoryOK /\ ReadyOK
  BY DEF Init, DirectoryOK, ReadyOK
<1>3. ChildrenOK
  BY DEF Init, ChildrenOK, InTry, Stopping, InExcept, Running
<1>4. ResultsOK /\ OverOK
  BY MultiHostAssumption DEF Init, ResultsOK, OverOK, InTry, Stopping, InExcept
<1>5. SummaryOK
  <2>1. summary.run = 0 /\ summary.status = "none" /\ summary.results = << >>
    BY DEF Init, NoSummary
  <2> QED
    BY <2>1 DEF Init, SummaryOK, Vouches
<1> QED
  BY <1>1, <1>2, <1>3, <1>4, <1>5 DEF RunnerInv

LEMMA RunnerStutter == RunnerInv /\ UNCHANGED vars => RunnerInv'
<1> SUFFICES ASSUME RunnerInv, UNCHANGED vars PROVE RunnerInv'
  OBVIOUS
<1> USE DEF RunnerInv, vars, call_vars, child_vars, report_vars
<1>1. Typing' /\ DirectoryOK' /\ ReadyOK' /\ ResultsOK'
  BY DEF Typing, DirectoryOK, Captures, ReadyOK, ResultsOK
<1>2. ChildrenOK' /\ OverOK'
  BY DEF ChildrenOK, OverOK, InTry, Running, AllZero
<1>3. SummaryOK'
  BY DEF SummaryOK, Vouches, Captures, Status
<1> QED
  BY <1>1, <1>2, <1>3

\* The inductive invariant holds in every reachable state.
THEOREM Invariance == Spec => []RunnerInv
<1>1. RunnerInv /\ [Next]_vars => RunnerInv'
  BY RunnerStutter, LaunchStep, SpawnStep, RegisterStep, LaunchedStep, LaunchErrorStep,
     HearReceiverStep, AnnounceReadyStep, CollectStep, CollectedStep, StopOneStep,
     StopDoneStep, RestoreHandlerStep, WriteSummaryStep, ChildActsStep, TerminatedStep, InterruptedStep
  DEF Next, RunnerActs
<1> QED
  BY <1>1, RunnerInit, PTL DEF Spec

-----------------------------------------------------------------------------
(* What follows.                                                           *)

\* The tool says "ready" only when every receiver has listened in this call,
\* although the log that it reads is appended to.
THEOREM ReadyMeansListening == Spec => []ReadyIsListening
<1>1. RunnerInv => ReadyIsListening
  <2> SUFFICES ASSUME RunnerInv, role = "receiver", pc = "wait" PROVE listened = Modules
    BY DEF ReadyIsListening
  <2>1. Modules \subseteq heard
    BY DEF RunnerInv, ReadyOK
  <2> QED
    BY <2>1 DEF RunnerInv, DirectoryOK
<1> QED
  BY <1>1, Invariance, PTL

\* A call that has ended has left no process of its list running, unless Ctrl-C
\* cut the stopping short, and at most one that a signal kept out of the list.
THEOREM NothingLeftRunning == Spec => []NoneLeft
<1>1. RunnerInv => NoneLeft
  <2> SUFFICES ASSUME RunnerInv, pc = "idle"
               PROVE  /\ \A m \in 1 .. processes : Running(m) => stop_cut
                      /\ \A m \in Modules : Running(m) => signals > 0 /\ m <= processes + 1
    BY DEF NoneLeft
  <2>1. \A m \in 1 .. processes : Running(m) => stop_cut
    BY DEF RunnerInv, ChildrenOK
  <2>2. ASSUME NEW m \in Modules, Running(m)
        PROVE  signals > 0
    <3>1. CASE m > processes
      BY <2>2, <3>1 DEF RunnerInv, ChildrenOK
    <3>2. CASE ~(m > processes)
      <4>1. m \in 1 .. processes
        BY <3>2, MultiHostAssumption DEF Modules, RunnerInv, Typing
      <4> QED
        BY <2>1, <2>2, <4>1 DEF RunnerInv, ChildrenOK
    <3> QED
      BY <3>1, <3>2
  <2>3. ASSUME NEW m \in Modules, Running(m)
        PROVE  m <= processes + 1
    <3>1. ~(m > processes + 1)
      BY <2>3 DEF RunnerInv, ChildrenOK, Running
    <3> QED
      BY <3>1, MultiHostAssumption DEF Modules, RunnerInv, Typing
  <2> QED
    BY <2>1, <2>2, <2>3
<1> QED
  BY <1>1, Invariance, PTL

\* The summary in a directory is of the call that made the captures in it; if
\* that call ended without one, what is there vouches for no capture.
THEOREM SummaryIsOfCaptures == Spec => []SummaryMatchesCaptures
<1>1. RunnerInv => SummaryMatchesCaptures
  <2> SUFFICES ASSUME RunnerInv, pc = "idle", NEW m \in Modules, captures[m] # 0
               PROVE  IF unreported
                      THEN /\ summary.status # "passed"
                           /\ role = "receiver" => summary.results = << >>
                      ELSE summary.run = captures[m]
    BY DEF SummaryMatchesCaptures
  <2>1. captures[m] = runs /\ Captures
    BY DEF RunnerInv, DirectoryOK
  <2>2. CASE unreported
    BY <2>1, <2>2 DEF RunnerInv, SummaryOK, Vouches
  <2>3. CASE ~unreported
    BY <2>1, <2>3 DEF RunnerInv, SummaryOK
  <2> QED
    BY <2>2, <2>3
<1> QED
  BY <1>1, Invariance, PTL

\* A launch whose summary says "passed" ran every module to its end with exit 0,
\* and a code that the report accepts is the module's, unless the launch was
\* stopped, failed or left no summary.
THEOREM ReportIsTrue == Spec => []ReportedExits
<1>1. RunnerInv => ReportedExits
  <2> SUFFICES ASSUME RunnerInv, pc = "idle", runs > 0
               PROVE  /\ summary.run = runs /\ summary.status = "passed" =>
                           \A m \in Modules : child[m] = "ended" /\ code[m] = 0
                      /\ signals = 0 /\ return_code # 2 /\ ~unreported =>
                           \A m \in Modules : ReceiverExitCheck(m) => code[m] = 0
    BY DEF ReportedExits
  <2>1. ~unreported => summary.results = results /\ summary.status = Status
    BY DEF RunnerInv, SummaryOK
  <2>2. Len(results) = N => \A m \in Modules : /\ m \in 1 .. Len(results)
                                               /\ child[m] = "ended" /\ code[m] = results[m]
    BY DEF RunnerInv, ResultsOK, Modules
  <2>3. ASSUME summary.run = runs, summary.status = "passed"
        PROVE  \A m \in Modules : child[m] = "ended" /\ code[m] = 0
    <3>1. ~unreported
      BY <2>3 DEF RunnerInv, SummaryOK, Typing
    <3>2. return_code = 0
      BY <2>1, <2>3, <3>1 DEF Status
    <3>3. Len(results) = N /\ AllZero
      BY <3>2 DEF RunnerInv, OverOK
    <3> QED
      BY <2>2, <3>3 DEF AllZero
  <2>4. ASSUME signals = 0, return_code # 2, ~unreported
        PROVE  \A m \in Modules : ReceiverExitCheck(m) => code[m] = 0
    <3>1. Len(results) = N
      BY <2>4 DEF RunnerInv, OverOK
    <3> QED
      BY <2>1, <2>2, <2>4, <3>1 DEF ReceiverExitCheck
  <2> QED
    BY <2>3, <2>4
<1> QED
  BY <1>1, Invariance, PTL
=============================================================================
