------------------------------ MODULE KdSession ------------------------------
(***************************************************************************)
(* The kernel debugger session (kernel-debug/kd-session.ts) with its break *)
(* log, the tool block `kernel_break_on` and the captures that use it      *)
(* (kernel-debug/kernel-handlers.ts), and what the orchestrator does with  *)
(* it at the end of a scenario.                                            *)
(*                                                                         *)
(* Three parties: the tool blocks, which issue one command after the       *)
(* other and give up on one after its timeout; the session, a set of event *)
(* handlers on kd.exe's stdout and exit; and kd.exe, which is outside the  *)
(* repository and modelled as kd-session.ts:12-22 describes it: it runs    *)
(* what it reads from stdin while the target is broken in, keeps it        *)
(* otherwise, and prints a command's output and then its sentinel, and     *)
(* lines of no command: the banner of a break, the answers to the startup  *)
(* script.  What it printed is in flight until a handler takes it, so an   *)
(* answer may come after its timeout, and output after the exit event.     *)
(*                                                                         *)
(* A break of the log and the begin of a tool block are told apart by      *)
(* Date.now(), in milliseconds: any number of steps fall into one.         *)
(***************************************************************************)
EXTENDS Naturals, Sequences, FiniteSets

CONSTANTS
    MaxCmds,    \* commands of one session
    MaxBreaks,  \* breaks of the target
    MaxEvents,  \* losses of the target, deaths of kd.exe, failed spawns
    MaxMs       \* milliseconds that pass

ASSUME BoundsAssumption ==
    MaxCmds \in Nat \ {0} /\ MaxBreaks \in Nat /\ MaxEvents \in Nat
    /\ MaxMs \in Nat

VARIABLES
    state,    \* _state
    proc,     \* the child process is referenced
    pending,  \* the command waited for and the sources of its output lines
    stuck,    \* pending is a command that could not be written to stdin: its
              \* promise is rejected, its timer still to come
    settled,  \* per command: what became of its promise
    log,      \* BreakLog: per entry its time and the command whose output it
              \* is, or Target
    now,      \* Date.now()
    tool,     \* the tool block: where it is, its command, when it began
    end,      \* the orchestrator: running, detaching, torn down, exited
    kd,       \* kd.exe: alive, exit event due, target, stdin, command at work
    stdout,   \* lines printed and not yet handled
    breaks,   \* breaks of the target so far
    events,   \* other bad events so far
    marked    \* history: of the last break and disconnect lines handled
              \* before the teardown, the later one was a disconnect

vars == <<state, proc, pending, stuck, settled, log, now, tool, end, kd,
          stdout, breaks, events, marked>>

Cmds == 1 .. MaxCmds

None == 0

(* Source of a line that is the target's or the debugger's own, and not    *)
(* the output of a command.                                                *)
Target == 0

States == {"idle", "running", "broken", "detaching", "disconnected"}

(* `!analyze -v` prints a BUGCHECK_CODE line among its output.             *)
Kinds == {"plain", "analyze"}

(* The signals of parseLine, with the command they are output of.          *)
Line == [kind : {"text", "sentinel", "break", "disconnect"},
         from : 0 .. MaxCmds]

(* "setup" stands for what the startup script sends before its `g`.        *)
Input == [kind : Kinds \cup {"setup", "g", "qd", "none"}, id : 0 .. MaxCmds]

LogEntry == [from : 0 .. MaxCmds, at : Nat]

NoInput == [kind |-> "none", id |-> None]

NoPending == [id |-> None, out |-> {}]

(* When a tool block began: its sinceMs and, a history, the length of the  *)
(* log then.                                                               *)
Moment == [ms : Nat, pos : Nat]

Anytime == [ms |-> 0, pos |-> 0]

NoTool == [pc |-> "idle", id |-> None, since |-> Anytime]

(* Shapes and ranges of the session, the tool block and the debugger.      *)
TypeOK ==
    /\ state \in States
    /\ proc \in BOOLEAN
    /\ pending \in [id : 0 .. MaxCmds, out : SUBSET (0 .. MaxCmds)]
    /\ stuck \in BOOLEAN
    /\ settled \in [Cmds -> {"unused", "open", "ok", "timeout", "error"}]
    /\ log \in Seq(LogEntry)
    /\ now \in 0 .. MaxMs
    /\ tool \in [pc : {"idle", "command", "bp", "wait", "capture"},
                 id : 0 .. MaxCmds, since : Moment]
    /\ end \in {"no", "detaching", "torn", "exited"}
    /\ kd \in [alive : BOOLEAN, exit : {"no", "exit", "error"},
               target : {"running", "broken", "gone"},
               stdin : Seq(Input), cur : Input]
    /\ stdout \in Seq(Line)
    /\ breaks \in 0 .. MaxBreaks /\ events \in 0 .. MaxEvents
    /\ marked \in BOOLEAN

Init ==
    /\ state = "idle"
    /\ proc = FALSE
    /\ pending = NoPending
    /\ stuck = FALSE
    /\ settled = [c \in Cmds |-> "unused"]
    /\ log = <<>>
    /\ now = 0
    /\ tool = NoTool
    /\ end = "no"
    /\ kd = [alive |-> FALSE, exit |-> "no", target |-> "running",
             stdin |-> <<>>, cur |-> NoInput]
    /\ stdout = <<>>
    /\ breaks = 0
    /\ events = 0
    /\ marked = FALSE

Hosted == end # "exited"

Event == events < MaxEvents /\ events' = events + 1

(* sendRawLine: stdin is there as long as the child is referenced; what is *)
(* written to a dead child is lost, or its stdin is destroyed and the call *)
(* throws (StdinDestroyed).                                                *)
Send(kind, c) ==
    kd' = IF proc /\ kd.alive
          THEN [kd EXCEPT !.stdin = Append(@, [kind |-> kind, id |-> c])] ELSE kd

StdinDestroyed == proc /\ ~kd.alive

-----------------------------------------------------------------------------
(* The session's methods *)

(* `.bugcheckstop 1` and the `sxe ld` lines, which have no sentinel, then  *)
(* `g`.                                                                    *)
Startup == <<[kind |-> "setup", id |-> None], [kind |-> "g", id |-> None]>>

(* start, with the orchestrator's registration: the child is spawned, the  *)
(* startup script is written, the state is "running".  A spawn that fails  *)
(* reports so by an event, later.                                          *)
Start ==
    /\ state = "idle" /\ end = "no"
    /\ state' = "running"
    /\ proc' = TRUE
    /\ \/ /\ kd' = [kd EXCEPT !.alive = TRUE, !.stdin = Startup]
          /\ UNCHANGED events
       \/ kd' = [kd EXCEPT !.exit = "error"] /\ Event
    /\ UNCHANGED <<pending, stuck, settled, log, now, tool, end, stdout, breaks,
                   marked>>

Unused == {c \in Cmds : settled[c] = "unused"}

NewCmd == CHOOSE c \in Unused : \A d \in Unused : c <= d

(* run's early errors: a wrong state, a command in flight, no child.       *)
Refuses ==
    \/ state \in {"idle", "disconnected", "detaching"}
    \/ pending.id # None \/ stuck
    \/ ~proc

(* run, called by a tool block that then is at pc.  A refusal returns to   *)
(* the tool block at once; so does a write that throws, which leaves the   *)
(* command pending until its timer.                                        *)
RunCommand(kind, pc, since) ==
    /\ Unused # {}
    /\ tool' = [pc |-> pc, id |-> NewCmd, since |-> since]
    /\ IF Refuses
         THEN /\ settled' = [settled EXCEPT ![NewCmd] = "error"]
              /\ UNCHANGED <<pending, stuck, kd>>
         ELSE \/ /\ settled' = [settled EXCEPT ![NewCmd] = "open"]
                 /\ pending' = [id |-> NewCmd, out |-> {}]
                 /\ Send(kind, NewCmd)
                 /\ UNCHANGED stuck
              \/ /\ StdinDestroyed
                 /\ settled' = [settled EXCEPT ![NewCmd] = "error"]
                 /\ stuck' = TRUE
                 /\ UNCHANGED <<pending, kd>>

(* The timer of the pending command.                                       *)
CommandTimeout ==
    /\ Hosted
    /\ pending.id # None \/ stuck
    /\ pending' = NoPending /\ stuck' = FALSE
    /\ settled' = IF pending.id = None THEN settled
                  ELSE [settled EXCEPT ![pending.id] = "timeout"]
    /\ UNCHANGED <<state, proc, log, now, tool, end, kd, stdout, breaks, events,
                   marked>>

CanResume == state \notin {"disconnected", "detaching"} /\ proc

(* teardownKernelDebugSessions: the break log is detached (HandleBreak     *)
(* records nothing once end moves), then detach: `qd`, and a wait for the  *)
(* exit event unless the session counts as disconnected.                   *)
Detach ==
    /\ end = "no" /\ tool.pc = "idle" /\ state # "idle"
    /\ IF state \in {"disconnected", "detaching"} \/ ~proc
         THEN /\ state' = IF state = "detaching" THEN state ELSE "disconnected"
              /\ end' = "torn"
              /\ UNCHANGED kd
         ELSE /\ state' = "detaching"
              /\ end' = "detaching"
              /\ Send("qd", None)
    /\ UNCHANGED <<proc, pending, stuck, settled, log, now, tool, stdout,
                   breaks, events, marked>>

(* kd.exe is dead; if it was alive its exit event is due.                  *)
Killed ==
    [kd EXCEPT !.alive = FALSE, !.cur = NoInput, !.stdin = <<>>,
               !.exit = IF kd.alive THEN "exit" ELSE @]

(* Mutant: the timer gives up without killing.                             *)
DetachTimerGivesUp ==
    /\ end = "detaching" /\ end' = "torn"
    /\ UNCHANGED <<state, proc, pending, stuck, settled, log, now, tool, kd, stdout,
                   breaks, events, marked>>

(* Five seconds without an exit: kill, and do not wait any longer.         *)
DetachTimer ==
    /\ end = "detaching"
    /\ end' = "torn"
    /\ kd' = Killed
    /\ UNCHANGED <<state, proc, pending, stuck, settled, log, now, tool, stdout,
                   breaks, events, marked>>

(* Until the end of the teardown the exit hook knows the session.          *)
InUse == end \in {"no", "detaching"}

(* The host process ends before the teardown did: the exit hook calls      *)
(* forceTerminate, whose `qd` is not read any more by the child it kills.  *)
ForceTerminate ==
    /\ InUse /\ state # "idle"
    /\ end' = "exited"
    /\ IF state = "disconnected" \/ ~proc
         THEN state' = "disconnected" /\ UNCHANGED kd
         ELSE state' = "detaching" /\ kd' = Killed
    /\ UNCHANGED <<proc, pending, stuck, settled, log, now, tool, stdout,
                   breaks, events, marked>>

-----------------------------------------------------------------------------
(* The session's handlers *)

(* Mutant: any sentinel resolves the pending command.                      *)
ResolvesAny(line) == pending.id # None

(* handleParsedSignal of a sentinel: it resolves the command whose uuid it *)
(* carries; any other is dropped.                                          *)
Resolves(line) == pending.id # None /\ pending.id = line.from

(* Mutant: a stale sentinel clears the pending command as well.            *)
HandleSentinelStaleClears(line) ==
    /\ line.kind = "sentinel"
    /\ pending' = NoPending
    /\ settled' = IF Resolves(line) THEN [settled EXCEPT ![pending.id] = "ok"] ELSE settled
    /\ UNCHANGED <<state, stuck, log, marked>>

HandleSentinel(line) ==
    /\ line.kind = "sentinel"
    /\ IF Resolves(line)
         THEN /\ pending' = NoPending
              /\ settled' = [settled EXCEPT ![pending.id] = "ok"]
         ELSE UNCHANGED <<pending, settled>>
    /\ UNCHANGED <<state, stuck, log, marked>>

(* teardownKernelDebugSessions detaches the log before the session.        *)
LogAttached == end = "no"

(* A bugcheck or break line: the state, whatever it was, is "broken", and  *)
(* an attached break log gets an entry with the present time.              *)
HandleBreak(line) ==
    /\ line.kind = "break"
    /\ state' = "broken"
    /\ log' = IF LogAttached THEN Append(log, [from |-> line.from, at |-> now]) ELSE log
    /\ marked' = (marked /\ ~InUse)
    /\ UNCHANGED <<pending, stuck, settled>>

(* The pending command's promise is rejected.                              *)
RejectPending ==
    /\ pending' = NoPending /\ stuck' = FALSE
    /\ settled' = IF pending.id = None THEN settled
                  ELSE [settled EXCEPT ![pending.id] = "error"]

(* A disconnect marker: kd.exe itself may still be there.                  *)
HandleDisconnect(line) ==
    /\ line.kind = "disconnect"
    /\ state' = "disconnected"
    /\ RejectPending
    /\ marked' = (marked \/ InUse)
    /\ UNCHANGED log

(* Plain text goes to the pending command, whoever it is from: a command   *)
(* given up, or nobody (ambient output).                                   *)
HandleText(line) ==
    /\ line.kind = "text"
    /\ pending' = IF pending.id = None THEN pending
                  ELSE [pending EXCEPT !.out = @ \cup {line.from}]
    /\ UNCHANGED <<state, stuck, settled, log, marked>>

(* handleStdoutChunk, a line at a time.                                    *)
HandleLine ==
    /\ Hosted /\ stdout # <<>>
    /\ stdout' = Tail(stdout)
    /\ LET line == Head(stdout) IN
       \/ HandleSentinel(line)
       \/ HandleBreak(line)
       \/ HandleDisconnect(line)
       \/ HandleText(line)
    /\ UNCHANGED <<proc, now, tool, end, kd, breaks, events>>

(* handleExit: possibly before the last of the output is handled.          *)
HandleExit ==
    /\ Hosted /\ kd.exit = "exit"
    /\ kd' = [kd EXCEPT !.exit = "no"]
    /\ state' = "disconnected"
    /\ proc' = FALSE
    /\ RejectPending
    /\ end' = IF end = "detaching" THEN "torn" ELSE end
    /\ UNCHANGED <<log, now, tool, stdout, breaks, events, marked>>

(* handleSpawnError: the child stays referenced.                           *)
HandleSpawnError ==
    /\ Hosted /\ kd.exit = "error"
    /\ kd' = [kd EXCEPT !.exit = "no"]
    /\ state' = "disconnected"
    /\ RejectPending
    /\ UNCHANGED <<proc, log, now, tool, end, stdout, breaks, events, marked>>

-----------------------------------------------------------------------------
(* The tool blocks *)

(* A capture of handleKernelExpectBugcheck, after a match in the log: kn,  *)
(* ~*kn and .dump are "plain".                                             *)
Capture ==
    /\ end = "no" /\ tool.pc = "idle" /\ log # <<>>
    /\ \E kind \in Kinds : RunCommand(kind, "command", Anytime)
    /\ UNCHANGED <<state, proc, log, now, end, stdout, breaks, events, marked>>

(* Its promise settled: the block goes on, whatever the outcome.           *)
CaptureReturns ==
    /\ Hosted /\ tool.pc = "command" /\ settled[tool.id] # "open"
    /\ tool' = NoTool
    /\ UNCHANGED <<state, proc, pending, stuck, settled, log, now, end, kd, stdout,
                   breaks, events, marked>>

(* handleKernelBreakOn: sinceMs is taken, `bp` is sent.                    *)
BreakOn ==
    /\ end = "no" /\ tool.pc = "idle" /\ state # "idle"
    /\ RunCommand("plain", "bp", [ms |-> now, pos |-> Len(log)])
    /\ UNCHANGED <<state, proc, log, now, end, stdout, breaks, events, marked>>

(* `bp` settled: an error ends the block; a state "broken" is resumed      *)
(* first, and a resume that throws ends the block.                         *)
BreakOnInstalled ==
    /\ Hosted /\ tool.pc = "bp" /\ settled[tool.id] # "open"
    /\ \/ /\ settled[tool.id] = "ok" /\ (state = "broken" => CanResume)
          /\ tool' = [tool EXCEPT !.pc = "wait"]
          /\ IF state = "broken" THEN Send("g", None) ELSE UNCHANGED kd
       \/ /\ \/ settled[tool.id] # "ok"
             \/ state = "broken" /\ (~CanResume \/ StdinDestroyed)
          /\ tool' = NoTool /\ UNCHANGED kd
    /\ UNCHANGED <<state, proc, pending, stuck, settled, log, now, end, stdout,
                   breaks, events, marked>>

(* The entries of BreakLog.find: their time is not before sinceMs.         *)
Since == {i \in 1 .. Len(log) : log[i].at >= tool.since.ms}

(* waitForNextBreak takes the first one.                                   *)
Match(i) == i \in Since /\ \A j \in Since : i <= j

(* A match: the capture is sent.                                           *)
BreakOnMatched ==
    /\ Hosted /\ tool.pc = "wait" /\ Since # {}
    /\ RunCommand("plain", "capture", tool.since)
    /\ UNCHANGED <<state, proc, log, now, end, stdout, breaks, events, marked>>

BreakOnTimeout ==
    /\ Hosted /\ tool.pc = "wait"
    /\ tool' = NoTool
    /\ UNCHANGED <<state, proc, pending, stuck, settled, log, now, end, kd, stdout,
                   breaks, events, marked>>

(* The capture settled; after a success `g` is sent if resume_after.       *)
BreakOnReturns ==
    /\ Hosted /\ tool.pc = "capture" /\ settled[tool.id] # "open"
    /\ tool' = NoTool
    /\ \/ settled[tool.id] = "ok" /\ CanResume /\ Send("g", None)
       \/ UNCHANGED kd
    /\ UNCHANGED <<state, proc, pending, stuck, settled, log, now, end, stdout,
                   breaks, events, marked>>

-----------------------------------------------------------------------------
(* kd.exe and its target *)

Says(kind, c) == [kind |-> kind, from |-> c]

(* The running target breaks in, with a banner; a lost one may be back and *)
(* break in.                                                               *)
TargetBreak ==
    /\ kd.alive /\ kd.target # "broken" /\ breaks < MaxBreaks
    /\ kd' = [kd EXCEPT !.target = "broken"]
    /\ stdout' = Append(Append(stdout, Says("break", Target)), Says("text", Target))
    /\ breaks' = breaks + 1
    /\ UNCHANGED <<state, proc, pending, stuck, settled, log, now, tool, end,
                   events, marked>>

(* The target is reset or its pipe is closed: kd.exe says so and waits.    *)
TargetLost ==
    /\ kd.alive /\ kd.target # "gone"
    /\ Event
    /\ kd' = [kd EXCEPT !.target = "gone", !.cur = NoInput]
    /\ stdout' = Append(stdout, Says("disconnect", Target))
    /\ UNCHANGED <<state, proc, pending, stuck, settled, log, now, tool, end,
                   breaks, marked>>

(* kd.exe takes the next line of stdin, which it does while the target is  *)
(* broken in.  The startup script's lines and commands print.              *)
KdReads ==
    /\ kd.alive /\ kd.target = "broken" /\ kd.cur = NoInput /\ kd.stdin # <<>>
    /\ LET in == Head(kd.stdin)
           rest == [kd EXCEPT !.stdin = Tail(@)] IN
       CASE in.kind = "g"  -> /\ kd' = [rest EXCEPT !.target = "running"]
                              /\ UNCHANGED stdout
         [] in.kind = "qd" -> kd' = Killed /\ UNCHANGED stdout
         [] in.kind = "setup" -> /\ kd' = rest
                                 /\ stdout' = Append(stdout, Says("text", Target))
         [] OTHER -> /\ kd' = [rest EXCEPT !.cur = in]
                     /\ stdout' = stdout \o
                          <<Says("text", in.id)>> \o
                          (IF in.kind = "analyze" THEN <<Says("break", in.id)>> ELSE <<>>)
    /\ UNCHANGED <<state, proc, pending, stuck, settled, log, now, tool, end,
                   breaks, events, marked>>

(* It is through with the command.                                         *)
KdFinishes ==
    /\ kd.alive /\ kd.cur # NoInput
    /\ kd' = [kd EXCEPT !.cur = NoInput]
    /\ stdout' = Append(stdout, Says("sentinel", kd.cur.id))
    /\ UNCHANGED <<state, proc, pending, stuck, settled, log, now, tool, end,
                   breaks, events, marked>>

KdDies ==
    /\ kd.alive
    /\ Event
    /\ kd' = Killed
    /\ UNCHANGED <<state, proc, pending, stuck, settled, log, now, tool, end,
                   stdout, breaks, marked>>

(* Date.now() moves on.                                                    *)
Tick ==
    /\ now < MaxMs /\ now' = now + 1
    /\ UNCHANGED <<state, proc, pending, stuck, settled, log, tool, end, kd,
                   stdout, breaks, events, marked>>

-----------------------------------------------------------------------------
ToolStep == CaptureReturns \/ BreakOnInstalled \/ BreakOnMatched \/ BreakOnReturns

Done == state # "idle" /\ end \in {"torn", "exited"} /\ UNCHANGED vars

Next ==
    \/ Start \/ CommandTimeout \/ Detach \/ DetachTimer \/ ForceTerminate
    \/ HandleLine \/ HandleExit \/ HandleSpawnError
    \/ Capture \/ BreakOn \/ BreakOnTimeout \/ ToolStep
    \/ TargetBreak \/ TargetLost \/ KdReads \/ KdFinishes \/ KdDies
    \/ Tick \/ Done

(* Timers fire and settled promises are continued; neither kd.exe nor the  *)
(* target owes anything.                                                   *)
Fairness ==
    /\ WF_vars(CommandTimeout) /\ WF_vars(DetachTimer)
    /\ WF_vars(BreakOnTimeout) /\ WF_vars(ToolStep)

Spec == Init /\ [][Next]_vars /\ Fairness

-----------------------------------------------------------------------------
(* A command that resolves has its own output.  Besides, it may hold       *)
(* ambient lines, and lines of commands that had been given up before it   *)
(* resolved (their output comes late; kd-session.test.ts:315 expects that  *)
(* a fresh command does not get it), but never output of a command that    *)
(* finished or of one that was never sent: sentinels bracket the output    *)
(* even though answers come after their timeouts and breaks come in        *)
(* between (kd-session.ts, run and handleParsedSignal).                    *)
Bracketed ==
    [][\A c \in Cmds :
          settled[c] = "open" /\ settled'[c] = "ok" =>
             /\ c \in pending.out
             /\ \A d \in pending.out \ {c, Target} :
                  settled[d] \in {"timeout", "error"}]_vars

(* After the teardown, or the exit hook, no kd.exe is left, whatever it    *)
(* was doing and in whatever order its break lines, its exit and the       *)
(* timers came; unless its last word was that the target is not connected, *)
(* which detach and forceTerminate take for the end of kd.exe.             *)
NoOrphanKd == end \in {"torn", "exited"} /\ kd.alive => marked

(* kernel_break_on reports a break of the target.  Or the echo of an       *)
(* `!analyze -v`: of one that had been given up, or one recorded before    *)
(* the block began, but in the same millisecond, which the comparison      *)
(* timestamp >= sinceMs lets pass; never the echo of a finished command    *)
(* from an earlier millisecond (handleKernelBreakOn, BreakLog.find).       *)
BreakOnReal ==
    [][tool.pc = "wait" /\ tool'.pc = "capture" =>
          \A i \in 1 .. Len(log) : Match(i) =>
             \/ log[i].from = Target
             \/ settled[log[i].from] \in {"timeout", "error"}
             \/ i <= tool.since.pos /\ log[i].at = tool.since.ms]_vars

(* What kd.exe prints is attributed to what made it print it, output to    *)
(* its command and a break to the target, but for the cases named above.   *)
OutputIsItsOwn == Bracketed /\ BreakOnReal

(* Every tool block returns, whether kd.exe answers, hangs, dies, loses    *)
(* its target or answers too late.                                         *)
ToolReturns == tool.pc # "idle" ~> (tool.pc = "idle" \/ end = "exited")
=============================================================================
